---------------------------- MODULE SearchProofs ----------------------------
(***************************************************************************)
(* Proofs about Search, for any catalogue, any queries and any answers of  *)
(* the model: a search mixes only the records that its cafes had while it  *)
(* ran, and so neither a hard filter nor the place asked for is violated;  *)
(* what it read can be ranked, no cafe that meets the request is lost, and *)
(* a cafe that is better in all that counts does not rank below another.   *)
(*                                                                         *)
(* IInv says that held has what each row was published from since the      *)
(* search began (Tracked), that the pieces read so far are among it        *)
(* (Pieces), that a query for 24 hours keeps its constraint whatever the   *)
(* interpreter made of it (Enforced), and that only cafes which qualified  *)
(* by their pieces are answered (Qualified).  RInv adds that a place has   *)
(* one row and row numbers are never used again (Numbered, OneRowEach,     *)
(* Loaded), that the request and its interpretation have finitely many     *)
(* wants and weights that add up (Asked, Understood), and that the answer  *)
(* is the ranking of what was read (Answered).                             *)
(*                                                                         *)
(* The sums of MatchScore are folds over finite sets; what they return is  *)
(* proved by induction over the numbers of elements, as a set of numbers   *)
(* that has 0 and is closed under successor (EveryNatural, SumGrows).      *)
(***************************************************************************)
EXTENDS Search, FiniteSetTheorems, WellFoundedInduction, TLAPS

Phases == {"idle", "interpret", "places", "facts", "scores", "menus", "answer"}

Read == [row : Records, facts : Records \cup {None}, scores : Records \cup {None}, menus : Records \cup {None}]

Typed ==
    /\ phase \in Phases
    /\ \A id \in DOMAIN published : published[id] \in Records
    /\ \A id \in DOMAIN cafes : cafes[id] \in Read
    /\ \A p, q \in request.user : p = q

Tracked ==
    phase # "idle" => \A id \in DOMAIN published : id \in DOMAIN held /\ published[id] \in held[id]

Piece(c, h) ==
    /\ c.row \in h
    /\ c.facts = None \/ c.facts \in h
    /\ c.scores = None \/ c.scores \in h
    /\ c.menus = None \/ c.menus \in h

Pieces == \A id \in DOMAIN cafes : id \in DOMAIN held /\ Piece(cafes[id], held[id])

Enforced ==
    phase \notin {"idle", "interpret"} /\ request.query.says24 => "open_24h" \in Keys(profile.hard)

Qualified ==
    /\ phase \in {"idle", "interpret", "places"} => DOMAIN cafes = {}
    /\ phase # "answer" => DOMAIN results = {}
    /\ DOMAIN results \subseteq Eligible(cafes)

IInv == Typed /\ Tracked /\ Pieces /\ Enforced /\ Qualified

-----------------------------------------------------------------------------
(***************************************************************************)
(* The interpretation.                                                     *)
(***************************************************************************)
LEMMA InterpretationKeeps24Hours ==
    ASSUME NEW q, q.says24, NEW hard, NEW soft, NEW confidence
    PROVE  "open_24h" \in Keys(EnforceConstraints(q, [hard |-> hard, soft |-> soft, confidence |-> confidence]).hard)
<1> DEFINE others(wants) == {w \in wants : w.key \notin {"open_24h", "late"}}
<1> DEFINE p == [hard |-> hard, soft |-> soft, confidence |-> confidence]
<1>1. EnforceConstraints(q, p).hard = others(hard) \cup {Want("open_24h", 100)}
  BY DEF EnforceConstraints
<1>2. Want("open_24h", 100).key = "open_24h"
  BY DEF Want
<1> QED BY <1>1, <1>2 DEF Keys

LEMMA DeterministicForm ==
    ASSUME NEW q
    PROVE  \E hard, soft, confidence :
             Deterministic(q) = [hard |-> hard, soft |-> soft, confidence |-> confidence]
<1>1. CASE q.mentions = {}
  BY <1>1 DEF Deterministic
<1>2. CASE q.mentions # {}
  BY <1>2 DEF Deterministic
<1> QED BY <1>1, <1>2

LEMMA JevForm ==
    ASSUME NEW a
    PROVE  \E hard, soft, confidence : Jev(a) = [hard |-> hard, soft |-> soft, confidence |-> confidence]
BY DEF Jev


-----------------------------------------------------------------------------
(***************************************************************************)
(* The invariant.                                                          *)
(***************************************************************************)
LEMMA InitHolds == Init => IInv
BY DEF Init, NoRequest, IInv, Typed, Phases, Tracked, Pieces, Enforced, Qualified, Empty, Eligible

\* What a row was published from is added to what it had.
LEMMA HeldGrows ==
    ASSUME NEW id, NEW r
    PROVE  /\ DOMAIN held \subseteq DOMAIN Held(id, r)
           /\ \A x \in DOMAIN held : held[x] \subseteq Held(id, r)[x]
           /\ phase # "idle" => id \in DOMAIN Held(id, r) /\ r \in Held(id, r)[id]
BY DEF Held

\* The administrators change published and held; what the search has read stays what the
\* rows held.
LEMMA PiecesStay ==
    ASSUME Pieces, DOMAIN held \subseteq DOMAIN held', \A x \in DOMAIN held : held[x] \subseteq held'[x],
           cafes' = cafes
    PROVE  Pieces'
<1> SUFFICES ASSUME NEW id \in DOMAIN cafes
             PROVE  id \in DOMAIN held' /\ Piece(cafes[id], held'[id])
  BY DEF Pieces
<1>1. id \in DOMAIN held /\ Piece(cafes[id], held[id])
  BY DEF Pieces
<1>2. id \in DOMAIN held' /\ held[id] \subseteq held'[id]
  BY <1>1
<1> QED BY <1>1, <1>2 DEF Piece

LEMMA SearchUntouched ==
    ASSUME Enforced, Qualified, UNCHANGED <<phase, request, profile, cafes, results>>
    PROVE  Enforced' /\ Qualified'
BY DEF Enforced, Qualified, Eligible, Keys

LEMMA PublishPreserves ==
    ASSUME IInv, NEW r \in Records, Publish(r)
    PROVE  IInv'
<1>1. UNCHANGED <<phase, request, profile, cafes, results>>
  BY DEF Publish
<1>2. PICK id : /\ held' = Held(id, r)
                /\ DOMAIN published' = DOMAIN published \cup {id}
                /\ published'[id] = r
                /\ \A x \in DOMAIN published : x # id => published'[x] = published[x]
  <2>1. CASE \E id \in RowOf(r.place) : published' = [published EXCEPT ![id] = r] /\ held' = Held(id, r)
    BY <2>1 DEF RowOf
  <2>2. CASE /\ published' = [x \in (DOMAIN published) \cup {inserted'} |-> IF x = inserted' THEN r ELSE published[x]]
             /\ held' = Held(inserted', r)
    BY <2>2
  <2> QED BY <2>1, <2>2 DEF Publish
<1>3. /\ DOMAIN held \subseteq DOMAIN held'
      /\ \A x \in DOMAIN held : held[x] \subseteq held'[x]
      /\ phase # "idle" => id \in DOMAIN held' /\ r \in held'[id]
  BY <1>2, HeldGrows
<1>4. Typed'
  BY <1>1, <1>2 DEF IInv, Typed
<1>5. Tracked'
  BY <1>1, <1>2, <1>3 DEF IInv, Tracked
<1>6. Pieces'
  BY <1>1, <1>3, PiecesStay DEF IInv
<1>7. Enforced' /\ Qualified'
  BY <1>1, SearchUntouched DEF IInv
<1> QED BY <1>4, <1>5, <1>6, <1>7 DEF IInv

LEMMA RemovePreserves ==
    ASSUME IInv, NEW p \in Places, Remove(p)
    PROVE  IInv'
<1>1. UNCHANGED <<phase, request, profile, cafes, results, held>>
  BY DEF Remove
<1>2. /\ DOMAIN published' \subseteq DOMAIN published
      /\ \A id \in DOMAIN published' : published'[id] = published[id]
  BY DEF Remove
<1>3. Typed' /\ Tracked' /\ Pieces'
  BY <1>1, <1>2 DEF IInv, Typed, Tracked, Pieces
<1>4. Enforced' /\ Qualified'
  BY <1>1, SearchUntouched DEF IInv
<1> QED BY <1>3, <1>4 DEF IInv

LEMMA ReceivePreserves ==
    ASSUME IInv, Receive
    PROVE  IInv'
<1>1. /\ phase = "idle" /\ phase' = "interpret"
      /\ held' = [id \in DOMAIN published |-> {published[id]}]
      /\ UNCHANGED <<published, profile, cafes, results>>
      /\ \A p, q \in request'.user : p = q
  BY SearchAssumption DEF Receive
<1>2. DOMAIN cafes = {} /\ DOMAIN results = {}
  BY <1>1 DEF IInv, Qualified
<1>3. Typed' /\ Tracked'
  BY <1>1 DEF IInv, Typed, Tracked, Phases
<1>4. Pieces' /\ Enforced' /\ Qualified'
  BY <1>1, <1>2 DEF Pieces, Enforced, Qualified
<1> QED BY <1>3, <1>4 DEF IInv

LEMMA InterpretedPreserves ==
    ASSUME IInv, NEW hard, NEW soft, NEW confidence,
           Interpreted([hard |-> hard, soft |-> soft, confidence |-> confidence])
    PROVE  IInv'
<1> DEFINE p == [hard |-> hard, soft |-> soft, confidence |-> confidence]
<1>1. /\ phase = "interpret" /\ phase' = "places"
      /\ profile' = EnforceConstraints(request.query, p)
      /\ UNCHANGED <<published, request, cafes, results, held>>
  BY DEF Interpreted
<1>2. DOMAIN cafes = {} /\ DOMAIN results = {}
  BY <1>1 DEF IInv, Qualified
<1>3. request.query.says24 => "open_24h" \in Keys(EnforceConstraints(request.query, p).hard)
  BY InterpretationKeeps24Hours
<1>4. Enforced'
  <2> HIDE DEF p
  <2> QED BY <1>1, <1>3 DEF Enforced, Keys
<1>5. Typed' /\ Tracked'
  BY <1>1 DEF IInv, Typed, Tracked, Phases
<1>6. Pieces' /\ Qualified'
  BY <1>1, <1>2 DEF Pieces, Qualified
<1> QED BY <1>4, <1>5, <1>6 DEF IInv

LEMMA InterpretPreserves ==
    ASSUME IInv, InterpretWithJev \/ InterpretLocally
    PROVE  IInv'
<1>1. CASE InterpretWithJev
  <2>1. PICK a \in Answers : Interpreted(Jev(a))
    BY <1>1 DEF InterpretWithJev
  <2>2. PICK hard, soft, confidence : Jev(a) = [hard |-> hard, soft |-> soft, confidence |-> confidence]
    BY JevForm
  <2>3. Interpreted([hard |-> hard, soft |-> soft, confidence |-> confidence])
    BY <2>1, <2>2
  <2> QED BY <2>3, InterpretedPreserves
<1>2. CASE InterpretLocally
  <2>1. Interpreted(Deterministic(request.query))
    BY <1>2 DEF InterpretLocally
  <2>2. PICK hard, soft, confidence :
           Deterministic(request.query) = [hard |-> hard, soft |-> soft, confidence |-> confidence]
    BY DeterministicForm
  <2>3. Interpreted([hard |-> hard, soft |-> soft, confidence |-> confidence])
    BY <2>1, <2>2
  <2> QED BY <2>3, InterpretedPreserves
<1> QED BY <1>1, <1>2

\* Whatever was read, its pieces were held.
LEMMA ReadingPreserves ==
    ASSUME IInv, NEW from \in {"places", "facts", "scores", "menus"},
           NEW to \in {"facts", "scores", "menus", "answer"}, NEW cs, Reading(from, to, cs),
           \A id \in DOMAIN cs : cs[id] \in Read /\ id \in DOMAIN held /\ Piece(cs[id], held[id])
    PROVE  IInv'
<1>1. /\ phase = from /\ phase' = to /\ cafes' = cs
      /\ results' = IF to = "answer" THEN Ranked(cs) ELSE Empty
      /\ UNCHANGED <<published, request, profile, held>>
  BY DEF Reading
<1>2. Typed' /\ Tracked'
  BY <1>1 DEF IInv, Typed, Tracked, Phases
<1>3. Pieces'
  BY <1>1 DEF Pieces
<1>4. Enforced'
  BY <1>1 DEF IInv, Enforced, Keys
<1>5. DOMAIN Ranked(cs) \subseteq Eligible(cs)
  BY DEF Ranked, Shown
<1>6. (Eligible(cafes))' = Eligible(cs)
  BY <1>1 DEF Eligible
<1>7. DOMAIN results' = IF to = "answer" THEN DOMAIN Ranked(cs) ELSE {}
  BY <1>1 DEF Empty
<1>8. Qualified'
  BY <1>1, <1>5, <1>6, <1>7 DEF Qualified
<1> QED BY <1>2, <1>3, <1>4, <1>8 DEF IInv

LEMMA ReadPlacesPreserves ==
    ASSUME IInv, ReadPlaces
    PROVE  IInv'
<1> DEFINE cs == [id \in DOMAIN published |->
                    [row |-> published[id], facts |-> None, scores |-> None, menus |-> None]]
           to == IF published = Empty THEN "answer" ELSE "facts"
<1>1. Reading("places", to, cs)
  BY DEF ReadPlaces
<1>2. ASSUME NEW id \in DOMAIN cs
      PROVE  cs[id] \in Read /\ id \in DOMAIN held /\ Piece(cs[id], held[id])
  <2>1. phase = "places"
    BY DEF ReadPlaces, Reading
  <2>2. published[id] \in Records /\ id \in DOMAIN held /\ published[id] \in held[id]
    BY <2>1 DEF IInv, Typed, Tracked
  <2> QED BY <2>2 DEF Read, Piece
<1> HIDE DEF cs
<1>3. to \in {"facts", "answer"}
  OBVIOUS
<1> HIDE DEF to
<1> QED BY <1>1, <1>2, <1>3, ReadingPreserves

\* A later statement adds pieces of what is published when it runs.
LEMMA WithPieces ==
    ASSUME IInv, phase # "idle", NEW piece \in {"facts", "scores", "menus"}, NEW id \in DOMAIN With(piece)
    PROVE  With(piece)[id] \in Read /\ id \in DOMAIN held /\ Piece(With(piece)[id], held[id])
<1>1. id \in DOMAIN cafes
  BY DEF With
<1>2. cafes[id] \in Read /\ id \in DOMAIN held /\ Piece(cafes[id], held[id])
  BY <1>1 DEF IInv, Typed, Pieces
<1>3. CASE id \in DOMAIN published
  <2>1. published[id] \in Records /\ published[id] \in held[id]
    BY <1>3 DEF IInv, Typed, Tracked
  <2>2. With(piece)[id] = [cafes[id] EXCEPT ![piece] = published[id]]
    BY <1>1, <1>3 DEF With
  <2>3. CASE piece = "facts"
    BY <1>2, <2>1, <2>2, <2>3 DEF Read, Piece
  <2>4. CASE piece = "scores"
    BY <1>2, <2>1, <2>2, <2>4 DEF Read, Piece
  <2>5. CASE piece = "menus"
    BY <1>2, <2>1, <2>2, <2>5 DEF Read, Piece
  <2> QED BY <1>2, <2>3, <2>4, <2>5
<1>4. CASE id \notin DOMAIN published
  <2>1. With(piece)[id] = cafes[id]
    BY <1>1, <1>4 DEF With
  <2> QED BY <1>2, <2>1
<1> QED BY <1>3, <1>4

LEMMA LoadPreserves ==
    ASSUME IInv, LoadFacts \/ LoadScores \/ LoadMenus
    PROVE  IInv'
<1>1. PICK from \in {"facts", "scores", "menus"}, to \in {"scores", "menus", "answer"} :
         Reading(from, to, With(from))
  BY DEF LoadFacts, LoadScores, LoadMenus
<1>2. phase # "idle"
  BY <1>1 DEF Reading
<1> QED BY <1>1, <1>2, WithPieces, ReadingPreserves

LEMMA ReadFailsPreserves ==
    ASSUME IInv, ReadFails
    PROVE  IInv'
<1>1. PICK p \in {"places", "facts", "scores", "menus"} : Reading(p, "answer", Empty)
  BY DEF ReadFails
<1>2. DOMAIN Empty = {}
  BY DEF Empty
<1> QED BY <1>1, <1>2, ReadingPreserves

LEMMA RespondPreserves ==
    ASSUME IInv, Respond
    PROVE  IInv'
<1>1. /\ phase' = "idle" /\ DOMAIN cafes' = {} /\ DOMAIN results' = {}
      /\ published' = published /\ request'.user = {}
  BY DEF Respond, Empty, NoRequest
<1> QED BY <1>1 DEF IInv, Typed, Phases, Tracked, Pieces, Enforced, Qualified

THEOREM Inductive == Spec => []IInv
<1>1. Init => IInv
  BY InitHolds
<1>2. IInv /\ [Next]_vars => IInv'
  <2> SUFFICES ASSUME IInv, [Next]_vars PROVE IInv'
    OBVIOUS
  <2>1. CASE \E r \in Records : Publish(r)
    BY <2>1, PublishPreserves
  <2>2. CASE \E p \in Places : Remove(p)
    BY <2>2, RemovePreserves
  <2>3. CASE Receive
    BY <2>3, ReceivePreserves
  <2>4. CASE InterpretWithJev \/ InterpretLocally
    BY <2>4, InterpretPreserves
  <2>5. CASE ReadPlaces
    BY <2>5, ReadPlacesPreserves
  <2>6. CASE LoadFacts \/ LoadScores \/ LoadMenus
    BY <2>6, LoadPreserves
  <2>7. CASE ReadFails
    BY <2>7, ReadFailsPreserves
  <2>8. CASE Respond
    BY <2>8, RespondPreserves
  <2>9. CASE UNCHANGED vars
    BY <2>9 DEF vars, IInv, Typed, Tracked, Pieces, Enforced, Qualified, Eligible, Keys
  <2> QED BY <2>1, <2>2, <2>3, <2>4, <2>5, <2>6, <2>7, <2>8, <2>9 DEF Next
<1> QED BY <1>1, <1>2, PTL DEF Spec

-----------------------------------------------------------------------------
(***************************************************************************)
(* What follows.                                                           *)
(***************************************************************************)
\* A search mixes the records a cafe had while it ran, and no others (ListPublished and its
\* load statements).
THEOREM PiecesAreCurrent == Spec => []PiecesWereCurrent
<1>1. IInv => PiecesWereCurrent
  BY DEF IInv, Pieces, Piece, PiecesWereCurrent
<1> QED BY <1>1, Inductive, PTL

\* A fact of the cafe that was put together is one of a record it had.
LEMMA FactsWereHeld ==
    ASSUME NEW c, NEW h, Piece(c, h), NEW k \in Cafe(c).facts
    PROVE  \E r \in h : k \in FactsOf(r) \/ (k = "matcha" /\ SellsMatcha(r))
<1>1. Cafe(c).facts = (IF c.facts = None THEN {} ELSE FactsOf(c.facts))
                      \cup (IF c.menus # None /\ SellsMatcha(c.menus) THEN {"matcha"} ELSE {})
  BY DEF Cafe
<1>2. CASE c.facts # None /\ k \in FactsOf(c.facts)
  BY <1>2 DEF Piece
<1>3. CASE c.menus # None /\ SellsMatcha(c.menus) /\ k = "matcha"
  BY <1>3 DEF Piece
<1> QED BY <1>1, <1>2, <1>3

LEMMA AnsweredCafesQualified ==
    ASSUME IInv, NEW id \in DOMAIN results
    PROVE  /\ phase = "answer"
           /\ id \in DOMAIN cafes /\ Piece(cafes[id], held[id])
           /\ InPlace(request.query, request.user, Cafe(cafes[id])) /\ Meets(profile, Cafe(cafes[id]))
BY DEF IInv, Qualified, Eligible, Pieces

\* "Hard filters are never violated" (RankCafes, enforceDeterministicConstraints), however
\* many publications overlap the search and whatever the model answers.
THEOREM HardFiltersAreNeverViolated == Spec => []HardFiltersHold
<1>1. ASSUME IInv, NEW id \in DOMAIN results
      PROVE  /\ \A k \in Keys(profile.hard) :
                  \E r \in held[id] : k \in FactsOf(r) \/ (k = "matcha" /\ SellsMatcha(r))
             /\ request.query.says24 => \E r \in held[id] : AlwaysOpen(r)
  <2>1. ASSUME NEW k \in Keys(profile.hard)
        PROVE  \E r \in held[id] : k \in FactsOf(r) \/ (k = "matcha" /\ SellsMatcha(r))
    <3>1. k \in Cafe(cafes[id]).facts /\ Piece(cafes[id], held[id])
      BY <1>1, AnsweredCafesQualified DEF Meets
    <3> QED BY <3>1, FactsWereHeld
  <2>2. ASSUME request.query.says24
        PROVE  \E r \in held[id] : AlwaysOpen(r)
    <3>1. phase = "answer"
      BY <1>1, AnsweredCafesQualified
    <3>2. "open_24h" \in Keys(profile.hard)
      BY <1>1, <2>2, <3>1 DEF IInv, Enforced
    <3> QED BY <2>1, <3>2 DEF AlwaysOpen
  <2> QED BY <2>1, <2>2
<1>2. IInv => HardFiltersHold
  BY <1>1 DEF HardFiltersHold
<1> QED BY <1>2, Inductive, PTL

\* A search of a named place stays in it, and any other within nearbyRadiusKM of a user who
\* is known (enforceLocationIntent, applyDefaultUserLocation, RankCafes).
THEOREM SearchesStayInPlace == Spec => []SearchStaysInPlace
<1>1. ASSUME IInv, NEW id \in DOMAIN results
      PROVE  \E r \in held[id] :
                IF request.query.where \in Scopes THEN request.query.where \in r.area
                ELSE \A p \in request.user : Distance[p, r.point] <= NearbyRadius
  <2> DEFINE row == cafes[id].row
  <2>1. row \in held[id]
    BY <1>1, AnsweredCafesQualified DEF Piece
  <2>2. Cafe(cafes[id]).area = row.area /\ Cafe(cafes[id]).point = row.point
    BY DEF Cafe
  <2>3. InPlace(request.query, request.user, Cafe(cafes[id]))
    BY <1>1, AnsweredCafesQualified
  <2>4. CASE request.query.where \in Scopes
    <3>1. LocationMode(request.query, request.user) = "named"
      BY <2>4 DEF LocationMode
    <3>2. request.query.where \in Cafe(cafes[id]).area
      BY <2>3, <3>1 DEF InPlace
    <3> QED BY <2>1, <2>2, <2>4, <3>2
  <2>5. CASE request.query.where \notin Scopes
    <3>1. ASSUME NEW p \in request.user
          PROVE  Distance[p, row.point] <= NearbyRadius
      <4>1. LocationMode(request.query, request.user) = "nearby"
        BY <2>5, <3>1 DEF LocationMode
      <4>2. PICK q \in request.user : Distance[q, row.point] <= NearbyRadius
        BY <2>2, <2>3, <4>1 DEF InPlace
      <4>3. p = q
        BY <1>1, <3>1, <4>2 DEF IInv, Typed
      <4> QED BY <4>2, <4>3
    <3> QED BY <2>1, <2>5, <3>1
  <2> QED BY <2>4, <2>5
<1>2. IInv => SearchStaysInPlace
  BY <1>1 DEF SearchStaysInPlace
<1> QED BY <1>2, Inductive, PTL

-----------------------------------------------------------------------------
(***************************************************************************)
(* Sums, by induction over the sets that are summed.                       *)
(***************************************************************************)
LEMMA LeastNatural ==
  ASSUME NEW T \in SUBSET Nat, T # {}
  PROVE  \E x \in T : \A y \in T : x <= y
<1> DEFINE R == OpToRel(<, Nat)
<1>1. IsWellFoundedOn(R, Nat)
  BY NatLessThanWellFounded
<1>2. \A x, y \in Nat : x < y => <<x, y>> \in R
  BY DEF OpToRel
<1> HIDE DEF R
<1>3. PICK x \in T : \A y \in T : ~ (<<y, x>> \in R)
  BY <1>1, WFMin
<1>4. x \in Nat /\ \A y \in T : y \in Nat /\ ~(y < x)
  BY <1>2, <1>3
<1>5. \A a, b \in Nat : ~(b < a) => a <= b
  OBVIOUS
<1> QED  BY <1>4, <1>5

\* Induction, over a set of numbers.
LEMMA EveryNatural ==
  ASSUME NEW T, 0 \in T, \A n \in Nat : n \in T => n + 1 \in T
  PROVE  Nat \subseteq T
<1> DEFINE out == {n \in Nat : n \notin T}
<1> SUFFICES ASSUME out # {} PROVE FALSE
  OBVIOUS
<1>1. PICK n \in out : \A m \in out : n <= m
  BY LeastNatural
<1>2. n # 0 /\ n \in Nat
  BY <1>1
<1>3. n - 1 \in Nat /\ ~(n <= n - 1)
  BY <1>2
<1>4. n - 1 \in T
  BY <1>1, <1>3
<1>5. (n - 1) + 1 = n
  BY <1>2
<1>6. n \in T
  BY <1>3, <1>4, <1>5
<1> QED  BY <1>1, <1>6

Pick(s) == CHOOSE x \in s : TRUE

\* g has the totals of f over the subsets of S in C.
Adds(g, f, C) == g = [s \in C |-> IF s = {} THEN 0 ELSE f[Pick(s)] + g[s \ {Pick(s)}]]

UpTo(S, n) == {s \in SUBSET S : Cardinality(s) <= n}

LEMMA PickOne ==
  ASSUME NEW S, IsFiniteSet(S), NEW s \in SUBSET S, s # {}
  PROVE  /\ Pick(s) \in s /\ s \ {Pick(s)} \in SUBSET S
         /\ Cardinality(s) \in Nat /\ Cardinality(s) > 0 /\ Cardinality(s \ {Pick(s)}) = Cardinality(s) - 1
<1>1. Pick(s) \in s
  BY DEF Pick
<1>2. IsFiniteSet(s)
  BY FS_Subset
<1>3. Cardinality(s) \in Nat /\ Cardinality(s) # 0
  BY <1>2, FS_CardinalityType, FS_EmptySet
<1>4. Cardinality(s \ {Pick(s)}) = Cardinality(s) - 1
  BY <1>1, <1>2, FS_RemoveElement
<1> QED  BY <1>1, <1>3, <1>4

LEMMA AddsExist ==
  ASSUME NEW S, IsFiniteSet(S), NEW f
  PROVE  \E g : Adds(g, f, SUBSET S)
<1> DEFINE T == {n \in Nat : \E g : Adds(g, f, UpTo(S, n))}
<1>1. 0 \in T
  <2> DEFINE g == [s \in UpTo(S, 0) |-> 0]
  <2>1. \A s \in UpTo(S, 0) : s = {}
    <3>1. ASSUME NEW s \in SUBSET S, s # {}, Cardinality(s) <= 0 PROVE FALSE
      <4>1. Cardinality(s) \in Nat /\ Cardinality(s) > 0
        BY <3>1, PickOne
      <4> QED  BY <3>1, <4>1
    <3> QED  BY <3>1 DEF UpTo
  <2>2. Adds(g, f, UpTo(S, 0))
    BY <2>1 DEF Adds
  <2> QED  BY <2>2
<1>2. ASSUME NEW n \in Nat, n \in T PROVE n + 1 \in T
  <2>1. PICK g : Adds(g, f, UpTo(S, n))
    BY <1>2
  <2> DEFINE val(h, s) == IF s = {} THEN 0 ELSE f[Pick(s)] + h[s \ {Pick(s)}]
             next == [s \in UpTo(S, n + 1) |-> val(g, s)]
  <2>2. ASSUME NEW s \in UpTo(S, n + 1), s # {} PROVE s \ {Pick(s)} \in UpTo(S, n)
    <3>1. s \in SUBSET S /\ Cardinality(s) <= n + 1
      BY DEF UpTo
    <3>2. /\ s \ {Pick(s)} \in SUBSET S /\ Cardinality(s) \in Nat
          /\ Cardinality(s \ {Pick(s)}) = Cardinality(s) - 1
      BY <2>2, <3>1, PickOne
    <3> QED  BY <3>1, <3>2 DEF UpTo
  <2>3. \A s \in UpTo(S, n) : s \in UpTo(S, n + 1) /\ g[s] = val(g, s)
    <3>1. ASSUME NEW s \in UpTo(S, n) PROVE s \in UpTo(S, n + 1)
      <4>1. s \in SUBSET S /\ Cardinality(s) <= n
        BY DEF UpTo
      <4>2. Cardinality(s) \in Nat
        BY <4>1, FS_Subset, FS_CardinalityType
      <4> QED  BY <4>1, <4>2 DEF UpTo
    <3> QED  BY <2>1, <3>1 DEF Adds
  <2>4. \A s \in UpTo(S, n) : next[s] = g[s]
    BY <2>3
  <2> HIDE DEF next
  <2>5. \A s \in UpTo(S, n + 1) : val(next, s) = val(g, s)
    BY <2>2, <2>4
  <2>6. next = [s \in UpTo(S, n + 1) |-> val(next, s)]
    <3>1. next = [s \in UpTo(S, n + 1) |-> val(g, s)]
      BY DEF next
    <3> QED  BY <2>5, <3>1
  <2>7. Adds(next, f, UpTo(S, n + 1))
    BY <2>6 DEF Adds
  <2> QED  BY <2>7
<1>3. Nat \subseteq T
  <2> HIDE DEF T
  <2> QED  BY <1>1, <1>2, EveryNatural
<1>4. Cardinality(S) \in Nat /\ UpTo(S, Cardinality(S)) = SUBSET S
  <2>1. \A s \in SUBSET S : Cardinality(s) <= Cardinality(S)
    BY FS_Subset
  <2> QED  BY <2>1, FS_CardinalityType DEF UpTo
<1> QED  BY <1>3, <1>4

LEMMA SumForm ==
  ASSUME NEW f, IsFiniteSet(DOMAIN f)
  PROVE  \E g : Adds(g, f, SUBSET DOMAIN f) /\ SumFunction(f) = g[DOMAIN f]
<1> DEFINE g == CHOOSE g : Adds(g, f, SUBSET DOMAIN f)
<1>1. Adds(g, f, SUBSET DOMAIN f)
  BY AddsExist
<1>2. SumFunction(f) = g[DOMAIN f]
  BY DEF SumFunction, SumFunctionOnSet, FoldFunctionOnSet, MapThenFoldSet, Adds, Pick
<1> QED  BY <1>1, <1>2

\* The total of natural numbers is one, and grows with them.
LEMMA SumGrows ==
  ASSUME NEW S, IsFiniteSet(S), NEW f \in [S -> Nat], NEW h \in [S -> Nat], \A x \in S : f[x] <= h[x]
  PROVE  SumFunction(f) \in Nat /\ SumFunction(h) \in Nat /\ SumFunction(f) <= SumFunction(h)
<1>1. PICK g : Adds(g, f, SUBSET S) /\ SumFunction(f) = g[S]
  BY SumForm
<1>2. PICK k : Adds(k, h, SUBSET S) /\ SumFunction(h) = k[S]
  BY SumForm
<1> DEFINE Good(s) == g[s] \in Nat /\ k[s] \in Nat /\ g[s] <= k[s]
           T == {n \in Nat : \A s \in SUBSET S : Cardinality(s) = n => Good(s)}
<1>3. 0 \in T
  <2>1. \A s \in SUBSET S : Cardinality(s) = 0 => s = {}
    <3>1. ASSUME NEW s \in SUBSET S, s # {}, Cardinality(s) = 0 PROVE FALSE
      <4>1. Cardinality(s) \in Nat /\ Cardinality(s) > 0
        BY <3>1, PickOne
      <4> QED  BY <3>1, <4>1
    <3> QED  BY <3>1
  <2>2. Good({})
    BY <1>1, <1>2 DEF Adds
  <2> QED  BY <2>1, <2>2
<1>4. ASSUME NEW n \in Nat, n \in T PROVE n + 1 \in T
  <2>1. ASSUME NEW s \in SUBSET S, Cardinality(s) = n + 1 PROVE Good(s)
    <3>1. s # {}
      BY <2>1, FS_EmptySet
    <3> DEFINE x == Pick(s)
               rest == s \ {x}
    <3>2. x \in S /\ rest \in SUBSET S /\ Cardinality(rest) = n
      BY <2>1, <3>1, PickOne
    <3>3. Good(rest)
      BY <1>4, <3>2
    <3>4. g[s] = f[x] + g[rest] /\ k[s] = h[x] + k[rest]
      BY <1>1, <1>2, <3>1 DEF Adds
    <3> HIDE DEF x, rest
    <3>5. f[x] \in Nat /\ h[x] \in Nat /\ f[x] <= h[x]
      BY <3>2
    <3> QED  BY <3>3, <3>4, <3>5
  <2> QED  BY <2>1
<1>5. Nat \subseteq T
  <2> HIDE DEF T
  <2> QED  BY <1>3, <1>4, EveryNatural
<1>6. Cardinality(S) \in Nat
  BY FS_CardinalityType
<1> QED  BY <1>1, <1>2, <1>5, <1>6

-----------------------------------------------------------------------------
(***************************************************************************)
(* Ranks.                                                                  *)
(***************************************************************************)
\* What S has above x, by the strict order R.
Over(R, S, x) == {y \in S : <<y, x>> \in R}

Orders(R, S) ==
    /\ \A x \in S : <<x, x>> \notin R
    /\ \A x, y, z \in S : <<x, y>> \in R /\ <<y, z>> \in R => <<x, z>> \in R
    /\ \A x, y \in S : x # y => <<x, y>> \in R \/ <<y, x>> \in R

LEMMA RankType ==
  ASSUME NEW S, IsFiniteSet(S), NEW R, NEW x
  PROVE  IsFiniteSet(Over(R, S, x)) /\ Cardinality(Over(R, S, x)) \in Nat
<1>1. Over(R, S, x) \subseteq S
  BY DEF Over
<1> QED  BY <1>1, FS_Subset, FS_CardinalityType

LEMMA RankOrdered ==
  ASSUME NEW S, IsFiniteSet(S), NEW R, Orders(R, S), NEW x \in S, NEW y \in S, <<x, y>> \in R
  PROVE  Cardinality(Over(R, S, x)) < Cardinality(Over(R, S, y))
<1>1. Over(R, S, x) \subseteq Over(R, S, y) /\ x \in Over(R, S, y) /\ x \notin Over(R, S, x)
  BY DEF Over, Orders
<1>2. IsFiniteSet(Over(R, S, y))
  BY RankType
<1>3. /\ Cardinality(Over(R, S, x)) <= Cardinality(Over(R, S, y))
      /\ Cardinality(Over(R, S, x)) = Cardinality(Over(R, S, y)) => Over(R, S, x) = Over(R, S, y)
  BY <1>1, <1>2, FS_Subset, Zenon
<1>4. Cardinality(Over(R, S, x)) # Cardinality(Over(R, S, y))
  BY <1>1, <1>3
<1> QED  BY <1>3, <1>4, RankType

\* No more than n have fewer than n above them.
LEMMA FewAreFirst ==
  ASSUME NEW S, IsFiniteSet(S), NEW R, Orders(R, S), NEW n \in Nat
  PROVE  LET first == {x \in S : Cardinality(Over(R, S, x)) < n}
         IN  IsFiniteSet(first) /\ Cardinality(first) <= n
<1> DEFINE first == {x \in S : Cardinality(Over(R, S, x)) < n}
           rank == [x \in first |-> Cardinality(Over(R, S, x))]
<1>1. \A x \in first : rank[x] \in 0..(n - 1)
  BY RankType
<1>2. ASSUME NEW x \in first, NEW y \in first, rank[x] = rank[y] PROVE x = y
  <2>1. \A z \in S : Cardinality(Over(R, S, z)) \in Nat
    BY RankType
  <2> SUFFICES ASSUME x # y PROVE FALSE
    OBVIOUS
  <2>2. <<x, y>> \in R \/ <<y, x>> \in R
    BY DEF Orders
  <2>3. rank[x] < rank[y] \/ rank[y] < rank[x]
    BY <2>2, RankOrdered
  <2> QED  BY <1>2, <2>1, <2>3
<1>3. rank \in Injection(first, 0..(n - 1))
  <2>1. rank \in [first -> 0..(n - 1)]
    BY <1>1
  <2>2. IsInjective(rank)
    BY <1>2 DEF IsInjective
  <2> QED  BY <2>1, <2>2 DEF Injection
<1>4. IsFiniteSet(0..(n - 1)) /\ Cardinality(0..(n - 1)) = n
  BY FS_Interval
<1> HIDE DEF first, rank
<1>5. IsFiniteSet(first) /\ Cardinality(first) <= n
  BY <1>3, <1>4, FS_Injection
<1> QED  BY <1>5 DEF first

\* What has n or more above it, has n of the first above it.
LEMMA FirstAreAbove ==
  ASSUME NEW S, IsFiniteSet(S), NEW R, Orders(R, S), NEW n \in Nat, NEW x \in S,
         ~(Cardinality(Over(R, S, x)) < n)
  PROVE  LET above == {y \in Over(R, S, x) : Cardinality(Over(R, S, y)) < n}
         IN  IsFiniteSet(above) /\ Cardinality(above) >= n
<1> DEFINE rank(y) == Cardinality(Over(R, S, y))
           above == {y \in Over(R, S, x) : rank(y) < n}
           rest == Over(R, S, x) \ above
           Ranks == {rank(y) : y \in rest}
<1> SUFFICES IsFiniteSet(above) /\ Cardinality(above) >= n
  OBVIOUS
<1>1. \A y \in S : rank(y) \in Nat /\ IsFiniteSet(Over(R, S, y))
  BY RankType
<1>2. above \subseteq Over(R, S, x) /\ Over(R, S, x) \subseteq S
  BY DEF Over
<1>3. IsFiniteSet(above) /\ Cardinality(above) \in Nat
  BY <1>1, <1>2, FS_Subset, FS_CardinalityType
<1>4. CASE rest = {}
  <2>1. above = Over(R, S, x)
    BY <1>4
  <2> HIDE DEF above
  <2> QED  BY <1>1, <1>3, <2>1
<1>5. CASE rest # {}
  <2>1. Ranks \in SUBSET Nat /\ Ranks # {}
    BY <1>1, <1>2, <1>5
  <2> HIDE DEF Ranks
  <2>2. PICK m \in Ranks : \A k \in Ranks : m <= k
    BY <2>1, LeastNatural
  <2>3. PICK y \in rest : rank(y) = m
    BY DEF Ranks
  <2>4. y \in S /\ <<y, x>> \in R /\ ~(rank(y) < n)
    BY <2>3 DEF Over
  <2>5. ASSUME NEW z \in Over(R, S, y) PROVE z \in above
    <3>1. z \in S /\ <<z, y>> \in R
      BY DEF Over
    <3>2. z \in Over(R, S, x)
      BY <2>4, <3>1 DEF Orders, Over
    <3>3. rank(z) < rank(y)
      BY <2>4, <3>1, RankOrdered
    <3>4. z \notin rest
      <4>1. z \in rest => rank(z) \in Ranks
        BY DEF Ranks
      <4>2. z \in rest => m <= rank(z)
        BY <2>2, <4>1
      <4> HIDE DEF rank, rest
      <4> QED  BY <1>1, <2>3, <2>4, <3>1, <3>3, <4>2
    <3> QED  BY <3>2, <3>4
  <2>6. Over(R, S, y) \subseteq above
    BY <2>5
  <2> HIDE DEF above
  <2>7. Cardinality(Over(R, S, y)) <= Cardinality(above)
    BY <1>3, <2>6, FS_Subset, Zenon
  <2> QED  BY <1>1, <1>3, <2>4, <2>7
<1> QED  BY <1>3, <1>4, <1>5

-----------------------------------------------------------------------------
(***************************************************************************)
(* MatchScore, step by step: what it returns, and what makes it greater.   *)
(***************************************************************************)
\* The numbers of a cafe, and of an interpretation.
Measured(a) ==
    /\ a.age \in Nat /\ a.priceMin \in Nat /\ a.priceMax \in Nat
    /\ \A k \in DOMAIN a.scores : a.scores[k] \in Nat
    /\ \A k \in DOMAIN a.evidence : a.evidence[k] \in Nat

Weighed(p) ==
    /\ IsFiniteSet(p.hard) /\ IsFiniteSet(p.soft)
    /\ \A w \in p.hard \cup p.soft : w.weight \in Nat
    /\ p.confidence \in Nat

\* a scores for the wants at least as b does.
Outdoes(a, b, wants) ==
    \A k \in Keys(wants) : /\ ScoreOf(a, k) >= ScoreOf(b, k) /\ ConfidenceOf(a, k) >= ConfidenceOf(b, k)
                           /\ k \in b.facts => k \in a.facts

\* The steps of MatchScore.
Weights(wants) == SumFunction([w \in wants |-> w.weight])
Fit(a, wants) == SumFunction([w \in wants |-> w.weight * ScoreOf(a, w.key) * ConfidenceOf(a, w.key)])
Cover(a, wants) == SumFunction([w \in wants |-> w.weight * ConfidenceOf(a, w.key)])
Fuzzy(a, wants) == IF Weights(wants) > 0 THEN Fit(a, wants) \div Weights(wants) ELSE 6200
Known(a, wants) == IF Weights(wants) > 0 THEN Cover(a, wants) \div Weights(wants) ELSE 70
Matches(a, wants) == Cardinality({w \in wants : w.key \in a.facts})
Facility(a, wants) == Clamp(55 + (45 * Matches(a, wants)) \div (IF wants = {} THEN 1 ELSE Cardinality(wants)), 0, 100)
Freshness(a) == Clamp(100 - (100 * a.age) \div 240, 45, 100)
Raw(a, wants, near, budget) ==
    (55 * Fuzzy(a, wants) + 1500 * Facility(a, wants) + 1500 * near + 1000 * budget + 500 * Freshness(a)) \div 100
Sure(a, wants, confidence) == Clamp((Known(a, wants) * confidence) \div 100, 48, 97)
Near(q, u, a) == DistanceFit[Distance[From(q, u), a.point]]
Final(raw, sure) == (Clamp((raw * (8200 + 18 * sure)) \div 10000, 0, 9900) + 50) \div 100

LEMMA MatchScoreForm ==
  ASSUME NEW q, NEW u, NEW p, NEW a
  PROVE  LET wants == p.hard \cup p.soft
         IN  MatchScore(q, u, p, a) =
               Final(Raw(a, wants, Near(q, u, a), BudgetFit(q.budget, a)),
                     Sure(a, wants, p.confidence))
BY DEF MatchScore, Near, Final, Raw, Sure, Freshness, Facility, Matches, Known, Fuzzy, Cover, Fit, Weights

LEMMA QuotientGrows ==
  ASSUME NEW x \in Int, NEW y \in Int, x <= y, NEW n \in Nat, n > 0
  PROVE  x \div n \in Int /\ x \div n <= y \div n
OBVIOUS

LEMMA QuotientType ==
  ASSUME NEW x \in Nat, NEW n \in Nat, n > 0
  PROVE  x \div n \in Nat
OBVIOUS

LEMMA ProductGrows ==
  ASSUME NEW a \in Nat, NEW b \in Nat, NEW c \in Nat, NEW d \in Nat, a <= b, c <= d
  PROVE  a * c \in Nat /\ b * d \in Nat /\ a * c <= b * d
OBVIOUS

LEMMA ScoreOfType ==
  ASSUME NEW a, Measured(a), NEW k
  PROVE  ScoreOf(a, k) \in Nat /\ ConfidenceOf(a, k) \in Nat
BY DEF Measured, ScoreOf, ConfidenceOf

\* The totals of a cafe that outdoes another are no smaller.
LEMMA TotalsGrow ==
  ASSUME NEW wants, IsFiniteSet(wants), \A w \in wants : w.weight \in Nat,
         NEW a, NEW b, Measured(a), Measured(b), Outdoes(a, b, wants)
  PROVE  /\ Weights(wants) \in Nat
         /\ Fit(b, wants) \in Nat /\ Fit(a, wants) \in Nat /\ Fit(b, wants) <= Fit(a, wants)
         /\ Cover(b, wants) \in Nat /\ Cover(a, wants) \in Nat /\ Cover(b, wants) <= Cover(a, wants)
<1> DEFINE weight == [w \in wants |-> w.weight]
           fit(c) == [w \in wants |-> w.weight * ScoreOf(c, w.key) * ConfidenceOf(c, w.key)]
           cover(c) == [w \in wants |-> w.weight * ConfidenceOf(c, w.key)]
<1>1. ASSUME NEW w \in wants
      PROVE  /\ w.weight \in Nat
             /\ w.weight * ConfidenceOf(b, w.key) \in Nat /\ w.weight * ConfidenceOf(a, w.key) \in Nat
             /\ w.weight * ConfidenceOf(b, w.key) <= w.weight * ConfidenceOf(a, w.key)
             /\ w.weight * ScoreOf(b, w.key) * ConfidenceOf(b, w.key) \in Nat
             /\ w.weight * ScoreOf(a, w.key) * ConfidenceOf(a, w.key) \in Nat
             /\ w.weight * ScoreOf(b, w.key) * ConfidenceOf(b, w.key)
                  <= w.weight * ScoreOf(a, w.key) * ConfidenceOf(a, w.key)
  <2>1. /\ ScoreOf(a, w.key) \in Nat /\ ConfidenceOf(a, w.key) \in Nat
        /\ ScoreOf(b, w.key) \in Nat /\ ConfidenceOf(b, w.key) \in Nat
    BY ScoreOfType
  <2>2. ScoreOf(b, w.key) <= ScoreOf(a, w.key) /\ ConfidenceOf(b, w.key) <= ConfidenceOf(a, w.key)
    BY <2>1 DEF Outdoes, Keys
  <2>3. w.weight \in Nat /\ w.weight <= w.weight
    OBVIOUS
  <2>4. /\ w.weight * ScoreOf(b, w.key) \in Nat /\ w.weight * ScoreOf(a, w.key) \in Nat
        /\ w.weight * ScoreOf(b, w.key) <= w.weight * ScoreOf(a, w.key)
    BY <2>1, <2>2, <2>3, ProductGrows
  <2>5. /\ w.weight * ConfidenceOf(b, w.key) \in Nat /\ w.weight * ConfidenceOf(a, w.key) \in Nat
        /\ w.weight * ConfidenceOf(b, w.key) <= w.weight * ConfidenceOf(a, w.key)
    BY <2>1, <2>2, <2>3, ProductGrows
  <2>6. /\ w.weight * ScoreOf(b, w.key) * ConfidenceOf(b, w.key) \in Nat
        /\ w.weight * ScoreOf(a, w.key) * ConfidenceOf(a, w.key) \in Nat
        /\ w.weight * ScoreOf(b, w.key) * ConfidenceOf(b, w.key)
             <= w.weight * ScoreOf(a, w.key) * ConfidenceOf(a, w.key)
    BY <2>1, <2>2, <2>4, ProductGrows
  <2> QED  BY <2>3, <2>5, <2>6
<1>2. weight \in [wants -> Nat] /\ \A w \in wants : weight[w] <= weight[w]
  BY <1>1
<1>3. /\ fit(a) \in [wants -> Nat] /\ fit(b) \in [wants -> Nat]
      /\ \A w \in wants : fit(b)[w] <= fit(a)[w]
  BY <1>1
<1>4. /\ cover(a) \in [wants -> Nat] /\ cover(b) \in [wants -> Nat]
      /\ \A w \in wants : cover(b)[w] <= cover(a)[w]
  BY <1>1
<1>5. /\ Weights(wants) = SumFunction(weight)
      /\ Fit(a, wants) = SumFunction(fit(a)) /\ Fit(b, wants) = SumFunction(fit(b))
      /\ Cover(a, wants) = SumFunction(cover(a)) /\ Cover(b, wants) = SumFunction(cover(b))
  BY DEF Weights, Fit, Cover
<1> HIDE DEF weight, fit, cover
<1>6. SumFunction(weight) \in Nat
  BY <1>2, SumGrows
<1>7. SumFunction(fit(b)) \in Nat /\ SumFunction(fit(a)) \in Nat /\ SumFunction(fit(b)) <= SumFunction(fit(a))
  BY <1>3, SumGrows
<1>8. SumFunction(cover(b)) \in Nat /\ SumFunction(cover(a)) \in Nat /\ SumFunction(cover(b)) <= SumFunction(cover(a))
  BY <1>4, SumGrows
<1> QED  BY <1>5, <1>6, <1>7, <1>8

\* And so are the parts of its score.
LEMMA PartsGrow ==
  ASSUME NEW wants, IsFiniteSet(wants), \A w \in wants : w.weight \in Nat,
         NEW a, NEW b, Measured(a), Measured(b), Outdoes(a, b, wants), a.age <= b.age
  PROVE  /\ Fuzzy(b, wants) \in Nat /\ Fuzzy(a, wants) \in Nat /\ Fuzzy(b, wants) <= Fuzzy(a, wants)
         /\ Known(b, wants) \in Nat /\ Known(a, wants) \in Nat /\ Known(b, wants) <= Known(a, wants)
         /\ Facility(b, wants) \in 0..100 /\ Facility(a, wants) \in 0..100 /\ Facility(b, wants) <= Facility(a, wants)
         /\ Freshness(b) \in 45..100 /\ Freshness(a) \in 45..100 /\ Freshness(b) <= Freshness(a)
<1>1. /\ Weights(wants) \in Nat
      /\ Fit(b, wants) \in Nat /\ Fit(a, wants) \in Nat /\ Fit(b, wants) <= Fit(a, wants)
      /\ Cover(b, wants) \in Nat /\ Cover(a, wants) \in Nat /\ Cover(b, wants) <= Cover(a, wants)
  BY TotalsGrow
<1>2. Fuzzy(b, wants) \in Nat /\ Fuzzy(a, wants) \in Nat /\ Fuzzy(b, wants) <= Fuzzy(a, wants)
  BY <1>1, QuotientType, QuotientGrows DEF Fuzzy
<1>3. Known(b, wants) \in Nat /\ Known(a, wants) \in Nat /\ Known(b, wants) <= Known(a, wants)
  BY <1>1, QuotientType, QuotientGrows DEF Known
<1>4. Facility(b, wants) \in 0..100 /\ Facility(a, wants) \in 0..100 /\ Facility(b, wants) <= Facility(a, wants)
  <2> DEFINE of(c) == {w \in wants : w.key \in c.facts}
             n == IF wants = {} THEN 1 ELSE Cardinality(wants)
             share(c) == 55 + (45 * Cardinality(of(c))) \div n
  <2>1. /\ IsFiniteSet(of(a)) /\ IsFiniteSet(of(b)) /\ of(b) \subseteq of(a)
    BY FS_Subset DEF Outdoes, Keys
  <2>2. Cardinality(of(a)) \in Nat /\ Cardinality(of(b)) \in Nat /\ Cardinality(of(b)) <= Cardinality(of(a))
    <3> HIDE DEF of
    <3> QED  BY <2>1, FS_Subset, FS_CardinalityType
  <2>3. n \in Nat /\ n > 0
    BY FS_CardinalityType, FS_EmptySet
  <2>4. Facility(a, wants) = Clamp(share(a), 0, 100) /\ Facility(b, wants) = Clamp(share(b), 0, 100)
    BY DEF Facility, Matches
  <2> HIDE DEF of, n
  <2>5. /\ (45 * Cardinality(of(a))) \div n \in Int /\ (45 * Cardinality(of(b))) \div n \in Int
        /\ (45 * Cardinality(of(b))) \div n <= (45 * Cardinality(of(a))) \div n
    BY <2>2, <2>3, QuotientGrows
  <2>6. share(a) \in Int /\ share(b) \in Int /\ share(b) <= share(a)
    BY <2>5
  <2> HIDE DEF share
  <2>7. /\ Clamp(share(b), 0, 100) \in 0..100 /\ Clamp(share(a), 0, 100) \in 0..100
        /\ Clamp(share(b), 0, 100) <= Clamp(share(a), 0, 100)
    BY <2>6 DEF Clamp
  <2> QED  BY <2>4, <2>7
<1>5. Freshness(b) \in 45..100 /\ Freshness(a) \in 45..100 /\ Freshness(b) <= Freshness(a)
  <2> DEFINE left(c) == 100 - (100 * c.age) \div 240
  <2>1. left(a) \in Int /\ left(b) \in Int /\ left(b) <= left(a)
    BY DEF Measured
  <2>2. Freshness(a) = Clamp(left(a), 45, 100) /\ Freshness(b) = Clamp(left(b), 45, 100)
    BY DEF Freshness
  <2> HIDE DEF left
  <2>3. /\ Clamp(left(b), 45, 100) \in 45..100 /\ Clamp(left(a), 45, 100) \in 45..100
        /\ Clamp(left(b), 45, 100) <= Clamp(left(a), 45, 100)
    BY <2>1 DEF Clamp
  <2> QED  BY <2>2, <2>3
<1> QED  BY <1>2, <1>3, <1>4, <1>5

LEMMA MixGrows ==
  ASSUME NEW f \in Nat, NEW g \in Nat, f <= g, NEW h \in Nat, NEW i \in Nat, h <= i,
         NEW j \in Nat, NEW k \in Nat, j <= k, NEW l \in Nat, NEW m \in Nat, NEW n \in Nat, m <= n
  PROVE  LET less == 55 * f + 1500 * h + 1500 * j + 1000 * l + 500 * m
             more == 55 * g + 1500 * i + 1500 * k + 1000 * l + 500 * n
         IN  less \in Nat /\ more \in Nat /\ less <= more
OBVIOUS

LEMMA FinalGrows ==
  ASSUME NEW raw \in Nat, NEW more \in Nat, raw <= more,
         NEW sure \in Nat, NEW surer \in Nat, sure <= surer
  PROVE  Final(raw, sure) \in 0..99 /\ Final(more, surer) \in 0..99 /\ Final(raw, sure) <= Final(more, surer)
<1> DEFINE low == (raw * (8200 + 18 * sure)) \div 10000
           high == (more * (8200 + 18 * surer)) \div 10000
<1>1. low \in Int /\ high \in Int /\ low <= high
  <2>1. /\ 8200 + 18 * sure \in Nat /\ 8200 + 18 * surer \in Nat
        /\ 8200 + 18 * sure <= 8200 + 18 * surer
    OBVIOUS
  <2>2. /\ raw * (8200 + 18 * sure) \in Nat /\ more * (8200 + 18 * surer) \in Nat
        /\ raw * (8200 + 18 * sure) <= more * (8200 + 18 * surer)
    BY <2>1, ProductGrows
  <2> QED  BY <2>2, QuotientGrows
<1>2. Final(raw, sure) = (Clamp(low, 0, 9900) + 50) \div 100 /\ Final(more, surer) = (Clamp(high, 0, 9900) + 50) \div 100
  BY DEF Final
<1> HIDE DEF low, high
<1>3. Clamp(low, 0, 9900) \in 0..9900 /\ Clamp(high, 0, 9900) \in 0..9900 /\ Clamp(low, 0, 9900) <= Clamp(high, 0, 9900)
  BY <1>1 DEF Clamp
<1> DEFINE cx == Clamp(low, 0, 9900)
           cy == Clamp(high, 0, 9900)
<1>4. cx \in 0..9900 /\ cy \in 0..9900 /\ cx <= cy
  BY <1>3
<1>5. Final(raw, sure) = (cx + 50) \div 100 /\ Final(more, surer) = (cy + 50) \div 100
  BY <1>2
<1> HIDE DEF cx, cy
<1>6. (cx + 50) \div 100 \in 0..99 /\ (cy + 50) \div 100 \in 0..99 /\ (cx + 50) \div 100 <= (cy + 50) \div 100
  BY <1>4
<1> QED  BY <1>5, <1>6

LEMMA RawGrows ==
  ASSUME NEW wants, IsFiniteSet(wants), \A w \in wants : w.weight \in Nat, NEW confidence \in Nat,
         NEW a, NEW b, Measured(a), Measured(b), Outdoes(a, b, wants), a.age <= b.age,
         NEW near \in Nat, NEW nearer \in Nat, near <= nearer, NEW budget \in Nat
  PROVE  /\ Raw(b, wants, near, budget) \in Nat /\ Raw(a, wants, nearer, budget) \in Nat
         /\ Raw(b, wants, near, budget) <= Raw(a, wants, nearer, budget)
         /\ Sure(b, wants, confidence) \in Nat /\ Sure(a, wants, confidence) \in Nat
         /\ Sure(b, wants, confidence) <= Sure(a, wants, confidence)
<1>1. /\ Fuzzy(b, wants) \in Nat /\ Fuzzy(a, wants) \in Nat /\ Fuzzy(b, wants) <= Fuzzy(a, wants)
      /\ Known(b, wants) \in Nat /\ Known(a, wants) \in Nat /\ Known(b, wants) <= Known(a, wants)
      /\ Facility(b, wants) \in 0..100 /\ Facility(a, wants) \in 0..100 /\ Facility(b, wants) <= Facility(a, wants)
      /\ Freshness(b) \in 45..100 /\ Freshness(a) \in 45..100 /\ Freshness(b) <= Freshness(a)
  BY PartsGrow
<1>2. /\ Raw(b, wants, near, budget) \in Nat /\ Raw(a, wants, nearer, budget) \in Nat
      /\ Raw(b, wants, near, budget) <= Raw(a, wants, nearer, budget)
  <2> DEFINE rawb == 55 * Fuzzy(b, wants) + 1500 * Facility(b, wants) + 1500 * near + 1000 * budget + 500 * Freshness(b)
             rawa == 55 * Fuzzy(a, wants) + 1500 * Facility(a, wants) + 1500 * nearer + 1000 * budget + 500 * Freshness(a)
  <2>1. rawb \in Nat /\ rawa \in Nat /\ rawb <= rawa
    <3>1. /\ Facility(b, wants) \in Nat /\ Facility(a, wants) \in Nat
          /\ Freshness(b) \in Nat /\ Freshness(a) \in Nat
      BY <1>1
    <3> QED  BY <1>1, <3>1, MixGrows
  <2>2. Raw(b, wants, near, budget) = rawb \div 100 /\ Raw(a, wants, nearer, budget) = rawa \div 100
    BY DEF Raw
  <2> HIDE DEF rawa, rawb
  <2> QED  BY <2>1, <2>2
<1>3. /\ Known(b, wants) * confidence \in Nat /\ Known(a, wants) * confidence \in Nat
      /\ Known(b, wants) * confidence <= Known(a, wants) * confidence
  BY <1>1, ProductGrows
<1>4. /\ (Known(b, wants) * confidence) \div 100 \in Int /\ (Known(a, wants) * confidence) \div 100 \in Int
      /\ (Known(b, wants) * confidence) \div 100 <= (Known(a, wants) * confidence) \div 100
  BY <1>3, QuotientGrows
<1>5. /\ Sure(b, wants, confidence) \in Nat /\ Sure(a, wants, confidence) \in Nat
      /\ Sure(b, wants, confidence) <= Sure(a, wants, confidence)
  BY <1>4 DEF Sure, Clamp
<1> QED  BY <1>2, <1>5

LEMMA ScoreGrows ==
  ASSUME NEW wants, IsFiniteSet(wants), \A w \in wants : w.weight \in Nat, NEW confidence \in Nat,
         NEW a, NEW b, Measured(a), Measured(b), Outdoes(a, b, wants), a.age <= b.age,
         NEW near \in Nat, NEW nearer \in Nat, near <= nearer, NEW budget \in Nat
  PROVE  LET low == Final(Raw(b, wants, near, budget), Sure(b, wants, confidence))
             high == Final(Raw(a, wants, nearer, budget), Sure(a, wants, confidence))
         IN  low \in 0..99 /\ high \in 0..99 /\ low <= high
<1> DEFINE raw == Raw(b, wants, near, budget)
           more == Raw(a, wants, nearer, budget)
           sure == Sure(b, wants, confidence)
           surer == Sure(a, wants, confidence)
<1>1. /\ raw \in Nat /\ more \in Nat /\ raw <= more
      /\ sure \in Nat /\ surer \in Nat /\ sure <= surer
  BY RawGrows
<1> HIDE DEF raw, more, sure, surer
<1>2. Final(raw, sure) \in 0..99 /\ Final(more, surer) \in 0..99 /\ Final(raw, sure) <= Final(more, surer)
  BY <1>1, FinalGrows
<1> QED  BY <1>2 DEF raw, more, sure, surer

\* A cafe that is as good as another in all that counts does not score below it.
LEMMA BetterScores ==
  ASSUME NEW q, NEW u, NEW p, Weighed(p), NEW a, NEW b, Measured(a), Measured(b),
         Outdoes(a, b, p.hard \cup p.soft), a.age <= b.age,
         NEW near \in Nat, NEW nearer \in Nat, near <= nearer, NEW budget \in Nat,
         near = Near(q, u, b), nearer = Near(q, u, a),
         budget = BudgetFit(q.budget, a), budget = BudgetFit(q.budget, b)
  PROVE  /\ MatchScore(q, u, p, b) \in 0..99 /\ MatchScore(q, u, p, a) \in 0..99
         /\ MatchScore(q, u, p, b) <= MatchScore(q, u, p, a)
<1> DEFINE wants == p.hard \cup p.soft
           low == Final(Raw(b, wants, near, budget), Sure(b, wants, p.confidence))
           high == Final(Raw(a, wants, nearer, budget), Sure(a, wants, p.confidence))
<1>1. IsFiniteSet(wants) /\ (\A w \in wants : w.weight \in Nat) /\ p.confidence \in Nat
  BY FS_Union DEF Weighed
<1>2. MatchScore(q, u, p, a) = high /\ MatchScore(q, u, p, b) = low
  BY MatchScoreForm
<1>3. low \in 0..99 /\ high \in 0..99 /\ low <= high
  BY <1>1, ScoreGrows
<1> QED  BY <1>2, <1>3

-----------------------------------------------------------------------------
(***************************************************************************)
(* The numbers of an interpretation and of a cafe.                         *)
(***************************************************************************)
LEMMA JoinedFinite ==
  ASSUME NEW S, NEW T, IsFiniteSet(S), IsFiniteSet(T)
  PROVE  IsFiniteSet(S \cup T)
BY FS_Union, Zenon

LEMMA OneFinite ==
  ASSUME NEW x
  PROVE  IsFiniteSet({x})
BY FS_Singleton, Zenon

LEMMA PairFinite ==
  ASSUME NEW a, NEW b
  PROVE  IsFiniteSet({a, b})
<1>1. IsFiniteSet({a} \cup {b})
  BY OneFinite, JoinedFinite
<1>2. {a, b} = {a} \cup {b}
  OBVIOUS
<1> QED  BY <1>1, <1>2, Zenon

LEMMA TripleFinite ==
  ASSUME NEW a, NEW b, NEW c
  PROVE  IsFiniteSet({a, b, c})
<1>1. IsFiniteSet({a, b} \cup {c})
  BY PairFinite, OneFinite, JoinedFinite
<1>2. {a, b, c} = {a, b} \cup {c}
  OBVIOUS
<1> QED  BY <1>1, <1>2, Zenon

LEMMA DimensionsAreFinite == IsFiniteSet(Dimensions)
<1>1. ASSUME NEW a, NEW b, NEW c, NEW d, NEW e PROVE IsFiniteSet({a, b, c, d, e})
  <2>1. IsFiniteSet({a, b} \cup {c, d, e})
    BY PairFinite, TripleFinite, JoinedFinite
  <2>2. {a, b, c, d, e} = {a, b} \cup {c, d, e}
    OBVIOUS
  <2> QED  BY <2>1, <2>2, Zenon
<1> QED  BY <1>1, TripleFinite, JoinedFinite DEF Dimensions

\* Finitely many dimensions make finitely many wants.
Wants(S, f) == {Want(k, f[k]) : k \in S}

LEMMA Wanted ==
  ASSUME NEW S, S \subseteq Dimensions, NEW f, \A k \in S : f[k] \in Nat
  PROVE  IsFiniteSet(Wants(S, f)) /\ \A w \in Wants(S, f) : w.weight \in Nat
<1> DEFINE T == Wants(S, f)
           g == [k \in S |-> Want(k, f[k])]
<1>1. IsFiniteSet(S)
  BY DimensionsAreFinite, FS_Subset
<1>2. g \in Surjection(S, T)
  <2>1. g \in [S -> T] /\ \A t \in T : \E k \in S : g[k] = t
    BY DEF Wants
  <2> HIDE DEF g, T
  <2> QED  BY <2>1 DEF Surjection
<1>3. \A k \in S : Want(k, f[k]).weight \in Nat
  BY DEF Want
<1>4. \A w \in T : w.weight \in Nat
  BY <1>3 DEF Wants
<1> HIDE DEF T, g
<1>5. IsFiniteSet(T)
  BY <1>1, <1>2, FS_Surjection, Zenon
<1> QED  BY <1>4, <1>5 DEF T

LEMMA JevWeighed ==
  ASSUME NEW a \in Answers, Usable(a) # {}
  PROVE  Weighed(Jev(a))
<1> DEFINE weight == [k \in Usable(a) |-> Weight(a[k])]
           sureness == [k \in Usable(a) |-> a[k].confidence]
           hard == {k \in Usable(a) \cap HardFilter : a[k].score >= 350 /\ a[k].confidence >= 82}
<1>1. Usable(a) \subseteq Dimensions /\ \A k \in Usable(a) : a[k].score \in Nat /\ a[k].confidence \in Nat
  BY SearchAssumption DEF Usable
<1>2. IsFiniteSet(Usable(a)) /\ Cardinality(Usable(a)) \in Nat /\ Cardinality(Usable(a)) > 0
  <2>1. IsFiniteSet(Usable(a))
    BY <1>1, DimensionsAreFinite, FS_Subset
  <2>2. Cardinality(Usable(a)) # 0 /\ Cardinality(Usable(a)) \in Nat
    BY <2>1, FS_EmptySet, FS_CardinalityType
  <2> QED  BY <2>1, <2>2
<1>3. \A k \in Usable(a) : weight[k] \in Nat
  BY <1>1 DEF Weight
<1>4. SumFunction(sureness) \in Nat
  <2>1. sureness \in [Usable(a) -> Nat] /\ \A k \in Usable(a) : sureness[k] <= sureness[k]
    BY <1>1
  <2> HIDE DEF sureness
  <2> QED  BY <1>2, <2>1, SumGrows
<1>5. SumFunction(sureness) \div Cardinality(Usable(a)) \in Nat
  <2> HIDE DEF sureness
  <2> QED  BY <1>2, <1>4, QuotientType
<1>6. /\ Jev(a).hard = Wants(hard, weight)
      /\ Jev(a).soft = Wants(Usable(a) \ hard, weight)
      /\ Jev(a).confidence = SumFunction(sureness) \div Cardinality(Usable(a))
  BY DEF Jev, Wants
<1>7. hard \subseteq Usable(a)
  OBVIOUS
<1> HIDE DEF weight, hard, sureness
<1>8. hard \subseteq Dimensions /\ Usable(a) \ hard \subseteq Dimensions
  BY <1>1, <1>7
<1>9. (\A k \in hard : weight[k] \in Nat) /\ (\A k \in Usable(a) \ hard : weight[k] \in Nat)
  BY <1>3, <1>7
<1>10. IsFiniteSet(Wants(hard, weight)) /\ \A w \in Wants(hard, weight) : w.weight \in Nat
  BY <1>8, <1>9, Wanted
<1>11. /\ IsFiniteSet(Wants(Usable(a) \ hard, weight))
       /\ \A w \in Wants(Usable(a) \ hard, weight) : w.weight \in Nat
  BY <1>8, <1>9, Wanted
<1> QED  BY <1>5, <1>6, <1>10, <1>11 DEF Weighed

LEMMA DeterministicWeighed ==
  ASSUME NEW q \in Queries
  PROVE  Weighed(Deterministic(q))
<1> DEFINE weight == [k \in Dimensions |-> AliasWeight(k)]
           hard == {k \in q.mentions \cap HardFilter : k = "open_24h" \/ k \in q.must}
<1>1. \A k \in Dimensions : AliasWeight(k) \in Nat
  BY DEF Dimensions, AliasWeight
<1>2. q.mentions \subseteq Dimensions
  BY SearchAssumption
<1>3. CASE q.mentions = {}
  <2>1. /\ Deterministic(q).hard = {} /\ Deterministic(q).soft = {Want("wfc", 84), Want("quiet", 50)}
        /\ Deterministic(q).confidence = 70
    BY <1>3 DEF Deterministic
  <2>3. IsFiniteSet({Want("wfc", 84), Want("quiet", 50)})
    BY PairFinite
  <2>4. Want("wfc", 84).weight \in Nat /\ Want("quiet", 50).weight \in Nat
    BY DEF Want
  <2> QED  BY <2>1, <2>3, <2>4, FS_EmptySet DEF Weighed
<1>4. CASE q.mentions # {}
  <2>1. /\ Deterministic(q).hard = {Want(k, AliasWeight(k)) : k \in hard}
        /\ Deterministic(q).soft = {Want(k, AliasWeight(k)) : k \in q.mentions \ hard}
        /\ Deterministic(q).confidence = 92
    BY <1>4 DEF Deterministic
  <2>2. hard \subseteq Dimensions /\ q.mentions \ hard \subseteq Dimensions
    BY <1>2
  <2> HIDE DEF hard
  <2>3. /\ {Want(k, AliasWeight(k)) : k \in hard} = Wants(hard, weight)
        /\ {Want(k, AliasWeight(k)) : k \in q.mentions \ hard} = Wants(q.mentions \ hard, weight)
    BY <2>2 DEF Wants
  <2>4. (\A k \in hard : weight[k] \in Nat) /\ (\A k \in q.mentions \ hard : weight[k] \in Nat)
    BY <1>1, <2>2
  <2> HIDE DEF weight
  <2>5. IsFiniteSet(Wants(hard, weight)) /\ \A w \in Wants(hard, weight) : w.weight \in Nat
    BY <2>2, <2>4, Wanted
  <2>6. /\ IsFiniteSet(Wants(q.mentions \ hard, weight))
        /\ \A w \in Wants(q.mentions \ hard, weight) : w.weight \in Nat
    BY <2>2, <2>4, Wanted
  <2>7. /\ Deterministic(q).hard = Wants(hard, weight)
        /\ Deterministic(q).soft = Wants(q.mentions \ hard, weight)
    BY <2>1, <2>3, Zenon
  <2>8. IsFiniteSet(Deterministic(q).hard) /\ IsFiniteSet(Deterministic(q).soft)
    BY <2>5, <2>6, <2>7, Zenon
  <2>9. \A w \in Deterministic(q).hard \cup Deterministic(q).soft : w.weight \in Nat
    BY <2>5, <2>6, <2>7
  <2> QED  BY <2>1, <2>8, <2>9 DEF Weighed
<1> QED  BY <1>3, <1>4

LEMMA EnforcedWeighed ==
  ASSUME NEW q, NEW hard, NEW soft, NEW confidence,
         Weighed([hard |-> hard, soft |-> soft, confidence |-> confidence])
  PROVE  Weighed(EnforceConstraints(q, [hard |-> hard, soft |-> soft, confidence |-> confidence]))
<1> DEFINE p == [hard |-> hard, soft |-> soft, confidence |-> confidence]
           e == EnforceConstraints(q, p)
           others(wants) == {w \in wants : w.key \notin {"open_24h", "late"}}
<1>1. IsFiniteSet(hard) /\ IsFiniteSet(soft) /\ (\A w \in hard \cup soft : w.weight \in Nat) /\ confidence \in Nat
  BY DEF Weighed
<1>2. CASE q.says24
  <2>1. /\ e.hard = others(hard) \cup {Want("open_24h", 100)} /\ e.soft = others(soft)
        /\ e.confidence = confidence
    BY <1>2 DEF EnforceConstraints
  <2>2. IsFiniteSet(others(hard)) /\ IsFiniteSet(others(soft))
    BY <1>1, FS_Subset
  <2>3. Want("open_24h", 100).weight \in Nat
    BY DEF Want
  <2>4. others(hard) \subseteq hard /\ others(soft) \subseteq soft
    OBVIOUS
  <2> HIDE DEF others, e
  <2>5. IsFiniteSet(others(hard) \cup {Want("open_24h", 100)})
    BY <2>2, OneFinite, JoinedFinite, Zenon
  <2>6. IsFiniteSet(e.hard) /\ IsFiniteSet(e.soft)
    BY <2>1, <2>2, <2>5, Zenon
  <2>7. \A w \in e.hard \cup e.soft : w.weight \in Nat
    BY <1>1, <2>1, <2>3, <2>4
  <2> QED  BY <1>1, <2>1, <2>6, <2>7 DEF Weighed, e
<1>3. CASE ~q.says24
  BY <1>1, <1>3 DEF EnforceConstraints, Weighed
<1> QED  BY <1>2, <1>3

LEMMA RecordNumbers ==
  ASSUME NEW r \in Records
  PROVE  /\ r.name \in Nat /\ r.age \in Nat
         /\ \A f \in r.fields : f.confidence \in Nat
         /\ Price(r, "Minimum price") \in Nat /\ Price(r, "Maximum price") \in Nat
<1>1. /\ r.name \in Nat /\ r.age \in Nat
      /\ \A f \in r.fields : f.confidence \in 0..100
      /\ Price(r, "Minimum price") \in Nat /\ Price(r, "Maximum price") \in Nat
  BY RecordsAssumption, Zenon
<1>2. 0..100 \subseteq Nat
  OBVIOUS
<1>3. \A f \in r.fields : f.confidence \in Nat
  BY <1>1, <1>2, Zenon
<1> QED  BY <1>1, <1>3

LEMMA ConfidenceInType ==
  ASSUME NEW r \in Records, NEW k, NEW n \in Nat
  PROVE  ConfidenceIn(r, k, n) \in Nat
<1>1. CASE Surest(r, k) = {}
  BY <1>1 DEF ConfidenceIn
<1>2. CASE Surest(r, k) # {}
  <2> DEFINE f == CHOOSE f \in Surest(r, k) : TRUE
  <2>1. f \in r.fields
    BY <1>2 DEF Surest
  <2>2. f.confidence \in Nat
    BY <2>1, RecordNumbers
  <2>3. ConfidenceIn(r, k, n) = f.confidence
    BY <1>2 DEF ConfidenceIn
  <2> QED  BY <2>2, <2>3
<1> QED  BY <1>1, <1>2

LEMMA FactEvidenceType ==
  ASSUME NEW r \in Records, NEW x \in DOMAIN FactEvidence(r)
  PROVE  FactEvidence(r)[x] \in Nat
<1> DEFINE known == {k \in DOMAIN FactKeys : Says(r, k, "yes") \/ Says(r, k, "no")}
           of(f) == \E k \in known : FactKeys[k] = x /\ f \in Surest(r, k)
           f == CHOOSE f \in r.fields : of(f)
<1>1. FactEvidence(r) = [y \in {FactKeys[k] : k \in known} |->
        (CHOOSE g \in r.fields : \E k \in known : FactKeys[k] = y /\ g \in Surest(r, k)).confidence]
  BY DEF FactEvidence
<1>2. PICK k \in known : FactKeys[k] = x
  BY <1>1
<1>3. FactEvidence(r)[x] = f.confidence
  BY <1>1, <1>2
<1>4. \E g \in r.fields : of(g)
  BY <1>2 DEF Says, Surest
<1> HIDE DEF of
<1>5. f \in r.fields
  BY <1>4
<1>6. f.confidence \in Nat
  BY <1>5, RecordNumbers
<1> QED  BY <1>3, <1>6

LEMMA SignalType ==
  ASSUME NEW r, NEW keys
  PROVE  Signal(r, keys) \in Nat
BY DEF Signal

LEMMA AverageType ==
  ASSUME NEW x \in Nat, NEW y \in Nat, NEW z \in Nat
  PROVE  (x + y + z) \div 3 \in Nat
OBVIOUS

LEMMA WorkScoreType ==
  ASSUME NEW r
  PROVE  WorkScore(r) \in Nat
<1> DEFINE s == (Signal(r, {"Quietness"}) + WifiSignal(r) + Signal(r, {"Seating comfort", "Table size"})) \div 3
           wifi == Signal(r, {"Wi-Fi quality"})
<1>1. wifi \in Nat
  BY SignalType, Zenon
<1>2. WifiSignal(r) = IF "wifi" \in FactsOf(r) /\ wifi < 65 THEN 65
                      ELSE IF "wifi" \notin FactsOf(r) /\ wifi = 50 THEN 35 ELSE wifi
  BY Zenon DEF WifiSignal
<1>3. WorkScore(r) = IF "outlets" \in FactsOf(r) THEN (3 * s + 100) \div 4 ELSE s
  BY Zenon DEF WorkScore
<1> HIDE DEF wifi
<1>4. WifiSignal(r) \in Nat
  BY <1>1, <1>2
<1>5. Signal(r, {"Quietness"}) \in Nat /\ Signal(r, {"Seating comfort", "Table size"}) \in Nat
  BY SignalType, Zenon
<1>6. s \in Nat
  BY <1>4, <1>5, AverageType, Zenon
<1> HIDE DEF s
<1> QED  BY <1>3, <1>6

LEMMA WorkConfidenceType ==
  ASSUME NEW r \in Records
  PROVE  WorkConfidence(r) \in Nat
<1> DEFINE known == {k \in {"Quietness", "Wi-Fi quality", "Seating comfort", "Power outlets"} : Surest(r, k) # {}}
           each == [k \in known |-> ConfidenceIn(r, k, 0)]
<1>1. WorkConfidence(r) = IF known = {} THEN 55 ELSE SumFunction(each) \div Cardinality(known)
  BY DEF WorkConfidence
<1>2. each \in [known -> Nat] /\ \A k \in known : each[k] <= each[k]
  <2>1. \A k \in known : ConfidenceIn(r, k, 0) \in Nat
    BY ConfidenceInType
  <2> HIDE DEF known
  <2> QED  BY <2>1
<1>3. IsFiniteSet(known)
  <2>1. IsFiniteSet({"Quietness", "Wi-Fi quality"} \cup {"Seating comfort", "Power outlets"})
    BY PairFinite, JoinedFinite
  <2>2. known \subseteq {"Quietness", "Wi-Fi quality"} \cup {"Seating comfort", "Power outlets"}
    OBVIOUS
  <2> HIDE DEF known
  <2> QED  BY <2>1, <2>2, FS_Subset
<1> HIDE DEF known, each
<1>4. SumFunction(each) \in Nat
  BY <1>2, <1>3, SumGrows
<1>5. known # {} => Cardinality(known) \in Nat /\ Cardinality(known) > 0
  <2>1. Cardinality(known) \in Nat /\ (known # {} => Cardinality(known) # 0)
    BY <1>3, FS_CardinalityType, FS_EmptySet
  <2> QED  BY <2>1
<1> QED  BY <1>1, <1>4, <1>5, QuotientType

LEMMA ScoresType ==
  ASSUME NEW r \in Records, NEW k \in DOMAIN ScoresOf(r)
  PROVE  ScoresOf(r)[k] \in Nat
<1> DEFINE quiet == Signal(r, {"Quietness"})
<1>1. ScoresOf(r)[k] = CASE k = "quiet" -> quiet [] k = "wfc" -> WorkScore(r)
                         [] k = "late" -> IF OpenLate(r) THEN 90 ELSE 100 [] OTHER -> 100
  BY DEF ScoresOf
<1>2. quiet \in Nat
  BY SignalType, Zenon
<1> HIDE DEF quiet
<1> QED  BY <1>1, <1>2, WorkScoreType

LEMMA ScoreEvidenceType ==
  ASSUME NEW r \in Records, NEW k \in DOMAIN ScoreEvidence(r)
  PROVE  ScoreEvidence(r)[k] \in Nat
<1> DEFINE quiet == ConfidenceIn(r, "Quietness", 55)
           hours == ConfidenceIn(r, "Opening hours", 0)
<1>1. ScoreEvidence(r)[k] = CASE k = "quiet" -> quiet [] k = "wfc" -> WorkConfidence(r)
                              [] k = "late" -> IF OpenLate(r) THEN hours ELSE 95 [] OTHER -> 95
  BY Zenon DEF ScoreEvidence
<1>2. 55 \in Nat /\ 0 \in Nat
  OBVIOUS
<1>3. quiet \in Nat /\ hours \in Nat
  BY <1>2, ConfidenceInType, Zenon
<1> HIDE DEF quiet, hours
<1> QED  BY <1>1, <1>3, WorkConfidenceType

\* The cafe that the pieces make has numbers that can be ranked.
LEMMA CafeMeasured ==
  ASSUME NEW c \in Read
  PROVE  /\ Measured(Cafe(c))
         /\ Cafe(c).point = c.row.point /\ Cafe(c).area = c.row.area /\ c.row \in Records
         /\ Cafe(c).priceMin \in {0} \cup {Price(r, "Minimum price") : r \in Records}
<1>1. /\ c.row \in Records /\ c.facts \in Records \cup {None}
      /\ c.scores \in Records \cup {None} /\ c.menus \in Records \cup {None}
  BY DEF Read
<1> DEFINE known == IF c.facts = None THEN Empty ELSE FactEvidence(c.facts)
           scores == IF c.scores = None THEN Empty ELSE ScoresOf(c.scores)
           shown == IF c.scores = None THEN Empty ELSE ScoreEvidence(c.scores)
           matcha == IF c.menus # None /\ SellsMatcha(c.menus) THEN {"matcha"} ELSE {}
           low == IF c.facts = None THEN 0 ELSE Price(c.facts, "Minimum price")
           high == IF c.facts = None THEN 0 ELSE Price(c.facts, "Maximum price")
<1>2. /\ Cafe(c).age = c.row.age /\ Cafe(c).point = c.row.point /\ Cafe(c).area = c.row.area
      /\ Cafe(c).scores = scores
      /\ Cafe(c).evidence = [k \in DOMAIN known \cup DOMAIN shown \cup matcha |->
                               IF k \in matcha THEN 80 ELSE IF k \in DOMAIN shown THEN shown[k] ELSE known[k]]
      /\ Cafe(c).priceMin = low
      /\ Cafe(c).priceMax = high
  BY Zenon DEF Cafe
<1>3. \A k \in DOMAIN known : known[k] \in Nat
  BY <1>1, FactEvidenceType DEF Empty
<1>4. \A k \in DOMAIN scores : scores[k] \in Nat
  BY <1>1, ScoresType DEF Empty
<1>5. \A k \in DOMAIN shown : shown[k] \in Nat
  BY <1>1, ScoreEvidenceType DEF Empty
<1>6. c.row.age \in Nat
  BY <1>1, RecordNumbers
<1>7. low \in Nat /\ high \in Nat
  <2>1. c.facts # None => Price(c.facts, "Minimum price") \in Nat /\ Price(c.facts, "Maximum price") \in Nat
    BY <1>1, RecordNumbers, Zenon
  <2>2. 0 \in Nat
    OBVIOUS
  <2> QED  BY <2>1, <2>2, Zenon
<1>8. low \in {0} \cup {Price(r, "Minimum price") : r \in Records}
  BY <1>1, Zenon
<1> HIDE DEF known, scores, shown, matcha, low, high
<1>9. \A k \in DOMAIN Cafe(c).evidence : Cafe(c).evidence[k] \in Nat
  BY <1>2, <1>3, <1>5
<1>10. \A k \in DOMAIN Cafe(c).scores : Cafe(c).scores[k] \in Nat
  BY <1>2, <1>4
<1>11. Measured(Cafe(c))
  BY <1>2, <1>6, <1>7, <1>9, <1>10 DEF Measured
<1> QED  BY <1>1, <1>2, <1>8, <1>11, Zenon

\* Where a search measures from.
Stands == (UNION Users) \cup {Jakarta} \cup {CentreOf[s] : s \in Scopes}

LEMMA FromStands ==
  ASSUME NEW q, NEW u \in Users
  PROVE  From(q, u) \in Stands
<1>1. CASE u # {}
  <2>1. From(q, u) \in u
    BY <1>1 DEF From
  <2> QED  BY <2>1 DEF Stands
<1>2. CASE u = {}
  BY <1>2 DEF From, LocationMode, Stands
<1> QED  BY <1>1, <1>2

LEMMA NearType ==
  ASSUME NEW q, NEW u \in Users, NEW a, NEW r \in Records, a.point = r.point
  PROVE  Near(q, u, a) \in Nat
<1> DEFINE d == Distance[From(q, u), a.point]
<1>1. Distance[From(q, u), r.point] \in DOMAIN DistanceFit
  BY FromStands, RecordsAssumption, Zenon DEF Stands
<1>2. d \in DOMAIN DistanceFit
  BY <1>1, Zenon
<1>3. Near(q, u, a) = DistanceFit[d]
  BY Zenon DEF Near
<1> HIDE DEF d
<1> QED  BY <1>2, <1>3, FitAssumption

LEMMA NearerFits ==
  ASSUME NEW q, NEW u \in Users, NEW a, NEW b, NEW r \in Records, a.point = r.point,
         NEW s \in Records, b.point = s.point,
         Distance[From(q, u), a.point] <= Distance[From(q, u), b.point]
  PROVE  Near(q, u, b) <= Near(q, u, a)
<1> DEFINE d == Distance[From(q, u), a.point]
           e == Distance[From(q, u), b.point]
<1>1. /\ Distance[From(q, u), r.point] \in DOMAIN DistanceFit
      /\ Distance[From(q, u), s.point] \in DOMAIN DistanceFit
  BY FromStands, RecordsAssumption, Zenon DEF Stands
<1>2. d \in DOMAIN DistanceFit /\ e \in DOMAIN DistanceFit /\ d <= e
  BY <1>1, Zenon
<1>3. Near(q, u, a) = DistanceFit[d] /\ Near(q, u, b) = DistanceFit[e]
  BY Zenon DEF Near
<1>4. DistanceFit[e] <= DistanceFit[d]
  BY <1>2, FitAssumption, Zenon
<1> QED  BY <1>3, <1>4, Zenon

LEMMA BudgetFitType ==
  ASSUME NEW q \in Queries, NEW c \in Read
  PROVE  BudgetFit(q.budget, Cafe(c)) \in Nat
<1> DEFINE a == Cafe(c)
           Prices == {Price(r, "Minimum price") : r \in Records}
<1>1. /\ a.priceMin \in Nat /\ a.priceMax \in Nat /\ q.budget \in Nat
  BY CafeMeasured, SearchAssumption DEF Measured
<1>2. a.priceMin \in {0} \cup Prices
  BY CafeMeasured, Zenon
<1>3. \A price \in Prices : q.budget > 0 /\ price - q.budget > 0 => price - q.budget \in DOMAIN OverBudgetFit
  BY RecordsAssumption, Zenon
<1> HIDE DEF Prices, a
<1>4. CASE q.budget = 0
  BY <1>4 DEF BudgetFit, a
<1>5. CASE q.budget # 0 /\ a.priceMin <= q.budget
  <2> DEFINE over == (100 * (a.priceMax - q.budget)) \div (IF q.budget < 15 THEN 15 ELSE q.budget)
  <2>1. BudgetFit(q.budget, a) = 100 - Clamp(over, 0, 35)
    BY <1>5 DEF BudgetFit
  <2>2. over \in Int
    BY <1>1, <1>5
  <2> HIDE DEF over
  <2>3. 100 - Clamp(over, 0, 35) \in Nat
    BY <2>2 DEF Clamp
  <2> QED  BY <2>1, <2>3 DEF a
<1>6. CASE q.budget # 0 /\ ~(a.priceMin <= q.budget)
  <2>1. BudgetFit(q.budget, a) = OverBudgetFit[a.priceMin - q.budget]
    BY <1>6 DEF BudgetFit
  <2>2. q.budget > 0 /\ a.priceMin - q.budget > 0 /\ a.priceMin # 0
    BY <1>1, <1>6
  <2>3. a.priceMin - q.budget \in DOMAIN OverBudgetFit
    BY <1>2, <1>3, <2>2
  <2>4. OverBudgetFit[a.priceMin - q.budget] \in Nat
    BY <2>3, FitAssumption
  <2> QED  BY <2>1, <2>4 DEF a
<1> QED  BY <1>4, <1>5, <1>6

\* The score of what was read is a percentage, whatever was read of the cafe.
LEMMA ScoreType ==
  ASSUME NEW q \in Queries, NEW u \in Users, NEW p, Weighed(p), NEW c \in Read
  PROVE  MatchScore(q, u, p, Cafe(c)) \in 0..99
<1> DEFINE a == Cafe(c)
           near == Near(q, u, a)
           budget == BudgetFit(q.budget, a)
<1>1. Measured(a) /\ a.point = c.row.point /\ c.row \in Records
  BY CafeMeasured
<1> HIDE DEF a
<1>2. near \in Nat
  BY <1>1, NearType
<1>3. budget \in Nat
  BY BudgetFitType DEF a
<1>4. near <= near /\ a.age <= a.age
  BY <1>1, <1>2 DEF Measured
<1>5. Outdoes(a, a, p.hard \cup p.soft)
  BY <1>1, ScoreOfType DEF Outdoes
<1> HIDE DEF near, budget
<1>6. near = Near(q, u, a) /\ budget = BudgetFit(q.budget, a)
  BY DEF near, budget
<1>7. MatchScore(q, u, p, a) \in 0..99
  BY <1>1, <1>2, <1>3, <1>4, <1>5, <1>6, BetterScores
<1> QED  BY <1>7 DEF a

-----------------------------------------------------------------------------
(***************************************************************************)
(* RInv: what was read can be ranked, and the answer is its ranking.       *)
(***************************************************************************)
\* Rows are numbered as they are inserted, and a place has one at most.
Numbered ==
    /\ inserted \in Nat
    /\ DOMAIN published \subseteq 1..inserted /\ DOMAIN cafes \subseteq 1..inserted

OneRowEach ==
    /\ \A i, j \in DOMAIN published : published[i].place = published[j].place => i = j
    /\ \A i, j \in DOMAIN cafes : cafes[i].row.place = cafes[j].row.place => i = j

Asked ==
    phase # "idle" => /\ request.query \in Queries /\ request.user \in Users
                      /\ request.limit \in Nat /\ request.limit <= MaxLimit

Understood == phase \notin {"idle", "interpret"} => Weighed(profile)

\* No piece is missing of a cafe that is still there: row numbers are never used again.
Loaded ==
    \A id \in DOMAIN cafes \cap DOMAIN published :
        /\ phase \in {"scores", "menus", "answer"} => cafes[id].facts # None
        /\ phase \in {"menus", "answer"} => cafes[id].scores # None
        /\ phase = "answer" => cafes[id].menus # None

Answered == results = IF phase = "answer" THEN Ranked(cafes) ELSE Empty

RInv == Numbered /\ OneRowEach /\ Asked /\ Understood /\ Loaded /\ Answered

\* The administrators change neither the search nor what it read.
LEMMA CataloguePreserves ==
  ASSUME RInv, inserted' \in Nat, inserted <= inserted', DOMAIN published' \subseteq 1..inserted',
         \A i, j \in DOMAIN published' : published'[i].place = published'[j].place => i = j,
         \A id \in DOMAIN published' : id \in DOMAIN published \/ id \notin 1..inserted,
         UNCHANGED <<phase, request, profile, cafes, results>>
  PROVE  RInv'
<1>1. Numbered'
  BY DEF RInv, Numbered
<1>2. OneRowEach'
  BY DEF RInv, OneRowEach
<1>3. Loaded'
  <2>1. ASSUME NEW id \in DOMAIN cafes, id \in DOMAIN published' PROVE id \in DOMAIN published
    BY <2>1 DEF RInv, Numbered
  <2> QED  BY <2>1 DEF RInv, Loaded
<1>4. Asked' /\ Understood'
  BY DEF RInv, Asked, Understood
<1>5. (Ranked(cafes))' = Ranked(cafes)
  BY DEF Ranked, Shown, Eligible, Above, ScoreFor
<1>6. Answered'
  BY <1>5 DEF RInv, Answered
<1> QED  BY <1>1, <1>2, <1>3, <1>4, <1>6 DEF RInv

LEMMA PublishKeepsRanking ==
  ASSUME RInv, NEW r \in Records, Publish(r)
  PROVE  RInv'
<1>0. inserted \in Nat /\ DOMAIN published \subseteq 1..inserted
  BY DEF RInv, Numbered
<1>1. \A i, j \in DOMAIN published : published[i].place = published[j].place => i = j
  BY DEF RInv, OneRowEach
<1>2. UNCHANGED <<phase, request, profile, cafes, results>>
  BY DEF Publish
<1>3. CASE \E id \in RowOf(r.place) : published' = [published EXCEPT ![id] = r] /\ inserted' = inserted
  <2>1. PICK id \in RowOf(r.place) : published' = [published EXCEPT ![id] = r] /\ inserted' = inserted
    BY <1>3
  <2>2. id \in DOMAIN published /\ published[id].place = r.place
    BY DEF RowOf
  <2>3. DOMAIN published' = DOMAIN published /\ \A i \in DOMAIN published : published'[i].place = published[i].place
    BY <2>1, <2>2
  <2>4. \A i, j \in DOMAIN published' : published'[i].place = published'[j].place => i = j
    BY <1>1, <2>3
  <2> QED  BY <1>0, <1>2, <2>1, <2>3, <2>4, CataloguePreserves
<1>4. CASE /\ RowOf(r.place) = {} /\ inserted' = inserted + 1
           /\ published' = [id \in (DOMAIN published) \cup {inserted'} |-> IF id = inserted' THEN r ELSE published[id]]
  <2>1. \A i \in DOMAIN published : published[i].place # r.place
    BY <1>4 DEF RowOf
  <2>2. /\ inserted' \in Nat /\ inserted <= inserted' /\ inserted' \notin 1..inserted
        /\ DOMAIN published' = DOMAIN published \cup {inserted'}
    BY <1>0, <1>4
  <2>3. DOMAIN published' \subseteq 1..inserted'
    BY <1>0, <1>4, <2>2
  <2>4. \A i, j \in DOMAIN published' : published'[i].place = published'[j].place => i = j
    BY <1>0, <1>1, <1>4, <2>1, <2>2
  <2>5. \A id \in DOMAIN published' : id \in DOMAIN published \/ id \notin 1..inserted
    BY <2>2
  <2> QED  BY <1>2, <2>2, <2>3, <2>4, <2>5, CataloguePreserves
<1> QED  BY <1>3, <1>4 DEF Publish

LEMMA RemoveKeepsRanking ==
  ASSUME RInv, NEW p \in Places, Remove(p)
  PROVE  RInv'
<1>1. /\ UNCHANGED <<inserted, phase, request, profile, cafes, results>>
      /\ DOMAIN published' \subseteq DOMAIN published
      /\ \A id \in DOMAIN published' : published'[id] = published[id]
  BY DEF Remove
<1>2. inserted' \in Nat /\ inserted <= inserted' /\ DOMAIN published' \subseteq 1..inserted'
  BY <1>1 DEF RInv, Numbered
<1>3. \A i, j \in DOMAIN published' : published'[i].place = published'[j].place => i = j
  BY <1>1 DEF RInv, OneRowEach
<1>4. \A id \in DOMAIN published' : id \in DOMAIN published \/ id \notin 1..inserted
  BY <1>1
<1> QED  BY <1>1, <1>2, <1>3, <1>4, CataloguePreserves

LEMMA ReceiveKeepsRanking ==
  ASSUME IInv, RInv, Receive
  PROVE  RInv'
<1>1. /\ phase = "idle" /\ phase' = "interpret"
      /\ UNCHANGED <<published, inserted, profile, cafes, results>>
  BY DEF Receive
<1>2. PICK q \in Queries, user \in Users, limit \in Limits :
        /\ limit \in {0} \cup MinLimit..MaxLimit
        /\ request' = [query |-> q, user |-> user, limit |-> IF limit = 0 THEN DefaultLimit ELSE limit]
  BY DEF Receive, Accepted
<1>3. Asked'
  <2>1. MinLimit \in Nat /\ MaxLimit \in Nat /\ DefaultLimit \in MinLimit..MaxLimit
    BY SearchAssumption, Zenon
  <2>2. request'.query \in Queries /\ request'.user \in Users
    BY <1>2
  <2>3. request'.limit \in Nat /\ request'.limit <= MaxLimit
    BY <1>2, <2>1
  <2> QED  BY <1>1, <2>2, <2>3 DEF Asked
<1>4. Numbered' /\ OneRowEach' /\ Understood'
  BY <1>1 DEF RInv, Numbered, OneRowEach, Understood
<1>5. Loaded' /\ Answered'
  BY <1>1 DEF IInv, Qualified, RInv, Loaded, Answered
<1> QED  BY <1>3, <1>4, <1>5 DEF RInv

LEMMA InterpretKeepsRanking ==
  ASSUME IInv, RInv, NEW p, Weighed(p), Interpreted(p),
         NEW hard, NEW soft, NEW confidence, p = [hard |-> hard, soft |-> soft, confidence |-> confidence]
  PROVE  RInv'
<1>1. /\ phase = "interpret" /\ phase' = "places"
      /\ profile' = EnforceConstraints(request.query, p)
      /\ UNCHANGED <<published, inserted, request, cafes, results>>
  BY DEF Interpreted
<1>2. Weighed(EnforceConstraints(request.query, p))
  BY EnforcedWeighed
<1>3. Understood'
  <2>1. Weighed(profile')
    BY <1>1, <1>2, Zenon
  <2>2. (Weighed(profile))'
    BY <2>1 DEF Weighed
  <2> QED  BY <2>2 DEF Understood
<1>4. Numbered' /\ OneRowEach' /\ Asked'
  BY <1>1 DEF RInv, Numbered, OneRowEach, Asked
<1>5. Loaded' /\ Answered'
  BY <1>1 DEF IInv, Qualified, RInv, Loaded, Answered
<1> QED  BY <1>3, <1>4, <1>5 DEF RInv

LEMMA InterpretersKeepRanking ==
  ASSUME IInv, RInv, InterpretWithJev \/ InterpretLocally
  PROVE  RInv'
<1>1. CASE InterpretWithJev
  <2>1. PICK a \in Answers : Usable(a) # {} /\ Interpreted(Jev(a))
    BY <1>1 DEF InterpretWithJev
  <2>2. Weighed(Jev(a))
    BY <2>1, JevWeighed
  <2>3. PICK hard, soft, confidence : Jev(a) = [hard |-> hard, soft |-> soft, confidence |-> confidence]
    BY JevForm
  <2> QED  BY <2>1, <2>2, <2>3, InterpretKeepsRanking
<1>2. CASE InterpretLocally
  <2>1. Interpreted(Deterministic(request.query))
    BY <1>2 DEF InterpretLocally
  <2>2. request.query \in Queries
    BY <2>1 DEF Interpreted, RInv, Asked
  <2>3. Weighed(Deterministic(request.query))
    BY <2>2, DeterministicWeighed
  <2>4. PICK hard, soft, confidence :
           Deterministic(request.query) = [hard |-> hard, soft |-> soft, confidence |-> confidence]
    BY DeterministicForm
  <2> QED  BY <2>1, <2>3, <2>4, InterpretKeepsRanking
<1> QED  BY <1>1, <1>2

\* A statement that keeps the rows and leaves no published cafe without its piece.
LEMMA ReadingKeepsRanking ==
  ASSUME RInv, NEW from \in {"places", "facts", "scores", "menus"},
         NEW to \in {"facts", "scores", "menus", "answer"}, NEW cs, Reading(from, to, cs),
         DOMAIN cs \subseteq 1..inserted,
         \A i, j \in DOMAIN cs : cs[i].row.place = cs[j].row.place => i = j,
         \A id \in DOMAIN cs \cap DOMAIN published :
            /\ to \in {"scores", "menus", "answer"} => cs[id].facts # None
            /\ to \in {"menus", "answer"} => cs[id].scores # None
            /\ to = "answer" => cs[id].menus # None
  PROVE  RInv'
<1>1. /\ phase = from /\ phase' = to /\ cafes' = cs
      /\ results' = IF to = "answer" THEN Ranked(cs) ELSE Empty
      /\ UNCHANGED <<published, inserted, request, profile, held>>
  BY DEF Reading
<1>2. Numbered'
  BY <1>1 DEF RInv, Numbered
<1>3. OneRowEach'
  BY <1>1 DEF RInv, OneRowEach
<1>4. Asked'
  BY <1>1 DEF RInv, Asked
<1>5. Understood'
  BY <1>1 DEF RInv, Understood, Weighed
<1>6. Loaded'
  BY <1>1 DEF Loaded
<1>7. (Ranked(cafes))' = Ranked(cs)
  BY <1>1 DEF Ranked, Shown, Eligible, Above, ScoreFor
<1>8. Answered'
  BY <1>1, <1>7 DEF Answered
<1> QED  BY <1>2, <1>3, <1>4, <1>5, <1>6, <1>8 DEF RInv

LEMMA ReadPlacesKeepsRanking ==
  ASSUME RInv, ReadPlaces
  PROVE  RInv'
<1> DEFINE cs == [id \in DOMAIN published |->
                    [row |-> published[id], facts |-> None, scores |-> None, menus |-> None]]
           to == IF published = Empty THEN "answer" ELSE "facts"
<1>1. Reading("places", to, cs)
  BY DEF ReadPlaces
<1>2. DOMAIN cs \subseteq 1..inserted /\ \A i, j \in DOMAIN cs : cs[i].row.place = cs[j].row.place => i = j
  BY DEF RInv, Numbered, OneRowEach
<1>3. to # "facts" => DOMAIN cs = {}
  BY DEF Empty
<1>4. to \in {"facts", "answer"}
  OBVIOUS
<1> HIDE DEF to, cs
<1> QED  BY <1>1, <1>2, <1>3, <1>4, ReadingKeepsRanking

LEMMA LoadKeepsRanking ==
  ASSUME IInv, RInv, LoadFacts \/ LoadScores \/ LoadMenus
  PROVE  RInv'
<1>1. PICK from \in {"facts", "scores", "menus"}, to \in {"scores", "menus", "answer"} :
         /\ Reading(from, to, With(from))
         /\ to = CASE from = "facts" -> "scores" [] from = "scores" -> "menus" [] from = "menus" -> "answer"
  BY DEF LoadFacts, LoadScores, LoadMenus
<1>2. phase = from
  BY <1>1 DEF Reading
<1> DEFINE cs == With(from)
<1>3. DOMAIN cs = DOMAIN cafes
  BY DEF With
<1>4. ASSUME NEW id \in DOMAIN cafes
      PROVE  /\ cs[id].row = cafes[id].row
             /\ id \in DOMAIN published => cs[id] = [cafes[id] EXCEPT ![from] = published[id]]
  <2>1. cafes[id] \in Read
    BY DEF IInv, Typed
  <2>2. cs[id] = IF id \in DOMAIN published THEN [cafes[id] EXCEPT ![from] = published[id]] ELSE cafes[id]
    BY DEF With
  <2>3. from # "row"
    OBVIOUS
  <2> HIDE DEF cs
  <2> QED  BY <2>1, <2>2, <2>3 DEF Read
<1>5. DOMAIN cs \subseteq 1..inserted /\ \A i, j \in DOMAIN cs : cs[i].row.place = cs[j].row.place => i = j
  <2> HIDE DEF cs
  <2> QED  BY <1>3, <1>4 DEF RInv, Numbered, OneRowEach
<1>6. ASSUME NEW id \in DOMAIN cs \cap DOMAIN published
      PROVE  /\ to \in {"scores", "menus", "answer"} => cs[id].facts # None
             /\ to \in {"menus", "answer"} => cs[id].scores # None
             /\ to = "answer" => cs[id].menus # None
  <2>1. id \in DOMAIN cafes /\ cs[id] = [cafes[id] EXCEPT ![from] = published[id]] /\ cafes[id] \in Read
    <3> HIDE DEF cs
    <3> QED  BY <1>3, <1>4 DEF IInv, Typed
  <2>2. published[id] # None
    BY SearchAssumption DEF IInv, Typed
  <2>3. /\ from \in {"scores", "menus"} => cafes[id].facts # None
        /\ from = "menus" => cafes[id].scores # None
    BY <1>2, <2>1 DEF RInv, Loaded
  <2> HIDE DEF cs
  <2>4. CASE from = "facts"
    BY <1>1, <2>1, <2>2, <2>4 DEF Read
  <2>5. CASE from = "scores"
    BY <1>1, <2>1, <2>2, <2>3, <2>5 DEF Read
  <2>6. CASE from = "menus"
    BY <1>1, <2>1, <2>2, <2>3, <2>6 DEF Read
  <2> QED  BY <2>4, <2>5, <2>6
<1>7. Reading(from, to, cs)
  BY <1>1
<1> HIDE DEF cs
<1> QED  BY <1>5, <1>6, <1>7, ReadingKeepsRanking

LEMMA ReadFailsKeepsRanking ==
  ASSUME RInv, ReadFails
  PROVE  RInv'
<1>1. PICK p \in {"places", "facts", "scores", "menus"} : Reading(p, "answer", Empty)
  BY DEF ReadFails
<1>2. DOMAIN Empty = {}
  BY DEF Empty
<1> QED  BY <1>1, <1>2, ReadingKeepsRanking

LEMMA RespondKeepsRanking ==
  ASSUME RInv, Respond
  PROVE  RInv'
<1>1. /\ phase' = "idle" /\ cafes' = Empty /\ results' = Empty /\ DOMAIN Empty = {}
      /\ UNCHANGED <<published, inserted>>
  BY DEF Respond, Empty
<1>2. Numbered' /\ OneRowEach'
  BY <1>1 DEF RInv, Numbered, OneRowEach
<1>3. Asked' /\ Understood' /\ Loaded' /\ Answered'
  BY <1>1 DEF Asked, Understood, Loaded, Answered
<1> QED  BY <1>2, <1>3 DEF RInv

THEOREM Ranking == Spec => []RInv
<1>1. Init => RInv
  <2> SUFFICES ASSUME Init PROVE RInv
    OBVIOUS
  <2>1. /\ published = Empty /\ inserted = 0 /\ phase = "idle" /\ cafes = Empty /\ results = Empty
        /\ DOMAIN Empty = {}
    BY DEF Init, Empty
  <2>2. Numbered /\ OneRowEach /\ Loaded
    BY <2>1 DEF Numbered, OneRowEach, Loaded
  <2>3. Asked /\ Understood /\ Answered
    BY <2>1 DEF Asked, Understood, Answered
  <2> QED  BY <2>2, <2>3 DEF RInv
<1>2. IInv /\ RInv /\ [Next]_vars => RInv'
  <2> SUFFICES ASSUME IInv, RInv, [Next]_vars PROVE RInv'
    OBVIOUS
  <2>1. CASE \E r \in Records : Publish(r)
    BY <2>1, PublishKeepsRanking
  <2>2. CASE \E p \in Places : Remove(p)
    BY <2>2, RemoveKeepsRanking
  <2>3. CASE Receive
    BY <2>3, ReceiveKeepsRanking
  <2>4. CASE InterpretWithJev \/ InterpretLocally
    BY <2>4, InterpretersKeepRanking
  <2>5. CASE ReadPlaces
    BY <2>5, ReadPlacesKeepsRanking
  <2>6. CASE LoadFacts \/ LoadScores \/ LoadMenus
    BY <2>6, LoadKeepsRanking
  <2>7. CASE ReadFails
    BY <2>7, ReadFailsKeepsRanking
  <2>8. CASE Respond
    BY <2>8, RespondKeepsRanking
  <2>9. CASE UNCHANGED vars
    <3>1. UNCHANGED <<published, inserted, phase, request, profile, cafes, results>>
      BY <2>9 DEF vars
    <3>2. inserted \in Nat /\ DOMAIN published \subseteq 1..inserted
      BY DEF RInv, Numbered
    <3>3. \A i, j \in DOMAIN published : published[i].place = published[j].place => i = j
      BY DEF RInv, OneRowEach
    <3> QED  BY <3>1, <3>2, <3>3, CataloguePreserves
  <2> QED  BY <2>1, <2>2, <2>3, <2>4, <2>5, <2>6, <2>7, <2>8, <2>9 DEF Next
<1> QED  BY <1>1, <1>2, Inductive, PTL DEF Spec

\* The order of the answer, over what was read.
Order(cs) == {p \in (DOMAIN cs) \X (DOMAIN cs) : Above(cs, p[1], p[2])}

LEMMA OrderForm ==
  ASSUME NEW cs, NEW i \in DOMAIN cs, NEW j \in DOMAIN cs
  PROVE  <<i, j>> \in Order(cs) <=> Above(cs, i, j)
<1>1. <<i, j>> \in (DOMAIN cs) \X (DOMAIN cs)
  OBVIOUS
<1>2. <<i, j>>[1] = i /\ <<i, j>>[2] = j
  OBVIOUS
<1> QED  BY <1>1, <1>2, Zenon DEF Order

LEMMA EligibleFinite ==
  ASSUME RInv
  PROVE  Eligible(cafes) \subseteq DOMAIN cafes /\ IsFiniteSet(Eligible(cafes))
<1>1. Eligible(cafes) \subseteq DOMAIN cafes
  BY DEF Eligible
<1>2. DOMAIN cafes \subseteq 1..inserted /\ inserted \in Nat
  BY DEF RInv, Numbered
<1>3. IsFiniteSet(1..inserted)
  BY <1>2, FS_Interval
<1> QED  BY <1>1, <1>2, <1>3, FS_Subset

LEMMA ScoresAreNumbers ==
  ASSUME IInv, RInv, phase = "answer", NEW id \in DOMAIN cafes
  PROVE  ScoreFor(cafes, id) \in 0..99
<1>1. request.query \in Queries /\ request.user \in Users /\ Weighed(profile) /\ cafes[id] \in Read
  BY DEF IInv, Typed, RInv, Asked, Understood
<1> QED  BY <1>1, ScoreType DEF ScoreFor

LEMMA NamesDiffer ==
  ASSUME IInv, RInv, NEW i \in DOMAIN cafes, NEW j \in DOMAIN cafes, i # j
  PROVE  cafes[i].row.name \in Nat /\ cafes[j].row.name \in Nat /\ cafes[i].row.name # cafes[j].row.name
<1>1. cafes[i].row \in Records /\ cafes[j].row \in Records
  BY DEF IInv, Typed, Read
<1>2. cafes[i].row # cafes[j].row
  BY DEF RInv, OneRowEach
<1>3. cafes[i].row.name # cafes[j].row.name
  BY <1>1, <1>2, SearchAssumption, Zenon
<1> QED  BY <1>1, <1>3, RecordNumbers

LEMMA OrderOrders ==
  ASSUME IInv, RInv, phase = "answer"
  PROVE  Orders(Order(cafes), Eligible(cafes))
<1> DEFINE score(i) == ScoreFor(cafes, i)
           name(i) == cafes[i].row.name
<1>1. \A i \in Eligible(cafes) : i \in DOMAIN cafes
  BY EligibleFinite
<1>2. \A i \in Eligible(cafes) : score(i) \in Nat
  <2>1. \A i \in Eligible(cafes) : score(i) \in 0..99
    BY <1>1, ScoresAreNumbers
  <2> HIDE DEF score
  <2> QED  BY <2>1
<1>3. \A i \in Eligible(cafes) : name(i) \in Nat
  BY <1>1, RecordNumbers DEF IInv, Typed, Read
<1>4. \A i, j \in Eligible(cafes) : i # j => name(i) # name(j)
  BY <1>1, NamesDiffer
<1>5. \A i, j \in Eligible(cafes) :
        <<i, j>> \in Order(cafes) <=> score(i) > score(j) \/ (score(i) = score(j) /\ name(i) < name(j))
  BY <1>1, OrderForm DEF Above
<1> HIDE DEF score, name
<1>6. \A x \in Eligible(cafes) : <<x, x>> \notin Order(cafes)
  BY <1>2, <1>3, <1>5
<1>7. \A x, y, z \in Eligible(cafes) :
        <<x, y>> \in Order(cafes) /\ <<y, z>> \in Order(cafes) => <<x, z>> \in Order(cafes)
  BY <1>2, <1>3, <1>5
<1>8. \A x, y \in Eligible(cafes) : x # y => <<x, y>> \in Order(cafes) \/ <<y, x>> \in Order(cafes)
  BY <1>2, <1>3, <1>4, <1>5
<1> QED  BY <1>6, <1>7, <1>8 DEF Orders

\* Shown takes the first of the eligible cafes.
LEMMA ShownRanks ==
  ASSUME RInv
  PROVE  Shown(cafes) =
           {id \in Eligible(cafes) : Cardinality(Over(Order(cafes), Eligible(cafes), id)) < request.limit}
<1>1. \A id \in Eligible(cafes) :
        Over(Order(cafes), Eligible(cafes), id) = {i \in Eligible(cafes) : Above(cafes, i, id)}
  BY EligibleFinite, OrderForm DEF Over
<1> QED  BY <1>1 DEF Shown

LEMMA AnswerForm ==
  ASSUME RInv, NEW id \in DOMAIN results
  PROVE  /\ phase = "answer" /\ id \in Shown(cafes) /\ id \in Eligible(cafes) /\ id \in DOMAIN cafes
         /\ results[id] = ScoreFor(cafes, id)
<1>1. results = IF phase = "answer" THEN Ranked(cafes) ELSE Empty
  BY DEF RInv, Answered
<1>2. phase = "answer"
  BY <1>1 DEF Empty
<1>3. results = [x \in Shown(cafes) |-> ScoreFor(cafes, x)]
  BY <1>1, <1>2 DEF Ranked
<1>4. id \in Shown(cafes) /\ results[id] = ScoreFor(cafes, id)
  BY <1>3
<1> QED  BY <1>2, <1>4, EligibleFinite DEF Shown

LEMMA LimitHolds ==
  ASSUME IInv, RInv
  PROVE  Cardinality(DOMAIN results) <= MaxLimit
<1>0. MaxLimit \in Nat
  BY SearchAssumption, Zenon
<1>1. results = IF phase = "answer" THEN Ranked(cafes) ELSE Empty
  BY DEF RInv, Answered
<1>2. CASE phase # "answer"
  <2>1. DOMAIN results = {}
    BY <1>1, <1>2 DEF Empty
  <2>2. Cardinality(DOMAIN results) = 0
    BY <2>1, FS_EmptySet
  <2> QED  BY <1>0, <2>2
<1>3. CASE phase = "answer"
  <2>1. DOMAIN results = Shown(cafes)
    BY <1>1, <1>3 DEF Ranked
  <2>2. request.limit \in Nat /\ request.limit <= MaxLimit
    BY <1>3 DEF RInv, Asked
  <2> DEFINE R == Order(cafes)
             S == Eligible(cafes)
             n == request.limit
             first == {x \in S : Cardinality(Over(R, S, x)) < n}
  <2>3. IsFiniteSet(S) /\ Orders(R, S) /\ n \in Nat
    BY <1>3, <2>2, EligibleFinite, OrderOrders
  <2>4. Shown(cafes) = first
    BY ShownRanks
  <2> HIDE DEF R, S, n
  <2>5. IsFiniteSet(first) /\ Cardinality(first) <= n
    BY <2>3, FewAreFirst
  <2> HIDE DEF first
  <2>6. Cardinality(DOMAIN results) <= n /\ Cardinality(DOMAIN results) \in Nat
    BY <2>1, <2>4, <2>5, FS_CardinalityType
  <2> QED  BY <1>0, <2>2, <2>6 DEF n
<1> QED  BY <1>2, <1>3

\* One row per place, row numbers and pieces in range, and no more cafes answered than a
\* request may ask for, each with a score of 0 to 99 (Store.Publish, Service.Recommend).
THEOREM TypeCorrect == Spec => []TypeOK
<1>1. ASSUME IInv, RInv PROVE TypeOK
  <2>1. \A id \in DOMAIN published : id \in 1..inserted /\ published[id] \in Records
    BY <1>1 DEF IInv, Typed, RInv, Numbered
  <2>2. ASSUME NEW p \in Places PROVE Cardinality(RowOf(p)) <= 1
    <3>1. \A i, j \in RowOf(p) : i = j
      BY <1>1 DEF RInv, OneRowEach, RowOf
    <3>2. CASE RowOf(p) = {}
      <4>1. Cardinality(RowOf(p)) = 0
        BY <3>2, FS_EmptySet
      <4> QED  BY <4>1
    <3>3. CASE RowOf(p) # {}
      <4>1. PICK i : RowOf(p) = {i}
        BY <3>1, <3>3
      <4>2. Cardinality({i}) = 1
        BY FS_Singleton, Zenon
      <4> QED  BY <4>1, <4>2
    <3> QED  BY <3>2, <3>3
  <2>3. DOMAIN cafes \subseteq 1..inserted
    BY <1>1 DEF RInv, Numbered
  <2>4. DOMAIN results \subseteq DOMAIN cafes
    BY <1>1, AnswerForm
  <2>5. Cardinality(DOMAIN results) <= MaxLimit
    BY <1>1, LimitHolds
  <2>6. \A id \in DOMAIN results : results[id] \in 0..99
    BY <1>1, AnswerForm, ScoresAreNumbers
  <2> QED  BY <2>1, <2>2, <2>3, <2>4, <2>5, <2>6 DEF TypeOK
<1> QED  BY <1>1, Inductive, Ranking, PTL

-----------------------------------------------------------------------------
\* A cafe that nothing was published over was read whole.
LEMMA ReadWhole ==
  ASSUME IInv, RInv, phase = "answer", NEW id \in DOMAIN cafes, id \in DOMAIN published,
         NEW r, held[id] = {r}
  PROVE  r \in Records /\ Cafe(cafes[id]) = WholeCafe(r)
<1>1. cafes[id] \in Read /\ Piece(cafes[id], held[id])
  BY DEF IInv, Typed, Pieces
<1>2. cafes[id].facts # None /\ cafes[id].scores # None /\ cafes[id].menus # None
  BY DEF RInv, Loaded
<1>3. cafes[id].row = r /\ cafes[id].facts = r /\ cafes[id].scores = r /\ cafes[id].menus = r
  BY <1>1, <1>2 DEF Piece
<1>4. cafes[id] = [row |-> r, facts |-> r, scores |-> r, menus |-> r] /\ r \in Records
  BY <1>1, <1>3 DEF Read
<1> QED  BY <1>4, Zenon DEF WholeCafe

\* Nothing that happens to other cafes while a search runs costs a cafe its place: it is
\* missing from the answer only if as many as were asked for score at least as high
\* (ListPublished and its load statements, RankCafes, the cut of Service.Recommend).
THEOREM NoCafeIsEverLost == Spec => []NoCafeIsLost
<1>1. ASSUME IInv, RInv, phase = "answer", NEW id \in (DOMAIN held \cap DOMAIN published) \ DOMAIN results,
             NEW r \in held[id], held[id] = {r}, id \in DOMAIN cafes,
             InPlace(request.query, request.user, WholeCafe(r)), Meets(profile, WholeCafe(r))
      PROVE  Cardinality({i \in DOMAIN results :
                results[i] >= MatchScore(request.query, request.user, profile, WholeCafe(r))}) >= request.limit
  <2> DEFINE score == MatchScore(request.query, request.user, profile, WholeCafe(r))
             R == Order(cafes)
             S == Eligible(cafes)
             n == request.limit
             above == {y \in Over(R, S, id) : Cardinality(Over(R, S, y)) < n}
             better == {i \in DOMAIN results : results[i] >= score}
  <2>1. Cafe(cafes[id]) = WholeCafe(r)
    BY <1>1, ReadWhole
  <2>2. id \in S
    BY <1>1, <2>1, Zenon DEF Eligible
  <2>3. ScoreFor(cafes, id) = score
    BY <2>1, Zenon DEF ScoreFor
  <2>4. DOMAIN results = Shown(cafes) /\ Shown(cafes) = {x \in S : Cardinality(Over(R, S, x)) < n}
    <3>1. results = Ranked(cafes)
      BY <1>1 DEF RInv, Answered
    <3> QED  BY <1>1, <3>1, ShownRanks DEF Ranked
  <2>5. IsFiniteSet(S) /\ Orders(R, S) /\ n \in Nat
    BY <1>1, EligibleFinite, OrderOrders DEF RInv, Asked
  <2>6. ~(Cardinality(Over(R, S, id)) < n)
    BY <1>1, <2>2, <2>4
  <2>7. ASSUME NEW y \in above PROVE y \in better
    <3>1. y \in S /\ <<y, id>> \in R /\ y \in DOMAIN results
      BY <2>4 DEF Over
    <3>2. Above(cafes, y, id)
      BY <3>1 DEF Order
    <3>3. results[y] = ScoreFor(cafes, y) /\ y \in DOMAIN cafes
      BY <1>1, <3>1, AnswerForm
    <3>4. ScoreFor(cafes, y) \in 0..99 /\ ScoreFor(cafes, id) \in 0..99
      BY <1>1, <3>3, ScoresAreNumbers
    <3>5. ScoreFor(cafes, y) >= ScoreFor(cafes, id)
      BY <3>2, <3>4 DEF Above
    <3>6. results[y] >= score
      BY <2>3, <3>3, <3>5
    <3> QED  BY <3>1, <3>6
  <2>8. IsFiniteSet(better)
    <3>1. better \subseteq S
      BY <2>4
    <3> HIDE DEF S, better
    <3> QED  BY <2>5, <3>1, FS_Subset
  <2> HIDE DEF R, S, n, score
  <2>9. IsFiniteSet(above) /\ Cardinality(above) >= n
    BY <2>2, <2>5, <2>6, FirstAreAbove
  <2>10. above \subseteq better
    BY <2>7
  <2> HIDE DEF above, better
  <2>11. Cardinality(above) <= Cardinality(better)
    BY <2>8, <2>10, FS_Subset, Zenon
  <2>12. Cardinality(above) \in Nat /\ Cardinality(better) \in Nat
    BY <2>8, <2>9, FS_CardinalityType
  <2>13. Cardinality(better) >= n
    BY <2>5, <2>9, <2>11, <2>12
  <2> QED  BY <2>13 DEF better, n, score
<1>2. IInv /\ RInv => NoCafeIsLost
  BY <1>1, Zenon DEF NoCafeIsLost
<1> QED  BY <1>2, Inductive, Ranking, PTL

\* A cafe that is as good as another in everything the query asks for is not ranked below
\* it: each part of MatchScore grows with what it measures, and rounding keeps the order
\* (RankCafes).
THEOREM BetterIsHigher == Spec => []BetterCafesRankHigher
<1>1. ASSUME IInv, RInv, NEW i \in DOMAIN results, NEW j \in DOMAIN results,
             NEW a, a = Cafe(cafes[i]), NEW b, b = Cafe(cafes[j]),
             Distance[From(request.query, request.user), a.point] <= Distance[From(request.query, request.user), b.point],
             a.age <= b.age, a.priceMin = b.priceMin, a.priceMax = b.priceMax,
             Outdoes(a, b, profile.hard \cup profile.soft)
      PROVE  results[i] >= results[j]
  <2> DEFINE q == request.query
             u == request.user
             nearer == Near(q, u, a)
             near == Near(q, u, b)
             budget == BudgetFit(q.budget, a)
  <2>1. /\ phase = "answer" /\ i \in DOMAIN cafes /\ j \in DOMAIN cafes
        /\ results[i] = ScoreFor(cafes, i) /\ results[j] = ScoreFor(cafes, j)
    BY <1>1, AnswerForm, Zenon
  <2>2. q \in Queries /\ u \in Users /\ Weighed(profile) /\ cafes[i] \in Read /\ cafes[j] \in Read
    BY <1>1, <2>1, Zenon DEF IInv, Typed, RInv, Asked, Understood
  <2>3. /\ Measured(a) /\ a.point = cafes[i].row.point /\ cafes[i].row \in Records
        /\ Measured(b) /\ b.point = cafes[j].row.point /\ cafes[j].row \in Records
    BY <1>1, <2>2, CafeMeasured, Zenon
  <2>4. nearer \in Nat /\ near \in Nat /\ near <= nearer
    BY <1>1, <2>2, <2>3, NearType, NearerFits, Zenon
  <2>5. budget = BudgetFit(q.budget, b)
    BY <1>1, Zenon DEF BudgetFit
  <2>6. budget \in Nat
    BY <1>1, <2>2, BudgetFitType, Zenon
  <2>7. MatchScore(q, u, profile, b) <= MatchScore(q, u, profile, a) /\ MatchScore(q, u, profile, a) \in 0..99
        /\ MatchScore(q, u, profile, b) \in 0..99
    BY <1>1, <2>2, <2>3, <2>4, <2>5, <2>6, BetterScores, Zenon
  <2>8. results[i] = MatchScore(q, u, profile, a) /\ results[j] = MatchScore(q, u, profile, b)
    BY <1>1, <2>1, Zenon DEF ScoreFor
  <2> HIDE DEF q, u
  <2> QED  BY <2>7, <2>8
<1>2. ASSUME IInv, RInv PROVE BetterCafesRankHigher
  <2> SUFFICES ASSUME NEW i \in DOMAIN results, NEW j \in DOMAIN results
               PROVE  LET a == Cafe(cafes[i])
                          b == Cafe(cafes[j])
                          at == IF request.user # {} THEN request.user
                                ELSE IF request.query.where \in Scopes THEN {CentreOf[request.query.where]} ELSE {Jakarta}
                      IN  /\ \A p \in at : Distance[p, a.point] <= Distance[p, b.point]
                          /\ a.age <= b.age /\ a.priceMin = b.priceMin /\ a.priceMax = b.priceMax
                          /\ \A k \in Keys(profile.hard \cup profile.soft) :
                               /\ ScoreOf(a, k) >= ScoreOf(b, k) /\ ConfidenceOf(a, k) >= ConfidenceOf(b, k)
                               /\ k \in b.facts => k \in a.facts
                          => results[i] >= results[j]
    BY DEF BetterCafesRankHigher
  <2> DEFINE at == IF request.user # {} THEN request.user
                   ELSE IF request.query.where \in Scopes THEN {CentreOf[request.query.where]} ELSE {Jakarta}
  <2>1. From(request.query, request.user) \in at
    <3>1. CASE request.user # {}
      <4>1. From(request.query, request.user) \in request.user
        BY <3>1 DEF From
      <4> QED  BY <3>1, <4>1
    <3>2. CASE request.user = {}
      BY <3>2 DEF From, LocationMode
    <3> QED  BY <3>1, <3>2
  <2> HIDE DEF at
  <2> QED  BY <1>1, <1>2, <2>1, Zenon DEF Outdoes, at
<1> QED  BY <1>2, Inductive, Ranking, PTL

=============================================================================

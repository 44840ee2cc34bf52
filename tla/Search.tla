------------------------------- MODULE Search -------------------------------
(***************************************************************************)
(* A search of the published catalogue: the recommendation handler reads   *)
(* the places and then each of their tables in a statement of its own,     *)
(* while administrators publish, republish and remove cafes.               *)
(*                                                                         *)
(* A publication is one transaction that replaces every table's rows of    *)
(* the place, so what they hold is which record the place was last         *)
(* published from, and what a search read is the record behind each piece. *)
(***************************************************************************)
EXTENDS Recommend

CONSTANTS
    Places,     \* Google Place IDs
    Records,    \* reviewed records: [place, name, area, point, age, fields]
    Queries,    \* what may be asked
    Answers,    \* what Jev may answer: scores and confidences by dimension
    Users,      \* where a user may be: {}, or a point in a set
    Invalid,    \* points that ValidPoint refuses
    Limits,     \* what a request may ask for, 0 for nothing
    DefaultLimit, MinLimit, MaxLimit,
    JevEnabled, \* whether a key is configured
    MaxRows     \* rows ever inserted (bound)

None == [place |-> "none"]

ASSUME SearchAssumption ==
    /\ MinLimit \in Nat /\ MaxLimit \in Nat /\ DefaultLimit \in MinLimit..MaxLimit
    /\ None \notin Records
    /\ \A r \in Records : r.place \in Places
    /\ \A u \in Users : \A p, q \in u : p = q
    /\ \A r, s \in Records : r.name = s.name => r = s
    /\ \A q \in Queries : q.mentions \subseteq Dimensions /\ q.budget \in Nat
    /\ \A a \in Answers : /\ DOMAIN a \subseteq Dimensions
                         /\ \A k \in DOMAIN a : a[k].score \in Nat /\ a[k].confidence \in 0..100

VARIABLES
    published,  \* the places' rows: the record behind each row ID
    inserted,   \* how many rows were ever inserted
    phase,      \* what the handler does next
    request,    \* the request it serves
    profile,    \* the interpretation
    cafes,      \* what it read: the record behind each piece, by row ID
    results,    \* what it answers: the score of each cafe, by row ID
    held        \* the records each row was published from since the search began

vars == <<published, inserted, phase, request, profile, cafes, results, held>>

Empty == [x \in {} |-> None]

-----------------------------------------------------------------------------
(***************************************************************************)
(* publicationData and what the statements of ListPublished make of it.    *)
(***************************************************************************)
\* The surest value of a key; evidence in conflict or excluded is not among the fields.
Surest(r, k) == {f \in r.fields : f.key = k /\ \A g \in r.fields : g.key = k => g.confidence <= f.confidence}

Says(r, k, v) == \E f \in Surest(r, k) : f.value = v

FactKeys ==
    [k \in {"Musholla", "Wi-Fi", "Power outlets", "Car parking", "Outdoor seating", "Open 24 hours", "Pet policy"} |->
        CASE k = "Musholla" -> "musholla"        [] k = "Wi-Fi" -> "wifi"
          [] k = "Power outlets" -> "outlets"    [] k = "Car parking" -> "parking"
          [] k = "Outdoor seating" -> "outdoor"  [] k = "Open 24 hours" -> "open_24h"
          [] k = "Pet policy" -> "pet_friendly"]

FactsOf(r) == {FactKeys[k] : k \in {l \in DOMAIN FactKeys : Says(r, l, "yes")}}

FactEvidence(r) ==
    LET known == {k \in DOMAIN FactKeys : Says(r, k, "yes") \/ Says(r, k, "no")}
    IN  [x \in {FactKeys[k] : k \in known} |->
            (CHOOSE f \in r.fields : \E k \in known : FactKeys[k] = x /\ f \in Surest(r, k)).confidence]

Price(r, k) == IF Surest(r, k) = {} THEN 0 ELSE (CHOOSE f \in Surest(r, k) : TRUE).value

\* deriveScores.
\* Values read together; with a word of each kind they count as bad.
Signal(r, keys) ==
    IF \E k \in keys : Says(r, k, "bad") THEN 25
    ELSE IF \E k \in keys : Says(r, k, "good") THEN 90
    ELSE 50

WifiSignal(r) ==
    LET s == Signal(r, {"Wi-Fi quality"}) IN
    IF "wifi" \in FactsOf(r) /\ s < 65 THEN 65
    ELSE IF "wifi" \notin FactsOf(r) /\ s = 50 THEN 35
    ELSE s

WorkScore(r) ==
    LET s == (Signal(r, {"Quietness"}) + WifiSignal(r) + Signal(r, {"Seating comfort", "Table size"})) \div 3
    IN  IF "outlets" \in FactsOf(r) THEN (3 * s + 100) \div 4 ELSE s

ConfidenceIn(r, k, otherwise) ==
    IF Surest(r, k) = {} THEN otherwise ELSE (CHOOSE f \in Surest(r, k) : TRUE).confidence

WorkConfidence(r) ==
    LET known == {k \in {"Quietness", "Wi-Fi quality", "Seating comfort", "Power outlets"} : Surest(r, k) # {}}
    IN  IF known = {} THEN 55 ELSE SumFunction([k \in known |-> ConfidenceIn(r, k, 0)]) \div Cardinality(known)

AlwaysOpen(r) == "open_24h" \in FactsOf(r)

OpenLate(r) == Says(r, "Opening hours", "late")

ScoresOf(r) ==
    [k \in {"quiet", "wfc"} \cup (IF AlwaysOpen(r) THEN {"open_24h", "late"} ELSE IF OpenLate(r) THEN {"late"} ELSE {}) |->
        CASE k = "quiet" -> Signal(r, {"Quietness"})
          [] k = "wfc"   -> WorkScore(r)
          [] k = "late"  -> IF OpenLate(r) THEN 90 ELSE 100
          [] OTHER       -> 100]

ScoreEvidence(r) ==
    [k \in DOMAIN ScoresOf(r) |->
        CASE k = "quiet" -> ConfidenceIn(r, "Quietness", 55)
          [] k = "wfc"   -> WorkConfidence(r)
          [] k = "late"  -> IF OpenLate(r) THEN ConfidenceIn(r, "Opening hours", 0) ELSE 95
          [] OTHER       -> 95]

\* loadMenus reads matcha off any menu item.
SellsMatcha(r) == \E f \in r.fields : f.key = "Menu item" /\ f.value = "matcha"

\* The cafe that the pieces make; evidence of a later statement replaces an earlier one's.
Cafe(c) ==
    LET facts  == IF c.facts = None THEN {} ELSE FactsOf(c.facts)
        known  == IF c.facts = None THEN Empty ELSE FactEvidence(c.facts)
        scores == IF c.scores = None THEN Empty ELSE ScoresOf(c.scores)
        shown  == IF c.scores = None THEN Empty ELSE ScoreEvidence(c.scores)
        matcha == IF c.menus # None /\ SellsMatcha(c.menus) THEN {"matcha"} ELSE {}
    IN  [area |-> c.row.area, point |-> c.row.point, age |-> c.row.age,
         facts |-> facts \cup matcha, scores |-> scores,
         evidence |-> [k \in DOMAIN known \cup DOMAIN shown \cup matcha |->
                         IF k \in matcha THEN 80 ELSE IF k \in DOMAIN shown THEN shown[k] ELSE known[k]],
         priceMin |-> IF c.facts = None THEN 0 ELSE Price(c.facts, "Minimum price"),
         priceMax |-> IF c.facts = None THEN 0 ELSE Price(c.facts, "Maximum price")]

\* A record's numbers, and that the fits are defined where a search may need them.
ASSUME RecordsAssumption ==
    \A r \in Records :
        /\ r.name \in Nat /\ r.age \in Nat
        /\ \A f \in r.fields : f.confidence \in 0..100
        /\ Price(r, "Minimum price") \in Nat /\ Price(r, "Maximum price") \in Nat
        /\ \A p \in (UNION Users) \cup {Jakarta} \cup {CentreOf[s] : s \in Scopes} :
             Distance[p, r.point] \in DOMAIN DistanceFit
        /\ \A q \in Queries :
             LET over == Price(r, "Minimum price") - q.budget
             IN  q.budget > 0 /\ over > 0 => over \in DOMAIN OverBudgetFit

-----------------------------------------------------------------------------
(***************************************************************************)
(* The administrators' side.                                               *)
(***************************************************************************)
RowOf(place) == {id \in DOMAIN published : published[id].place = place}

Held(id, r) == IF phase = "idle" THEN held ELSE
    [x \in DOMAIN held \cup {id} |-> IF x = id THEN (IF id \in DOMAIN held THEN held[id] ELSE {}) \cup {r} ELSE held[x]]

PublishAnew(r) ==  \* mutant: no conflict on the Place ID
    /\ inserted < MaxRows
    /\ inserted' = inserted + 1
    /\ published' = [id \in (DOMAIN published) \cup {inserted'} |-> IF id = inserted' THEN r ELSE published[id]]
    /\ held' = Held(inserted', r)
    /\ UNCHANGED <<phase, request, profile, cafes, results>>

\* One transaction; the row of a place that is published already is kept.
Publish(r) ==
    /\ \/ \E id \in RowOf(r.place) :
            /\ published' = [published EXCEPT ![id] = r]
            /\ held' = Held(id, r)
            /\ UNCHANGED inserted
       \/ /\ RowOf(r.place) = {} /\ inserted < MaxRows
          /\ inserted' = inserted + 1
          /\ published' = [id \in (DOMAIN published) \cup {inserted'} |-> IF id = inserted' THEN r ELSE published[id]]
          /\ held' = Held(inserted', r)
    /\ UNCHANGED <<phase, request, profile, cafes, results>>

\* The tables' rows go with the place's.
Remove(place) ==
    /\ RowOf(place) # {}
    /\ published' = [id \in DOMAIN published \ RowOf(place) |-> published[id]]
    /\ UNCHANGED <<inserted, phase, request, profile, cafes, results, held>>

Eligible(cs) == {id \in DOMAIN cs : InPlace(request.query, request.user, Cafe(cs[id])) /\ Meets(profile, Cafe(cs[id]))}

ScoreFor(cs, id) == MatchScore(request.query, request.user, profile, Cafe(cs[id]))

\* sort.SliceStable over what came ORDER BY name.
Above(cs, i, j) == ScoreFor(cs, i) > ScoreFor(cs, j) \/ (ScoreFor(cs, i) = ScoreFor(cs, j) /\ cs[i].row.name < cs[j].row.name)

AnyOfThem(cs) == {id \in Eligible(cs) : Cardinality({i \in Eligible(cs) : i < id}) < request.limit}  \* mutant: cut before the sort
Shown(cs) == {id \in Eligible(cs) : Cardinality({i \in Eligible(cs) : Above(cs, i, id)}) < request.limit}

Ranked(cs) == [id \in Shown(cs) |-> ScoreFor(cs, id)]

-----------------------------------------------------------------------------
(***************************************************************************)
(* The search.                                                             *)
(***************************************************************************)
NoRequest == [query |-> None, user |-> {}, limit |-> 0]

Init ==
    /\ published = Empty /\ inserted = 0
    /\ phase = "idle" /\ request = NoRequest /\ profile = None
    /\ cafes = Empty /\ results = Empty /\ held = Empty

\* The handler's checks; a request that fails them changes nothing.
Accepted(q, user, limit) ==
    /\ limit \in {0} \cup MinLimit..MaxLimit
    /\ q.where = "near me" => user # {}
    /\ user \cap Invalid = {}

Receive ==
    /\ phase = "idle"
    /\ \E q \in Queries, user \in Users, limit \in Limits :
        /\ Accepted(q, user, limit)
        /\ request' = [query |-> q, user |-> user, limit |-> IF limit = 0 THEN DefaultLimit ELSE limit]
    /\ phase' = "interpret"
    /\ held' = [id \in DOMAIN published |-> {published[id]}]
    /\ UNCHANGED <<published, inserted, profile, cafes, results>>

\* What the interpreter says, as the handler takes it.
Interpreted(p) ==
    /\ phase = "interpret"
    /\ profile' = EnforceConstraints(request.query, p)
    /\ phase' = "places"
    /\ UNCHANGED <<published, inserted, request, cafes, results, held>>

InterpretWithJev == JevEnabled /\ \E a \in Answers : Usable(a) # {} /\ Interpreted(Jev(a))

\* No key, no answer in time, an error, or nothing usable.
InterpretLocally == Interpreted(Deterministic(request.query))

\* The handler read cs; after its last statement nothing but its own memory counts.
Reading(from, to, cs) ==
    /\ phase = from
    /\ phase' = to
    /\ cafes' = cs
    /\ results' = IF to = "answer" THEN Ranked(cs) ELSE Empty
    /\ UNCHANGED <<published, inserted, request, profile, held>>

\* The first statement.  Without a place the others are left out.
ReadPlaces ==
    Reading("places", IF published = Empty THEN "answer" ELSE "facts",
            [id \in DOMAIN published |->
                [row |-> published[id], facts |-> None, scores |-> None, menus |-> None]])

\* Rows of a place that the first statement did not read are passed over.
With(piece) ==
    [id \in DOMAIN cafes |-> IF id \in DOMAIN published THEN [cafes[id] EXCEPT ![piece] = published[id]] ELSE cafes[id]]

LoadedByOnePointer ==  \* mutant: every row's facts are read into the same cafe
    Reading("facts", "scores",
            [id \in DOMAIN cafes |->
                IF published = Empty THEN cafes[id]
                ELSE [cafes[id] EXCEPT !.facts = published[CHOOSE x \in DOMAIN published : TRUE]]])

LoadFacts == Reading("facts", "scores", With("facts"))

\* The links, which are read between scores and menus, only fill in addresses.
LoadScores == Reading("scores", "menus", With("scores"))

LoadMenus == Reading("menus", "answer", With("menus"))

\* A statement fails: the search goes on without any cafe.
ReadFails == \E p \in {"places", "facts", "scores", "menus"} : Reading(p, "answer", Empty)

Respond ==
    /\ phase = "answer"
    /\ phase' = "idle" /\ request' = NoRequest /\ profile' = None
    /\ cafes' = Empty /\ results' = Empty /\ held' = Empty
    /\ UNCHANGED <<published, inserted>>

Next ==
    \/ \E r \in Records : Publish(r)
    \/ \E p \in Places : Remove(p)
    \/ Receive \/ InterpretWithJev \/ InterpretLocally
    \/ ReadPlaces \/ LoadFacts \/ LoadScores \/ LoadMenus \/ ReadFails
    \/ Respond

Spec == Init /\ [][Next]_vars

-----------------------------------------------------------------------------
TypeOK ==
    /\ \A id \in DOMAIN published : id \in 1..inserted /\ published[id] \in Records
    /\ \A p \in Places : Cardinality(RowOf(p)) <= 1
    /\ DOMAIN cafes \subseteq 1..inserted
    /\ DOMAIN results \subseteq DOMAIN cafes
    /\ Cardinality(DOMAIN results) <= MaxLimit
    /\ \A id \in DOMAIN results : results[id] \in 0..99

\* "Hard filters are never violated": whatever the model answers and whatever is published
\* meanwhile, a cafe that is shown had, while the search ran, each fact that the answer
\* calls a constraint, and was open 24 hours when the query says so.
HardFiltersHold ==
    \A id \in DOMAIN results :
        /\ \A k \in Keys(profile.hard) : \E r \in held[id] : k \in FactsOf(r) \/ (k = "matcha" /\ SellsMatcha(r))
        /\ request.query.says24 => \E r \in held[id] : AlwaysOpen(r)

\* A named place bounds the search, and else the five kilometres around the user.
SearchStaysInPlace ==
    \A id \in DOMAIN results : \E r \in held[id] :
        IF request.query.where \in Scopes THEN request.query.where \in r.area
        ELSE \A p \in request.user : Distance[p, r.point] <= NearbyRadius

\* A search mixes the records of a cafe that is republished while it runs, never older
\* ones, and a cafe that was removed before it began is not in it.
PiecesWereCurrent ==
    phase \in {"facts", "scores", "menus", "answer"} =>
        \A id \in DOMAIN cafes : \A c \in {"row", "facts", "scores", "menus"} :
            cafes[id][c] # None => id \in DOMAIN held /\ cafes[id][c] \in held[id]

WholeCafe(r) == Cafe([row |-> r, facts |-> r, scores |-> r, menus |-> r])

\* Other publications never cost a cafe its place: one that stays as it is and meets the
\* request is shown, unless as many as were asked for are better.
NoCafeIsLost ==
    phase = "answer" /\ cafes # Empty =>
        \A id \in (DOMAIN held \cap DOMAIN published) \ DOMAIN results : \A r \in held[id] :
            /\ held[id] = {r} /\ id \in DOMAIN cafes
            /\ InPlace(request.query, request.user, WholeCafe(r)) /\ Meets(profile, WholeCafe(r))
            => LET score == MatchScore(request.query, request.user, profile, WholeCafe(r))
               IN  Cardinality({i \in DOMAIN results : results[i] >= score}) >= request.limit

\* A cafe that is as near, as fresh, as dear, and as well attested as another in all that
\* the query asks for, and has every fact that the other has, does not rank below it.
BetterCafesRankHigher ==
    \A i, j \in DOMAIN results :
        LET a == Cafe(cafes[i])
            b == Cafe(cafes[j])
            at == IF request.user # {} THEN request.user
                  ELSE IF request.query.where \in Scopes THEN {CentreOf[request.query.where]} ELSE {Jakarta}
        IN  /\ \A p \in at : Distance[p, a.point] <= Distance[p, b.point]
            /\ a.age <= b.age /\ a.priceMin = b.priceMin /\ a.priceMax = b.priceMax
            /\ \A k \in Keys(profile.hard \cup profile.soft) :
                 /\ ScoreOf(a, k) >= ScoreOf(b, k) /\ ConfidenceOf(a, k) >= ConfidenceOf(b, k)
                 /\ k \in b.facts => k \in a.facts
            => results[i] >= results[j]
=============================================================================

--------------------------- MODULE EvidenceProofs ----------------------------
(***************************************************************************)
(* For any keys, values, sources and crawls: a published record is what    *)
(* search serves, contradictions are published on Google's word or not at  *)
(* all, the reviewer's choice settles its key, and a record's evidence     *)
(* does no more than Ingestion lets it do.                                 *)
(*                                                                         *)
(* All of it rests on what a key publishes being well defined: among the   *)
(* usable fields there is one that is strongest, the earliest of its       *)
(* equals (StrongestExists).                                               *)
(***************************************************************************)
EXTENDS Evidence, WellFoundedInduction, TLAPS

-----------------------------------------------------------------------------
(***************************************************************************)
(* What a key publishes.                                                   *)
(***************************************************************************)

LEMMA LeastNatural ==
  ASSUME NEW T \in SUBSET Nat, T # {}
  PROVE  \E x \in T : \A y \in T : x <= y
<1> DEFINE R == OpToRel(<, Nat)
<1>1. IsWellFoundedOn(R, Nat)
  BY NatLessThanWellFounded
<1>2. \A x, y \in Nat : x < y => <<x, y>> \in R
  BY DEF OpToRel
<1> HIDE DEF R
<1>3. PICK x \in T : \A y \in T : ~ (<<y, x>> \in R)
  BY <1>1, WFMin
<1>4. x \in Nat /\ \A y \in T : y \in Nat /\ ~(y < x)
  BY <1>2, <1>3
<1>5. \A a, b \in Nat : ~(b < a) => a <= b
  OBVIOUS
<1> QED  BY <1>4, <1>5

Strongest(f, fs) ==
    \A g \in fs : \/ g.confidence < f.confidence
                  \/ g.confidence = f.confidence /\ f.id <= g.id

LEMMA StrongestExists ==
  ASSUME NEW fs \in SUBSET Field, fs # {}
  PROVE  \E f \in fs : Strongest(f, fs)
<1>0. \A f \in fs : f.confidence \in 0..100 /\ f.id \in Nat
  BY DEF Field
<1> DEFINE Weaknesses == {100 - f.confidence : f \in fs}
<1>1. Weaknesses \in SUBSET Nat /\ Weaknesses # {}
  BY <1>0
<1>2. PICK w \in Weaknesses : \A v \in Weaknesses : w <= v
  BY <1>1, LeastNatural
<1>3. ASSUME NEW f \in fs, NEW g \in fs, 100 - f.confidence = w PROVE g.confidence <= f.confidence
  <2>1. w <= 100 - g.confidence
    BY <1>2
  <2> QED  BY <1>0, <1>3, <2>1
<1> DEFINE top == {f \in fs : 100 - f.confidence = w}
           Ids == {f.id : f \in top}
<1>4. Ids \in SUBSET Nat /\ Ids # {}
  BY <1>0, <1>2
<1>5. PICK i \in Ids : \A j \in Ids : i <= j
  BY <1>4, LeastNatural
<1>6. PICK f \in top : f.id = i
  BY <1>5
<1>7. ASSUME NEW g \in fs
      PROVE  g.confidence < f.confidence \/ (g.confidence = f.confidence /\ f.id <= g.id)
  <2>1. CASE g \in top
    BY <1>0, <1>5, <1>6, <2>1
  <2>2. CASE g \notin top
    BY <1>0, <1>3, <1>6, <2>2
  <2> QED  BY <2>1, <2>2
<1> QED  BY <1>6, <1>7 DEF Strongest

\* Best is the value of a usable field, and of one that no usable field outweighs.
LEMMA BestIsStrongest ==
  ASSUME NEW fs \in SUBSET Field, NEW k, Usable(fs, k) # {}
  PROVE  \E f \in Usable(fs, k) : Best(fs, k) = f.value /\ Strongest(f, Usable(fs, k))
<1> DEFINE usable == Usable(fs, k)
<1>1. usable \in SUBSET Field
  BY DEF Usable, OfKey
<1>2. \E f \in usable : Strongest(f, usable)
  BY <1>1, StrongestExists
<1> DEFINE best == CHOOSE f \in usable : Strongest(f, usable)
<1>3. best \in usable /\ Strongest(best, usable)
  BY <1>2
<1>4. Best(fs, k) = best.value
  BY DEF Best, Strongest
<1> QED  BY <1>3, <1>4

LEMMA BestType ==
  ASSUME NEW fs \in SUBSET Field, NEW k
  PROVE  /\ Best(fs, k) \in Values \cup {Blank}
         /\ Usable(fs, k) # {} => Best(fs, k) \in Values
<1>1. CASE Usable(fs, k) = {}
  BY <1>1 DEF Best
<1>2. CASE Usable(fs, k) # {}
  <2>1. PICK f \in Usable(fs, k) : Best(fs, k) = f.value
    BY <1>2, BestIsStrongest
  <2>2. f \in Field
    BY DEF Usable, OfKey
  <2> QED  BY <2>1, <2>2 DEF Field
<1> QED  BY <1>1, <1>2

\* The catalogue entry of a record.
Entry == [name: Values \cup {Blank}, area: Values \cup {Blank}, facts: [Keys -> Values \cup {Blank}]]

LEMMA PublicationType ==
  ASSUME NEW fs \in SUBSET Field, NEW n \in Values, NEW a \in Values \cup {Blank}
  PROVE  Publication(fs, n, a) \in Entry
<1>1. [k \in Keys |-> Best(fs, k)] \in [Keys -> Values \cup {Blank}]
  BY BestType
<1>2. (IF a = Blank THEN Best(fs, "Area") ELSE a) \in Values \cup {Blank}
  BY BestType
<1> QED  BY <1>1, <1>2 DEF Publication, Entry

-----------------------------------------------------------------------------
(***************************************************************************)
(* Type correctness.                                                       *)
(***************************************************************************)

\* The fields of a record: typed, one to an id.
Sound(fs) == fs \subseteq Field /\ \A f, g \in fs : f.id = g.id => f = g

LEMMA CrawlType ==
  ASSUME NEW ids \in Crawls
  PROVE  Sound(FromCrawl(ids))
<1> DEFINE F(i) == [id |-> i, key |-> Crawled[i].key, value |-> Crawled[i].value,
                    source |-> Crawled[i].source, method |-> Crawled[i].method,
                    confidence |-> Crawled[i].confidence, excluded |-> FALSE]
<1>1. \A i \in ids : F(i) \in Field /\ F(i).id = i
  BY EvidenceAssumption DEF Field
<1>2. FromCrawl(ids) = {F(i) : i \in ids}
  BY DEF FromCrawl
<1> HIDE DEF F
<1> QED  BY <1>1, <1>2 DEF Sound

LEMMA SupportedType ==
  ASSUME NEW fs \in SUBSET Field, NEW k, NEW S, Values \subseteq S, NEW otherwise \in S
  PROVE  Supported(fs, k, otherwise) \in S
  BY BestType DEF Supported

\* A crawl names the cafe and its area, if only by the host.
LEMMA NamedType ==
  ASSUME NEW fs \in SUBSET Field
  PROVE  Supported(fs, "Identity", Host) \in Values /\ Supported(fs, "Area", Blank) \in Values \cup {Blank}
<1>1. Host \in Values
  BY EvidenceAssumption DEF Host
<1> QED  BY <1>1, BestType DEF Supported

\* Whatever an edit makes of the fields, saving them keeps the record typed.
LEMMA SaveType ==
  ASSUME TypeOK, NEW fs, Sound(fs), SaveReviewed(fs)
  PROVE  TypeOK'
<1>1. fs \in SUBSET Field
  BY DEF Sound
<1>2. name' \in Values /\ area' \in Values \cup {Blank}
  BY <1>1, SupportedType DEF SaveReviewed, TypeOK
<1>3. /\ fields' = fs /\ state' = "needs_review" /\ entry' = entry /\ crawls' = crawls
      /\ issue' \in {"none", "unnamed", "error"}
  BY DEF SaveReviewed, NameIssue, TypeOK
<1> QED  BY <1>2, <1>3 DEF TypeOK, Sound

LEMMA AppendType ==
  ASSUME TypeOK, NEW fs, Sound(fs), NEW k \in Keys, NEW v \in Values, Appended(fs, k, v),
         \A f \in fs : \E g \in fields : f.id = g.id
  PROVE  TypeOK'
<1>1. PICK i \in FreeIds : SaveReviewed(fs \cup {Manual(i, k, v)})
  BY DEF Appended
<1>2. Manual(i, k, v) \in Field /\ Manual(i, k, v).id = i
  BY DEF Manual, Field, FreeIds
<1>3. \A f \in fs : f.id # i
  BY DEF FreeIds, TypeOK, Field
<1>4. Sound(fs \cup {Manual(i, k, v)})
  BY <1>2, <1>3 DEF Sound
<1> QED  BY <1>1, <1>4, SaveType

\* Edits that rewrite the fields of a key leave every field its id.
LEMMA ChosenType ==
  ASSUME TypeOK, NEW f \in fields
  PROVE  Sound({IF g.key = f.key THEN Chosen(g, f.value) ELSE g : g \in fields})
<1> DEFINE C(g) == IF g.key = f.key THEN Chosen(g, f.value) ELSE g
<1>1. \A g \in fields : C(g) \in Field /\ C(g).id = g.id
  BY DEF TypeOK, Field, Chosen
<1> HIDE DEF C
<1>2. Sound({C(g) : g \in fields})
  BY <1>1 DEF Sound, TypeOK
<1> QED  BY <1>2 DEF C

LEMMA ReplacedType ==
  ASSUME TypeOK, NEW f \in fields
  PROVE  Sound(Replaced(f)) /\ \A h \in Replaced(f) : \E g \in fields : h.id = g.id
<1> DEFINE C(g) == IF g.key = f.key THEN [g EXCEPT !.excluded = TRUE] ELSE g
<1>1. \A g \in fields : C(g) \in Field /\ C(g).id = g.id
  BY DEF TypeOK, Field
<1>2. Replaced(f) = {C(g) : g \in fields}
  BY DEF Replaced
<1> HIDE DEF C
<1> QED  BY <1>1, <1>2 DEF Sound, TypeOK

\* One field is rewritten.
LEMMA RewrittenType ==
  ASSUME TypeOK, NEW f \in fields, NEW h \in Field, h.id = f.id
  PROVE  Sound((fields \ {f}) \cup {h})
  BY DEF Sound, TypeOK

LEMMA TypeInit == Init => TypeOK
<1> SUFFICES ASSUME Init PROVE TypeOK
  OBVIOUS
<1>1. Sound(fields)
  BY CrawlType DEF Init
<1>2. name \in Values /\ area \in Values \cup {Blank}
  BY <1>1, NamedType DEF Init, Sound
<1>3. NotPublished \in Entry
  BY DEF NotPublished, Entry
<1> QED  BY <1>1, <1>2, <1>3, EvidenceAssumption DEF Init, NameIssue, TypeOK, Sound, Entry

LEMMA TypeStep ==
  ASSUME TypeOK, [Next]_vars
  PROVE  TypeOK'
<1>1. CASE Refresh \/ CrawlFails \/ Review
  BY <1>1, EvidenceAssumption DEF Refresh, CrawlFails, Review, TypeOK
<1>10. CASE Crawl
  <2>1. Sound(fields')
    BY <1>10, CrawlType DEF Crawl
  <2>2. name' \in Values /\ area' \in Values \cup {Blank}
    BY <1>10, <2>1, NamedType DEF Crawl, Sound
  <2>3. issue' \in {"none", "unnamed", "error"} /\ crawls' \in 0..MaxCrawls
    BY <1>10, EvidenceAssumption DEF Crawl, NameIssue, TypeOK
  <2> QED  BY <1>10, <2>1, <2>2, <2>3 DEF Crawl, TypeOK, Sound
<1>2. CASE SetPhotoOverride
  BY <1>2, SaveType DEF SetPhotoOverride, TypeOK, Sound
<1>3. CASE Publish
  <2>1. Publication(fields, name, area) \in Entry
    BY PublicationType DEF TypeOK
  <2> QED  BY <1>3, <2>1 DEF Publish, TypeOK, Entry
<1>4. ASSUME NEW k \in Keys, NEW v \in Values, AddManualEvidence(k, v) PROVE TypeOK'
  BY <1>4, AppendType DEF AddManualEvidence, TypeOK, Sound
<1>5. ASSUME NEW f \in fields, RemoveManualEvidence(f) PROVE TypeOK'
  <2>1. Sound(fields \ {f})
    BY DEF Sound, TypeOK
  <2> QED  BY <1>5, <2>1, SaveType DEF RemoveManualEvidence
<1>6. ASSUME NEW f \in fields, ChooseEvidence(f) PROVE TypeOK'
  BY <1>6, ChosenType, SaveType DEF ChooseEvidence
<1>7. ASSUME NEW f \in fields, NEW excluded \in BOOLEAN, SetEvidenceExcluded(f, excluded) PROVE TypeOK'
  <2> DEFINE h == [f EXCEPT !.excluded = excluded]
  <2>1. h \in Field /\ h.id = f.id
    BY DEF TypeOK, Field
  <2>2. Sound((fields \ {f}) \cup {h})
    BY <2>1, RewrittenType
  <2> QED  BY <1>7, <2>2, SaveType DEF SetEvidenceExcluded
<1>8. ASSUME NEW f \in fields, NEW v \in Values, ReplaceEvidence(f, v) PROVE TypeOK'
  <2>1. CASE f.method = "manual"
    <3> DEFINE h == [f EXCEPT !.value = v]
    <3>1. h \in Field /\ h.id = f.id
      BY DEF TypeOK, Field
    <3>2. Sound((fields \ {f}) \cup {h})
      BY <3>1, RewrittenType
    <3> QED  BY <1>8, <2>1, <3>2, SaveType DEF ReplaceEvidence
  <2>2. CASE f.method # "manual"
    <3>1. f.key \in Keys
      BY DEF TypeOK, Field
    <3> QED  BY <1>8, <2>2, <3>1, ReplacedType, AppendType DEF ReplaceEvidence
  <2> QED  BY <2>1, <2>2
<1>9. CASE UNCHANGED vars
  BY <1>9 DEF vars, TypeOK
<1> QED  BY <1>1, <1>2, <1>3, <1>4, <1>5, <1>6, <1>7, <1>8, <1>9, <1>10 DEF Next

(***************************************************************************)
(* The record and its catalogue entry are well typed, and no two pieces of *)
(* evidence share an id, however they are added (newManualEvidenceID).     *)
(***************************************************************************)
THEOREM TypeCorrect == Spec => []TypeOK
  BY TypeInit, TypeStep, PTL DEF Spec

-----------------------------------------------------------------------------
(***************************************************************************)
(* What is published.                                                      *)
(***************************************************************************)

(***************************************************************************)
(* A record shown as published is, evidence and all, what search serves:   *)
(* saveReviewedEvidence returns every changed record to review.            *)
(***************************************************************************)
THEOREM PublishedRecordsAreServed == Spec => []PublishedIsServed
<1>1. Init => PublishedIsServed
  BY DEF Init, PublishedIsServed
<1>2. PublishedIsServed /\ [Next]_vars => PublishedIsServed'
  <2> SUFFICES ASSUME PublishedIsServed, [Next]_vars PROVE PublishedIsServed'
    OBVIOUS
  <2>1. CASE state' # "published"
    BY <2>1 DEF PublishedIsServed
  <2>2. CASE Publish
    <3>1. entry' = Publication(fields', name', area')
      BY <2>2 DEF Publish
    <3>2. Conflicted(fields') = {}
      BY <2>2 DEF Publish
    <3> QED  BY <3>1, <3>2 DEF PublishedIsServed
  <2>3. CASE UNCHANGED vars
    BY <2>3 DEF vars, PublishedIsServed
  <2> QED  BY <2>1, <2>2, <2>3 DEF Next, Refresh, Crawl, CrawlFails, Review, SetPhotoOverride,
             AddManualEvidence, Appended,
             RemoveManualEvidence, ChooseEvidence, SetEvidenceExcluded, ReplaceEvidence, SaveReviewed
<1> QED  BY <1>1, <1>2, PTL DEF Spec

(***************************************************************************)
(* Sources that contradict each other on a key that conflicts matter for   *)
(* are published on Google's word: detectEvidenceConflicts lets them pass  *)
(* only when Google outweighs the others, and then publicationData's best  *)
(* is a Google field.                                                      *)
(***************************************************************************)
THEOREM ContradictionsArePublishedOnGooglesWord == Spec => []ContradictionsFollowGoogle
<1>1. TypeOK /\ PublishedIsServed => ContradictionsFollowGoogle
  <2> SUFFICES ASSUME TypeOK, PublishedIsServed, state = "published",
                      NEW k \in Keys \cap ConflictSensitive, Contradicted(fields, k)
               PROVE  \E g \in OfKey(fields, k) : g.method = "google" /\ g.value = entry.facts[k]
    BY DEF ContradictionsFollowGoogle
  <2>1. ~Conflicting(fields, k)
    BY DEF PublishedIsServed, Conflicted
  <2>2. GoogleWins(fields, k)
    BY <2>1 DEF Conflicting
  <2>3. Usable(fields, k) = OfKey(fields, k)
    BY <2>1 DEF Usable
  <2>4. PICK g \in OfKey(fields, k) :
           /\ g.method = "google"
           /\ \A f \in OfKey(fields, k) :
                \/ f.method = "google" /\ f.confidence <= g.confidence
                \/ f.method \notin {"google", "manual"} /\ f.confidence <= g.confidence - 10
    BY <2>2 DEF GoogleWins
  <2>5. PICK f \in OfKey(fields, k) : Best(fields, k) = f.value /\ Strongest(f, OfKey(fields, k))
    BY <2>3, <2>4, BestIsStrongest DEF TypeOK
  <2>6. f.confidence \in Int /\ g.confidence \in Int
    BY DEF TypeOK, OfKey, Field
  <2>7. g.confidence <= f.confidence
    BY <2>5, <2>6 DEF Strongest
  <2>8. f.method = "google"
    BY <2>4, <2>6, <2>7
  <2>9. entry.facts[k] = Best(fields, k)
    BY DEF PublishedIsServed, Publication
  <2> QED  BY <2>5, <2>8, <2>9
<1> QED  BY <1>1, TypeCorrect, PublishedRecordsAreServed, PTL

-----------------------------------------------------------------------------
(***************************************************************************)
(* What a review decides.                                                  *)
(***************************************************************************)

\* Fields that agree settle their key.
LEMMA AgreeingFieldsSettle ==
  ASSUME NEW fs \in SUBSET Field, NEW k, NEW v, NEW f \in OfKey(fs, k),
         \A g \in OfKey(fs, k) : g.value = v
  PROVE  ~Conflicting(fs, k) /\ Best(fs, k) = v
<1>1. ~Conflicting(fs, k)
  BY DEF Conflicting, Contradicted
<1>2. Usable(fs, k) = OfKey(fs, k)
  BY <1>1 DEF Usable
<1> QED  BY <1>1, <1>2, BestIsStrongest

(***************************************************************************)
(* Choosing a value, or correcting a sourced one, leaves the key without a *)
(* conflict and publishing that value, whatever was excluded, chosen or    *)
(* added before (ChooseEvidence, ReplaceEvidence).                         *)
(***************************************************************************)
THEOREM TheReviewerDecides == Spec => ReviewerDecides
<1>1. ASSUME TypeOK, TypeOK', NEW f \in fields, ChooseEvidence(f)
      PROVE  ~Conflicting(fields', f.key) /\ Best(fields', f.key) = f.value
  <2> DEFINE C(g) == IF g.key = f.key THEN Chosen(g, f.value) ELSE g
  <2>1. fields' = {C(g) : g \in fields} /\ fields' \in SUBSET Field
    BY <1>1 DEF ChooseEvidence, SaveReviewed, TypeOK
  <2>2. \A g \in fields : /\ C(g).key = g.key /\ C(g).value = g.value
                          /\ g.key = f.key => C(g).excluded = (g.value # f.value)
    BY <1>1 DEF Chosen, TypeOK, Field
  <2> HIDE DEF C
  <2>3. C(f) \in OfKey(fields', f.key)
    BY <2>1, <2>2 DEF OfKey
  <2>4. ASSUME NEW h \in OfKey(fields', f.key) PROVE h.value = f.value
    <3>1. h.key = f.key /\ ~h.excluded
      BY DEF OfKey
    <3>2. PICK g \in fields : h = C(g)
      BY <2>1 DEF OfKey
    <3>3. g.key = f.key /\ h.value = g.value /\ h.excluded = (g.value # f.value)
      BY <2>2, <3>1, <3>2
    <3> QED  BY <3>1, <3>3
  <2> QED  BY <2>1, <2>3, <2>4, AgreeingFieldsSettle
<1>2. ASSUME TypeOK, TypeOK', NEW f \in fields, NEW v \in Values, f.method # "manual", ReplaceEvidence(f, v)
      PROVE  ~Conflicting(fields', f.key) /\ Best(fields', f.key) = v
  <2>1. PICK i \in FreeIds : fields' = Replaced(f) \cup {Manual(i, f.key, v)}
    BY <1>2 DEF ReplaceEvidence, Appended, SaveReviewed
  <2>2. \A g \in fields : [g EXCEPT !.excluded = TRUE].excluded
    BY <1>2 DEF TypeOK, Field
  <2>3. \A g \in fields : [g EXCEPT !.excluded = TRUE].key = g.key
    BY <1>2 DEF TypeOK, Field
  <2>4. OfKey(Replaced(f), f.key) = {}
    BY <2>2, <2>3 DEF OfKey, Replaced
  <2>5. /\ Manual(i, f.key, v).key = f.key /\ Manual(i, f.key, v).value = v
        /\ ~Manual(i, f.key, v).excluded
    BY DEF Manual
  <2>6. OfKey(fields', f.key) = {Manual(i, f.key, v)}
    BY <2>1, <2>4, <2>5 DEF OfKey
  <2>7. fields' \in SUBSET Field
    BY <1>2 DEF TypeOK
  <2> QED  BY <2>5, <2>6, <2>7, AgreeingFieldsSettle
<1>3. TypeOK /\ TypeOK' /\ [Next]_vars =>
         [/\ \A f \in fields : ChooseEvidence(f) =>
                ~Conflicting(fields', f.key) /\ Best(fields', f.key) = f.value
          /\ \A f \in fields, v \in Values : f.method # "manual" /\ ReplaceEvidence(f, v) =>
                ~Conflicting(fields', f.key) /\ Best(fields', f.key) = v]_vars
  BY <1>1, <1>2
<1> QED  BY <1>3, TypeCorrect, PTL DEF Spec, ReviewerDecides

-----------------------------------------------------------------------------
(***************************************************************************)
(* The refinement.  A removal by hand names no cafe: while the name is     *)
(* missing no field says it, and what was added by hand cites no source,   *)
(* so a conflict between sources stays when it goes.                       *)
(***************************************************************************)
NothingNamesIt == issue = "unnamed" => Usable(fields, "Identity") = {}
HandCitesNothing == \A f \in fields : f.method = "manual" => f.source = NoSource

LEMMA CrawlAddsNothingByHand ==
  ASSUME NEW ids \in Crawls
  PROVE  \A f \in FromCrawl(ids) : f.method # "manual"
<1>1. \A i \in ids : Crawled[i].method \in {"google", "sourced"}
  BY EvidenceAssumption
<1> QED  BY <1>1 DEF FromCrawl

LEMMA NamelessInvariant == Spec => [](NothingNamesIt /\ HandCitesNothing)
<1>1. Init => NothingNamesIt /\ HandCitesNothing
  BY CrawlAddsNothingByHand DEF Init, NameIssue, NothingNamesIt, HandCitesNothing
<1>2. NothingNamesIt /\ HandCitesNothing /\ TypeOK /\ [Next]_vars => (NothingNamesIt /\ HandCitesNothing)'
  <2> SUFFICES ASSUME NothingNamesIt, HandCitesNothing, TypeOK, [Next]_vars
               PROVE  NothingNamesIt' /\ HandCitesNothing'
    OBVIOUS
  <2>1. CASE Refresh \/ CrawlFails \/ Review \/ Publish \/ UNCHANGED vars
    BY <2>1 DEF Refresh, CrawlFails, Review, Publish, vars, NothingNamesIt, HandCitesNothing, Usable
  <2>2. CASE Crawl
    BY <2>2, CrawlAddsNothingByHand DEF Crawl, NameIssue, NothingNamesIt, HandCitesNothing
  <2>3. ASSUME NEW fs, SaveReviewed(fs), \A f \in fs : f.method = "manual" => f.source = NoSource
        PROVE  NothingNamesIt' /\ HandCitesNothing'
    BY <2>3 DEF SaveReviewed, NameIssue, NothingNamesIt, HandCitesNothing
  <2>4. CASE SetPhotoOverride
    BY <2>3, <2>4 DEF SetPhotoOverride, HandCitesNothing
  <2>5. ASSUME NEW fs, NEW k, NEW v, Appended(fs, k, v),
               \A f \in fs : f.method = "manual" => f.source = NoSource
        PROVE  NothingNamesIt' /\ HandCitesNothing'
    <3>1. PICK i \in FreeIds : SaveReviewed(fs \cup {Manual(i, k, v)})
      BY <2>5 DEF Appended
    <3>2. Manual(i, k, v).source = NoSource
      BY DEF Manual
    <3> QED  BY <2>3, <2>5, <3>1, <3>2
  <2>6. ASSUME NEW k \in Keys, NEW v \in Values, AddManualEvidence(k, v)
        PROVE  NothingNamesIt' /\ HandCitesNothing'
    BY <2>5, <2>6 DEF AddManualEvidence, HandCitesNothing
  <2>7. ASSUME NEW f \in fields, RemoveManualEvidence(f)
        PROVE  NothingNamesIt' /\ HandCitesNothing'
    BY <2>3, <2>7 DEF RemoveManualEvidence, HandCitesNothing
  <2>8. ASSUME NEW f \in fields, ChooseEvidence(f)
        PROVE  NothingNamesIt' /\ HandCitesNothing'
    <3> DEFINE C(g) == IF g.key = f.key THEN Chosen(g, f.value) ELSE g
    <3>1. \A g \in fields : C(g).method = g.method /\ C(g).source = g.source
      BY DEF Chosen, TypeOK, Field
    <3>2. SaveReviewed({C(g) : g \in fields})
      BY <2>8 DEF ChooseEvidence
    <3> HIDE DEF C
    <3> QED  BY <2>3, <3>1, <3>2 DEF HandCitesNothing
  <2>9. ASSUME NEW f \in fields, NEW excluded \in BOOLEAN, SetEvidenceExcluded(f, excluded)
        PROVE  NothingNamesIt' /\ HandCitesNothing'
    <3> DEFINE h == [f EXCEPT !.excluded = excluded]
    <3>1. h.method = f.method /\ h.source = f.source
      BY DEF TypeOK, Field
    <3>2. SaveReviewed((fields \ {f}) \cup {h})
      BY <2>9 DEF SetEvidenceExcluded
    <3> HIDE DEF h
    <3> QED  BY <2>3, <3>1, <3>2 DEF HandCitesNothing
  <2>10. ASSUME NEW f \in fields, NEW v \in Values, ReplaceEvidence(f, v)
         PROVE  NothingNamesIt' /\ HandCitesNothing'
    <3>1. CASE f.method = "manual"
      <4> DEFINE h == [f EXCEPT !.value = v]
      <4>1. h.method = f.method /\ h.source = f.source
        BY DEF TypeOK, Field
      <4>2. SaveReviewed((fields \ {f}) \cup {h})
        BY <2>10, <3>1 DEF ReplaceEvidence
      <4> HIDE DEF h
      <4> QED  BY <2>3, <4>1, <4>2 DEF HandCitesNothing
    <3>2. CASE f.method # "manual"
      <4> DEFINE C(g) == IF g.key = f.key THEN [g EXCEPT !.excluded = TRUE] ELSE g
      <4>1. \A g \in fields : C(g).method = g.method /\ C(g).source = g.source
        BY DEF TypeOK, Field
      <4>2. Replaced(f) = {C(g) : g \in fields}
        BY DEF Replaced
      <4> HIDE DEF C
      <4>3. \A g \in Replaced(f) : g.method = "manual" => g.source = NoSource
        BY <4>1, <4>2 DEF HandCitesNothing
      <4> QED  BY <2>5, <2>10, <3>2, <4>3 DEF ReplaceEvidence
    <3> QED  BY <3>1, <3>2
  <2> QED  BY <2>1, <2>2, <2>4, <2>6, <2>7, <2>8, <2>9, <2>10 DEF Next
<1> QED  BY <1>1, <1>2, TypeCorrect, PTL DEF Spec

\* Removing evidence without a source leaves a nameless record nameless.
LEMMA RemovalNamesNothing ==
  ASSUME NEW f, f.source = NoSource, Usable(fields, "Identity") = {}
  PROVE  Usable(fields \ {f}, "Identity") = {}
<1>1. CASE OfKey(fields, "Identity") = {}
  BY <1>1 DEF OfKey, Usable
<1>2. CASE OfKey(fields, "Identity") # {}
  <2>1. Conflicting(fields, "Identity")
    BY <1>2 DEF Usable
  <2>2. Contradicted(fields \ {f}, "Identity")
    BY <2>1 DEF Conflicting, Contradicted, OfKey
  <2>3. "Identity" \in ConflictSensitive /\ ~GoogleWins(fields \ {f}, "Identity")
    BY DEF ConflictSensitive, GoogleWins, Operational
  <2> QED  BY <2>2, <2>3 DEF Conflicting, Usable
<1> QED  BY <1>1, <1>2

\* What a save of edited fields is to the abstract run.
LEMMA SaveIsAnEdit ==
  ASSUME TypeOK, NEW fs, SaveReviewed(fs), EvidenceCanBeEdited,
         HasManual => \E f \in fs : f.method = "manual"
  PROVE  Run!Edit
<1>1. state # "enriching" /\ state' = "needs_review" /\ crawls' = crawls /\ fields' = fs
  BY DEF SaveReviewed, EvidenceCanBeEdited
<1>2. Class' \in Run!Classes
  BY DEF Class, Run!Classes
<1>3. issue' \in IF issue = "unnamed" THEN {"unnamed", "none"} ELSE {issue}
  BY DEF SaveReviewed, NameIssue
<1>4. HasManual' \in {HasManual, TRUE}
  <2>1. HasManual' = \E f \in fs : f.method = "manual"
    BY <1>1 DEF HasManual
  <2>2. HasManual \in BOOLEAN /\ HasManual' \in BOOLEAN
    BY DEF HasManual
  <2> QED  BY <2>1, <2>2
<1> QED  BY <1>1, <1>2, <1>3, <1>4 DEF Run!Edit

(***************************************************************************)
(* The evidence does no more than Ingestion lets it do: every step of a    *)
(* review is a step of ReviewedRun, or leaves what Ingestion sees alone.   *)
(* An edit is not a crawl there: it waits for the crawl to end, keeps what *)
(* was added by hand and the name that was found, and returns the record   *)
(* to review (service.go).                                                 *)
(***************************************************************************)
THEOREM EvidenceImplementsReviewedRun == Spec => ReviewsRun
<1>0. /\ Class \in Run!Classes /\ Class' \in Run!Classes
      /\ HasManual \in BOOLEAN /\ HasManual' \in BOOLEAN
  BY DEF Class, Run!Classes, HasManual
<1>1. Init => Run!Init
  <2> SUFFICES ASSUME Init PROVE Run!Init
    OBVIOUS
  <2>1. HasManual = FALSE
    BY CrawlAddsNothingByHand DEF Init, HasManual
  <2> QED  BY <1>0, <2>1 DEF Init, NameIssue, Run!Init
<1>2. [Next]_vars /\ TypeOK /\ NothingNamesIt /\ HandCitesNothing => [Run!Next]_(Run!vars)
  <2> SUFFICES ASSUME [Next]_vars, TypeOK, NothingNamesIt, HandCitesNothing
               PROVE  [Run!Next]_(Run!vars)
    OBVIOUS
  <2>1. ASSUME fields' = fields, name' = name, area' = area
        PROVE  Class' = Class /\ HasManual' = HasManual
    BY <2>1 DEF Class, HasManual
  <2>2. CASE Refresh
    BY <2>1, <2>2 DEF Refresh, Run!Next, Run!Refresh
  <2>3. CASE Crawl
    <3>1. HasManual' = FALSE
      BY <2>3, CrawlAddsNothingByHand DEF Crawl, HasManual
    <3> QED  BY <1>0, <2>3, <3>1 DEF Crawl, NameIssue, Run!Next, Run!Crawl
  <2>4. CASE CrawlFails
    BY <2>1, <2>4 DEF CrawlFails, Run!Next, Run!CrawlFails
  <2>5. CASE Review
    BY <2>1, <2>5 DEF Review, Run!Next, Run!Review
  <2>6. CASE Publish
    <3>1. Class = "complete"
      BY <2>6 DEF Publish, Class
    <3> QED  BY <2>1, <2>6, <3>1 DEF Publish, Run!Next, Run!Publish
  <2>7. CASE SetPhotoOverride
    BY <2>7, SaveIsAnEdit DEF SetPhotoOverride, HasManual, Run!Next
  <2>8. ASSUME NEW fs, NEW k, NEW v, Appended(fs, k, v), EvidenceCanBeEdited PROVE Run!Next
    <3>1. PICK i \in FreeIds : SaveReviewed(fs \cup {Manual(i, k, v)})
      BY <2>8 DEF Appended
    <3>2. Manual(i, k, v).method = "manual"
      BY DEF Manual
    <3> QED  BY <2>8, <3>1, <3>2, SaveIsAnEdit DEF Run!Next
  <2>9. ASSUME NEW k \in Keys, NEW v \in Values, AddManualEvidence(k, v) PROVE Run!Next
    BY <2>8, <2>9 DEF AddManualEvidence
  <2>10. ASSUME NEW f \in fields, RemoveManualEvidence(f) PROVE Run!Next
    <3>1. f.method = "manual" /\ SaveReviewed(fields \ {f})
      BY <2>10 DEF RemoveManualEvidence
    <3>2. issue' = issue
      <4>1. CASE issue = "unnamed"
        <5>1. Usable(fields \ {f}, "Identity") = {}
          BY <3>1, <4>1, RemovalNamesNothing DEF NothingNamesIt, HandCitesNothing
        <5> QED  BY <3>1, <4>1, <5>1 DEF SaveReviewed, NameIssue
      <4>2. CASE issue # "unnamed"
        BY <3>1, <4>2 DEF SaveReviewed
      <4> QED  BY <4>1, <4>2
    <3>3. HasManual
      BY <3>1 DEF HasManual
    <3> QED  BY <1>0, <3>1, <3>2, <3>3 DEF SaveReviewed, Run!Next, Run!RemoveManual
  <2>11. ASSUME NEW f \in fields, ChooseEvidence(f) PROVE Run!Next
    <3> DEFINE C(g) == IF g.key = f.key THEN Chosen(g, f.value) ELSE g
    <3>1. \A g \in fields : C(g).method = g.method
      BY DEF Chosen, TypeOK, Field
    <3>2. SaveReviewed({C(g) : g \in fields}) /\ EvidenceCanBeEdited
      BY <2>11 DEF ChooseEvidence
    <3> HIDE DEF C
    <3>3. HasManual => \E h \in {C(g) : g \in fields} : h.method = "manual"
      BY <3>1 DEF HasManual
    <3> QED  BY <3>2, <3>3, SaveIsAnEdit DEF Run!Next
  <2>12. ASSUME NEW f \in fields, NEW h, h.method = f.method, EvidenceCanBeEdited,
                SaveReviewed((fields \ {f}) \cup {h})
         PROVE  Run!Next
    <3>1. HasManual => \E g \in (fields \ {f}) \cup {h} : g.method = "manual"
      BY <2>12 DEF HasManual
    <3> QED  BY <2>12, <3>1, SaveIsAnEdit DEF Run!Next
  <2>13. ASSUME NEW f \in fields, NEW excluded \in BOOLEAN, SetEvidenceExcluded(f, excluded)
         PROVE  Run!Next
    <3>1. [f EXCEPT !.excluded = excluded].method = f.method
      BY DEF TypeOK, Field
    <3> QED  BY <2>12, <2>13, <3>1 DEF SetEvidenceExcluded
  <2>14. ASSUME NEW f \in fields, NEW v \in Values, ReplaceEvidence(f, v) PROVE Run!Next
    <3>1. [f EXCEPT !.value = v].method = f.method
      BY DEF TypeOK, Field
    <3> QED  BY <2>8, <2>12, <2>14, <3>1 DEF ReplaceEvidence
  <2>15. CASE UNCHANGED vars
    BY <2>1, <2>15 DEF vars, Run!vars
  <2> QED  BY <2>2, <2>3, <2>4, <2>5, <2>6, <2>7, <2>9, <2>10, <2>11, <2>13, <2>14, <2>15 DEF Next
<1> QED  BY <1>1, <1>2, TypeCorrect, NamelessInvariant, PTL DEF Spec, ReviewsRun, Run!Spec
=============================================================================

------------------------------ MODULE Evidence ------------------------------
(***************************************************************************)
(* The evidence of one crawled record while an administrator reviews it:   *)
(* which value each key publishes, and what adding, removing, excluding,   *)
(* choosing and correcting evidence does to that and to its conflicts.     *)
(*                                                                         *)
(* A field's value stands for its canonicalConflictValue.  Requests come   *)
(* one at a time here, and a crawl writes its evidence in one step, though *)
(* requests are served while it runs; Ingestion has them overlap.          *)
(***************************************************************************)
EXTENDS Conflicts, FiniteSets

CONSTANTS
    Keys,        \* the evidence keys of this instance
    Values,      \* canonical values
    Blank,       \* no value
    Sources,     \* source URLs
    Crawled,     \* the facts that pages and services hold, as a sequence
    Crawls,      \* what one crawl may bring of them: sets of indices of Crawled
    MaxFields,   \* how many fields a record gets (bound)
    MaxCrawls    \* how many crawls of the record are queued or running (bound)

ASSUME EvidenceAssumption ==
    /\ Values # {} /\ Blank \notin Values
    /\ NoSource \notin Sources
    /\ {MaxFields, MaxCrawls} \subseteq Nat
    /\ DOMAIN Crawled \subseteq 1..MaxFields
    /\ \A i \in DOMAIN Crawled :
          Crawled[i] \in [key: Keys, value: Values, source: Sources \cup {NoSource},
                          method: {"google", "sourced"}, confidence: 0..100]
    /\ Crawls \subseteq SUBSET DOMAIN Crawled

VARIABLES
    fields,      \* run.Fields, in the order of their ids
    name, area,  \* run.Name and run.Area, kept when no evidence supports them
    issue,       \* what Issues holds besides conflicts
    state,       \* run.State
    crawls,      \* crawls of the record that are queued or running
    entry        \* the catalogue entry that the last publication wrote

vars == <<fields, name, area, issue, state, crawls, entry>>

ManualEvidenceKeys ==
    {"Other note", "Manual caveat", "Seating comfort", "Table size", "Wi-Fi quality",
     "Power outlets", "Quietness", "Crowd level", "Laptop policy",
     "Long-stay friendliness", "Opening hours", "Minimum price", "Maximum price",
     "Accessibility", "Parking notes", "Ambience"}

Required    == {"Address", "Latitude", "Longitude"}

\* Confidence is in hundredths.
Field == [id: 1..MaxFields, key: Keys, value: Values, source: Sources \cup {NoSource},
          method: {"google", "sourced", "manual"}, confidence: 0..100, excluded: BOOLEAN]

-----------------------------------------------------------------------------
(***************************************************************************)
(* What a key publishes, and chooseRecordIdentity.                         *)
(***************************************************************************)
Conflicted(fs) == {k \in Keys : Conflicting(fs, k)}

\* The strongest usable field of a key, the earlier one of equals.
Usable(fs, k) == IF Conflicting(fs, k) THEN {} ELSE OfKey(fs, k)

Best(fs, k) ==
    LET usable == Usable(fs, k) IN
    IF usable = {} THEN Blank
    ELSE (CHOOSE f \in usable :
            \A g \in usable :
                \/ g.confidence < f.confidence
                \/ g.confidence = f.confidence /\ f.id <= g.id).value

Supported(fs, k, otherwise) == IF Usable(fs, k) = {} THEN otherwise ELSE Best(fs, k)

-----------------------------------------------------------------------------
(***************************************************************************)
(* publicationData: what the record publishes, and what it lacks.          *)
(***************************************************************************)
Publication(fs, n, a) ==
    [name |-> n,
     area |-> IF a = Blank THEN Best(fs, "Area") ELSE a,
     facts |-> [k \in Keys |-> Best(fs, k)]]

NotPublished == [name |-> Blank, area |-> Blank, facts |-> [k \in Keys |-> Blank]]

Complete(p) ==
    /\ p.name # Blank /\ p.area # Blank
    /\ \A k \in Required \cap Keys : p.facts[k] # Blank

-----------------------------------------------------------------------------
(***************************************************************************)
(* A crawl leaves its fields, and the host as the name of an unnamed cafe. *)
(***************************************************************************)
FromCrawl(ids) ==
    {[id |-> i, key |-> Crawled[i].key, value |-> Crawled[i].value,
      source |-> Crawled[i].source, method |-> Crawled[i].method,
      confidence |-> Crawled[i].confidence, excluded |-> FALSE] : i \in ids}

Host   == CHOOSE v \in Values : TRUE

NameIssue(fs) == IF Usable(fs, "Identity") = {} THEN "unnamed" ELSE "none"

Init ==
    /\ fields \in {FromCrawl(ids) : ids \in Crawls}
    /\ name = Supported(fields, "Identity", Host)
    /\ area = Supported(fields, "Area", Blank)
    /\ issue = NameIssue(fields)
    /\ state = "needs_review"
    /\ crawls = 0
    /\ entry = NotPublished

Refresh ==
    /\ crawls < MaxCrawls
    /\ crawls' = crawls + 1
    /\ state' = "enriching"
    /\ issue' = "none"
    /\ UNCHANGED <<fields, name, area, entry>>

Crawl ==
    /\ crawls > 0
    /\ crawls' = crawls - 1
    /\ fields' \in {FromCrawl(ids) : ids \in Crawls}
    /\ name' = Supported(fields', "Identity", Host)
    /\ area' = Supported(fields', "Area", Blank)
    /\ issue' = NameIssue(fields')
    /\ state' = "needs_review"
    /\ UNCHANGED entry

\* The page cannot be fetched: Asynq tries again, or gives up.
CrawlFails ==
    /\ crawls > 0
    /\ crawls' \in {crawls, crawls - 1}
    /\ state' = "failed"
    /\ issue' = "error"
    /\ UNCHANGED <<fields, name, area, entry>>

-----------------------------------------------------------------------------
(***************************************************************************)
(* The edits; each ends in saveReviewedEvidence, which normalizes.         *)
(***************************************************************************)
SaveUnreviewed(fs) ==  \* mutant: the record stays in the state it was in
    /\ fields' = fs
    /\ name' = Supported(fs, "Identity", name)
    /\ area' = Supported(fs, "Area", area)
    /\ issue' = IF issue = "unnamed" THEN NameIssue(fs) ELSE issue
    /\ UNCHANGED <<state, crawls, entry>>

SaveWithNameIssue(fs) ==  \* mutant: the issue is raised anew, as by a crawl
    /\ fields' = fs
    /\ name' = Supported(fs, "Identity", name)
    /\ area' = Supported(fs, "Area", area)
    /\ issue' = IF issue = "error" THEN "error" ELSE NameIssue(fs)
    /\ state' = "needs_review"
    /\ UNCHANGED <<crawls, entry>>

SaveReviewed(fs) ==
    /\ fields' = fs
    /\ name' = Supported(fs, "Identity", name)
    /\ area' = Supported(fs, "Area", area)
    /\ issue' = IF issue = "unnamed" THEN NameIssue(fs) ELSE issue
    /\ state' = "needs_review"
    /\ UNCHANGED <<crawls, entry>>

EvidenceCanBeEdited == state # "enriching"

AnyIds == {i \in 1..MaxFields : i > Cardinality(DOMAIN Crawled)}  \* mutant: ids repeat

\* newManualEvidenceID: an id that no field has.
FreeIds ==
    {i \in 1..MaxFields : i > Cardinality(DOMAIN Crawled) /\ \A f \in fields : f.id < i}

Manual(i, k, v) == [id |-> i, key |-> k, value |-> v, source |-> NoSource,
                    method |-> "manual", confidence |-> 90, excluded |-> FALSE]

Appended(fs, k, v) ==
    \E i \in FreeIds :
        /\ \A j \in FreeIds : i <= j
        /\ SaveReviewed(fs \cup {Manual(i, k, v)})

AddManualEvidence(k, v) ==
    /\ EvidenceCanBeEdited
    /\ k \in ManualEvidenceKeys
    /\ Appended(fields, k, v)

\* This one is served whatever the state of the record.
RemoveManualEvidence(f) ==
    /\ f.method = "manual"
    /\ SaveReviewed(fields \ {f})

SetEvidenceExcluded(f, excluded) ==
    /\ EvidenceCanBeEdited
    /\ SaveReviewed((fields \ {f}) \cup {[f EXCEPT !.excluded = excluded]})

\* Every field of the key that agrees with the chosen one counts, every other one
\* is excluded, whichever was excluded before.
ChosenUnlessExcluded(f, value) == [f EXCEPT !.excluded = @ \/ f.value # value]  \* mutant
Chosen(f, value) == [f EXCEPT !.excluded = f.value # value]

ChooseEvidence(f) ==
    /\ EvidenceCanBeEdited
    /\ f.key \in ConflictSensitive
    /\ SaveReviewed({IF g.key = f.key THEN Chosen(g, f.value) ELSE g : g \in fields})

\* A correction stands in for every field of its key; one made by hand is rewritten.
Replaced(f) == {IF g.key = f.key THEN [g EXCEPT !.excluded = TRUE] ELSE g : g \in fields}

ReplaceEvidence(f, v) ==
    \/ /\ EvidenceCanBeEdited
       /\ f.method = "manual"
       /\ SaveReviewed((fields \ {f}) \cup {[f EXCEPT !.value = v]})
    \/ /\ EvidenceCanBeEdited
       /\ f.method # "manual"
       /\ Appended(Replaced(f), f.key, v)

SetPhotoOverride == EvidenceCanBeEdited /\ SaveReviewed(fields)

\* The "review" action of Update; it saves the record as it was read.
Review ==
    /\ state' = "needs_review"
    /\ UNCHANGED <<fields, name, area, issue, crawls, entry>>

Publish ==
    /\ Conflicted(fields) = {} /\ issue = "none"
    /\ state = "needs_review"
    /\ Complete(Publication(fields, name, area))
    /\ entry' = Publication(fields, name, area)
    /\ state' = "published"
    /\ UNCHANGED <<fields, name, area, issue, crawls>>

Next ==
    \/ Refresh \/ Crawl \/ CrawlFails
    \/ SetPhotoOverride \/ Review \/ Publish
    \/ \E k \in Keys, v \in Values : AddManualEvidence(k, v)
    \/ \E f \in fields :
         \/ RemoveManualEvidence(f) \/ ChooseEvidence(f)
         \/ \E excluded \in BOOLEAN : SetEvidenceExcluded(f, excluded)
         \/ \E v \in Values : ReplaceEvidence(f, v)

Spec == Init /\ [][Next]_vars

-----------------------------------------------------------------------------
TypeOK ==
    /\ fields \subseteq Field
    /\ \A f, g \in fields : f.id = g.id => f = g
    /\ name \in Values
    /\ area \in Values \cup {Blank}
    /\ issue \in {"none", "unnamed", "error"}
    /\ state \in {"enriching", "needs_review", "published", "failed"}
    /\ crawls \in 0..MaxCrawls
    /\ entry \in [name: Values \cup {Blank}, area: Values \cup {Blank},
                  facts: [Keys -> Values \cup {Blank}]]

\* A record shown as published is, evidence and all, what search serves: every change
\* to it returned it to review ("so you explicitly republish the revision").
PublishedIsServed ==
    state = "published" =>
        /\ entry = Publication(fields, name, area)
        /\ Conflicted(fields) = {}

\* Sources that contradict each other are published on Google's word or not at all,
\* whatever was added by hand next to them.
ContradictionsFollowGoogle ==
    state = "published" =>
        \A k \in Keys \cap ConflictSensitive : Contradicted(fields, k) =>
            \E g \in OfKey(fields, k) : g.method = "google" /\ g.value = entry.facts[k]

\* The reviewer has the last word: choosing a value settles its key ("Choose the value the
\* catalogue should use"), and so does correcting a sourced one, whatever else was
\* excluded, chosen or added before.
ReviewerDecides ==
    [][/\ \A f \in fields : ChooseEvidence(f) =>
             ~Conflicting(fields', f.key) /\ Best(fields', f.key) = f.value
       /\ \A f \in fields, v \in Values : f.method # "manual" /\ ReplaceEvidence(f, v) =>
             ~Conflicting(fields', f.key) /\ Best(fields', f.key) = v]_vars

\* The evidence does no more than Ingestion lets a run's evidence do.  Only a crawl
\* that a refresh asked for may lose what was added by hand, or find a named cafe
\* nameless; an edit does neither, waits for the crawl, and returns the record to
\* review; removing what was added by hand does not wait, and names no cafe
\* (service.go AddManualEvidence to saveReviewedEvidence, Update).
Class == IF Conflicted(fields) # {} THEN "conflicting"
         ELSE IF Complete(Publication(fields, name, area)) THEN "complete" ELSE "partial"

HasManual == \E f \in fields : f.method = "manual"

Run == INSTANCE ReviewedRun WITH evidence <- Class, manual <- HasManual
ReviewsRun == Run!Spec

=============================================================================

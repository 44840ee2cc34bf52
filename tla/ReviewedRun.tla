---------------------------- MODULE ReviewedRun ----------------------------
(***************************************************************************)
(* What the life of ingestion runs needs to know of a record's evidence    *)
(* once it was crawled: whether it is partial, complete or conflicting,    *)
(* what Issues holds besides the conflicts, and whether some of it was     *)
(* added by hand.  Ingestion keeps a run's evidence at this level;         *)
(* Evidence implements it.                                                 *)
(*                                                                         *)
(* Only a crawl that a refresh asked for brings new evidence: crawls       *)
(* counts them, so that no other step passes for one.                      *)
(***************************************************************************)
EXTENDS Naturals

VARIABLES state, evidence, issue, manual, crawls

vars == <<state, evidence, issue, manual, crawls>>

Classes == {"partial", "complete", "conflicting"}

Init ==
    /\ state = "needs_review"
    /\ evidence \in Classes
    /\ issue \in {"none", "unnamed"}
    /\ manual = FALSE
    /\ crawls = 0

\* The old evidence stays until the crawl replaces it.
Refresh ==
    /\ state' = "enriching"
    /\ issue' = "none"
    /\ crawls' = crawls + 1
    /\ UNCHANGED <<evidence, manual>>

\* The evidence is new, whatever it was, and nothing added by hand is left.
Crawl ==
    /\ crawls > 0
    /\ crawls' = crawls - 1
    /\ state' = "needs_review"
    /\ evidence' \in Classes
    /\ issue' \in {"none", "unnamed"}
    /\ manual' = FALSE

\* A crawl that failed is tried again, or was the last try.
CrawlFails ==
    /\ crawls > 0
    /\ crawls' \in {crawls, crawls - 1}
    /\ state' = "failed"
    /\ issue' = "error"
    /\ UNCHANGED <<evidence, manual>>

\* An edit may change the class of the evidence in any way; it may name the cafe but
\* never makes a named one nameless, it removes nothing that was added by hand, it
\* leaves a fetch error, and it returns the record to review.
Edit ==
    /\ state # "enriching"
    /\ state' = "needs_review"
    /\ evidence' \in Classes
    /\ issue' \in IF issue = "unnamed" THEN {"unnamed", "none"} ELSE {issue}
    /\ manual' \in {manual, TRUE}
    /\ UNCHANGED crawls

\* What was added by hand can be removed at any time; that names no cafe.
RemoveManual ==
    /\ manual
    /\ state' = "needs_review"
    /\ evidence' \in Classes
    /\ manual' \in BOOLEAN
    /\ UNCHANGED <<issue, crawls>>

Review ==
    /\ state' = "needs_review"
    /\ UNCHANGED <<evidence, issue, manual, crawls>>

Publish ==
    /\ state = "needs_review"
    /\ evidence = "complete"
    /\ issue = "none"
    /\ state' = "published"
    /\ UNCHANGED <<evidence, issue, manual, crawls>>

Next == Refresh \/ Crawl \/ CrawlFails \/ Edit \/ RemoveManual \/ Review \/ Publish

Spec == Init /\ [][Next]_vars
=============================================================================

------------------------------- MODULE Entries -------------------------------
(***************************************************************************)
(* Ingestion, with a record of what it was that came between a catalogue   *)
(* entry and its records.  The code gives no unconditional promise: it     *)
(* looks at the other records in one access and acts on them in another,   *)
(* it looks at the newest ones only, and a record may change its place.    *)
(* Three history variables note each such occasion when it happens; they   *)
(* read the system and never steer it.  The properties say that nothing    *)
(* else makes a duplicate, hides a published record, or leaves an entry    *)
(* without a record, for any overlap of requests, crawls and failures.     *)
(***************************************************************************)
EXTENDS Ingestion

VARIABLES
    unseen,  \* <<q, r>>: the check before r was drawn could not find record q
    causes,  \* per Place ID, what has come between its entry and its records
    cutOff   \* records whose removal a failure ended after the entry was gone

historyOfEntries == <<unseen, causes, cutOff>>
allVars == <<vars, historyOfEntries>>

(***************************************************************************)
(* Duplicates: what findByURL cannot find.                                 *)
(***************************************************************************)
Creating(a) == requests[a].op \in {"create", "create_forced"} /\ requests[a].pc = "save"

\* A record that is drawn but not yet saved, or older than what List returns.
Overlooked == {requests[a].run : a \in {b \in Admins : Creating(b)}} \cup (stored \ Listed)

NoteUnseen == unseen' = unseen \cup (Overlooked \X ((lastRun + 1)..lastRun'))

(***************************************************************************)
(* Entries: each cause, where its request a or its record r stands.        *)
(***************************************************************************)
Represented(p, others) == \E q \in others : Represents(q, p)

\* anotherRecordExists answers no, but the list ends before another record.
TooShort(a) ==
    /\ requests[a].pc = "check" /\ requests'[a].pc = "remove"
    /\ Represented(requests[a].copy.place, stored \ (Listed \cup {requests[a].run}))

\* anotherRecordExists answers yes, since it cannot read the list.
Unanswered(a) ==
    /\ requests[a].pc = "check" /\ requests'[a].pc \in {"save", "delete"} /\ faults' # faults
    /\ ~Represented(requests[a].copy.place, Runs \ {requests[a].run})

\* A record is saved with another place, or deleted by a request that read it
\* when it had another.
Moved(r, p) ==
    /\ Represents(r, p)
    /\ IF r \in stored'
       THEN runs'[r].place # p
       ELSE \E a \in Admins : /\ requests[a].pc = "delete" /\ requests'[a].pc = "idle"
                              /\ requests[a].run = r /\ requests[a].copy.place # p

\* The request stands before its next access to a record or the entry of place p.
Waits(a, op, pc, p) ==
    requests[a].op = op /\ requests[a].pc = pc /\ requests[a].copy.place = p

\* Two overlapping requests whose next accesses no longer fit together.
PublishedUnderRemoval(p) ==
    \E a, b \in Admins : /\ Waits(a, "archive", "remove", p) \/ Waits(a, "delete", "remove", p)
                        /\ Waits(b, "publish", "save", p)

DeletedUnderPublication(p) ==
    \E a, b \in Admins : Waits(a, "delete", "delete", p) /\ Waits(b, "publish", "publish", p)

DeletedTogether(p) ==
    \E a, b \in Admins : /\ Waits(a, "delete", "delete", p) /\ Waits(b, "delete", "delete", p)
                        /\ requests[a].run # requests[b].run

Causes == {"list_too_short", "list_failed", "moved", "published_under_removal",
           "deleted_under_publication", "deleted_together"}

Happens(cause, p) ==
    \/ /\ cause = "list_too_short"
       /\ \E a \in Admins : TooShort(a) /\ requests[a].copy.place = p
    \/ /\ cause = "list_failed"
       /\ \E a \in Admins : Unanswered(a) /\ requests[a].copy.place = p
    \/ cause = "moved" /\ \E r \in Runs : Moved(r, p)
    \/ cause = "published_under_removal" /\ PublishedUnderRemoval(p)
    \/ cause = "deleted_under_publication" /\ DeletedUnderPublication(p)
    \/ cause = "deleted_together" /\ DeletedTogether(p)

NoteCauses ==
    causes' = [p \in Places |-> causes[p] \cup {cause \in Causes : Happens(cause, p)}]

\* An archive or a deletion that ends by a failure, its entry already gone.
CutOff(a) ==
    /\ requests[a].op \in {"archive", "delete"} /\ requests[a].pc \in {"save", "delete"}
    /\ requests'[a].pc = "idle" /\ faults' # faults

NoteCutOff == cutOff' = cutOff \cup {requests[a].run : a \in {b \in Admins : CutOff(b)}}

-----------------------------------------------------------------------------
TracedInit == Init /\ unseen = {} /\ causes = [p \in Places |-> {}] /\ cutOff = {}

TracedNext == Next /\ NoteUnseen /\ NoteCauses /\ NoteCutOff

TracedSpec == TracedInit /\ [][TracedNext]_allVars

-----------------------------------------------------------------------------
\* A second record for a URL was forced, or was drawn while the first was still
\* being created, or while more newer records than List returns stood before it:
\* no crawl, retry, deletion or stale copy makes a duplicate (service.go Create
\* and findByURL, store.go List).
DuplicatesAreExplained ==
    \A q, r \in stored : q < r /\ runs[q].url = runs[r].url =>
        r \in forced \/ <<q, r>> \in unseen

\* A record shown as published is hidden from visitors only while its own removal
\* is at work or was cut off, or after a removal of its place whose list ended
\* before it or which overlapped a publication (service.go Update and Delete).
HidingCauses == {"list_too_short", "published_under_removal"}

HiddenIsExplained ==
    \A r \in stored : runs[r].state = "published" =>
        \/ catalogue[runs[r].place] # Nobody
        \/ BeingRemoved(r) \/ r \in cutOff
        \/ causes[runs[r].place] \cap HidingCauses # {}

\* A live entry has no record only where the last one was deleted after its list
\* failed, together with another one or under a publication, or where a record
\* has changed its place: never through a crawl that keeps it, a retry, an
\* archive, or a request cut off half-way.
OrphaningCauses == {"list_failed", "moved", "deleted_under_publication", "deleted_together"}

OrphansAreExplained ==
    \A p \in Places : catalogue[p] # Nobody =>
        Represented(p, Runs) \/ causes[p] \cap OrphaningCauses # {}

=============================================================================

------------------------------ MODULE Ingestion ------------------------------
(***************************************************************************)
(* The life of an ingestion run: the administrators' requests, the run     *)
(* store in Redis with its tombstones, the Asynq queue, the workers that   *)
(* crawl, and the published entries of the Postgres catalogue.             *)
(*                                                                         *)
(* Every administrator request reads the run first and writes it back      *)
(* later, with no version check; a worker loads the run once and writes    *)
(* its own copy back at every stage.  Each access to a shared store is one *)
(* action here, so requests and crawls interleave as they do in the code.  *)
(*                                                                         *)
(* A run's evidence is abstracted to what publishing asks of it: partial   *)
(* (publicationData refuses it), complete, or conflicting (Get reports a   *)
(* conflict issue).  Evidence.tla models the evidence itself.              *)
(***************************************************************************)
EXTENDS Integers, FiniteSets

CONSTANTS
    MaxRuns,      \* how many records are ever created (bound)
    Urls,         \* canonical source URLs, equal when duplicateKey makes them equal
    Places,       \* Google Place IDs
    NoPlace,      \* a run whose place was never resolved
    Admins,       \* administrator requests the API serves at the same time
    Operations,   \* the operations administrators issue in this instance
    Tasks,        \* slots for queued and running Asynq tasks (bound)
    Concurrency,  \* cfg.IngestionWorkers
    Providers,    \* which optional providers are configured
    MaxRetry,     \* asynq.MaxRetry(3)
    ListLimit,    \* how many of the newest runs List returns (200)
    MaxRequests,  \* how many administrator requests are issued (bound)
    MaxFaults     \* how many calls fail or processes die (bound)

AllOperations == {"create", "create_forced", "review", "publish", "refresh",
                  "archive", "delete", "edit", "remove_manual"}

ASSUME IngestionAssumption ==
    /\ {MaxRuns, Concurrency, MaxRetry, ListLimit, MaxRequests, MaxFaults} \subseteq Nat
    /\ Urls # {}
    /\ NoPlace \notin Places
    /\ Operations \subseteq AllOperations
    /\ Providers \subseteq {"resolver", "discoverer", "extractor"}

VARIABLES
    stored,      \* ids with a run in Redis
    runs,        \* the stored run of each id, BlankRun where there is none
    lastRun,     \* newID and CreatedAt: ids are drawn, and sort, in this order
    tombstones,  \* ids whose ":deleted:" key exists
    tasks,       \* the Asynq queue and the copy each running Handle holds
    requests,    \* the request each API handler is serving
    catalogue,   \* per Place ID, the run whose publication is live, or Nobody
    served,      \* administrator requests so far
    faults,      \* failures so far
    deleted,     \* history: ids that Delete removed
    forced,      \* history: ids created with force
    stranded     \* history: ids whose crawl was given up by a failure

storeVars   == <<stored, runs, lastRun, tombstones>>
historyVars == <<deleted, forced, stranded>>
vars == <<storeVars, tasks, requests, catalogue, served, faults, historyVars>>

(***************************************************************************)
(* Types.                                                                  *)
(***************************************************************************)
Runs     == 1..MaxRuns
Nobody   == 0
States   == {"enriching", "needs_review", "published", "failed", "archived"}
Evidence == {"partial", "complete", "conflicting"}

Run == [url: Urls, state: States, place: Places \cup {NoPlace},
        evidence: Evidence,
        issue: {"none", "unnamed", "error"},  \* what Issues holds besides conflicts
        manual: BOOLEAN]                      \* a manually added field is present

NewRun(u) == [url |-> u, state |-> "enriching", place |-> NoPlace,
              evidence |-> "partial", issue |-> "none", manual |-> FALSE]

BlankRun == NewRun(CHOOSE u \in Urls : TRUE)

Stages == {"queued", "fetch_source", "fetch_failed", "extract_evidence",
           "resolve_google_place", "fetch_google_reviews", "discover_sources",
           "merge_evidence", "structured_extraction", "normalize_evidence",
           "ready_for_review"}

Task == [status: {"free", "pending", "active"}, run: Runs \cup {Nobody},
         retried: 0..MaxRetry, stage: Stages, copy: Run]

FreeTask == [status |-> "free", run |-> Nobody, retried |-> 0,
             stage |-> "queued", copy |-> BlankRun]

Request == [op: AllOperations, run: Runs \cup {Nobody}, copy: Run,
            pc: {"idle", "find", "check", "remove", "publish", "save",
                 "enqueue", "save_failed", "delete"}]

Idle == [op |-> "review", run |-> Nobody, copy |-> BlankRun, pc |-> "idle"]

(***************************************************************************)
(* What the code asks of a run, and of the store.                          *)
(***************************************************************************)
\* Issues is not empty once Get has recomputed the conflicts.
BlockedByStoredIssues(run) == run.issue # "none"  \* mutant: conflicts not recomputed
Blocked(run) == run.issue # "none" \/ run.evidence = "conflicting"

PublicationData(run) == run.place # NoPlace /\ run.evidence # "partial"
EvidenceCanBeEdited(run) == run.state \notin {"enriching", "archived"}

FailedButEnriching(run) == [run EXCEPT !.issue = "error"]  \* mutant: state kept
Failed(run) == [run EXCEPT !.state = "failed", !.issue = "error"]

\* List: the newest ids of the sorted set, newest first.
Listed == {r \in stored : Cardinality({q \in stored : q > r}) < ListLimit}

ItselfIsAnother(r, place) == \E q \in Listed : runs[q].place = place  \* mutant
NeverAnother(r, place) == FALSE                                       \* mutant
AnotherRecordExists(r, place) ==
    \E q \in Listed : q # r /\ runs[q].place = place

FoundCrawled(u) ==  \* mutant: a run still being crawled is not looked at
    \E q \in Listed : runs[q].url = u /\ runs[q].state # "enriching"
FoundByURL(u) == \E q \in Listed : runs[q].url = u

Active == {t \in Tasks : tasks[t].status = "active"}

Init ==
    /\ stored = {}
    /\ runs = [r \in Runs |-> BlankRun]
    /\ lastRun = 0
    /\ tombstones = {}
    /\ tasks = [t \in Tasks |-> FreeTask]
    /\ requests = [a \in Admins |-> Idle]
    /\ catalogue = [p \in Places |-> Nobody]
    /\ served = 0
    /\ faults = 0
    /\ deleted = {}
    /\ forced = {}
    /\ stranded = {}

-----------------------------------------------------------------------------
(***************************************************************************)
(* Redis: the two Lua scripts.                                             *)
(***************************************************************************)
NeverTombstoned(r) == FALSE  \* mutant: Save without the EXISTS check
Tombstoned(r) == r \in tombstones

\* Save refuses an id with a tombstone; the caller sees ErrNotFound.
Save(r, run) ==
    /\ stored' = stored \cup {r}
    /\ runs' = [runs EXCEPT ![r] = run]

\* The tombstone lives 24 hours: longer than any request or crawl that still
\* holds a copy of the run (write timeout 15 s, task timeout 150 s).
ExpireTombstone(r) ==
    /\ r \in tombstones
    /\ \A a \in Admins : requests[a].pc # "idle" => requests[a].run # r
    /\ \A t \in Tasks : tasks[t].status = "active" => tasks[t].run # r
    /\ tombstones' = tombstones \ {r}
    /\ UNCHANGED <<stored, runs, lastRun, tasks, requests, catalogue, served,
                   faults, historyVars>>

(***************************************************************************)
(* An administrator's request, first access: the store is read, the guards *)
(* are decided on that snapshot, and copy is what will be written back.    *)
(***************************************************************************)
Receive(a, op, r, pc, copy) ==
    /\ requests[a].pc = "idle"
    /\ op \in Operations
    /\ served < MaxRequests
    /\ served' = served + 1
    /\ requests' = [requests EXCEPT
                      ![a] = [op |-> op, run |-> r, copy |-> copy, pc |-> pc]]
    /\ UNCHANGED <<stored, runs, tombstones, tasks, catalogue, faults, deleted, stranded>>

ReceiveRead(a, op, r, pc, copy) ==
    /\ r \in stored
    /\ Receive(a, op, r, pc, copy)
    /\ UNCHANGED <<lastRun, forced>>

\* A blank Place ID needs no check, and Remove does nothing for it.
ReceiveDelete(a, r) ==
    ReceiveRead(a, "delete", r,
                IF runs[r].place = NoPlace THEN "delete" ELSE "check", runs[r])

ReceiveArchive(a, r) ==
    ReceiveRead(a, "archive", r,
                IF runs[r].place = NoPlace THEN "save" ELSE "check",
                [runs[r] EXCEPT !.state = "archived"])

ReceiveReview(a, r) ==
    ReceiveRead(a, "review", r, "save", [runs[r] EXCEPT !.state = "needs_review"])

\* A run publicationData refuses is answered with an error and nothing changes.
ReceivePublish(a, r) ==
    /\ ~Blocked(runs[r])
    /\ runs[r].state = "needs_review"
    /\ PublicationData(runs[r])
    /\ ReceiveRead(a, "publish", r, "publish", [runs[r] EXCEPT !.state = "published"])

ReceiveRefresh(a, r) ==
    ReceiveRead(a, "refresh", r, "save",
                [runs[r] EXCEPT !.state = "enriching", !.issue = "none"])

\* AddManualEvidence, SetPhotoOverride, SetEvidenceExcluded, ChooseEvidence and
\* ReplaceEvidence: any of them may settle or raise a conflict, complete the
\* evidence, or name the cafe; a fetch error stays.
ReceiveEdit(a, r) ==
    \E e \in Evidence, m \in {TRUE, runs[r].manual},
       i \in IF runs[r].issue = "unnamed" THEN {"unnamed", "none"} ELSE {runs[r].issue} :
        /\ EvidenceCanBeEdited(runs[r])
        /\ ReceiveRead(a, "edit", r, "save",
                       [runs[r] EXCEPT !.state = "needs_review", !.evidence = e,
                                       !.manual = m, !.issue = i])

\* RemoveManualEvidence looks for the field and at nothing else.
ReceiveRemoveManual(a, r) ==
    \E e \in Evidence, m \in BOOLEAN :
        /\ runs[r].manual
        /\ ReceiveRead(a, "remove_manual", r, "save",
                       [runs[r] EXCEPT !.state = "needs_review", !.evidence = e,
                                       !.manual = m])

\* Create with force draws an id at once; without it the duplicate check runs first.
ReceiveForcedCreate(a, u) ==
    /\ lastRun < MaxRuns
    /\ Receive(a, "create_forced", lastRun + 1, "save", NewRun(u))
    /\ lastRun' = lastRun + 1
    /\ forced' = forced \cup {lastRun + 1}

ReceiveCreate(a, u) ==
    /\ Receive(a, "create", Nobody, "find", NewRun(u))
    /\ UNCHANGED <<lastRun, forced>>

(***************************************************************************)
(* The request's later accesses, one store access each.                    *)
(***************************************************************************)
Goto(a, pc) == requests' = [requests EXCEPT ![a].pc = pc]
Answer(a)   == requests' = [requests EXCEPT ![a] = Idle]

FindByURL(a) ==
    /\ requests[a].pc = "find"
    /\ \/ /\ FoundByURL(requests[a].copy.url)
          /\ Answer(a)
          /\ UNCHANGED lastRun
       \/ /\ ~FoundByURL(requests[a].copy.url)
          /\ lastRun < MaxRuns
          /\ lastRun' = lastRun + 1
          /\ requests' = [requests EXCEPT ![a].run = lastRun + 1, ![a].pc = "save"]
    /\ UNCHANGED <<stored, runs, tombstones, tasks, catalogue, served, faults, historyVars>>

AfterUnpublish(a) == IF requests[a].op = "delete" THEN "delete" ELSE "save"

CheckAnother(a) ==
    /\ requests[a].pc = "check"
    /\ Goto(a, IF AnotherRecordExists(requests[a].run, requests[a].copy.place)
               THEN AfterUnpublish(a) ELSE "remove")
    /\ UNCHANGED <<storeVars, tasks, catalogue, served, faults, historyVars>>

RemoveEntry(a) ==
    /\ requests[a].pc = "remove"
    /\ catalogue' = [catalogue EXCEPT ![requests[a].copy.place] = Nobody]
    /\ Goto(a, AfterUnpublish(a))
    /\ UNCHANGED <<storeVars, tasks, served, faults, historyVars>>

DeleteRun(a) ==
    LET r == requests[a].run IN
    /\ requests[a].pc = "delete"
    /\ Answer(a)
    /\ \/ /\ r \in stored
          /\ tombstones' = tombstones \cup {r}
          /\ stored' = stored \ {r}
          /\ runs' = [runs EXCEPT ![r] = BlankRun]
          /\ deleted' = deleted \cup {r}
       \/ /\ r \notin stored
          /\ UNCHANGED <<tombstones, stored, runs, deleted>>
    /\ UNCHANGED <<lastRun, tasks, catalogue, served, faults, forced, stranded>>

PublishEntry(a) ==
    /\ requests[a].pc = "publish"
    /\ catalogue' = [catalogue EXCEPT ![requests[a].copy.place] = requests[a].run]
    /\ Goto(a, "save")
    /\ UNCHANGED <<storeVars, tasks, served, faults, historyVars>>

\* create and refresh go on to enqueue the crawl; every other request ends here.
SaveRequest(a) ==
    LET r == requests[a].run IN
    /\ requests[a].pc = "save"
    /\ \/ /\ Tombstoned(r)
          /\ Answer(a)
          /\ UNCHANGED <<stored, runs, stranded>>
       \/ /\ ~Tombstoned(r)
          /\ Save(r, requests[a].copy)
          /\ IF requests[a].copy.state = "enriching"
             THEN Goto(a, "enqueue") /\ stranded' = stranded \ {r}
             ELSE Answer(a) /\ UNCHANGED stranded
    /\ UNCHANGED <<lastRun, tombstones, tasks, catalogue, served, faults, deleted, forced>>

Enqueue(a) ==
    /\ requests[a].pc = "enqueue"
    /\ \E t \in Tasks :
        /\ tasks[t].status = "free"
        /\ tasks' = [tasks EXCEPT ![t] = [FreeTask EXCEPT !.status = "pending",
                                                          !.run = requests[a].run]]
    /\ Answer(a)
    /\ UNCHANGED <<storeVars, catalogue, served, faults, historyVars>>

\* The failed run is written back with its error; that write's own error is dropped.
SaveQueueFailed(a) ==
    LET r == requests[a].run IN
    /\ requests[a].pc = "save_failed"
    /\ IF Tombstoned(r) THEN UNCHANGED <<stored, runs>> ELSE Save(r, requests[a].copy)
    /\ Answer(a)
    /\ UNCHANGED <<lastRun, tombstones, tasks, catalogue, served, faults, historyVars>>

(***************************************************************************)
(* The worker.  Load is Handle's Get; each later action is one p.save of   *)
(* the worker's copy together with the provider call that follows it,      *)
(* whose answer touches only the copy.  A tombstone ends the task          *)
(* (SkipRetry).                                                            *)
(***************************************************************************)
Retry(t) == [FreeTask EXCEPT !.status = "pending", !.run = tasks[t].run,
                             !.retried = tasks[t].retried + 1]

NeverRetry(t) == FreeTask  \* mutant
RetryOrGiveUp(t) == IF tasks[t].retried < MaxRetry THEN Retry(t) ELSE FreeTask

At(t, stage, copy) == [tasks[t] EXCEPT !.stage = stage, !.copy = copy]

Load(t) ==
    LET r == tasks[t].run IN
    /\ tasks[t].status = "pending"
    /\ Cardinality(Active) < Concurrency
    /\ tasks' = [tasks EXCEPT
         ![t] = IF r \in stored
                THEN [tasks[t] EXCEPT !.status = "active", !.stage = "fetch_source",
                                      !.copy = [runs[r] EXCEPT !.state = "enriching"]]
                ELSE FreeTask]
    /\ UNCHANGED <<storeVars, requests, catalogue, served, faults, historyVars>>

SaveStage(t, stage, next) ==
    LET r == tasks[t].run IN
    /\ tasks[t].status = "active"
    /\ tasks[t].stage = stage
    /\ \/ /\ Tombstoned(r)
          /\ tasks' = [tasks EXCEPT ![t] = FreeTask]
          /\ UNCHANGED <<stored, runs>>
       \/ /\ ~Tombstoned(r)
          /\ Save(r, tasks[t].copy)
          /\ tasks' = [tasks EXCEPT ![t] = next]
    /\ UNCHANGED <<lastRun, tombstones, requests, catalogue, served, faults, historyVars>>

\* The crawl's tail: the first configured provider still to be called, then review.
ToReview(t, copy) == At(t, "ready_for_review", [copy EXCEPT !.state = "needs_review"])

ToExtraction(t, copy) == IF "extractor" \in Providers
                         THEN At(t, "structured_extraction", copy) ELSE ToReview(t, copy)

ToDiscovery(t, copy) == IF "discoverer" \in Providers
                        THEN At(t, "discover_sources", copy) ELSE ToExtraction(t, copy)

\* Extract replaces Issues and Fields, manual ones too; one page cannot conflict
\* with itself.  When it fails the old fields stay.
SaveFetchSource(t) ==
    \/ SaveStage(t, "fetch_source", At(t, "fetch_failed", Failed(tasks[t].copy)))
    \/ \E e \in {"partial", "complete"}, i \in {"none", "unnamed"} :
         SaveStage(t, "fetch_source",
                   At(t, "extract_evidence", [tasks[t].copy EXCEPT
                      !.evidence = e, !.issue = i, !.manual = FALSE]))

\* The fetch error goes back to Asynq.
SaveFetchFailed(t) == SaveStage(t, "fetch_failed", RetryOrGiveUp(t))

SaveExtracted(t) ==
    SaveStage(t, "extract_evidence",
              IF "resolver" \in Providers
              THEN At(t, "resolve_google_place", tasks[t].copy)
              ELSE ToDiscovery(t, tasks[t].copy))

\* ResolvePlaceID, then GetPlace: either may be unavailable, which is a warning.
SaveResolving(t) ==
    \/ SaveStage(t, "resolve_google_place", At(t, "fetch_google_reviews", tasks[t].copy))
    \/ \E p \in Places, e \in {tasks[t].copy.evidence, "complete", "conflicting"} :
         SaveStage(t, "resolve_google_place",
                   At(t, "fetch_google_reviews",
                      [tasks[t].copy EXCEPT !.place = p, !.evidence = e]))

SaveResolved(t) == SaveStage(t, "fetch_google_reviews", ToDiscovery(t, tasks[t].copy))

\* Discovered sources are context: no field publishing asks for comes from them.
SaveDiscovering(t) ==
    SaveStage(t, "discover_sources", At(t, "merge_evidence", tasks[t].copy))

SaveDiscovered(t) == SaveStage(t, "merge_evidence", ToExtraction(t, tasks[t].copy))

\* Model claims may complete the evidence, contradict it, or name the cafe.
SaveExtracting(t) ==
    \E e \in {tasks[t].copy.evidence, "complete", "conflicting"},
       i \in {tasks[t].copy.issue, "none"} :
        SaveStage(t, "structured_extraction",
                  At(t, "normalize_evidence",
                     [tasks[t].copy EXCEPT !.evidence = e, !.issue = i]))

SaveNormalized(t) == SaveStage(t, "normalize_evidence", ToReview(t, tasks[t].copy))

SaveReady(t) == SaveStage(t, "ready_for_review", FreeTask)

(***************************************************************************)
(* Failures, at most MaxFaults of them.                                    *)
(***************************************************************************)
Fault == faults < MaxFaults /\ faults' = faults + 1

\* The client goes away, a store call fails, or the API dies: what the request
\* has done stays done.  Between the save and the enqueue nobody is left to crawl.
RequestFails(a) ==
    /\ Fault
    /\ requests[a].pc # "idle"
    /\ stranded' = IF requests[a].pc \in {"enqueue", "save_failed"}
                   THEN stranded \cup {requests[a].run} ELSE stranded
    /\ Answer(a)
    /\ UNCHANGED <<storeVars, tasks, catalogue, served, deleted, forced>>

\* anotherRecordExists answers true when the list cannot be read.
ListFails(a) ==
    /\ Fault
    /\ requests[a].pc = "check"
    /\ Goto(a, AfterUnpublish(a))
    /\ UNCHANGED <<storeVars, tasks, catalogue, served, historyVars>>

EnqueueFails(a) ==
    /\ Fault
    /\ requests[a].pc = "enqueue"
    /\ requests' = [requests EXCEPT ![a].copy = Failed(@), ![a].pc = "save_failed"]
    /\ UNCHANGED <<storeVars, tasks, catalogue, served, historyVars>>

\* A timeout (its context also fails the save), a store error, or a worker that
\* dies and whose lease Asynq recovers: retried, or archived when no retry is left.
WorkerFails(t) ==
    /\ Fault
    /\ tasks[t].status # "free"
    /\ tasks' = [tasks EXCEPT ![t] = RetryOrGiveUp(t)]
    /\ stranded' = IF tasks[t].retried < MaxRetry THEN stranded
                   ELSE stranded \cup {tasks[t].run}
    /\ UNCHANGED <<storeVars, requests, catalogue, served, deleted, forced>>

-----------------------------------------------------------------------------
ReceiveRequest(a) ==
    \/ \E u \in Urls : ReceiveCreate(a, u) \/ ReceiveForcedCreate(a, u)
    \/ \E r \in Runs :
         \/ ReceiveDelete(a, r)  \/ ReceiveArchive(a, r)
         \/ ReceiveReview(a, r)  \/ ReceivePublish(a, r)
         \/ ReceiveRefresh(a, r) \/ ReceiveEdit(a, r)
         \/ ReceiveRemoveManual(a, r)

ServeRequest(a) ==
    \/ FindByURL(a)    \/ CheckAnother(a) \/ RemoveEntry(a) \/ DeleteRun(a)
    \/ PublishEntry(a) \/ SaveRequest(a)  \/ Enqueue(a)     \/ SaveQueueFailed(a)

HandleTask(t) ==
    \/ Load(t)            \/ SaveFetchSource(t) \/ SaveFetchFailed(t)
    \/ SaveExtracted(t)   \/ SaveResolving(t)   \/ SaveResolved(t)
    \/ SaveDiscovering(t) \/ SaveDiscovered(t)  \/ SaveExtracting(t)
    \/ SaveNormalized(t)  \/ SaveReady(t)

Next ==
    \/ \E a \in Admins : ReceiveRequest(a) \/ ServeRequest(a)
    \/ \E t \in Tasks  : HandleTask(t) \/ WorkerFails(t)
    \/ \E a \in Admins : RequestFails(a) \/ ListFails(a) \/ EnqueueFails(a)
    \/ \E r \in Runs   : ExpireTombstone(r)

Spec == Init /\ [][Next]_vars

\* The API finishes the requests it took and the worker keeps taking tasks;
\* nobody has to send a request, and no failure has to happen.
FairSpec == /\ Spec
            /\ \A a \in Admins : WF_vars(ServeRequest(a))
            /\ \A t \in Tasks  : WF_vars(HandleTask(t))

-----------------------------------------------------------------------------
TypeOK ==
    /\ stored \subseteq Runs
    /\ runs \in [Runs -> Run]
    /\ lastRun \in 0..MaxRuns
    /\ tombstones \subseteq Runs
    /\ tasks \in [Tasks -> Task]
    /\ requests \in [Admins -> Request]
    /\ catalogue \in [Places -> Runs \cup {Nobody}]
    /\ served \in 0..MaxRequests
    /\ faults \in 0..MaxFaults
    /\ deleted \subseteq Runs
    /\ forced \subseteq Runs
    /\ stranded \subseteq Runs

(***************************************************************************)
(* What must hold whatever the requests and crawls do to each other.       *)
(***************************************************************************)

\* A deleted run never comes back: no worker or handler that still holds a copy
\* can write it, even after the tombstone has expired (store.go Save and Delete,
\* TestDeletePermanentlyRemovesRun).
DeletedStaysDeleted == deleted \cap stored = {}

\* A run the admin app shows as published was free of issues and catalogue-ready
\* when it was last written, whichever copies were written around it.
PublishedIsPublishable ==
    \A r \in stored : runs[r].state = "published" =>
        /\ runs[r].place # NoPlace
        /\ runs[r].evidence = "complete"
        /\ runs[r].issue = "none"

\* A run shown as enriching is owned by somebody who will move it on: a task that
\* is queued or running, or the request about to enqueue one.  Only a crawl that a
\* failure abandoned is left without.
Owned(r) ==
    \/ \E t \in Tasks : tasks[t].status # "free" /\ tasks[t].run = r
    \/ \E a \in Admins : requests[a].pc \in {"enqueue", "save_failed"} /\ requests[a].run = r

EnrichingIsOwned ==
    \A r \in stored : runs[r].state = "enriching" => Owned(r) \/ r \in stranded

\* Every crawl ends: an enriching run reaches review or failure, is deleted, or
\* was abandoned by a failure (worker.go Handle under Asynq's retries).
CrawlEnds ==
    \A r \in Runs :
        (r \in stored /\ runs[r].state = "enriching")
          ~> (r \notin stored \/ runs[r].state # "enriching" \/ r \in stranded)

(***************************************************************************)
(* What the documentation promises of records and catalogue entries.       *)
(***************************************************************************)
Represents(r, p) == r \in stored /\ runs[r].place = p

\* Two deletes that both have decided to leave the entry alone leave it to a third
\* record, never to each other.
DeletesSpareForAThird ==
    \A a, b \in Admins, p \in Places :
        /\ requests[a].pc = "delete" /\ requests[a].copy.place = p
        /\ requests[b].pc = "delete" /\ requests[b].copy.place = p
        /\ requests[a].run # requests[b].run
        /\ catalogue[p] # Nobody
        => \E q \in Runs \ {requests[a].run, requests[b].run} : Represents(q, p)

\* A request that archives or deletes this very record has taken the entry down.
BeingRemoved(r) ==
    \E a \in Admins : /\ requests[a].run = r
                      /\ requests[a].op \in {"archive", "delete"}
                      /\ requests[a].pc \in {"save", "delete"}

=============================================================================

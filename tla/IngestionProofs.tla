-------------------------- MODULE IngestionProofs --------------------------
(***************************************************************************)
(* Theorems about Ingestion and Entries, for any number of records,        *)
(* administrators, tasks, retries, requests and failures.                  *)
(***************************************************************************)
EXTENDS Entries, TLAPS

USE IngestionAssumption DEF Runs, Nobody

\* The constants' types, one by one.
LEMMA ConstantTypes ==
    /\ MaxRuns \in Nat /\ MaxRetry \in Nat /\ MaxRequests \in Nat /\ MaxFaults \in Nat
    /\ \E u \in Urls : TRUE
  OBVIOUS

\* The records the actions build are of their types.
LEMMA NewRunType == \A u \in Urls : NewRun(u) \in Run
  BY DEF NewRun, Run, States, Evidence

LEMMA BlankRunType == BlankRun \in Run
  BY NewRunType, ConstantTypes DEF BlankRun

LEMMA FreeTaskType == FreeTask \in Task
  BY BlankRunType, ConstantTypes DEF FreeTask, Task, Stages

LEMMA IdleType == Idle \in Request
  BY BlankRunType DEF Idle, Request, AllOperations

LEMMA FailedType == \A run \in Run : Failed(run) \in Run
  BY DEF Failed, Run, States

-----------------------------------------------------------------------------
(***************************************************************************)
(* The inductive invariant: what every actor that holds an id or a copy    *)
(* knows about it, next to the type invariant.                             *)
(***************************************************************************)
Publishable(run) == run.state = "published" =>
    run.place # NoPlace /\ run.evidence = "complete" /\ run.issue = "none"

\* Ids were drawn before they are held, stored or deleted.
IdsDrawn ==
    /\ stored \cup deleted \subseteq 1..lastRun
    /\ tombstones \subseteq deleted
    /\ \A a \in Admins : /\ requests[a].run <= lastRun
                         /\ requests[a].pc \notin {"idle", "find"} => requests[a].run \in Runs
    /\ \A t \in Tasks  : /\ tasks[t].run <= lastRun
                         /\ tasks[t].status # "free" => tasks[t].run \in Runs

\* Whoever could still write a deleted run meets its tombstone.
Buried ==
    /\ DeletedStaysDeleted
    /\ \A r \in deleted \ tombstones :
         /\ \A a \in Admins : requests[a].pc # "idle" => requests[a].run # r
         /\ \A t \in Tasks  : tasks[t].status = "active" => tasks[t].run # r

\* No copy that could be written back is published without being publishable.
CopiesPublishable ==
    /\ \A r \in Runs   : Publishable(runs[r])
    /\ \A a \in Admins : Publishable(requests[a].copy)
    /\ \A t \in Tasks  : tasks[t].copy.state # "published"

\* Whoever stops owning a run writes it in a state that needs no owner.
HandedOver ==
    /\ EnrichingIsOwned
    /\ \A a \in Admins : requests[a].pc = "save_failed" => requests[a].copy.state = "failed"
    /\ \A t \in Tasks  :
         /\ tasks[t].stage = "fetch_failed" => tasks[t].copy.state = "failed"
         /\ tasks[t].stage = "ready_for_review" => tasks[t].copy.state = "needs_review"

IInv == TypeOK /\ IdsDrawn /\ Buried /\ CopiesPublishable /\ HandedOver

(***************************************************************************)
(* The forms that the many receiving and crawling actions share.           *)
(***************************************************************************)
Received(a, op, r, pc, copy) ==
    /\ Receive(a, op, r, pc, copy)
    /\ copy \in Run
    /\ Publishable(copy)
    /\ forced' \subseteq Runs
    /\ \/ /\ r \in stored
          /\ pc \in {"check", "publish", "save", "delete"}
          /\ lastRun' = lastRun
       \/ /\ r = lastRun + 1
          /\ pc = "save"
          /\ lastRun < MaxRuns
          /\ lastRun' = lastRun + 1
       \/ /\ r = Nobody
          /\ pc = "find"
          /\ lastRun' = lastRun

\* The task a stage leaves behind: the same crawl, further on, or its end.
GoesOn(t, next) ==
    /\ next.status = "active"
    /\ next.run = tasks[t].run
    /\ next.copy.state # "published"
    /\ next.copy.url = tasks[t].copy.url
    /\ next.stage = "fetch_failed" => next.copy.state = "failed"
    /\ next.stage = "ready_for_review" => next.copy.state = "needs_review"

Ends(t, stage, next) ==
    /\ stage \in {"fetch_failed", "ready_for_review"}
    /\ next = FreeTask \/ (next = Retry(t) /\ tasks[t].retried < MaxRetry)

Crawled(t, stage, next) ==
    /\ SaveStage(t, stage, next)
    /\ next \in Task
    /\ GoesOn(t, next) \/ Ends(t, stage, next)

-----------------------------------------------------------------------------
(***************************************************************************)
(* Type correctness.                                                       *)
(***************************************************************************)
LEMMA RetryType ==
  ASSUME TypeOK, NEW t \in Tasks
  PROVE  RetryOrGiveUp(t) \in Task
<1>1. CASE tasks[t].retried < MaxRetry
  <2>1. tasks[t] \in Task
    BY DEF TypeOK
  <2>2. tasks[t].retried + 1 \in 0..MaxRetry /\ tasks[t].run \in Runs \cup {Nobody}
    BY <1>1, <2>1, ConstantTypes DEF Task
  <2>. QED  BY <1>1, <2>2, FreeTaskType DEF RetryOrGiveUp, Retry, Task
<1>2. CASE ~(tasks[t].retried < MaxRetry)
  BY <1>2, FreeTaskType DEF RetryOrGiveUp
<1>. QED  BY <1>1, <1>2

LEMMA AtType ==
  ASSUME TypeOK, NEW t \in Tasks, NEW stage \in Stages, NEW copy \in Run
  PROVE  At(t, stage, copy) \in Task
  BY DEF At, Task, TypeOK

LEMMA TailType ==
  ASSUME TypeOK, NEW t \in Tasks, NEW copy \in Run
  PROVE  ToDiscovery(t, copy) \in Task /\ ToExtraction(t, copy) \in Task
<1>1. [copy EXCEPT !.state = "needs_review"] \in Run
  BY DEF Run, States
<1>2. ToReview(t, copy) \in Task
  BY <1>1, AtType DEF ToReview, Stages
<1>3. At(t, "structured_extraction", copy) \in Task /\ At(t, "discover_sources", copy) \in Task
  BY AtType DEF Stages
<1>. QED  BY <1>2, <1>3 DEF ToDiscovery, ToExtraction

LEMMA SaveStageType ==
  ASSUME TypeOK, NEW t \in Tasks, NEW stage, NEW next \in Task,
         tasks[t].run \in Runs, SaveStage(t, stage, next)
  PROVE  TypeOK'
<1>1. tasks[t].copy \in Run
  BY DEF TypeOK, Task
<1>. QED  BY <1>1, FreeTaskType DEF SaveStage, Save, TypeOK, storeVars, historyVars

-----------------------------------------------------------------------------
(***************************************************************************)
(* Every receiving action is Received, every crawling one is Crawled.      *)
(***************************************************************************)
LEMMA ReadForm ==
  ASSUME IInv, NEW a \in Admins, NEW op, NEW r \in Runs, NEW copy \in Run,
         NEW pc \in {"check", "publish", "save", "delete"},
         Publishable(copy), ReceiveRead(a, op, r, pc, copy)
  PROVE  Received(a, op, r, pc, copy)
  BY DEF ReceiveRead, Received, IInv, TypeOK

LEMMA ReceiveForm ==
  ASSUME IInv, NEW a \in Admins, ReceiveRequest(a)
  PROVE  \E op, r, pc, copy : Received(a, op, r, pc, copy)
<1>1. ASSUME NEW u \in Urls, ReceiveCreate(a, u)
      PROVE  Received(a, "create", Nobody, "find", NewRun(u))
  BY <1>1, NewRunType DEF ReceiveCreate, Received, Publishable, NewRun, IInv, TypeOK
<1>2. ASSUME NEW u \in Urls, ReceiveForcedCreate(a, u)
      PROVE  Received(a, "create_forced", lastRun + 1, "save", NewRun(u))
  <2>1. lastRun + 1 \in Runs
    BY <1>2, ConstantTypes DEF ReceiveForcedCreate, IInv, TypeOK
  <2>. QED  BY <1>2, <2>1, NewRunType
            DEF ReceiveForcedCreate, Received, Publishable, NewRun, IInv, TypeOK
<1>3. ASSUME NEW r \in Runs,
             \/ ReceiveDelete(a, r)  \/ ReceiveArchive(a, r)
             \/ ReceiveReview(a, r)  \/ ReceivePublish(a, r)
             \/ ReceiveRefresh(a, r) \/ ReceiveEdit(a, r)
             \/ ReceiveRemoveManual(a, r)
      PROVE  \E op, pc, copy : Received(a, op, r, pc, copy)
  <2>0. runs[r] \in Run /\ Publishable(runs[r])
    BY DEF IInv, TypeOK, CopiesPublishable
  <2>1. CASE ReceiveDelete(a, r)
    <3>. DEFINE pc == IF runs[r].place = NoPlace THEN "delete" ELSE "check"
    <3>1. Received(a, "delete", r, pc, runs[r])
      BY <2>0, <2>1, ReadForm DEF ReceiveDelete
    <3>. QED  BY <3>1
  <2>2. CASE ReceiveArchive(a, r)
    <3>. DEFINE pc == IF runs[r].place = NoPlace THEN "save" ELSE "check"
                copy == [runs[r] EXCEPT !.state = "archived"]
    <3>1. copy \in Run /\ Publishable(copy)
      BY <2>0 DEF Run, States, Publishable
    <3>2. Received(a, "archive", r, pc, copy)
      BY <2>2, <3>1, ReadForm DEF ReceiveArchive
    <3>. QED  BY <3>2
  <2>3. CASE ReceiveReview(a, r)
    <3>. DEFINE copy == [runs[r] EXCEPT !.state = "needs_review"]
    <3>1. copy \in Run /\ Publishable(copy)
      BY <2>0 DEF Run, States, Publishable
    <3>2. Received(a, "review", r, "save", copy)
      BY <2>3, <3>1, ReadForm DEF ReceiveReview
    <3>. QED  BY <3>2
  <2>4. CASE ReceivePublish(a, r)
    <3>. DEFINE copy == [runs[r] EXCEPT !.state = "published"]
    <3>1. copy \in Run
      BY <2>0 DEF Run, States
    <3>2. Publishable(copy)
      BY <2>0, <2>4 DEF ReceivePublish, Blocked, PublicationData, Publishable, Run, Evidence
    <3>3. Received(a, "publish", r, "publish", copy)
      BY <2>4, <3>1, <3>2, ReadForm DEF ReceivePublish
    <3>. QED  BY <3>3
  <2>5. CASE ReceiveRefresh(a, r)
    <3>. DEFINE copy == [runs[r] EXCEPT !.state = "enriching", !.issue = "none"]
    <3>1. copy \in Run /\ Publishable(copy)
      BY <2>0 DEF Run, States, Publishable
    <3>2. Received(a, "refresh", r, "save", copy)
      BY <2>5, <3>1, ReadForm DEF ReceiveRefresh
    <3>. QED  BY <3>2
  <2>6. CASE ReceiveEdit(a, r)
    <3>1. PICK e \in Evidence, m \in {TRUE, runs[r].manual},
               i \in IF runs[r].issue = "unnamed" THEN {"unnamed", "none"}
                                                  ELSE {runs[r].issue} :
            ReceiveRead(a, "edit", r, "save",
                        [runs[r] EXCEPT !.state = "needs_review", !.evidence = e,
                                        !.manual = m, !.issue = i])
      BY <2>6 DEF ReceiveEdit
    <3>. DEFINE copy == [runs[r] EXCEPT !.state = "needs_review", !.evidence = e,
                                        !.manual = m, !.issue = i]
    <3>2. copy \in Run /\ Publishable(copy)
      BY <2>0 DEF Run, States, Publishable
    <3>3. Received(a, "edit", r, "save", copy)
      BY <3>1, <3>2, ReadForm
    <3>. QED  BY <3>3
  <2>7. CASE ReceiveRemoveManual(a, r)
    <3>1. PICK e \in Evidence, m \in BOOLEAN :
            ReceiveRead(a, "remove_manual", r, "save",
                        [runs[r] EXCEPT !.state = "needs_review", !.evidence = e,
                                        !.manual = m])
      BY <2>7 DEF ReceiveRemoveManual
    <3>. DEFINE copy == [runs[r] EXCEPT !.state = "needs_review", !.evidence = e,
                                        !.manual = m]
    <3>2. copy \in Run /\ Publishable(copy)
      BY <2>0 DEF Run, States, Publishable
    <3>3. Received(a, "remove_manual", r, "save", copy)
      BY <3>1, <3>2, ReadForm
    <3>. QED  BY <3>3
  <2>. QED  BY <1>3, <2>1, <2>2, <2>3, <2>4, <2>5, <2>6, <2>7
<1>. QED  BY <1>1, <1>2, <1>3 DEF ReceiveRequest

\* What a stage hands to the next one is the same crawl.
LEMMA AtGoesOn ==
  ASSUME IInv, NEW t \in Tasks, tasks[t].status = "active", NEW copy \in Run,
         copy.state # "published", copy.url = tasks[t].copy.url,
         NEW stage \in Stages \ {"fetch_failed", "ready_for_review"}
  PROVE  At(t, stage, copy) \in Task /\ GoesOn(t, At(t, stage, copy))
<1>1. tasks[t] \in Task
  BY DEF IInv, TypeOK
<1>. QED  BY <1>1, AtType DEF At, GoesOn, Task, IInv

LEMMA TailGoesOn ==
  ASSUME IInv, NEW t \in Tasks, tasks[t].status = "active", NEW copy \in Run,
         copy.state # "published", copy.url = tasks[t].copy.url
  PROVE  /\ GoesOn(t, ToDiscovery(t, copy)) /\ ToDiscovery(t, copy) \in Task
         /\ GoesOn(t, ToExtraction(t, copy)) /\ ToExtraction(t, copy) \in Task
         /\ GoesOn(t, ToReview(t, copy)) /\ ToReview(t, copy) \in Task
<1>1. tasks[t] \in Task
  BY DEF IInv, TypeOK
<1>2. GoesOn(t, ToReview(t, copy)) /\ ToReview(t, copy) \in Task
  <2>1. [copy EXCEPT !.state = "needs_review"] \in Run
    BY DEF Run, States
  <2>2. ToReview(t, copy) \in Task
    BY <2>1, AtType DEF ToReview, Stages, IInv
  <2>. QED  BY <1>1, <2>2 DEF ToReview, At, GoesOn, Task, Run
<1>3. \A stage \in {"structured_extraction", "discover_sources"} :
        At(t, stage, copy) \in Task /\ GoesOn(t, At(t, stage, copy))
  BY AtGoesOn DEF Stages
<1>. QED  BY <1>2, <1>3 DEF ToDiscovery, ToExtraction

LEMMA CrawlForm ==
  ASSUME IInv, NEW t \in Tasks, HandleTask(t), ~Load(t)
  PROVE  \E stage, next : Crawled(t, stage, next)
<1>1. tasks[t] \in Task /\ tasks[t].copy \in Run /\ tasks[t].copy.state # "published"
  BY DEF IInv, TypeOK, Task, CopiesPublishable
<1>2. tasks[t].status = "active"
  BY DEF HandleTask, SaveStage, SaveFetchSource, SaveFetchFailed, SaveExtracted,
         SaveResolving, SaveResolved, SaveDiscovering, SaveDiscovered, SaveExtracting,
         SaveNormalized, SaveReady
<1>3. CASE SaveFetchSource(t)
  <2>1. CASE SaveStage(t, "fetch_source", At(t, "fetch_failed", Failed(tasks[t].copy)))
    <3>. DEFINE next == At(t, "fetch_failed", Failed(tasks[t].copy))
    <3>1. Failed(tasks[t].copy) \in Run /\ Failed(tasks[t].copy).state = "failed"
          /\ Failed(tasks[t].copy).url = tasks[t].copy.url
      BY <1>1, FailedType DEF Failed, Run
    <3>2. next \in Task
      BY <3>1, AtType DEF Stages, IInv
    <3>3. GoesOn(t, next)
      BY <1>1, <1>2, <3>1 DEF GoesOn, At, Task
    <3>4. Crawled(t, "fetch_source", next)
      BY <2>1, <3>2, <3>3 DEF Crawled
    <3>. QED  BY <3>4
  <2>2. ASSUME NEW e \in {"partial", "complete"}, NEW i \in {"none", "unnamed"},
               SaveStage(t, "fetch_source",
                   At(t, "extract_evidence", [tasks[t].copy EXCEPT
                      !.evidence = e, !.issue = i, !.manual = FALSE]))
        PROVE  \E stage, next : Crawled(t, stage, next)
    <3>. DEFINE copy == [tasks[t].copy EXCEPT !.evidence = e, !.issue = i, !.manual = FALSE]
                next == At(t, "extract_evidence", copy)
    <3>1. copy \in Run /\ copy.state # "published" /\ copy.url = tasks[t].copy.url
      BY <1>1 DEF Run, Evidence
    <3>2. next \in Task /\ GoesOn(t, next)
      BY <1>2, <3>1, AtGoesOn DEF Stages
    <3>3. Crawled(t, "fetch_source", next)
      BY <2>2, <3>2 DEF Crawled
    <3>. QED  BY <3>3
  <2>. QED  BY <1>3, <2>1, <2>2 DEF SaveFetchSource
<1>4. CASE SaveFetchFailed(t)
  <2>1. RetryOrGiveUp(t) \in Task
    BY RetryType DEF IInv
  <2>2. Crawled(t, "fetch_failed", RetryOrGiveUp(t))
    BY <1>4, <2>1 DEF SaveFetchFailed, Crawled, Ends, RetryOrGiveUp
  <2>. QED  BY <2>2
<1>5. CASE SaveExtracted(t)
  <2>. DEFINE next == IF "resolver" \in Providers
                      THEN At(t, "resolve_google_place", tasks[t].copy)
                      ELSE ToDiscovery(t, tasks[t].copy)
  <2>1. next \in Task /\ GoesOn(t, next)
    BY <1>1, <1>2, AtGoesOn, TailGoesOn DEF Stages
  <2>2. Crawled(t, "extract_evidence", next)
    BY <1>5, <2>1 DEF SaveExtracted, Crawled
  <2>. QED  BY <2>2
<1>6. CASE SaveResolving(t)
  <2>1. ASSUME NEW copy \in Run, copy.state # "published", copy.url = tasks[t].copy.url,
               SaveStage(t, "resolve_google_place", At(t, "fetch_google_reviews", copy))
        PROVE  \E stage, next : Crawled(t, stage, next)
    <3>1. At(t, "fetch_google_reviews", copy) \in Task
          /\ GoesOn(t, At(t, "fetch_google_reviews", copy))
      BY <1>2, <2>1, AtGoesOn DEF Stages
    <3>2. Crawled(t, "resolve_google_place", At(t, "fetch_google_reviews", copy))
      BY <2>1, <3>1 DEF Crawled
    <3>. QED  BY <3>2
  <2>2. ASSUME NEW p \in Places,
               NEW e \in {tasks[t].copy.evidence, "complete", "conflicting"}
        PROVE  LET copy == [tasks[t].copy EXCEPT !.place = p, !.evidence = e]
               IN  copy \in Run /\ copy.state # "published" /\ copy.url = tasks[t].copy.url
    BY <1>1 DEF Run, Evidence
  <2>. QED  BY <1>1, <1>6, <2>1, <2>2 DEF SaveResolving
<1>7. CASE SaveResolved(t)
  <2>1. Crawled(t, "fetch_google_reviews", ToDiscovery(t, tasks[t].copy))
    BY <1>1, <1>2, <1>7, TailGoesOn DEF SaveResolved, Crawled
  <2>. QED  BY <2>1
<1>8. CASE SaveDiscovering(t)
  <2>1. Crawled(t, "discover_sources", At(t, "merge_evidence", tasks[t].copy))
    BY <1>1, <1>2, <1>8, AtGoesOn DEF SaveDiscovering, Crawled, Stages
  <2>. QED  BY <2>1
<1>9. CASE SaveDiscovered(t)
  <2>1. Crawled(t, "merge_evidence", ToExtraction(t, tasks[t].copy))
    BY <1>1, <1>2, <1>9, TailGoesOn DEF SaveDiscovered, Crawled
  <2>. QED  BY <2>1
<1>10. CASE SaveExtracting(t)
  <2>1. PICK e \in {tasks[t].copy.evidence, "complete", "conflicting"},
             i \in {tasks[t].copy.issue, "none"} :
          SaveStage(t, "structured_extraction",
                    At(t, "normalize_evidence",
                       [tasks[t].copy EXCEPT !.evidence = e, !.issue = i]))
    BY <1>10 DEF SaveExtracting
  <2>. DEFINE copy == [tasks[t].copy EXCEPT !.evidence = e, !.issue = i]
              next == At(t, "normalize_evidence", copy)
  <2>2. copy \in Run /\ copy.state # "published" /\ copy.url = tasks[t].copy.url
    BY <1>1 DEF Run, Evidence
  <2>3. next \in Task /\ GoesOn(t, next)
    BY <1>2, <2>2, AtGoesOn DEF Stages
  <2>4. Crawled(t, "structured_extraction", next)
    BY <2>1, <2>3 DEF Crawled
  <2>. QED  BY <2>4
<1>11. CASE SaveNormalized(t)
  <2>1. Crawled(t, "normalize_evidence", ToReview(t, tasks[t].copy))
    BY <1>1, <1>2, <1>11, TailGoesOn DEF SaveNormalized, Crawled
  <2>. QED  BY <2>1
<1>12. CASE SaveReady(t)
  <2>1. Crawled(t, "ready_for_review", FreeTask)
    BY <1>12, FreeTaskType DEF SaveReady, Crawled, Ends
  <2>. QED  BY <2>1
<1>. QED  BY <1>3, <1>4, <1>5, <1>6, <1>7, <1>8, <1>9, <1>10, <1>11, <1>12
          DEF HandleTask

-----------------------------------------------------------------------------
(***************************************************************************)
(* Every step preserves the invariant, one conjunct at a time.             *)
(***************************************************************************)
LEMMA TypePreserved ==
  ASSUME IInv, Next
  PROVE  TypeOK'
<1>. USE DEF storeVars, historyVars
<1>0. TypeOK /\ IdsDrawn
  BY DEF IInv
<1>1. ASSUME NEW a \in Admins, NEW op, NEW r, NEW pc, NEW copy,
             Received(a, op, r, pc, copy)
      PROVE  TypeOK'
  <2>1. r \in Runs \cup {Nobody} /\ lastRun' \in 0..MaxRuns
    <3>1. lastRun \in 0..MaxRuns /\ MaxRuns \in Nat /\ stored \subseteq Runs
      BY <1>0, ConstantTypes DEF TypeOK
    <3>2. CASE r \in stored /\ lastRun' = lastRun
      BY <3>1, <3>2
    <3>3. CASE r = lastRun + 1 /\ lastRun < MaxRuns /\ lastRun' = lastRun + 1
      BY <3>1, <3>3
    <3>4. CASE r = Nobody /\ lastRun' = lastRun
      BY <3>1, <3>4
    <3>. QED  BY <1>1, <3>2, <3>3, <3>4 DEF Received
  <2>2. [op |-> op, run |-> r, copy |-> copy, pc |-> pc] \in Request
    BY <1>1, <2>1 DEF Received, Receive, Request
  <2>3. served' \in 0..MaxRequests
    BY <1>0, <1>1, ConstantTypes DEF Received, Receive, TypeOK
  <2>. QED  BY <1>0, <1>1, <2>1, <2>2, <2>3 DEF Received, Receive, TypeOK
<1>2. ASSUME NEW a \in Admins, FindByURL(a)
      PROVE  TypeOK'
  <2>1. CASE Answer(a) /\ UNCHANGED lastRun
    BY <1>0, <1>2, <2>1, IdleType DEF FindByURL, Answer, TypeOK
  <2>2. CASE /\ lastRun < MaxRuns
             /\ lastRun' = lastRun + 1
             /\ requests' = [requests EXCEPT ![a].run = lastRun + 1, ![a].pc = "save"]
    <3>1. lastRun + 1 \in Runs
      BY <1>0, <2>2, ConstantTypes DEF TypeOK
    <3>2. requests' \in [Admins -> Request]
      BY <1>0, <2>2, <3>1 DEF TypeOK, Request
    <3>. QED  BY <1>0, <1>2, <2>2, <3>1, <3>2 DEF FindByURL, TypeOK
  <2>. QED  BY <1>2, <2>1, <2>2 DEF FindByURL
<1>3. ASSUME NEW a \in Admins, CheckAnother(a)
      PROVE  TypeOK'
  <2>1. requests' \in [Admins -> Request]
    BY <1>0, <1>3 DEF CheckAnother, Goto, AfterUnpublish, TypeOK, Request
  <2>. QED  BY <1>0, <1>3, <2>1 DEF CheckAnother, TypeOK
<1>4. ASSUME NEW a \in Admins, RemoveEntry(a)
      PROVE  TypeOK'
  <2>1. requests' \in [Admins -> Request]
    BY <1>0, <1>4 DEF RemoveEntry, Goto, AfterUnpublish, TypeOK, Request
  <2>2. catalogue' \in [Places -> Runs \cup {Nobody}]
    BY <1>0, <1>4 DEF RemoveEntry, TypeOK
  <2>. QED  BY <1>0, <1>4, <2>1, <2>2 DEF RemoveEntry, TypeOK
<1>5. ASSUME NEW a \in Admins, DeleteRun(a)
      PROVE  TypeOK'
  <2>1. runs' \in [Runs -> Run]
    BY <1>0, <1>5, BlankRunType DEF DeleteRun, TypeOK
  <2>2. requests' \in [Admins -> Request]
    BY <1>0, <1>5, IdleType DEF DeleteRun, Answer, TypeOK
  <2>. QED  BY <1>0, <1>5, <2>1, <2>2 DEF DeleteRun, TypeOK
<1>6. ASSUME NEW a \in Admins, PublishEntry(a)
      PROVE  TypeOK'
  <2>1. requests' \in [Admins -> Request]
    BY <1>0, <1>6 DEF PublishEntry, Goto, TypeOK, Request
  <2>2. catalogue' \in [Places -> Runs \cup {Nobody}]
    BY <1>0, <1>6 DEF PublishEntry, TypeOK, Request
  <2>. QED  BY <1>0, <1>6, <2>1, <2>2 DEF PublishEntry, TypeOK
<1>7. ASSUME NEW a \in Admins, SaveRequest(a)
      PROVE  TypeOK'
  <2>0. requests[a] \in Request /\ requests[a].run \in Runs
    BY <1>0, <1>7 DEF SaveRequest, TypeOK, IdsDrawn
  <2>1. requests' \in [Admins -> Request]
    <3>1. Answer(a) => requests' \in [Admins -> Request]
      BY <1>0, IdleType DEF Answer, TypeOK
    <3>2. Goto(a, "enqueue") => requests' \in [Admins -> Request]
      <4>1. [requests[a] EXCEPT !.pc = "enqueue"] \in Request
        BY <2>0 DEF Request
      <4>. QED  BY <1>0, <4>1 DEF Goto, TypeOK
    <3>. QED  BY <1>7, <3>1, <3>2 DEF SaveRequest
  <2>2. stored' \subseteq Runs /\ runs' \in [Runs -> Run]
    BY <1>0, <1>7, <2>0 DEF SaveRequest, Save, TypeOK, Request
  <2>3. stranded' \subseteq Runs
    BY <1>0, <1>7 DEF SaveRequest, TypeOK
  <2>. QED  BY <1>0, <1>7, <2>1, <2>2, <2>3 DEF SaveRequest, TypeOK
<1>8. ASSUME NEW a \in Admins, Enqueue(a)
      PROVE  TypeOK'
  <2>1. requests' \in [Admins -> Request]
    BY <1>0, <1>8, IdleType DEF Enqueue, Answer, TypeOK
  <2>2. requests[a].run \in Runs
    BY <1>0, <1>8 DEF Enqueue, IdsDrawn
  <2>3. [FreeTask EXCEPT !.status = "pending", !.run = requests[a].run] \in Task
    BY <2>2, FreeTaskType DEF Task
  <2>4. tasks' \in [Tasks -> Task]
    BY <1>0, <1>8, <2>3 DEF Enqueue, TypeOK
  <2>. QED  BY <1>0, <1>8, <2>1, <2>4 DEF Enqueue, TypeOK
<1>9. ASSUME NEW a \in Admins, SaveQueueFailed(a)
      PROVE  TypeOK'
  <2>0. requests[a] \in Request /\ requests[a].run \in Runs
    BY <1>0, <1>9 DEF SaveQueueFailed, TypeOK, IdsDrawn
  <2>1. requests' \in [Admins -> Request]
    BY <1>0, <1>9, IdleType DEF SaveQueueFailed, Answer, TypeOK
  <2>2. stored' \subseteq Runs /\ runs' \in [Runs -> Run]
    <3>1. CASE Save(requests[a].run, requests[a].copy)
      BY <1>0, <2>0, <3>1 DEF Save, TypeOK, Request
    <3>2. CASE UNCHANGED <<stored, runs>>
      BY <1>0, <3>2 DEF TypeOK
    <3>. QED  BY <1>9, <3>1, <3>2 DEF SaveQueueFailed
  <2>. QED  BY <1>0, <1>9, <2>1, <2>2 DEF SaveQueueFailed, TypeOK
<1>10. ASSUME NEW t \in Tasks, Load(t)
       PROVE  TypeOK'
  <2>0. tasks[t] \in Task /\ tasks[t].run \in Runs
    BY <1>0, <1>10 DEF Load, TypeOK, IdsDrawn
  <2>1. [runs[tasks[t].run] EXCEPT !.state = "enriching"] \in Run
    <3>1. runs[tasks[t].run] \in Run
      BY <1>0, <2>0 DEF TypeOK
    <3>. QED  BY <3>1 DEF Run, States
  <2>2. [tasks[t] EXCEPT !.status = "active", !.stage = "fetch_source",
           !.copy = [runs[tasks[t].run] EXCEPT !.state = "enriching"]] \in Task
    BY <2>0, <2>1 DEF Task, Stages
  <2>3. tasks' \in [Tasks -> Task]
    BY <1>0, <1>10, <2>2, FreeTaskType DEF Load, TypeOK
  <2>. QED  BY <1>0, <1>10, <2>3 DEF Load, TypeOK
<1>11. ASSUME NEW t \in Tasks, NEW stage, NEW next, Crawled(t, stage, next)
       PROVE  TypeOK'
  <2>1. tasks[t].run \in Runs
    BY <1>0, <1>11 DEF Crawled, SaveStage, IdsDrawn
  <2>. QED  BY <1>0, <1>11, <2>1, SaveStageType DEF Crawled
<1>12. ASSUME NEW t \in Tasks, WorkerFails(t)
       PROVE  TypeOK'
  <2>1. tasks' \in [Tasks -> Task]
    BY <1>0, <1>12, RetryType DEF WorkerFails, TypeOK
  <2>2. stranded' \subseteq Runs
    BY <1>0, <1>12 DEF WorkerFails, TypeOK, IdsDrawn
  <2>3. faults' \in 0..MaxFaults
    BY <1>0, <1>12, ConstantTypes DEF WorkerFails, Fault, TypeOK
  <2>. QED  BY <1>0, <1>12, <2>1, <2>2, <2>3 DEF WorkerFails, TypeOK
<1>13. ASSUME NEW a \in Admins, RequestFails(a)
       PROVE  TypeOK'
  <2>1. requests' \in [Admins -> Request]
    BY <1>0, <1>13, IdleType DEF RequestFails, Answer, TypeOK
  <2>2. stranded' \subseteq Runs
    BY <1>0, <1>13 DEF RequestFails, TypeOK, IdsDrawn
  <2>3. faults' \in 0..MaxFaults
    BY <1>0, <1>13, ConstantTypes DEF RequestFails, Fault, TypeOK
  <2>. QED  BY <1>0, <1>13, <2>1, <2>2, <2>3 DEF RequestFails, TypeOK
<1>14. ASSUME NEW a \in Admins, ListFails(a)
       PROVE  TypeOK'
  <2>1. requests' \in [Admins -> Request]
    BY <1>0, <1>14 DEF ListFails, Goto, AfterUnpublish, TypeOK, Request
  <2>2. faults' \in 0..MaxFaults
    BY <1>0, <1>14, ConstantTypes DEF ListFails, Fault, TypeOK
  <2>. QED  BY <1>0, <1>14, <2>1, <2>2 DEF ListFails, TypeOK
<1>15. ASSUME NEW a \in Admins, EnqueueFails(a)
       PROVE  TypeOK'
  <2>1. requests' \in [Admins -> Request]
    <3>1. requests[a] \in Request /\ Failed(requests[a].copy) \in Run
      BY <1>0, FailedType DEF TypeOK, Request
    <3>. QED  BY <1>0, <1>15, <3>1 DEF EnqueueFails, TypeOK, Request
  <2>2. faults' \in 0..MaxFaults
    BY <1>0, <1>15, ConstantTypes DEF EnqueueFails, Fault, TypeOK
  <2>. QED  BY <1>0, <1>15, <2>1, <2>2 DEF EnqueueFails, TypeOK
<1>16. ASSUME NEW r \in Runs, ExpireTombstone(r)
       PROVE  TypeOK'
  BY <1>0, <1>16 DEF ExpireTombstone, TypeOK
<1>. QED  BY <1>1, <1>2, <1>3, <1>4, <1>5, <1>6, <1>7, <1>8, <1>9, <1>10, <1>11,
             <1>12, <1>13, <1>14, <1>15, <1>16, ReceiveForm, CrawlForm
          DEF Next, ServeRequest

\* A request that moves on keeps its run, and no other request moves.
Moves(a) == \E req : /\ req.run = requests[a].run
                     /\ requests' = [requests EXCEPT ![a] = req]

LEMMA MovesOn ==
  ASSUME TypeOK, NEW a \in Admins, Moves(a)
  PROVE  \A b \in Admins : /\ requests'[b].run = requests[b].run
                           /\ b # a => requests'[b] = requests[b]
  BY DEF Moves, TypeOK

LEMMA GotoMoves ==
  ASSUME TypeOK, NEW a \in Admins, NEW pc, Goto(a, pc)
  PROVE  Moves(a)
<1>1. [requests[a] EXCEPT !.pc = pc].run = requests[a].run
  BY DEF TypeOK, Request
<1>2. requests' = [requests EXCEPT ![a] = [requests[a] EXCEPT !.pc = pc]]
  BY DEF Goto, TypeOK
<1>. QED  BY <1>1, <1>2 DEF Moves

LEMMA EnqueueFailsMoves ==
  ASSUME TypeOK, NEW a \in Admins, EnqueueFails(a)
  PROVE  Moves(a)
<1>. DEFINE req == [requests[a] EXCEPT !.copy = Failed(requests[a].copy), !.pc = "save_failed"]
<1>1. req.run = requests[a].run
  BY DEF TypeOK, Request
<1>2. requests' = [requests EXCEPT ![a] = req]
  BY DEF EnqueueFails, TypeOK
<1>. QED  BY <1>1, <1>2 DEF Moves

LEMMA IdsPreserved ==
  ASSUME IInv, Next
  PROVE  IdsDrawn'
<1>. USE DEF storeVars, historyVars
<1>0. TypeOK /\ IdsDrawn
  BY DEF IInv
<1>a. /\ lastRun \in Nat /\ lastRun <= MaxRuns /\ MaxRuns \in Nat
      /\ stored \subseteq Runs /\ deleted \subseteq Runs
      /\ requests \in [Admins -> Request] /\ tasks \in [Tasks -> Task]
  BY <1>0, ConstantTypes DEF TypeOK
<1>b. \A b \in Admins : requests[b].run \in 0..MaxRuns
  BY <1>a DEF Request
<1>c. \A s \in Tasks : tasks[s].run \in 0..MaxRuns
  BY <1>a DEF Task
<1>d. /\ Idle.run = 0 /\ Idle.pc = "idle"
      /\ FreeTask.run = 0 /\ FreeTask.status = "free"
  BY DEF Idle, FreeTask
<1>1. ASSUME NEW a \in Admins, NEW op, NEW r, NEW pc, NEW copy,
             Received(a, op, r, pc, copy)
      PROVE  IdsDrawn'
  <2>1. /\ lastRun' \in Nat /\ lastRun <= lastRun' /\ r <= lastRun' /\ r \in 0..MaxRuns
        /\ pc # "find" => r \in Runs
    <3>1. CASE r \in stored /\ lastRun' = lastRun
      <4>1. r \in 1..lastRun
        BY <1>0, <3>1 DEF IdsDrawn
      <4>. QED  BY <1>a, <3>1, <4>1
    <3>2. CASE r = lastRun + 1 /\ lastRun < MaxRuns /\ lastRun' = lastRun + 1
      BY <1>a, <3>2
    <3>3. CASE r = Nobody /\ pc = "find" /\ lastRun' = lastRun
      BY <1>a, <3>3
    <3>. QED  BY <1>1, <3>1, <3>2, <3>3 DEF Received
  <2>2. /\ requests' = [requests EXCEPT ![a] = [op |-> op, run |-> r, copy |-> copy, pc |-> pc]]
        /\ UNCHANGED <<stored, deleted, tombstones, tasks>>
    BY <1>1 DEF Received, Receive
  <2>3. \A b \in Admins : /\ requests'[b].run <= lastRun'
                          /\ requests'[b].pc \notin {"idle", "find"} => requests'[b].run \in Runs
    BY <1>0, <1>a, <1>b, <2>1, <2>2 DEF IdsDrawn
  <2>4. \A t \in Tasks : /\ tasks'[t].run <= lastRun'
                         /\ tasks'[t].status # "free" => tasks'[t].run \in Runs
    BY <1>0, <1>a, <1>c, <2>1, <2>2 DEF IdsDrawn
  <2>5. (stored \cup deleted \subseteq 1..lastRun /\ tombstones \subseteq deleted)'
    BY <1>0, <1>a, <2>1, <2>2 DEF IdsDrawn
  <2>. QED  BY <2>3, <2>4, <2>5 DEF IdsDrawn
<1>2. ASSUME NEW a \in Admins, FindByURL(a)
      PROVE  IdsDrawn'
  <2>0. UNCHANGED <<stored, deleted, tombstones, tasks>>
    BY <1>2 DEF FindByURL
  <2>1. CASE Answer(a) /\ UNCHANGED lastRun
    BY <1>0, <1>a, <1>d, <2>0, <2>1 DEF Answer, IdsDrawn
  <2>2. CASE /\ lastRun < MaxRuns
             /\ lastRun' = lastRun + 1
             /\ requests' = [requests EXCEPT ![a].run = lastRun + 1, ![a].pc = "save"]
    <3>1. lastRun + 1 \in Runs
      BY <1>a, <2>2
    <3>2. \A b \in Admins : /\ requests'[b].run <= lastRun'
                            /\ requests'[b].pc \notin {"idle", "find"} => requests'[b].run \in Runs
      BY <1>0, <1>a, <1>b, <2>2, <3>1 DEF IdsDrawn, Request
    <3>3. \A t \in Tasks : /\ tasks'[t].run <= lastRun'
                           /\ tasks'[t].status # "free" => tasks'[t].run \in Runs
      BY <1>0, <1>a, <1>c, <2>0, <2>2 DEF IdsDrawn
    <3>4. (stored \cup deleted \subseteq 1..lastRun /\ tombstones \subseteq deleted)'
      BY <1>0, <1>a, <2>0, <2>2 DEF IdsDrawn
    <3>. QED  BY <3>2, <3>3, <3>4 DEF IdsDrawn
  <2>. QED  BY <1>2, <2>1, <2>2 DEF FindByURL
\* The steps below leave lastRun alone: who held an id holds it still, or is idle.
<1>3. ASSUME NEW a \in Admins,
             \/ requests' = [requests EXCEPT ![a] = Idle]
             \/ Moves(a) /\ requests[a].pc \notin {"idle", "find"},
             UNCHANGED lastRun
      PROVE  \A b \in Admins :
               /\ requests'[b].run <= lastRun'
               /\ requests'[b].pc \notin {"idle", "find"} => requests'[b].run \in Runs
  <2>1. CASE requests' = [requests EXCEPT ![a] = Idle]
    BY <1>0, <1>3, <1>a, <1>d, <2>1 DEF IdsDrawn
  <2>2. CASE Moves(a) /\ requests[a].pc \notin {"idle", "find"}
    BY <1>0, <1>3, <2>2, MovesOn DEF IdsDrawn
  <2>. QED  BY <1>3, <2>1, <2>2
<1>4. ASSUME NEW t \in Tasks,
             \/ UNCHANGED tasks
             \/ \E next : /\ tasks' = [tasks EXCEPT ![t] = next]
                          /\ tasks[t].status # "free" \/ next = FreeTask
                          /\ next = FreeTask \/ next.run = tasks[t].run,
             UNCHANGED lastRun
      PROVE  \A s \in Tasks : /\ tasks'[s].run <= lastRun'
                              /\ tasks'[s].status # "free" => tasks'[s].run \in Runs
  <2>1. CASE UNCHANGED tasks
    BY <1>0, <1>4, <2>1 DEF IdsDrawn
  <2>2. CASE \E next : /\ tasks' = [tasks EXCEPT ![t] = next]
                       /\ tasks[t].status # "free" \/ next = FreeTask
                       /\ next = FreeTask \/ next.run = tasks[t].run
    BY <1>0, <1>4, <1>a, <1>d, <2>2 DEF IdsDrawn
  <2>. QED  BY <1>4, <2>1, <2>2
<1>5. ASSUME NEW a \in Admins, DeleteRun(a)
      PROVE  IdsDrawn'
  <2>1. \A b \in Admins :
               /\ requests'[b].run <= lastRun'
               /\ requests'[b].pc \notin {"idle", "find"} => requests'[b].run \in Runs
    BY <1>3, <1>5 DEF DeleteRun, Answer
  <2>2. (stored \cup deleted \subseteq 1..lastRun /\ tombstones \subseteq deleted)'
    BY <1>0, <1>5 DEF DeleteRun, IdsDrawn
  <2>. QED  BY <1>0, <1>5, <2>1, <2>2 DEF DeleteRun, IdsDrawn
<1>6. ASSUME NEW a \in Admins,
             \/ CheckAnother(a) \/ RemoveEntry(a) \/ PublishEntry(a)
             \/ RequestFails(a) \/ ListFails(a) \/ EnqueueFails(a)
      PROVE  IdsDrawn'
  <2>1. UNCHANGED <<stored, deleted, tombstones, lastRun, tasks>>
    BY <1>6 DEF CheckAnother, RemoveEntry, PublishEntry, RequestFails, ListFails, EnqueueFails
  <2>2. \A b \in Admins :
               /\ requests'[b].run <= lastRun'
               /\ requests'[b].pc \notin {"idle", "find"} => requests'[b].run \in Runs
    BY <1>0, <1>3, <1>6, GotoMoves, EnqueueFailsMoves
       DEF CheckAnother, RemoveEntry, PublishEntry, RequestFails, ListFails, EnqueueFails, Answer
  <2>. QED  BY <1>0, <2>1, <2>2 DEF IdsDrawn
<1>7. ASSUME NEW a \in Admins, SaveRequest(a) \/ SaveQueueFailed(a)
      PROVE  IdsDrawn'
  <2>1. UNCHANGED <<deleted, tombstones, lastRun, tasks>>
    BY <1>7 DEF SaveRequest, SaveQueueFailed
  <2>2. \A b \in Admins :
               /\ requests'[b].run <= lastRun'
               /\ requests'[b].pc \notin {"idle", "find"} => requests'[b].run \in Runs
    BY <1>0, <1>3, <1>7, GotoMoves DEF SaveRequest, SaveQueueFailed, Answer
  <2>3. requests[a].run \in 1..lastRun
    BY <1>0, <1>7, <1>a, <1>b DEF SaveRequest, SaveQueueFailed, IdsDrawn
  <2>4. stored' \subseteq stored \cup {requests[a].run}
    BY <1>7 DEF SaveRequest, SaveQueueFailed, Save
  <2>. QED  BY <1>0, <2>1, <2>2, <2>3, <2>4 DEF IdsDrawn
<1>8. ASSUME NEW a \in Admins, Enqueue(a)
      PROVE  IdsDrawn'
  <2>1. UNCHANGED <<stored, deleted, tombstones, lastRun>>
    BY <1>8 DEF Enqueue
  <2>2. \A b \in Admins :
               /\ requests'[b].run <= lastRun'
               /\ requests'[b].pc \notin {"idle", "find"} => requests'[b].run \in Runs
    BY <1>3, <1>8 DEF Enqueue, Answer
  <2>3. PICK t \in Tasks :
          tasks' = [tasks EXCEPT ![t] = [FreeTask EXCEPT !.status = "pending",
                                                         !.run = requests[a].run]]
    BY <1>8 DEF Enqueue
  <2>4. requests[a].run \in Runs /\ requests[a].run <= lastRun
    BY <1>0, <1>8 DEF Enqueue, IdsDrawn
  <2>5. [FreeTask EXCEPT !.status = "pending", !.run = requests[a].run].run = requests[a].run
    BY DEF FreeTask
  <2>6. \A s \in Tasks : /\ tasks'[s].run <= lastRun'
                         /\ tasks'[s].status # "free" => tasks'[s].run \in Runs
    BY <1>0, <1>a, <2>1, <2>3, <2>4, <2>5 DEF IdsDrawn
  <2>. QED  BY <1>0, <2>1, <2>2, <2>6 DEF IdsDrawn
<1>9. ASSUME NEW t \in Tasks, Load(t)
      PROVE  IdsDrawn'
  <2>1. UNCHANGED <<stored, deleted, tombstones, lastRun, requests>> /\ tasks[t].status # "free"
    BY <1>9 DEF Load
  <2>2. \E next : /\ tasks' = [tasks EXCEPT ![t] = next]
                  /\ next = FreeTask \/ next.run = tasks[t].run
    <3>. DEFINE next == [tasks[t] EXCEPT !.status = "active", !.stage = "fetch_source",
                           !.copy = [runs[tasks[t].run] EXCEPT !.state = "enriching"]]
    <3>1. next.run = tasks[t].run
      BY <1>a DEF Task
    <3>. HIDE DEF next
    <3>2. tasks' = [tasks EXCEPT ![t] = next] \/ tasks' = [tasks EXCEPT ![t] = FreeTask]
      BY <1>9 DEF Load, next
    <3>. QED  BY <3>1, <3>2
  <2>3. \A s \in Tasks : /\ tasks'[s].run <= lastRun'
                         /\ tasks'[s].status # "free" => tasks'[s].run \in Runs
    BY <1>4, <2>1, <2>2
  <2>. QED  BY <1>0, <2>1, <2>3 DEF IdsDrawn
<1>10. ASSUME NEW t \in Tasks, NEW stage, NEW next, Crawled(t, stage, next)
       PROVE  IdsDrawn'
  <2>1. UNCHANGED <<deleted, tombstones, lastRun, requests>> /\ tasks[t].status # "free"
    BY <1>10 DEF Crawled, SaveStage
  <2>2. next = FreeTask \/ next.run = tasks[t].run
    BY <1>10 DEF Crawled, GoesOn, Ends, Retry, FreeTask
  <2>3. tasks' = [tasks EXCEPT ![t] = next] \/ tasks' = [tasks EXCEPT ![t] = FreeTask]
    BY <1>10 DEF Crawled, SaveStage
  <2>4. \A s \in Tasks : /\ tasks'[s].run <= lastRun'
                         /\ tasks'[s].status # "free" => tasks'[s].run \in Runs
    BY <1>4, <2>1, <2>2, <2>3
  <2>5. tasks[t].run \in 1..lastRun
    BY <1>0, <1>a, <1>c, <2>1 DEF IdsDrawn
  <2>6. stored' \subseteq stored \cup {tasks[t].run}
    BY <1>10 DEF Crawled, SaveStage, Save
  <2>. QED  BY <1>0, <2>1, <2>4, <2>5, <2>6 DEF IdsDrawn
<1>11. ASSUME NEW t \in Tasks, WorkerFails(t)
       PROVE  IdsDrawn'
  <2>1. UNCHANGED <<stored, deleted, tombstones, lastRun, requests>> /\ tasks[t].status # "free"
    BY <1>11 DEF WorkerFails
  <2>2. RetryOrGiveUp(t) = FreeTask \/ RetryOrGiveUp(t).run = tasks[t].run
    BY DEF RetryOrGiveUp, Retry, FreeTask
  <2>3. \A s \in Tasks : /\ tasks'[s].run <= lastRun'
                         /\ tasks'[s].status # "free" => tasks'[s].run \in Runs
    BY <1>4, <1>11, <2>1, <2>2 DEF WorkerFails
  <2>. QED  BY <1>0, <2>1, <2>3 DEF IdsDrawn
<1>12. ASSUME NEW r \in Runs, ExpireTombstone(r)
       PROVE  IdsDrawn'
  BY <1>0, <1>12 DEF ExpireTombstone, IdsDrawn
<1>. QED  BY <1>1, <1>2, <1>5, <1>6, <1>7, <1>8, <1>9, <1>10, <1>11, <1>12,
             ReceiveForm, CrawlForm
          DEF Next, ServeRequest

\* A buried run stays buried as long as no step lets somebody take hold of it.
LEMMA StillBuried ==
  ASSUME IInv,
         UNCHANGED <<deleted, tombstones>>,
         stored' \cap deleted = {},
         \A b \in Admins : requests'[b].pc # "idle" =>
            \/ requests'[b].run \notin deleted
            \/ requests[b].pc # "idle" /\ requests'[b].run = requests[b].run,
         \A s \in Tasks : tasks'[s].status = "active" =>
            \/ tasks'[s].run \notin deleted
            \/ tasks[s].status = "active" /\ tasks'[s].run = tasks[s].run
  PROVE  Buried'
  BY DEF IInv, Buried, DeletedStaysDeleted

LEMMA BuriedPreserved ==
  ASSUME IInv, Next
  PROVE  Buried'
<1>. USE DEF storeVars, historyVars
<1>0. TypeOK /\ IdsDrawn /\ Buried
  BY DEF IInv
<1>a. /\ lastRun \in Nat /\ stored \cap deleted = {} /\ deleted \subseteq 1..lastRun
      /\ requests \in [Admins -> Request] /\ tasks \in [Tasks -> Task]
  BY <1>0, ConstantTypes DEF TypeOK, IdsDrawn, Buried, DeletedStaysDeleted
<1>b. 0 \notin deleted /\ lastRun + 1 \notin deleted
  BY <1>a
<1>c. /\ Idle.pc = "idle" /\ FreeTask.status = "free"
      /\ \A t \in Tasks : Retry(t).status = "pending"
  BY DEF Idle, FreeTask, Retry
\* A holder that meets no tombstone holds a run that was not deleted.
<1>d. ASSUME NEW a \in Admins, requests[a].pc # "idle", ~Tombstoned(requests[a].run)
      PROVE  requests[a].run \notin deleted
  BY <1>0, <1>d DEF Tombstoned, Buried
<1>e. ASSUME NEW t \in Tasks, tasks[t].status = "active", ~Tombstoned(tasks[t].run)
      PROVE  tasks[t].run \notin deleted
  BY <1>0, <1>e DEF Tombstoned, Buried
<1>1. ASSUME NEW a \in Admins, NEW op, NEW r, NEW pc, NEW copy,
             Received(a, op, r, pc, copy)
      PROVE  Buried'
  <2>1. r \notin deleted
    BY <1>1, <1>a, <1>b DEF Received
  <2>2. requests' = [requests EXCEPT ![a] = [op |-> op, run |-> r, copy |-> copy, pc |-> pc]]
    BY <1>1 DEF Received, Receive
  <2>3. \A b \in Admins : requests'[b].run \notin deleted \/ requests'[b] = requests[b]
    BY <1>a, <2>1, <2>2
  <2>. QED  BY <1>1, <1>a, <2>3, StillBuried DEF Received, Receive
<1>2. ASSUME NEW a \in Admins, FindByURL(a)
      PROVE  Buried'
  <2>1. \A b \in Admins : \/ requests'[b].pc = "idle"
                          \/ requests'[b].run \notin deleted
                          \/ requests'[b] = requests[b]
    <3>1. CASE Answer(a)
      BY <1>a, <1>c, <3>1 DEF Answer
    <3>2. CASE requests' = [requests EXCEPT ![a].run = lastRun + 1, ![a].pc = "save"]
      <4>1. requests'[a].run = lastRun + 1 /\ \A b \in Admins \ {a} : requests'[b] = requests[b]
        BY <1>a, <3>2 DEF Request
      <4>. QED  BY <1>b, <4>1
    <3>. QED  BY <1>2, <3>1, <3>2 DEF FindByURL
  <2>. QED  BY <1>2, <1>a, <2>1, StillBuried DEF FindByURL
<1>3. ASSUME NEW a \in Admins,
             requests' = [requests EXCEPT ![a] = Idle] \/ Moves(a),
             requests[a].pc # "idle"
      PROVE  \A b \in Admins : requests'[b].pc # "idle" =>
               requests[b].pc # "idle" /\ requests'[b].run = requests[b].run
  <2>1. CASE requests' = [requests EXCEPT ![a] = Idle]
    BY <1>a, <1>c, <2>1
  <2>2. CASE Moves(a)
    BY <1>0, <1>3, <2>2, MovesOn
  <2>. QED  BY <1>3, <2>1, <2>2
<1>4. ASSUME NEW a \in Admins, DeleteRun(a)
      PROVE  Buried'
  <2>1. \A b \in Admins : requests'[b].pc # "idle" =>
               requests[b].pc # "idle" /\ requests'[b].run = requests[b].run
    BY <1>3, <1>4 DEF DeleteRun, Answer
  <2>2. (deleted \ tombstones)' \subseteq deleted \ tombstones
    BY <1>4 DEF DeleteRun
  <2>3. (deleted \cap stored)' = {}
    BY <1>4, <1>a DEF DeleteRun
  <2>4. UNCHANGED tasks
    BY <1>4 DEF DeleteRun
  <2>. QED  BY <1>0, <2>1, <2>2, <2>3, <2>4 DEF Buried, DeletedStaysDeleted
<1>5. ASSUME NEW a \in Admins,
             \/ CheckAnother(a) \/ RemoveEntry(a) \/ PublishEntry(a)
             \/ RequestFails(a) \/ ListFails(a) \/ EnqueueFails(a)
      PROVE  Buried'
  <2>1. \A b \in Admins : requests'[b].pc # "idle" =>
               requests[b].pc # "idle" /\ requests'[b].run = requests[b].run
    BY <1>0, <1>3, <1>5, GotoMoves, EnqueueFailsMoves
       DEF CheckAnother, RemoveEntry, PublishEntry, RequestFails, ListFails, EnqueueFails, Answer
  <2>2. UNCHANGED <<stored, deleted, tombstones, tasks>>
    BY <1>5 DEF CheckAnother, RemoveEntry, PublishEntry, RequestFails, ListFails, EnqueueFails
  <2>. QED  BY <1>a, <2>1, <2>2, StillBuried
<1>6. ASSUME NEW a \in Admins, SaveRequest(a) \/ SaveQueueFailed(a)
      PROVE  Buried'
  <2>1. \A b \in Admins : requests'[b].pc # "idle" =>
               requests[b].pc # "idle" /\ requests'[b].run = requests[b].run
    BY <1>0, <1>3, <1>6, GotoMoves DEF SaveRequest, SaveQueueFailed, Answer
  <2>2. UNCHANGED <<deleted, tombstones, tasks>>
    BY <1>6 DEF SaveRequest, SaveQueueFailed
  <2>3. stored' \cap deleted = {}
    <3>1. requests[a].pc # "idle"
      BY <1>6 DEF SaveRequest, SaveQueueFailed
    <3>2. UNCHANGED stored \/ (~Tombstoned(requests[a].run) /\ stored' = stored \cup {requests[a].run})
      BY <1>6 DEF SaveRequest, SaveQueueFailed, Save
    <3>. QED  BY <1>a, <1>d, <3>1, <3>2
  <2>. QED  BY <2>1, <2>2, <2>3, StillBuried
<1>7. ASSUME NEW a \in Admins, Enqueue(a)
      PROVE  Buried'
  <2>1. \A b \in Admins : requests'[b].pc # "idle" =>
               requests[b].pc # "idle" /\ requests'[b].run = requests[b].run
    BY <1>3, <1>7 DEF Enqueue, Answer
  <2>2. UNCHANGED <<stored, deleted, tombstones>>
    BY <1>7 DEF Enqueue
  <2>3. PICK t \in Tasks :
          tasks' = [tasks EXCEPT ![t] = [FreeTask EXCEPT !.status = "pending",
                                                         !.run = requests[a].run]]
    BY <1>7 DEF Enqueue
  <2>4. [FreeTask EXCEPT !.status = "pending", !.run = requests[a].run].status = "pending"
    BY DEF FreeTask
  <2>5. \A s \in Tasks : tasks'[s].status = "active" => tasks'[s] = tasks[s]
    BY <1>a, <2>3, <2>4
  <2>. QED  BY <1>a, <2>1, <2>2, <2>5, StillBuried
<1>8. ASSUME NEW t \in Tasks, Load(t)
      PROVE  Buried'
  <2>1. \A s \in Tasks : tasks'[s].status = "active" =>
          tasks'[s].run \notin deleted \/ tasks'[s] = tasks[s]
    <3>1. CASE tasks[t].run \in stored
      <4>1. tasks'[t].run = tasks[t].run /\ \A s \in Tasks \ {t} : tasks'[s] = tasks[s]
        BY <1>8, <1>a, <3>1 DEF Load, Task
      <4>. QED  BY <1>a, <3>1, <4>1
    <3>2. CASE tasks[t].run \notin stored
      BY <1>8, <1>a, <1>c, <3>2 DEF Load
    <3>. QED  BY <3>1, <3>2
  <2>2. UNCHANGED <<stored, deleted, tombstones, requests>>
    BY <1>8 DEF Load
  <2>. QED  BY <1>a, <2>1, <2>2, StillBuried
<1>9. ASSUME NEW t \in Tasks, NEW stage, NEW next, Crawled(t, stage, next)
      PROVE  Buried'
  <2>1. UNCHANGED <<deleted, tombstones, requests>> /\ tasks[t].status = "active"
    BY <1>9 DEF Crawled, SaveStage
  <2>2. next.status = "active" => next.run = tasks[t].run
    BY <1>9, <1>c DEF Crawled, GoesOn, Ends
  <2>3. tasks' = [tasks EXCEPT ![t] = next] \/ tasks' = [tasks EXCEPT ![t] = FreeTask]
    BY <1>9 DEF Crawled, SaveStage
  <2>4. \A s \in Tasks : tasks'[s].status = "active" =>
          tasks[s].status = "active" /\ tasks'[s].run = tasks[s].run
    BY <1>a, <1>c, <2>1, <2>2, <2>3
  <2>5. stored' \cap deleted = {}
    <3>1. UNCHANGED stored \/ (~Tombstoned(tasks[t].run) /\ stored' = stored \cup {tasks[t].run})
      BY <1>9 DEF Crawled, SaveStage, Save
    <3>. QED  BY <1>a, <1>e, <2>1, <3>1
  <2>. QED  BY <2>1, <2>4, <2>5, StillBuried
<1>10. ASSUME NEW t \in Tasks, WorkerFails(t)
       PROVE  Buried'
  <2>1. RetryOrGiveUp(t).status # "active"
    BY <1>c DEF RetryOrGiveUp
  <2>2. \A s \in Tasks : tasks'[s].status = "active" => tasks'[s] = tasks[s]
    BY <1>10, <1>a, <2>1 DEF WorkerFails
  <2>3. UNCHANGED <<stored, deleted, tombstones, requests>>
    BY <1>10 DEF WorkerFails
  <2>. QED  BY <1>a, <2>2, <2>3, StillBuried
<1>11. ASSUME NEW r \in Runs, ExpireTombstone(r)
       PROVE  Buried'
  BY <1>0, <1>11 DEF ExpireTombstone, Buried, DeletedStaysDeleted
<1>. QED  BY <1>1, <1>2, <1>4, <1>5, <1>6, <1>7, <1>8, <1>9, <1>10, <1>11,
             ReceiveForm, CrawlForm
          DEF Next, ServeRequest

LEMMA CopiesPreserved ==
  ASSUME IInv, Next
  PROVE  CopiesPublishable'
<1>. USE DEF storeVars, historyVars
<1>0. TypeOK /\ IdsDrawn /\ CopiesPublishable
  BY DEF IInv
<1>a. /\ requests \in [Admins -> Request] /\ tasks \in [Tasks -> Task]
      /\ runs \in [Runs -> Run]
  BY <1>0 DEF TypeOK
<1>b. /\ Publishable(BlankRun) /\ Publishable(Idle.copy)
      /\ FreeTask.copy.state # "published" /\ \A t \in Tasks : Retry(t).copy = FreeTask.copy
  BY DEF Publishable, BlankRun, NewRun, Idle, FreeTask, Retry
<1>c. ASSUME NEW a \in Admins,
             \/ requests' = [requests EXCEPT ![a] = Idle]
             \/ \E pc : Goto(a, pc)
      PROVE  \A b \in Admins : Publishable(requests'[b].copy)
  <2>1. CASE requests' = [requests EXCEPT ![a] = Idle]
    BY <1>0, <1>a, <1>b, <2>1 DEF CopiesPublishable
  <2>2. CASE \E pc : Goto(a, pc)
    <3>1. \A b \in Admins : requests'[b].copy = requests[b].copy
      BY <1>a, <2>2 DEF Goto, Request
    <3>. QED  BY <1>0, <3>1 DEF CopiesPublishable
  <2>. QED  BY <1>c, <2>1, <2>2
<1>1. ASSUME NEW a \in Admins, NEW op, NEW r, NEW pc, NEW copy,
             Received(a, op, r, pc, copy)
      PROVE  CopiesPublishable'
  BY <1>0, <1>1, <1>a DEF Received, Receive, CopiesPublishable
<1>2. ASSUME NEW a \in Admins, FindByURL(a)
      PROVE  CopiesPublishable'
  <2>1. CASE Answer(a)
    BY <1>0, <1>2, <1>c, <2>1 DEF FindByURL, Answer, CopiesPublishable
  <2>2. CASE requests' = [requests EXCEPT ![a].run = lastRun + 1, ![a].pc = "save"]
    <3>1. \A b \in Admins : requests'[b].copy = requests[b].copy
      BY <1>a, <2>2 DEF Request
    <3>. QED  BY <1>0, <1>2, <3>1 DEF FindByURL, CopiesPublishable
  <2>. QED  BY <1>2, <2>1, <2>2 DEF FindByURL
<1>3. ASSUME NEW a \in Admins,
             \/ CheckAnother(a) \/ RemoveEntry(a) \/ PublishEntry(a) \/ RequestFails(a)
             \/ ListFails(a)
      PROVE  CopiesPublishable'
  <2>1. UNCHANGED <<runs, tasks>>
    BY <1>3 DEF CheckAnother, RemoveEntry, PublishEntry, RequestFails, ListFails
  <2>2. \A b \in Admins : Publishable(requests'[b].copy)
    BY <1>3, <1>c DEF CheckAnother, RemoveEntry, PublishEntry, RequestFails, ListFails, Answer
  <2>. QED  BY <1>0, <2>1, <2>2 DEF CopiesPublishable
<1>4. ASSUME NEW a \in Admins, EnqueueFails(a)
      PROVE  CopiesPublishable'
  <2>1. requests'[a].copy.state = "failed" /\ \A b \in Admins \ {a} : requests'[b] = requests[b]
    BY <1>4, <1>a DEF EnqueueFails, Request, Run, Failed
  <2>. QED  BY <1>0, <1>4, <2>1 DEF EnqueueFails, CopiesPublishable, Publishable
<1>5. ASSUME NEW a \in Admins, DeleteRun(a)
      PROVE  CopiesPublishable'
  <2>1. \A b \in Admins : Publishable(requests'[b].copy)
    BY <1>5, <1>c DEF DeleteRun, Answer
  <2>2. \A r \in Runs : Publishable(runs'[r])
    BY <1>0, <1>5, <1>a, <1>b DEF DeleteRun, CopiesPublishable
  <2>. QED  BY <1>0, <1>5, <2>1, <2>2 DEF DeleteRun, CopiesPublishable
<1>6. ASSUME NEW a \in Admins, SaveRequest(a) \/ SaveQueueFailed(a)
      PROVE  CopiesPublishable'
  <2>1. \A b \in Admins : Publishable(requests'[b].copy)
    BY <1>6, <1>c DEF SaveRequest, SaveQueueFailed, Answer
  <2>2. UNCHANGED runs \/ runs' = [runs EXCEPT ![requests[a].run] = requests[a].copy]
    BY <1>6 DEF SaveRequest, SaveQueueFailed, Save
  <2>3. \A r \in Runs : Publishable(runs'[r])
    BY <1>0, <1>a, <2>2 DEF CopiesPublishable
  <2>. QED  BY <1>0, <1>6, <2>1, <2>3 DEF SaveRequest, SaveQueueFailed, CopiesPublishable
<1>7. ASSUME NEW a \in Admins, Enqueue(a)
      PROVE  CopiesPublishable'
  <2>1. \A b \in Admins : Publishable(requests'[b].copy)
    BY <1>7, <1>c DEF Enqueue, Answer
  <2>2. [FreeTask EXCEPT !.status = "pending", !.run = requests[a].run].copy = FreeTask.copy
    BY DEF FreeTask
  <2>3. \A t \in Tasks : tasks'[t].copy.state # "published"
    BY <1>0, <1>7, <1>a, <1>b, <2>2 DEF Enqueue, CopiesPublishable
  <2>. QED  BY <1>0, <1>7, <2>1, <2>3 DEF Enqueue, CopiesPublishable
<1>8. ASSUME NEW t \in Tasks, Load(t)
      PROVE  CopiesPublishable'
  <2>1. \A s \in Tasks : tasks'[s].copy.state # "published"
    <3>1. CASE tasks[t].run \in stored
      <4>1. runs[tasks[t].run] \in Run
        BY <1>0, <1>8 DEF Load, TypeOK, IdsDrawn
      <4>2. tasks'[t].copy = [runs[tasks[t].run] EXCEPT !.state = "enriching"]
            /\ \A s \in Tasks \ {t} : tasks'[s] = tasks[s]
        BY <1>8, <1>a, <3>1 DEF Load, Task
      <4>3. [runs[tasks[t].run] EXCEPT !.state = "enriching"].state = "enriching"
        BY <4>1 DEF Run
      <4>. QED  BY <1>0, <4>2, <4>3 DEF CopiesPublishable
    <3>2. CASE tasks[t].run \notin stored
      BY <1>0, <1>8, <1>a, <1>b, <3>2 DEF Load, CopiesPublishable
    <3>. QED  BY <3>1, <3>2
  <2>. QED  BY <1>0, <1>8, <2>1 DEF Load, CopiesPublishable
<1>9. ASSUME NEW t \in Tasks, NEW stage, NEW next, Crawled(t, stage, next)
      PROVE  CopiesPublishable'
  <2>1. UNCHANGED runs \/ runs' = [runs EXCEPT ![tasks[t].run] = tasks[t].copy]
    BY <1>9 DEF Crawled, SaveStage, Save
  <2>2. \A r \in Runs : Publishable(runs'[r])
    BY <1>0, <1>a, <2>1 DEF CopiesPublishable, Publishable
  <2>3. next.copy.state # "published"
    BY <1>9, <1>b DEF Crawled, GoesOn, Ends
  <2>4. tasks' = [tasks EXCEPT ![t] = next] \/ tasks' = [tasks EXCEPT ![t] = FreeTask]
    BY <1>9 DEF Crawled, SaveStage
  <2>5. \A s \in Tasks : tasks'[s].copy.state # "published"
    BY <1>0, <1>a, <1>b, <2>3, <2>4 DEF CopiesPublishable
  <2>6. UNCHANGED requests
    BY <1>9 DEF Crawled, SaveStage
  <2>. QED  BY <1>0, <2>2, <2>5, <2>6 DEF CopiesPublishable
<1>10. ASSUME NEW t \in Tasks, WorkerFails(t)
       PROVE  CopiesPublishable'
  <2>1. RetryOrGiveUp(t).copy.state # "published"
    BY <1>b DEF RetryOrGiveUp
  <2>. QED  BY <1>0, <1>10, <1>a, <2>1 DEF WorkerFails, CopiesPublishable
<1>11. ASSUME NEW r \in Runs, ExpireTombstone(r)
       PROVE  CopiesPublishable'
  BY <1>0, <1>11 DEF ExpireTombstone, CopiesPublishable
<1>. QED  BY <1>1, <1>2, <1>3, <1>4, <1>5, <1>6, <1>7, <1>8, <1>9, <1>10, <1>11,
             ReceiveForm, CrawlForm
          DEF Next, ServeRequest

\* Ownership survives when neither the runs nor the owners that count change.
LEMMA OwnersKept ==
  ASSUME EnrichingIsOwned,
         \A r \in stored' : runs'[r].state = "enriching" =>
            \/ Owned(r)'
            \/ r \in stranded'
            \/ /\ r \in stored
               /\ runs[r].state = "enriching"
               /\ Owned(r) => Owned(r)' \/ r \in stranded'
               /\ r \in stranded => Owned(r)' \/ r \in stranded'
  PROVE  EnrichingIsOwned'
  BY DEF EnrichingIsOwned

LEMMA OwnedPreserved ==
  ASSUME IInv, Next
  PROVE  EnrichingIsOwned'
<1>. USE DEF storeVars, historyVars
<1>0. TypeOK /\ IdsDrawn /\ Buried /\ HandedOver /\ EnrichingIsOwned
  BY DEF IInv, HandedOver
<1>a. /\ requests \in [Admins -> Request] /\ tasks \in [Tasks -> Task]
      /\ runs \in [Runs -> Run] /\ stored \subseteq Runs
      /\ stored \cap tombstones = {}
  BY <1>0 DEF TypeOK, IdsDrawn, Buried, DeletedStaysDeleted
<1>b. FreeTask.status = "free" /\ Idle.pc = "idle"
  BY DEF FreeTask, Idle
\* A request that owned nothing changes and the tasks do not.
<1>c. ASSUME NEW a \in Admins, NEW req, requests' = [requests EXCEPT ![a] = req],
             requests[a].pc \notin {"enqueue", "save_failed"}, UNCHANGED tasks,
             NEW r, Owned(r)
      PROVE  Owned(r)'
  <2>1. CASE \E t \in Tasks : tasks[t].status # "free" /\ tasks[t].run = r
    BY <1>c, <2>1 DEF Owned
  <2>2. CASE \E b \in Admins : requests[b].pc \in {"enqueue", "save_failed"} /\ requests[b].run = r
    <3>1. PICK b \in Admins : requests[b].pc \in {"enqueue", "save_failed"} /\ requests[b].run = r
      BY <2>2
    <3>2. requests'[b] = requests[b]
      BY <1>a, <1>c, <3>1
    <3>. QED  BY <3>1, <3>2 DEF Owned
  <2>. QED  BY <1>c, <2>1, <2>2 DEF Owned
\* A task changes and stays its run's owner, and the requests do not change.
<1>d. ASSUME NEW t \in Tasks, NEW next, tasks' = [tasks EXCEPT ![t] = next],
             UNCHANGED requests,
             NEW r, Owned(r),
             tasks[t].run = r => next.run = r /\ next.status # "free"
      PROVE  Owned(r)'
  <2>1. CASE \E s \in Tasks : tasks[s].status # "free" /\ tasks[s].run = r
    <3>1. PICK s \in Tasks : tasks[s].status # "free" /\ tasks[s].run = r
      BY <2>1
    <3>2. tasks'[s].status # "free" /\ tasks'[s].run = r
      BY <1>a, <1>d, <3>1
    <3>. QED  BY <3>2 DEF Owned
  <2>2. CASE \E b \in Admins : requests[b].pc \in {"enqueue", "save_failed"} /\ requests[b].run = r
    BY <1>d, <2>2 DEF Owned
  <2>. QED  BY <1>d, <2>1, <2>2 DEF Owned
<1>1. ASSUME NEW a \in Admins, NEW op, NEW r, NEW pc, NEW copy,
             Received(a, op, r, pc, copy)
      PROVE  EnrichingIsOwned'
  <2>1. \A q : Owned(q) => Owned(q)'
    BY <1>1, <1>c DEF Received, Receive
  <2>. QED  BY <1>0, <1>1, <2>1, OwnersKept DEF Received, Receive
<1>2. ASSUME NEW a \in Admins, FindByURL(a)
      PROVE  EnrichingIsOwned'
  <2>1. PICK req : requests' = [requests EXCEPT ![a] = req]
    <3>1. CASE Answer(a)
      BY <3>1 DEF Answer
    <3>2. CASE requests' = [requests EXCEPT ![a].run = lastRun + 1, ![a].pc = "save"]
      <4>1. requests' = [requests EXCEPT ![a] =
                           [requests[a] EXCEPT !.run = lastRun + 1, !.pc = "save"]]
        BY <1>a, <3>2
      <4>. QED  BY <4>1
    <3>. QED  BY <1>2, <3>1, <3>2 DEF FindByURL
  <2>2. \A q : Owned(q) => Owned(q)'
    BY <1>2, <1>c, <2>1 DEF FindByURL
  <2>. QED  BY <1>0, <1>2, <2>2, OwnersKept DEF FindByURL
<1>3. ASSUME NEW a \in Admins,
             CheckAnother(a) \/ RemoveEntry(a) \/ PublishEntry(a) \/ ListFails(a)
      PROVE  EnrichingIsOwned'
  <2>1. Moves(a)
    BY <1>0, <1>3, GotoMoves DEF CheckAnother, RemoveEntry, PublishEntry, ListFails
  <2>2. PICK req : requests' = [requests EXCEPT ![a] = req]
    BY <2>1 DEF Moves
  <2>3. /\ requests[a].pc \notin {"enqueue", "save_failed"}
        /\ UNCHANGED <<stored, runs, tasks, stranded>>
    BY <1>3 DEF CheckAnother, RemoveEntry, PublishEntry, ListFails
  <2>4. \A q : Owned(q) => Owned(q)'
    BY <1>c, <2>2, <2>3
  <2>. QED  BY <1>0, <2>3, <2>4, OwnersKept
<1>4. ASSUME NEW a \in Admins, DeleteRun(a)
      PROVE  EnrichingIsOwned'
  <2>1. \A q : Owned(q) => Owned(q)'
    BY <1>4, <1>c DEF DeleteRun, Answer
  <2>2. /\ stored' \subseteq stored /\ UNCHANGED stranded
        /\ \A q \in stored' : runs'[q] = runs[q]
    BY <1>4, <1>a DEF DeleteRun
  <2>. QED  BY <1>0, <2>1, <2>2, OwnersKept
<1>5. ASSUME NEW a \in Admins, SaveRequest(a)
      PROVE  EnrichingIsOwned'
  <2>r. PICK r : r = requests[a].run
    OBVIOUS
  <2>0. requests[a].pc = "save" /\ UNCHANGED tasks /\ r \in Runs
    BY <1>0, <1>5, <2>r DEF SaveRequest, IdsDrawn
  <2>1. CASE Answer(a) /\ UNCHANGED <<stored, runs, stranded>>
    <3>1. \A q : Owned(q) => Owned(q)'
      BY <1>c, <2>0, <2>1 DEF Answer
    <3>. QED  BY <1>0, <2>1, <3>1, OwnersKept
  <2>2. CASE /\ Save(r, requests[a].copy)
             /\ requests[a].copy.state = "enriching"
             /\ Goto(a, "enqueue")
             /\ stranded' = stranded \ {r}
    <3>1. requests' = [requests EXCEPT ![a] = [requests[a] EXCEPT !.pc = "enqueue"]]
      BY <1>a, <2>2 DEF Goto
    <3>2. \A q : Owned(q) => Owned(q)'
      BY <1>c, <2>0, <3>1
    <3>3. requests'[a].pc = "enqueue" /\ requests'[a].run = r
      BY <1>a, <2>r, <3>1 DEF Request
    <3>4. Owned(r)'
      BY <3>3 DEF Owned
    <3>5. \A q \in stored' \ {r} : q \in stored /\ runs'[q] = runs[q]
      BY <1>a, <2>2 DEF Save
    <3>6. \A q \in stored' : runs'[q].state = "enriching" =>
            \/ Owned(q)'
            \/ q \in stored /\ runs[q].state = "enriching" /\ q # r
      BY <3>4, <3>5
    <3>. QED  BY <1>0, <2>2, <3>2, <3>6, OwnersKept
  <2>3. CASE /\ Save(r, requests[a].copy)
             /\ requests[a].copy.state # "enriching"
             /\ Answer(a)
             /\ UNCHANGED stranded
    <3>1. \A q : Owned(q) => Owned(q)'
      BY <1>c, <2>0, <2>3 DEF Answer
    <3>2. runs'[r].state # "enriching"
      BY <1>a, <2>0, <2>3 DEF Save
    <3>3. \A q \in stored' \ {r} : q \in stored /\ runs'[q] = runs[q]
      BY <1>a, <2>3 DEF Save
    <3>. QED  BY <1>0, <2>3, <3>1, <3>2, <3>3, OwnersKept
  <2>. QED  BY <1>5, <2>r, <2>1, <2>2, <2>3 DEF SaveRequest
<1>6. ASSUME NEW a \in Admins, Enqueue(a)
      PROVE  EnrichingIsOwned'
  <2>r. PICK r : r = requests[a].run
    OBVIOUS
  <2>0. UNCHANGED <<stored, runs, stranded>>
    BY <1>6 DEF Enqueue
  <2>1. PICK t \in Tasks :
          /\ tasks[t].status = "free"
          /\ tasks' = [tasks EXCEPT ![t] = [FreeTask EXCEPT !.status = "pending", !.run = r]]
    BY <1>6, <2>r DEF Enqueue
  <2>2. tasks'[t].status = "pending" /\ tasks'[t].run = r
    BY <1>a, <2>1 DEF FreeTask
  <2>3. Owned(r)'
    BY <2>2 DEF Owned
  <2>4. \A q : Owned(q) => Owned(q)' \/ q = r
    <3>1. \A s \in Tasks \ {t} : tasks'[s] = tasks[s]
      BY <1>a, <2>1
    <3>2. \A b \in Admins \ {a} : requests'[b] = requests[b]
      BY <1>6, <1>a DEF Enqueue, Answer
    <3>. QED  BY <2>r, <2>1, <3>1, <3>2 DEF Owned
  <2>. QED  BY <1>0, <2>0, <2>3, <2>4, OwnersKept
<1>7. ASSUME NEW a \in Admins, SaveQueueFailed(a)
      PROVE  EnrichingIsOwned'
  <2>. DEFINE r == requests[a].run
  <2>0. r \in Runs /\ requests[a].copy.state = "failed" /\ UNCHANGED <<tasks, stranded>>
    BY <1>0, <1>7 DEF SaveQueueFailed, IdsDrawn, HandedOver
  <2>1. \A q : Owned(q) => Owned(q)' \/ q = r
    <3>1. \A b \in Admins \ {a} : requests'[b] = requests[b]
      BY <1>7, <1>a DEF SaveQueueFailed, Answer
    <3>. QED  BY <2>0, <3>1 DEF Owned
  <2>2. r \in stored' => runs'[r].state # "enriching"
    BY <1>7, <1>a, <2>0 DEF SaveQueueFailed, Save, Tombstoned
  <2>3. \A q \in stored' \ {r} : q \in stored /\ runs'[q] = runs[q]
    BY <1>7, <1>a DEF SaveQueueFailed, Save
  <2>. QED  BY <1>0, <2>0, <2>1, <2>2, <2>3, OwnersKept
<1>8. ASSUME NEW a \in Admins, EnqueueFails(a)
      PROVE  EnrichingIsOwned'
  <2>1. requests'[a].pc = "save_failed"
    BY <1>8, <1>a DEF EnqueueFails, Request
  <2>2. \A b \in Admins : requests'[b].run = requests[b].run /\ (b # a => requests'[b] = requests[b])
    BY <1>0, <1>8, EnqueueFailsMoves, MovesOn
  <2>3. UNCHANGED <<stored, runs, tasks, stranded>>
    BY <1>8 DEF EnqueueFails
  <2>4. \A q : Owned(q) => Owned(q)'
    BY <2>1, <2>2, <2>3 DEF Owned
  <2>. QED  BY <1>0, <2>3, <2>4, OwnersKept
<1>9. ASSUME NEW a \in Admins, RequestFails(a)
      PROVE  EnrichingIsOwned'
  <2>. DEFINE r == requests[a].run
  <2>1. UNCHANGED <<stored, runs, tasks>> /\ stranded \subseteq stranded'
    BY <1>9 DEF RequestFails
  <2>2. \A q : Owned(q) => Owned(q)' \/ q \in stranded'
    <3>1. CASE requests[a].pc \in {"enqueue", "save_failed"}
      <4>1. r \in stranded'
        BY <1>9, <3>1 DEF RequestFails
      <4>2. \A b \in Admins \ {a} : requests'[b] = requests[b]
        BY <1>9, <1>a DEF RequestFails, Answer
      <4>. QED  BY <2>1, <4>1, <4>2 DEF Owned
    <3>2. CASE requests[a].pc \notin {"enqueue", "save_failed"}
      BY <1>9, <1>c, <2>1, <3>2 DEF RequestFails, Answer
    <3>. QED  BY <3>1, <3>2
  <2>. QED  BY <1>0, <2>1, <2>2, OwnersKept
<1>10. ASSUME NEW t \in Tasks, Load(t)
       PROVE  EnrichingIsOwned'
  <2>. DEFINE r == tasks[t].run
              next == [tasks[t] EXCEPT !.status = "active", !.stage = "fetch_source",
                                       !.copy = [runs[r] EXCEPT !.state = "enriching"]]
  <2>0. UNCHANGED <<stored, runs, requests, stranded>>
    BY <1>10 DEF Load
  <2>1. CASE r \in stored
    <3>1. next.run = r /\ next.status = "active"
      BY <1>a DEF Task
    <3>2. tasks' = [tasks EXCEPT ![t] = next]
      BY <1>10, <2>1 DEF Load
    <3>. HIDE DEF next
    <3>3. \A q : Owned(q) => Owned(q)'
      BY <1>d, <2>0, <3>1, <3>2
    <3>. QED  BY <1>0, <2>0, <3>3, OwnersKept
  <2>2. CASE r \notin stored
    <3>1. tasks' = [tasks EXCEPT ![t] = FreeTask]
      BY <1>10, <2>2 DEF Load
    <3>2. \A q \in stored : Owned(q) => Owned(q)'
      BY <1>d, <2>0, <2>2, <3>1
    <3>. QED  BY <1>0, <2>0, <3>2, OwnersKept
  <2>. QED  BY <2>1, <2>2
<1>11. ASSUME NEW t \in Tasks, NEW stage, NEW next, Crawled(t, stage, next)
       PROVE  EnrichingIsOwned'
  <2>r. PICK r : r = tasks[t].run
    OBVIOUS
  <2>0. /\ tasks[t].status = "active" /\ tasks[t].stage = stage /\ r \in Runs
        /\ UNCHANGED <<requests, stranded>>
    BY <1>0, <1>11, <2>r DEF Crawled, SaveStage, IdsDrawn
  <2>1. CASE Tombstoned(r) /\ tasks' = [tasks EXCEPT ![t] = FreeTask] /\ UNCHANGED <<stored, runs>>
    <3>1. \A q \in stored : Owned(q) => Owned(q)'
      BY <1>a, <1>d, <2>r, <2>0, <2>1 DEF Tombstoned
    <3>. QED  BY <1>0, <2>0, <2>1, <3>1, OwnersKept
  <2>2. CASE Save(r, tasks[t].copy) /\ tasks' = [tasks EXCEPT ![t] = next]
    <3>1. \A q \in stored' \ {r} : q \in stored /\ runs'[q] = runs[q]
      BY <1>a, <2>2 DEF Save
    <3>2. CASE GoesOn(t, next)
      <4>1. \A q : Owned(q) => Owned(q)'
        BY <1>d, <2>r, <2>0, <2>2, <3>2 DEF GoesOn
      <4>2. Owned(r)'
        BY <4>1, <2>r, <2>0 DEF Owned
      <4>. QED  BY <1>0, <2>0, <3>1, <4>1, <4>2, OwnersKept
    <3>3. CASE Ends(t, stage, next)
      <4>1. tasks[t].copy.state # "enriching"
        BY <1>0, <2>r, <2>0, <3>3 DEF Ends, HandedOver
      <4>2. runs'[r].state # "enriching"
        BY <1>a, <2>0, <2>2, <4>1 DEF Save
      <4>3. \A q : q # r /\ Owned(q) => Owned(q)'
        BY <1>d, <2>r, <2>0, <2>2
      <4>. QED  BY <1>0, <2>0, <3>1, <4>2, <4>3, OwnersKept
    <3>. QED  BY <1>11, <3>2, <3>3 DEF Crawled
  <2>. QED  BY <1>11, <2>r, <2>1, <2>2 DEF Crawled, SaveStage
<1>12. ASSUME NEW t \in Tasks, WorkerFails(t)
       PROVE  EnrichingIsOwned'
  <2>0. /\ tasks' = [tasks EXCEPT ![t] = RetryOrGiveUp(t)]
        /\ UNCHANGED <<stored, runs, requests>> /\ stranded \subseteq stranded'
    BY <1>12 DEF WorkerFails
  <2>1. CASE tasks[t].retried < MaxRetry
    <3>1. RetryOrGiveUp(t).run = tasks[t].run /\ RetryOrGiveUp(t).status = "pending"
      BY <2>1 DEF RetryOrGiveUp, Retry, FreeTask
    <3>2. \A q : Owned(q) => Owned(q)'
      BY <1>d, <2>0, <3>1
    <3>. QED  BY <1>0, <2>0, <3>2, OwnersKept
  <2>2. CASE ~(tasks[t].retried < MaxRetry)
    <3>1. tasks[t].run \in stranded'
      BY <1>12, <2>2 DEF WorkerFails
    <3>2. \A q : q # tasks[t].run /\ Owned(q) => Owned(q)'
      BY <1>d, <2>0
    <3>. QED  BY <1>0, <2>0, <3>1, <3>2, OwnersKept
  <2>. QED  BY <2>1, <2>2
<1>13. ASSUME NEW r \in Runs, ExpireTombstone(r)
       PROVE  EnrichingIsOwned'
  BY <1>0, <1>13 DEF ExpireTombstone, EnrichingIsOwned, Owned
<1>. QED  BY <1>1, <1>2, <1>3, <1>4, <1>5, <1>6, <1>7, <1>8, <1>9, <1>10, <1>11,
             <1>12, <1>13, ReceiveForm, CrawlForm
          DEF Next, ServeRequest

LEMMA HandedPreserved ==
  ASSUME IInv, Next
  PROVE  HandedOver'
<1>. USE DEF storeVars, historyVars
<1>0. TypeOK /\ IdsDrawn /\ HandedOver
  BY DEF IInv
<1>a. requests \in [Admins -> Request] /\ tasks \in [Tasks -> Task]
  BY <1>0 DEF TypeOK
<1>b. /\ Idle.pc = "idle" /\ FreeTask.stage = "queued"
      /\ \A t \in Tasks : Retry(t).stage = "queued"
  BY DEF Idle, FreeTask, Retry
<1>. DEFINE Failing(b) == requests[b].pc = "save_failed" => requests[b].copy.state = "failed"
            Ending(s)  == /\ tasks[s].stage = "fetch_failed" => tasks[s].copy.state = "failed"
                          /\ tasks[s].stage = "ready_for_review" =>
                               tasks[s].copy.state = "needs_review"
<1>1. \A b \in Admins : Failing(b)'
  <2>0. \A b \in Admins : Failing(b)
    BY <1>0 DEF HandedOver
  <2>1. ASSUME NEW a \in Admins,
               \/ requests' = [requests EXCEPT ![a] = Idle]
               \/ \E pc : pc # "save_failed" /\ Goto(a, pc)
        PROVE  \A b \in Admins : Failing(b)'
    <3>1. requests'[a].pc # "save_failed" /\ \A b \in Admins \ {a} : requests'[b] = requests[b]
      BY <1>a, <1>b, <2>1 DEF Goto, Request
    <3>. QED  BY <2>0, <3>1
  <2>2. ASSUME NEW a \in Admins, NEW op, NEW r, NEW pc, NEW copy,
               Received(a, op, r, pc, copy)
        PROVE  \A b \in Admins : Failing(b)'
    <3>1. requests'[a].pc # "save_failed" /\ \A b \in Admins \ {a} : requests'[b] = requests[b]
      BY <1>a, <2>2 DEF Received, Receive
    <3>. QED  BY <2>0, <3>1
  <2>3. ASSUME NEW a \in Admins, FindByURL(a)
        PROVE  \A b \in Admins : Failing(b)'
    <3>1. CASE Answer(a)
      BY <2>1, <3>1 DEF Answer
    <3>2. CASE requests' = [requests EXCEPT ![a].run = lastRun + 1, ![a].pc = "save"]
      <4>1. requests'[a].pc # "save_failed" /\ \A b \in Admins \ {a} : requests'[b] = requests[b]
        BY <1>a, <3>2 DEF Request
      <4>. QED  BY <2>0, <4>1
    <3>. QED  BY <2>3, <3>1, <3>2 DEF FindByURL
  <2>4. ASSUME NEW a \in Admins,
               \/ CheckAnother(a) \/ RemoveEntry(a)  \/ DeleteRun(a) \/ PublishEntry(a)
               \/ SaveRequest(a)  \/ Enqueue(a)      \/ SaveQueueFailed(a)
               \/ RequestFails(a) \/ ListFails(a)
        PROVE  \A b \in Admins : Failing(b)'
    BY <2>1, <2>4 DEF CheckAnother, RemoveEntry, DeleteRun, PublishEntry, SaveRequest, Enqueue,
                      SaveQueueFailed, RequestFails, ListFails, AfterUnpublish, Answer
  <2>5. ASSUME NEW a \in Admins, EnqueueFails(a)
        PROVE  \A b \in Admins : Failing(b)'
    <3>1. requests'[a].copy.state = "failed" /\ \A b \in Admins \ {a} : requests'[b] = requests[b]
      BY <1>a, <2>5 DEF EnqueueFails, Request, Run, Failed
    <3>. QED  BY <2>0, <3>1
  <2>6. CASE UNCHANGED requests
    BY <2>0, <2>6
  <2>7. ASSUME NEW t \in Tasks, HandleTask(t) \/ WorkerFails(t)
        PROVE  UNCHANGED requests
    <3>1. Load(t) => UNCHANGED requests
      BY DEF Load
    <3>2. \A stage, next : Crawled(t, stage, next) => UNCHANGED requests
      BY DEF Crawled, SaveStage
    <3>3. WorkerFails(t) => UNCHANGED requests
      BY DEF WorkerFails
    <3>. QED  BY <2>7, <3>1, <3>2, <3>3, CrawlForm
  <2>8. ASSUME NEW r \in Runs, ExpireTombstone(r)
        PROVE  UNCHANGED requests
    BY <2>8 DEF ExpireTombstone
  <2>. HIDE DEF Failing
  <2>. QED  BY <2>2, <2>3, <2>4, <2>5, <2>6, <2>7, <2>8, ReceiveForm DEF Next, ServeRequest
<1>2. \A s \in Tasks : Ending(s)'
  <2>0. \A s \in Tasks : Ending(s)
    BY <1>0 DEF HandedOver
  <2>1. ASSUME NEW t \in Tasks, NEW next, tasks' = [tasks EXCEPT ![t] = next],
               next.stage \notin {"fetch_failed", "ready_for_review"}
        PROVE  \A s \in Tasks : Ending(s)'
    BY <1>a, <2>0, <2>1
  <2>2. ASSUME NEW t \in Tasks, Load(t)
        PROVE  \A s \in Tasks : Ending(s)'
    <3>. DEFINE next == [tasks[t] EXCEPT !.status = "active", !.stage = "fetch_source",
                           !.copy = [runs[tasks[t].run] EXCEPT !.state = "enriching"]]
    <3>1. next.stage = "fetch_source"
      BY <1>a DEF Task
    <3>2. tasks' = [tasks EXCEPT ![t] = next] \/ tasks' = [tasks EXCEPT ![t] = FreeTask]
      BY <2>2 DEF Load
    <3>. HIDE DEF next
    <3>. QED  BY <1>b, <2>1, <3>1, <3>2
  <2>3. ASSUME NEW t \in Tasks, NEW stage, NEW next, Crawled(t, stage, next)
        PROVE  \A s \in Tasks : Ending(s)'
    <3>1. tasks' = [tasks EXCEPT ![t] = next] \/ tasks' = [tasks EXCEPT ![t] = FreeTask]
      BY <2>3 DEF Crawled, SaveStage
    <3>2. /\ next.stage = "fetch_failed" => next.copy.state = "failed"
          /\ next.stage = "ready_for_review" => next.copy.state = "needs_review"
      BY <2>3, <1>b DEF Crawled, GoesOn, Ends
    <3>. QED  BY <1>a, <1>b, <2>0, <2>1, <3>1, <3>2
  <2>4. ASSUME NEW t \in Tasks, WorkerFails(t)
        PROVE  \A s \in Tasks : Ending(s)'
    <3>1. RetryOrGiveUp(t).stage = "queued"
      BY <1>b DEF RetryOrGiveUp
    <3>. QED  BY <2>1, <2>4, <3>1 DEF WorkerFails
  <2>5. ASSUME NEW a \in Admins, Enqueue(a)
        PROVE  \A s \in Tasks : Ending(s)'
    <3>1. [FreeTask EXCEPT !.status = "pending", !.run = requests[a].run].stage = "queued"
      BY DEF FreeTask
    <3>. QED  BY <2>1, <2>5, <3>1 DEF Enqueue
  <2>6. CASE UNCHANGED tasks
    BY <2>0, <2>6
  <2>7. ASSUME NEW a \in Admins,
               \/ ReceiveRequest(a) \/ FindByURL(a)    \/ CheckAnother(a) \/ RemoveEntry(a)
               \/ DeleteRun(a)      \/ PublishEntry(a) \/ SaveRequest(a)
               \/ SaveQueueFailed(a) \/ RequestFails(a) \/ ListFails(a) \/ EnqueueFails(a)
        PROVE  UNCHANGED tasks
    <3>1. ReceiveRequest(a) => UNCHANGED tasks
      BY ReceiveForm DEF Received, Receive
    <3>. QED  BY <2>7, <3>1 DEF FindByURL, CheckAnother, RemoveEntry, DeleteRun, PublishEntry,
                 SaveRequest, SaveQueueFailed, RequestFails, ListFails, EnqueueFails
  <2>8. ASSUME NEW r \in Runs, ExpireTombstone(r)
        PROVE  UNCHANGED tasks
    BY <2>8 DEF ExpireTombstone
  <2>. HIDE DEF Ending
  <2>. QED  BY <2>2, <2>3, <2>4, <2>5, <2>6, <2>7, <2>8, CrawlForm DEF Next, ServeRequest
<1>. QED  BY <1>1, <1>2, OwnedPreserved DEF HandedOver

-----------------------------------------------------------------------------
(***************************************************************************)
(* The theorems.                                                           *)
(***************************************************************************)
LEMMA InitIInv ==
  ASSUME Init
  PROVE  IInv
<1>1. TypeOK
  BY BlankRunType, FreeTaskType, IdleType, ConstantTypes DEF Init, TypeOK
<1>2. IdsDrawn
  BY ConstantTypes DEF Init, IdsDrawn, Idle, FreeTask
<1>3. Buried
  BY DEF Init, Buried, DeletedStaysDeleted
<1>4. CopiesPublishable
  BY DEF Init, CopiesPublishable, Publishable, Idle, FreeTask, BlankRun, NewRun
<1>5. HandedOver
  BY DEF Init, HandedOver, EnrichingIsOwned, Idle, FreeTask
<1>. QED  BY <1>1, <1>2, <1>3, <1>4, <1>5 DEF IInv

LEMMA StutterIInv ==
  ASSUME IInv, UNCHANGED vars
  PROVE  IInv'
<1>. USE DEF vars, storeVars, historyVars
<1>1. TypeOK'
  BY DEF IInv, TypeOK
<1>2. IdsDrawn'
  BY DEF IInv, IdsDrawn
<1>3. Buried'
  BY DEF IInv, Buried, DeletedStaysDeleted
<1>4. CopiesPublishable'
  BY DEF IInv, CopiesPublishable
<1>5. HandedOver'
  BY DEF IInv, HandedOver, EnrichingIsOwned, Owned
<1>. QED  BY <1>1, <1>2, <1>3, <1>4, <1>5 DEF IInv

LEMMA StepIInv ==
  ASSUME IInv, [Next]_vars
  PROVE  IInv'
<1>1. CASE Next
  BY <1>1, TypePreserved, IdsPreserved, BuriedPreserved, CopiesPreserved, HandedPreserved DEF IInv
<1>2. CASE UNCHANGED vars
  BY <1>2, StutterIInv
<1>. QED  BY <1>1, <1>2

\* The inductive invariant holds in every state of every behaviour.
THEOREM Inductive == Spec => []IInv
<1>1. Init => IInv
  BY InitIInv
<1>2. IInv /\ [Next]_vars => IInv'
  BY StepIInv
<1>. QED  BY <1>1, <1>2, PTL DEF Spec

\* Every state of the ingestion system is of its type (model.go Run, worker.go
\* stages, the request handlers' progress).
THEOREM TypeCorrect == Spec => []TypeOK
<1>1. IInv => TypeOK
  BY DEF IInv
<1>. QED  BY <1>1, Inductive, PTL

\* However many administrators and workers still hold a copy, a deleted run never
\* reappears in the store (the tombstone in Save and Delete, store.go).
THEOREM DeletionIsFinal == Spec => []DeletedStaysDeleted
<1>1. IInv => DeletedStaysDeleted
  BY DEF IInv, Buried
<1>. QED  BY <1>1, Inductive, PTL

\* However stale the copy that was written last, a run stored as published passed
\* the publishing checks (Service.Update, publicationData, Handle's own states).
THEOREM PublishedRunsArePublishable == Spec => []PublishedIsPublishable
<1>1. IInv => PublishedIsPublishable
  <2>1. ASSUME IInv, NEW r \in stored, runs[r].state = "published"
        PROVE  runs[r].place # NoPlace /\ runs[r].evidence = "complete" /\ runs[r].issue = "none"
    BY <2>1 DEF IInv, TypeOK, CopiesPublishable, Publishable
  <2>. QED  BY <2>1 DEF PublishedIsPublishable
<1>. QED  BY <1>1, Inductive, PTL

\* An enriching run always has an owner, unless a failure abandoned its crawl
\* (Save and Enqueue in Create and Update, Handle's saves, Asynq's retries).
THEOREM EnrichingRunsAreOwned == Spec => []EnrichingIsOwned
<1>1. IInv => EnrichingIsOwned
  BY DEF IInv, HandedOver
<1>. QED  BY <1>1, Inductive, PTL

-----------------------------------------------------------------------------
(***************************************************************************)
(* Entries.  What each request and each crawl knows of the record it works *)
(* on, however many of them overlap.                                       *)
(***************************************************************************)

\* A request that is at work on a record that was stored when it read it.
AtWork(a) == requests[a].pc \notin {"idle", "find"} /\ ~Creating(a)

KnownRequest(a) ==
    /\ requests[a].pc = "find" =>
         requests[a].op = "create" /\ requests[a].copy.state = "enriching"
    /\ requests[a].pc \in {"check", "remove"} =>
         /\ requests[a].op \in {"archive", "delete"}
         /\ requests[a].op = "archive" => requests[a].copy.state # "published"
    /\ requests[a].pc = "publish" => requests[a].op = "publish"
    /\ requests[a].pc = "delete" => requests[a].op = "delete"
    /\ requests[a].pc = "save" /\ requests[a].copy.state = "published" =>
         requests[a].op = "publish"
    /\ AtWork(a) => requests[a].run \in stored \cup deleted
    /\ Creating(a) => requests[a].run \notin stored \cup deleted

Known ==
    /\ \A a \in Admins : KnownRequest(a)
    /\ \A a, b \in Admins : a # b /\ Creating(a) /\ Creating(b) => requests[a].run # requests[b].run
    /\ \A t \in Tasks : tasks[t].status = "active" => tasks[t].run \in stored \cup deleted

(***************************************************************************)
(* The requests that read a record, and the two that create one.           *)
(***************************************************************************)
ReadsRun(op, r, pc, copy) ==
    /\ r \in stored /\ op \notin {"create", "create_forced"}
    /\ copy.url = runs[r].url /\ copy.place = runs[r].place
    /\ pc \in {"check", "delete", "publish", "save"}
    /\ pc = "check" => op \in {"archive", "delete"} /\ copy.place # NoPlace
    /\ pc = "delete" => op = "delete" /\ copy.place = NoPlace
    /\ pc = "publish" => op = "publish" /\ copy.place # NoPlace
    /\ pc = "save" => op # "delete"
    /\ pc = "save" \/ op = "archive" => copy.state # "published"

ReceivedAs(a, op, r, pc, copy) ==
    /\ Receive(a, op, r, pc, copy)
    /\ \/ /\ op = "create" /\ pc = "find" /\ copy.state = "enriching"
          /\ UNCHANGED <<lastRun, forced>>
       \/ /\ op = "create_forced" /\ pc = "save" /\ copy.state = "enriching"
          /\ r = lastRun + 1 /\ lastRun' = lastRun + 1 /\ forced' = forced \cup {r}
       \/ /\ ReadsRun(op, r, pc, copy)
          /\ UNCHANGED <<lastRun, forced>>

LEMMA ReadsForm ==
  ASSUME NEW a \in Admins, NEW op, NEW r, NEW pc, NEW copy,
         ReceiveRead(a, op, r, pc, copy), ReadsRun(op, r, pc, copy)
  PROVE  ReceivedAs(a, op, r, pc, copy)
  BY DEF ReceiveRead, ReceivedAs

LEMMA ReceiveKinds ==
  ASSUME IInv, NEW a \in Admins, ReceiveRequest(a)
  PROVE  \E op, r, pc, copy : ReceivedAs(a, op, r, pc, copy)
<1>1. ASSUME NEW u \in Urls, ReceiveCreate(a, u)
      PROVE  ReceivedAs(a, "create", Nobody, "find", NewRun(u))
  BY <1>1 DEF ReceiveCreate, ReceivedAs, NewRun
<1>2. ASSUME NEW u \in Urls, ReceiveForcedCreate(a, u)
      PROVE  ReceivedAs(a, "create_forced", lastRun + 1, "save", NewRun(u))
  BY <1>2 DEF ReceiveForcedCreate, ReceivedAs, NewRun
<1>3. ASSUME NEW r \in Runs,
             \/ ReceiveDelete(a, r)  \/ ReceiveArchive(a, r)
             \/ ReceiveReview(a, r)  \/ ReceivePublish(a, r)
             \/ ReceiveRefresh(a, r) \/ ReceiveEdit(a, r)
             \/ ReceiveRemoveManual(a, r)
      PROVE  \E op, pc, copy : ReceivedAs(a, op, r, pc, copy)
  <2>1. runs[r] \in Run
    BY DEF IInv, TypeOK
  <2>2. CASE ReceiveDelete(a, r)
    <3>. DEFINE pc == IF runs[r].place = NoPlace THEN "delete" ELSE "check"
    <3>1. ReceiveRead(a, "delete", r, pc, runs[r]) /\ r \in stored
      BY <2>2 DEF ReceiveDelete, ReceiveRead
    <3>2. ReadsRun("delete", r, pc, runs[r])
      BY <3>1 DEF ReadsRun
    <3>. QED  BY <3>1, <3>2, ReadsForm
  <2>3. CASE ReceiveArchive(a, r)
    <3>. DEFINE pc == IF runs[r].place = NoPlace THEN "save" ELSE "check"
                copy == [runs[r] EXCEPT !.state = "archived"]
    <3>1. ReceiveRead(a, "archive", r, pc, copy) /\ r \in stored
      BY <2>3 DEF ReceiveArchive, ReceiveRead
    <3>2. ReadsRun("archive", r, pc, copy)
      BY <2>1, <3>1 DEF ReadsRun, Run
    <3>. QED  BY <3>1, <3>2, ReadsForm
  <2>4. CASE ReceiveReview(a, r)
    <3>. DEFINE copy == [runs[r] EXCEPT !.state = "needs_review"]
    <3>1. ReceiveRead(a, "review", r, "save", copy) /\ r \in stored
      BY <2>4 DEF ReceiveReview, ReceiveRead
    <3>2. ReadsRun("review", r, "save", copy)
      BY <2>1, <3>1 DEF ReadsRun, Run
    <3>. QED  BY <3>1, <3>2, ReadsForm
  <2>5. CASE ReceivePublish(a, r)
    <3>. DEFINE copy == [runs[r] EXCEPT !.state = "published"]
    <3>1. ReceiveRead(a, "publish", r, "publish", copy) /\ r \in stored /\ runs[r].place # NoPlace
      BY <2>5 DEF ReceivePublish, ReceiveRead, PublicationData
    <3>2. ReadsRun("publish", r, "publish", copy)
      BY <2>1, <3>1 DEF ReadsRun, Run
    <3>. QED  BY <3>1, <3>2, ReadsForm
  <2>6. CASE ReceiveRefresh(a, r)
    <3>. DEFINE copy == [runs[r] EXCEPT !.state = "enriching", !.issue = "none"]
    <3>1. ReceiveRead(a, "refresh", r, "save", copy) /\ r \in stored
      BY <2>6 DEF ReceiveRefresh, ReceiveRead
    <3>2. ReadsRun("refresh", r, "save", copy)
      BY <2>1, <3>1 DEF ReadsRun, Run
    <3>. QED  BY <3>1, <3>2, ReadsForm
  <2>7. CASE ReceiveEdit(a, r)
    <3>1. PICK e \in Evidence, m \in {TRUE, runs[r].manual},
               i \in IF runs[r].issue = "unnamed" THEN {"unnamed", "none"}
                                                  ELSE {runs[r].issue} :
            ReceiveRead(a, "edit", r, "save",
                        [runs[r] EXCEPT !.state = "needs_review", !.evidence = e,
                                        !.manual = m, !.issue = i])
      BY <2>7 DEF ReceiveEdit
    <3>. DEFINE copy == [runs[r] EXCEPT !.state = "needs_review", !.evidence = e,
                                        !.manual = m, !.issue = i]
    <3>2. ReadsRun("edit", r, "save", copy)
      BY <2>1, <3>1 DEF ReadsRun, ReceiveRead, Run
    <3>. QED  BY <3>1, <3>2, ReadsForm
  <2>8. CASE ReceiveRemoveManual(a, r)
    <3>1. PICK e \in Evidence, m \in BOOLEAN :
            ReceiveRead(a, "remove_manual", r, "save",
                        [runs[r] EXCEPT !.state = "needs_review", !.evidence = e,
                                        !.manual = m])
      BY <2>8 DEF ReceiveRemoveManual
    <3>. DEFINE copy == [runs[r] EXCEPT !.state = "needs_review", !.evidence = e,
                                        !.manual = m]
    <3>2. ReadsRun("remove_manual", r, "save", copy)
      BY <2>1, <3>1 DEF ReadsRun, ReceiveRead, Run
    <3>. QED  BY <3>1, <3>2, ReadsForm
  <2>. QED  BY <1>3, <2>2, <2>3, <2>4, <2>5, <2>6, <2>7, <2>8
<1>. QED  BY <1>1, <1>2, <1>3 DEF ReceiveRequest

(***************************************************************************)

(***************************************************************************)
(* What the steps of a request and of a crawl do to the store.             *)
(***************************************************************************)

\* A request that moves on or is answered leaves the others alone.
LEMMA Acting ==
  ASSUME TypeOK, NEW a \in Admins
  PROVE  /\ Answer(a) => /\ requests'[a].pc = "idle"
                         /\ \A b \in Admins \ {a} : requests'[b] = requests[b]
         /\ \A pc : Goto(a, pc) => /\ requests'[a].pc = pc
                                   /\ requests'[a].op = requests[a].op
                                   /\ requests'[a].run = requests[a].run
                                   /\ requests'[a].copy = requests[a].copy
                                   /\ \A b \in Admins \ {a} : requests'[b] = requests[b]
<1>1. Idle.pc = "idle"
  BY DEF Idle
<1>2. requests \in [Admins -> Request]
  BY DEF TypeOK
<1>3. Answer(a) => /\ requests'[a].pc = "idle"
                   /\ \A b \in Admins \ {a} : requests'[b] = requests[b]
  BY <1>1, <1>2 DEF Answer
<1>4. ASSUME NEW pc, Goto(a, pc)
      PROVE  /\ requests'[a].pc = pc
             /\ requests'[a].op = requests[a].op
             /\ requests'[a].run = requests[a].run
             /\ requests'[a].copy = requests[a].copy
             /\ \A b \in Admins \ {a} : requests'[b] = requests[b]
  BY <1>2, <1>4 DEF Goto, Request
<1>. QED  BY <1>3, <1>4

\* A request that reads the store takes the place of an idle one.
LEMMA Reading ==
  ASSUME TypeOK, NEW a \in Admins, NEW op, NEW r, NEW pc, NEW copy,
         Receive(a, op, r, pc, copy)
  PROVE  /\ requests'[a].op = op /\ requests'[a].run = r
         /\ requests'[a].pc = pc /\ requests'[a].copy = copy
         /\ \A b \in Admins \ {a} : requests'[b] = requests[b]
         /\ requests[a].pc = "idle"
         /\ UNCHANGED <<stored, runs, tombstones, tasks, catalogue, faults, deleted>>
<1>1. requests \in [Admins -> Request]
  BY DEF TypeOK
<1>. QED  BY <1>1 DEF Receive

\* A request whose enqueueing fails keeps what it knows of its record.
LEMMA EnqueueingFails ==
  ASSUME TypeOK, NEW a \in Admins, EnqueueFails(a)
  PROVE  /\ requests[a].pc = "enqueue" /\ requests'[a].pc = "save_failed"
         /\ requests'[a].op = requests[a].op /\ requests'[a].run = requests[a].run
         /\ requests'[a].copy.url = requests[a].copy.url
         /\ requests'[a].copy.place = requests[a].copy.place
         /\ \A b \in Admins \ {a} : requests'[b] = requests[b]
         /\ UNCHANGED <<stored, runs, lastRun, tasks, catalogue, deleted, forced>>
<1>1. requests \in [Admins -> Request]
  BY DEF TypeOK
<1>. QED  BY <1>1 DEF EnqueueFails, Request, Failed, Run, storeVars, historyVars

\* A task that is queued is not yet active.
LEMMA Queueing ==
  ASSUME TypeOK, NEW a \in Admins, Enqueue(a)
  PROVE  \A t \in Tasks : tasks'[t] = tasks[t] \/ tasks'[t].status # "active"
<1>1. PICK t \in Tasks : tasks' = [tasks EXCEPT ![t] =
             [FreeTask EXCEPT !.status = "pending", !.run = requests[a].run]]
  BY DEF Enqueue
<1>2. [FreeTask EXCEPT !.status = "pending", !.run = requests[a].run].status = "pending"
  BY DEF FreeTask
<1>. QED  BY <1>1, <1>2 DEF TypeOK

\* What a save does: nothing when the record has a tombstone; otherwise it writes
\* a record that is stored, or the one that its request creates.
Refused(a) ==
    /\ Answer(a)
    /\ requests[a].run \notin stored
    /\ UNCHANGED <<stored, runs>>

Written(a) ==
    /\ Answer(a) \/ Goto(a, "enqueue")
    /\ Creating(a) \/ requests[a].run \in stored
    /\ requests[a].run \in Runs
    /\ stored' = stored \cup {requests[a].run}
    /\ runs' = [runs EXCEPT ![requests[a].run] = requests[a].copy]
    /\ requests[a].pc = "save" \/ requests[a].copy.state = "failed"

LEMMA Saving ==
  ASSUME IInv, Known, NEW a \in Admins, SaveRequest(a) \/ SaveQueueFailed(a)
  PROVE  /\ UNCHANGED <<lastRun, tombstones, tasks, catalogue, deleted, forced>>
         /\ Creating(a) \/ AtWork(a)
         /\ Refused(a) \/ Written(a)
<1>. DEFINE r == requests[a].run
<1>1. UNCHANGED <<lastRun, tombstones, tasks, catalogue, deleted, forced>>
  BY DEF SaveRequest, SaveQueueFailed, historyVars
<1>2. requests[a].pc \in {"save", "save_failed"} /\ (Creating(a) \/ AtWork(a))
  BY DEF SaveRequest, SaveQueueFailed, AtWork
<1>3. r \in Runs
  BY <1>2 DEF IInv, IdsDrawn
<1>4. requests[a].pc = "save" \/ requests[a].copy.state = "failed"
  BY <1>2 DEF IInv, HandedOver
<1>5. CASE Tombstoned(r)
  <2>1. Answer(a) /\ UNCHANGED <<stored, runs>>
    BY <1>5 DEF SaveRequest, SaveQueueFailed
  <2>2. r \notin stored
    BY <1>5 DEF IInv, IdsDrawn, Buried, DeletedStaysDeleted, Tombstoned
  <2>. QED  BY <1>1, <1>2, <2>1, <2>2 DEF Refused
<1>6. CASE ~Tombstoned(r)
  <2>1. Save(r, requests[a].copy) /\ (Answer(a) \/ Goto(a, "enqueue"))
    BY <1>6 DEF SaveRequest, SaveQueueFailed
  <2>2. Creating(a) \/ r \in stored
    BY <1>2, <1>6 DEF Known, KnownRequest, IInv, Buried, Tombstoned
  <2>. QED  BY <1>1, <1>2, <1>3, <1>4, <2>1, <2>2 DEF Written, Save
<1>. QED  BY <1>5, <1>6

\* What a deletion does: nothing when the record is gone.
Deleted(a) ==
    /\ requests[a].run \in stored
    /\ stored' = stored \ {requests[a].run}
    /\ deleted' = deleted \cup {requests[a].run}
    /\ \A q \in Runs \ {requests[a].run} : runs'[q] = runs[q]

LEMMA Deleting ==
  ASSUME TypeOK, NEW a \in Admins, DeleteRun(a)
  PROVE  /\ Answer(a) /\ requests[a].pc = "delete"
         /\ UNCHANGED <<lastRun, tasks, catalogue, forced>>
         /\ Deleted(a) \/ (requests[a].run \notin stored /\ UNCHANGED <<stored, runs, deleted>>)
<1>1. runs \in [Runs -> Run]
  BY DEF TypeOK
<1>. QED  BY <1>1 DEF DeleteRun, Deleted

\* A crawl writes only to a record that is stored.
LEMMA CrawlWrites ==
  ASSUME IInv, Known, NEW t \in Tasks, NEW stage, NEW next, Crawled(t, stage, next)
  PROVE  LET r == tasks[t].run IN
         /\ UNCHANGED <<stored, lastRun, tombstones, requests, catalogue, deleted, forced>>
         /\ \A s \in Tasks \ {t} : tasks'[s] = tasks[s]
         /\ \/ tasks'[t].status # "active" /\ UNCHANGED runs
            \/ /\ r \in stored /\ runs' = [runs EXCEPT ![r] = tasks[t].copy]
               /\ tasks[t].status = "active"
               /\ tasks[t].copy.state # "published"
               /\ tasks'[t].status = "active" => /\ tasks'[t].run = r
                                                 /\ tasks'[t].copy.url = tasks[t].copy.url
<1>. DEFINE r == tasks[t].run
<1>1. /\ tasks[t].status = "active" /\ tasks \in [Tasks -> Task] /\ r \in Runs
      /\ UNCHANGED <<lastRun, tombstones, requests, catalogue, deleted, forced>>
  BY DEF Crawled, SaveStage, IInv, TypeOK, IdsDrawn, historyVars
<1>2. r \in stored \cup deleted
  BY <1>1 DEF Known
<1>3. CASE Tombstoned(r)
  <2>1. tasks' = [tasks EXCEPT ![t] = FreeTask] /\ UNCHANGED <<stored, runs>>
    BY <1>3 DEF Crawled, SaveStage
  <2>2. FreeTask.status # "active"
    BY DEF FreeTask
  <2>. QED  BY <1>1, <2>1, <2>2
<1>4. CASE ~Tombstoned(r)
  <2>1. Save(r, tasks[t].copy) /\ tasks' = [tasks EXCEPT ![t] = next]
    BY <1>4 DEF Crawled, SaveStage
  <2>2. r \in stored
    BY <1>1, <1>2, <1>4 DEF IInv, Buried, Tombstoned
  <2>3. UNCHANGED stored /\ runs' = [runs EXCEPT ![r] = tasks[t].copy]
    BY <2>1, <2>2 DEF Save
  <2>4. Retry(t).status # "active" /\ FreeTask.status # "active"
    BY DEF Retry, FreeTask
  <2>5. next.status = "active" => next.run = r /\ next.copy.url = tasks[t].copy.url
    BY <2>4 DEF Crawled, GoesOn, Ends
  <2>6. tasks[t].copy.state # "published"
    BY DEF IInv, CopiesPublishable
  <2>. QED  BY <1>1, <2>1, <2>2, <2>3, <2>5, <2>6
<1>. QED  BY <1>3, <1>4

\* A task starts from the record as it is stored.
LEMMA LoadReads ==
  ASSUME IInv, NEW t \in Tasks, Load(t)
  PROVE  LET r == tasks[t].run IN
         /\ UNCHANGED <<stored, runs, lastRun, tombstones, requests, catalogue, deleted, forced>>
         /\ \A s \in Tasks \ {t} : tasks'[s] = tasks[s]
         /\ tasks'[t].status = "active" =>
              /\ r \in stored /\ tasks'[t].run = r
              /\ tasks'[t].copy.url = runs[r].url /\ tasks'[t].copy.place = runs[r].place
<1>. DEFINE r == tasks[t].run
            copy == [runs[r] EXCEPT !.state = "enriching"]
            task == [tasks[t] EXCEPT !.status = "active", !.stage = "fetch_source", !.copy = copy]
<1>1. /\ UNCHANGED <<stored, runs, lastRun, tombstones, requests, catalogue, deleted, forced>>
      /\ tasks' = [tasks EXCEPT ![t] = IF r \in stored THEN task ELSE FreeTask]
      /\ tasks \in [Tasks -> Task] /\ stored \subseteq Runs /\ runs \in [Runs -> Run]
  BY DEF Load, IInv, TypeOK, storeVars, historyVars
<1>2. FreeTask.status # "active"
  BY DEF FreeTask
<1>3. task.run = r /\ task.copy = copy
  BY <1>1 DEF Task
<1>4. r \in stored => copy.url = runs[r].url /\ copy.place = runs[r].place
  BY <1>1 DEF Run
<1>. HIDE DEF task, copy
<1>. QED  BY <1>1, <1>2, <1>3, <1>4

\* The steps that leave records and entries alone.
LEMMA IdleSteps ==
  ASSUME IInv, \/ \E t \in Tasks : WorkerFails(t)
               \/ \E r \in Runs : ExpireTombstone(r)
               \/ UNCHANGED vars
  PROVE  /\ UNCHANGED <<stored, runs, lastRun, requests, catalogue, deleted, forced>>
         /\ \A t \in Tasks : tasks'[t] = tasks[t] \/ tasks'[t].status # "active"
<1>. USE DEF vars, storeVars, historyVars
<1>1. ASSUME NEW t \in Tasks, WorkerFails(t)
      PROVE  \A s \in Tasks : tasks'[s] = tasks[s] \/ tasks'[s].status # "active"
  <2>1. tasks' = [tasks EXCEPT ![t] = RetryOrGiveUp(t)] /\ tasks \in [Tasks -> Task]
    BY <1>1 DEF WorkerFails, IInv, TypeOK
  <2>2. RetryOrGiveUp(t).status # "active"
    BY DEF RetryOrGiveUp, Retry, FreeTask
  <2>. QED  BY <2>1, <2>2
<1>2. UNCHANGED <<stored, runs, lastRun, requests, catalogue, deleted, forced>>
  BY DEF WorkerFails, ExpireTombstone
<1>. QED  BY <1>1, <1>2 DEF ExpireTombstone

(***************************************************************************)
(* What they know stays true.                                              *)
(***************************************************************************)

\* Nobody else's knowledge is lost when no id is forgotten, and none is stored
\* but the one of the request that moves.
LEMMA OthersKnow ==
  ASSUME Known, NEW a \in Admins,
         \A b \in Admins \ {a} : requests'[b] = requests[b],
         stored \cup deleted \subseteq stored' \cup deleted',
         \/ stored' \cup deleted' \subseteq stored \cup deleted
         \/ /\ Creating(a)
            /\ stored' \cup deleted' \subseteq stored \cup deleted \cup {requests[a].run},
         KnownRequest(a)',
         \/ ~Creating(a)'
         \/ \A b \in Admins \ {a} : Creating(b) => requests[b].run # requests'[a].run,
         \A t \in Tasks : tasks'[t].status = "active" =>
            tasks'[t].run \in stored' \cup deleted' \/ tasks'[t] = tasks[t]
  PROVE  Known'
<1>1. \A b \in Admins \ {a} : Creating(b)' = Creating(b) /\ AtWork(b)' = AtWork(b)
  BY DEF Creating, AtWork
<1>2. ASSUME NEW b \in Admins \ {a} PROVE KnownRequest(b)'
  <2>1. Creating(b) => requests[b].run \notin stored' \cup deleted'
    BY DEF Known, KnownRequest
  <2>. QED  BY <1>1, <2>1 DEF Known, KnownRequest
<1>3. \A b, c \in Admins : b # c /\ Creating(b)' /\ Creating(c)' => requests'[b].run # requests'[c].run
  BY <1>1 DEF Known
<1>4. \A t \in Tasks : tasks'[t].status = "active" => tasks'[t].run \in stored' \cup deleted'
  BY DEF Known
<1>. QED  BY <1>2, <1>3, <1>4 DEF Known

LEMMA KnownStep ==
  ASSUME IInv, Known, [Next]_vars
  PROVE  Known'
<1>. USE DEF storeVars, historyVars
<1>0. TypeOK /\ lastRun \in Nat /\ stored \cup deleted \subseteq 1..lastRun
  BY DEF IInv, TypeOK, IdsDrawn
<1>a. /\ lastRun + 1 \notin stored \cup deleted
      /\ \A b \in Admins : requests[b].run # lastRun + 1
  <2>1. \A b \in Admins : requests[b].run <= lastRun /\ requests[b].run \in Int
    BY DEF IInv, TypeOK, IdsDrawn, Request
  <2>. QED  BY <1>0, <2>1
<1>1. ASSUME NEW a \in Admins, NEW op, NEW r, NEW pc, NEW copy, ReceivedAs(a, op, r, pc, copy)
      PROVE  Known'
  <2>1. /\ requests'[a].op = op /\ requests'[a].run = r
        /\ requests'[a].pc = pc /\ requests'[a].copy = copy
        /\ \A b \in Admins \ {a} : requests'[b] = requests[b]
        /\ UNCHANGED <<stored, tasks, deleted>>
    BY <1>0, <1>1, Reading DEF ReceivedAs
  <2>2. KnownRequest(a)'
    BY <1>1, <1>a, <2>1 DEF ReceivedAs, ReadsRun, KnownRequest, Creating, AtWork
  <2>3. Creating(a)' => r = lastRun + 1
    BY <1>1, <2>1 DEF ReceivedAs, ReadsRun, Creating
  <2>. QED  BY <1>a, <2>1, <2>2, <2>3, OthersKnow
<1>2. ASSUME NEW a \in Admins, FindByURL(a) PROVE Known'
  <2>1. UNCHANGED <<stored, tasks, deleted>> /\ requests[a].pc = "find"
    BY <1>2 DEF FindByURL
  <2>2. CASE Answer(a)
    <3>1. requests'[a].pc = "idle" /\ \A b \in Admins \ {a} : requests'[b] = requests[b]
      BY <1>0, <2>2, Acting
    <3>2. KnownRequest(a)' /\ ~Creating(a)'
      BY <3>1 DEF KnownRequest, Creating, AtWork
    <3>. QED  BY <2>1, <3>1, <3>2, OthersKnow
  <2>3. CASE requests' = [requests EXCEPT ![a].run = lastRun + 1, ![a].pc = "save"]
    <3>1. /\ requests'[a].op = requests[a].op /\ requests'[a].run = lastRun + 1
          /\ requests'[a].pc = "save" /\ requests'[a].copy = requests[a].copy
          /\ \A b \in Admins \ {a} : requests'[b] = requests[b]
      BY <1>0, <2>3 DEF TypeOK, Request
    <3>2. requests[a].op = "create" /\ requests[a].copy.state = "enriching"
      BY <2>1 DEF Known, KnownRequest
    <3>3. KnownRequest(a)'
      BY <1>a, <2>1, <3>1, <3>2 DEF KnownRequest, Creating, AtWork
    <3>. QED  BY <1>a, <2>1, <3>1, <3>3, OthersKnow
  <2>. QED  BY <1>2, <2>2, <2>3 DEF FindByURL
<1>3. ASSUME NEW a \in Admins, CheckAnother(a) \/ RemoveEntry(a) \/ PublishEntry(a) \/ ListFails(a)
      PROVE  Known'
  <2>1. UNCHANGED <<stored, tasks, deleted>> /\ requests[a].pc \in {"check", "remove", "publish"}
    BY <1>3 DEF CheckAnother, RemoveEntry, PublishEntry, ListFails
  <2>2. PICK pc \in {"remove", "save", "delete"} :
           /\ Goto(a, pc)
           /\ pc = "remove" => requests[a].pc = "check"
           /\ pc = "delete" => requests[a].op = "delete"
           /\ pc = "save" /\ requests[a].pc # "publish" => requests[a].op # "delete"
    BY <1>3 DEF CheckAnother, RemoveEntry, PublishEntry, ListFails, AfterUnpublish
  <2>3. /\ requests'[a].pc = pc /\ requests'[a].op = requests[a].op
        /\ requests'[a].run = requests[a].run /\ requests'[a].copy = requests[a].copy
        /\ \A b \in Admins \ {a} : requests'[b] = requests[b]
    BY <1>0, <2>2, Acting
  <2>4. KnownRequest(a)
    BY DEF Known
  <2>5. requests[a].op \notin {"create", "create_forced"} /\ AtWork(a)
    BY <2>1, <2>4 DEF KnownRequest, AtWork, Creating
  <2>6. KnownRequest(a)' /\ ~Creating(a)'
    BY <2>1, <2>2, <2>3, <2>4, <2>5 DEF KnownRequest, Creating, AtWork
  <2>. QED  BY <2>1, <2>3, <2>6, OthersKnow
<1>4. ASSUME NEW a \in Admins, DeleteRun(a) \/ Enqueue(a) \/ RequestFails(a)
      PROVE  Known'
  <2>1. Answer(a)
    BY <1>4 DEF DeleteRun, Enqueue, RequestFails
  <2>2. requests'[a].pc = "idle" /\ \A b \in Admins \ {a} : requests'[b] = requests[b]
    BY <1>0, <2>1, Acting
  <2>3. stored' \cup deleted' = stored \cup deleted
    BY <1>4 DEF DeleteRun, Enqueue, RequestFails
  <2>4. \A t \in Tasks : tasks'[t] = tasks[t] \/ tasks'[t].status # "active"
    BY <1>0, <1>4, Queueing DEF DeleteRun, RequestFails
  <2>5. KnownRequest(a)' /\ ~Creating(a)'
    BY <2>2 DEF KnownRequest, Creating, AtWork
  <2>. QED  BY <2>2, <2>3, <2>4, <2>5, OthersKnow
<1>5. ASSUME NEW a \in Admins, SaveRequest(a) \/ SaveQueueFailed(a)
      PROVE  Known'
  <2>1. UNCHANGED <<tasks, deleted>> /\ (Refused(a) \/ Written(a)) /\ (Creating(a) \/ AtWork(a))
    BY <1>5, Saving
  <2>2. CASE Refused(a)
    <3>1. requests'[a].pc = "idle" /\ \A b \in Admins \ {a} : requests'[b] = requests[b]
      BY <1>0, <2>2, Acting DEF Refused
    <3>2. KnownRequest(a)' /\ ~Creating(a)'
      BY <3>1 DEF KnownRequest, Creating, AtWork
    <3>. QED  BY <2>1, <2>2, <3>1, <3>2, OthersKnow DEF Refused
  <2>3. CASE Written(a)
    <3>1. /\ requests'[a].pc \in {"idle", "enqueue"}
          /\ requests'[a].pc = "enqueue" => requests'[a].run = requests[a].run
          /\ \A b \in Admins \ {a} : requests'[b] = requests[b]
      BY <1>0, <2>3, Acting DEF Written
    <3>2. KnownRequest(a)' /\ ~Creating(a)'
      BY <2>3, <3>1 DEF KnownRequest, Creating, AtWork, Written
    <3>. QED  BY <2>1, <2>3, <3>1, <3>2, OthersKnow DEF Written
  <2>. QED  BY <2>1, <2>2, <2>3
<1>6. ASSUME NEW a \in Admins, EnqueueFails(a) PROVE Known'
  <2>1. /\ requests[a].pc = "enqueue" /\ requests'[a].pc = "save_failed"
        /\ requests'[a].run = requests[a].run
        /\ \A b \in Admins \ {a} : requests'[b] = requests[b]
        /\ UNCHANGED <<stored, tasks, deleted>>
    BY <1>0, <1>6, EnqueueingFails
  <2>2. KnownRequest(a)' /\ ~Creating(a)'
    BY <2>1 DEF Known, KnownRequest, Creating, AtWork
  <2>. QED  BY <2>1, <2>2, OthersKnow
<1>7. ASSUME UNCHANGED <<stored, requests, deleted>>,
             \A t \in Tasks : tasks'[t].status = "active" =>
                tasks'[t].run \in stored \/ tasks'[t] = tasks[t]
      PROVE  Known'
  BY <1>7 DEF Known, KnownRequest, Creating, AtWork
<1>8. ASSUME NEW t \in Tasks, NEW stage, NEW next, Crawled(t, stage, next) PROVE Known'
  <2>1. /\ UNCHANGED <<stored, requests, deleted>>
        /\ \A s \in Tasks \ {t} : tasks'[s] = tasks[s]
        /\ tasks'[t].status = "active" => tasks'[t].run \in stored
    BY <1>8, CrawlWrites
  <2>. QED  BY <1>7, <2>1
<1>9. ASSUME NEW t \in Tasks, Load(t) PROVE Known'
  <2>1. /\ UNCHANGED <<stored, requests, deleted>>
        /\ \A s \in Tasks \ {t} : tasks'[s] = tasks[s]
        /\ tasks'[t].status = "active" => tasks'[t].run \in stored
    BY <1>9, LoadReads
  <2>. QED  BY <1>7, <2>1
<1>10. CASE \/ \E t \in Tasks : WorkerFails(t)
            \/ \E r \in Runs : ExpireTombstone(r)
            \/ UNCHANGED vars
  <2>1. /\ UNCHANGED <<stored, requests, deleted>>
        /\ \A t \in Tasks : tasks'[t] = tasks[t] \/ tasks'[t].status # "active"
    BY <1>10, IdleSteps
  <2>. QED  BY <1>7, <2>1
<1>. QED  BY <1>1, <1>2, <1>3, <1>4, <1>5, <1>6, <1>8, <1>9, <1>10, ReceiveKinds, CrawlForm
          DEF Next, ServeRequest

-----------------------------------------------------------------------------
(***************************************************************************)
(* Duplicates.  No copy of a record, stale as it may be, changes its URL,  *)
(* so a second record for a URL comes only from the request that draws it. *)
(***************************************************************************)

\* A record of the URL, or one that a request is about to store.
Named(r, u) ==
    \/ r \in stored /\ runs[r].url = u
    \/ \E a \in Admins : Creating(a) /\ requests[a].run = r /\ requests[a].copy.url = u

Explained(q, r) == r \in forced \/ <<q, r>> \in unseen

UrlsKnown ==
    /\ \A a \in Admins : AtWork(a) /\ requests[a].run \in stored =>
         requests[a].copy.url = runs[requests[a].run].url
    /\ \A t \in Tasks : tasks[t].status = "active" /\ tasks[t].run \in stored =>
         tasks[t].copy.url = runs[tasks[t].run].url
    /\ \A q, r \in Runs : q < r => \A u \in Urls : Named(q, u) /\ Named(r, u) => Explained(q, r)

\* Records that keep their URLs, and requests and crawls that go on with theirs.
LEMMA UrlsKept ==
  ASSUME UrlsKnown, forced \subseteq forced', unseen \subseteq unseen',
         \A a \in Admins : AtWork(a)' /\ requests'[a].run \in stored' =>
            requests'[a].copy.url = runs'[requests'[a].run].url,
         \A t \in Tasks : tasks'[t].status = "active" /\ tasks'[t].run \in stored' =>
            tasks'[t].copy.url = runs'[tasks'[t].run].url,
         \A q, r \in Runs : \A u \in Urls : q < r /\ Named(q, u)' /\ Named(r, u)' =>
            Explained(q, r)' \/ (Named(q, u) /\ Named(r, u))
  PROVE  UrlsKnown'
<1>1. \A q, r : Explained(q, r) => Explained(q, r)'
  BY DEF Explained
<1>2. ASSUME NEW q \in Runs, NEW r \in Runs, q < r, NEW u \in Urls, Named(q, u)', Named(r, u)'
      PROVE  Explained(q, r)'
  BY <1>1, <1>2 DEF UrlsKnown
<1>. QED  BY <1>2 DEF UrlsKnown

\* Stored records that keep their URLs, where nobody starts to create a record.
LEMMA UrlsStay ==
  ASSUME UrlsKnown, forced \subseteq forced', unseen \subseteq unseen',
         stored' \subseteq stored, \A r \in stored' : runs'[r].url = runs[r].url,
         \A a \in Admins : /\ Creating(a)' => Creating(a) /\ requests'[a] = requests[a]
                           /\ AtWork(a)' /\ requests'[a].run \in stored' =>
                                \/ requests'[a].copy.url = runs[requests'[a].run].url
                                \/ /\ AtWork(a) /\ requests'[a].run = requests[a].run
                                   /\ requests'[a].copy.url = requests[a].copy.url,
         \A t \in Tasks : tasks'[t].status = "active" =>
            \/ /\ tasks[t].status = "active" /\ tasks'[t].run = tasks[t].run
               /\ tasks'[t].copy.url = tasks[t].copy.url
            \/ tasks'[t].copy.url = runs[tasks'[t].run].url
  PROVE  UrlsKnown'
<1>1. \A r, u : Named(r, u)' => Named(r, u)
  BY DEF Named
<1>2. \A a \in Admins : AtWork(a)' /\ requests'[a].run \in stored' =>
         requests'[a].copy.url = runs'[requests'[a].run].url
  BY DEF UrlsKnown
<1>3. \A t \in Tasks : tasks'[t].status = "active" /\ tasks'[t].run \in stored' =>
         tasks'[t].copy.url = runs'[tasks'[t].run].url
  BY DEF UrlsKnown
<1>. QED  BY <1>1, <1>2, <1>3, UrlsKept

LEMMA UrlsStep ==
  ASSUME IInv, Known, UrlsKnown, [Next]_vars, NoteUnseen \/ UNCHANGED <<vars, unseen>>
  PROVE  UrlsKnown'
<1>. USE DEF storeVars, historyVars
<1>0. /\ TypeOK /\ lastRun \in Nat /\ stored \cup deleted \subseteq 1..lastRun
      /\ stored \subseteq Runs /\ runs \in [Runs -> Run] /\ unseen \subseteq unseen'
  BY DEF IInv, TypeOK, IdsDrawn, NoteUnseen
<1>a. \A q \in Runs : \A u : Named(q, u) => q <= lastRun
  <2>1. \A a \in Admins : requests[a].run <= lastRun
    BY DEF IInv, IdsDrawn
  <2>. QED  BY <1>0, <2>1 DEF Named
<1>1. ASSUME NEW a \in Admins, NEW op, NEW r, NEW pc, NEW copy, ReceivedAs(a, op, r, pc, copy)
      PROVE  UrlsKnown'
  <2>1. /\ requests'[a].op = op /\ requests'[a].run = r
        /\ requests'[a].pc = pc /\ requests'[a].copy = copy
        /\ \A b \in Admins \ {a} : requests'[b] = requests[b]
        /\ requests[a].pc = "idle"
        /\ UNCHANGED <<stored, runs, tasks>> /\ forced \subseteq forced'
    BY <1>0, <1>1, Reading DEF ReceivedAs
  <2>2. \A b \in Admins \ {a} : Creating(b)' = Creating(b) /\ AtWork(b)' = AtWork(b)
    BY <2>1 DEF Creating, AtWork
  <2>3. AtWork(a)' => copy.url = runs[r].url
    BY <1>1, <2>1 DEF ReceivedAs, ReadsRun, AtWork, Creating
  <2>4. CASE op # "create_forced"
    <3>1. ~Creating(a)'
      BY <1>1, <2>1, <2>4 DEF ReceivedAs, ReadsRun, Creating
    <3>. QED  BY <1>0, <2>1, <2>2, <2>3, <3>1, UrlsStay
  <2>5. CASE op = "create_forced"
    <3>1. r = lastRun + 1 /\ r \in forced'
      BY <1>1, <2>5 DEF ReceivedAs, ReadsRun
    <3>2. \A q, u : Named(q, u)' => Named(q, u) \/ q = lastRun + 1
      BY <2>1, <2>2, <3>1 DEF Named
    <3>3. ASSUME NEW q \in Runs, NEW s \in Runs, NEW u \in Urls,
                 q < s, Named(q, u)', Named(s, u)'
          PROVE  Explained(q, s)' \/ (Named(q, u) /\ Named(s, u))
      <4>1. CASE s = lastRun + 1
        BY <3>1, <4>1 DEF Explained
      <4>2. CASE s # lastRun + 1
        <5>1. Named(s, u) /\ s <= lastRun
          BY <1>a, <3>2, <3>3, <4>2
        <5>2. q # lastRun + 1
          BY <1>0, <3>3, <5>1
        <5>. QED  BY <3>2, <3>3, <5>1, <5>2
      <4>. QED  BY <4>1, <4>2
    <3>4. \A b \in Admins : AtWork(b)' /\ requests'[b].run \in stored' =>
             requests'[b].copy.url = runs'[requests'[b].run].url
      BY <2>1, <2>2, <2>3 DEF UrlsKnown
    <3>5. \A t \in Tasks : tasks'[t].status = "active" /\ tasks'[t].run \in stored' =>
             tasks'[t].copy.url = runs'[tasks'[t].run].url
      BY <2>1 DEF UrlsKnown
    <3>. QED  BY <1>0, <2>1, <3>3, <3>4, <3>5, UrlsKept
  <2>. QED  BY <2>4, <2>5
<1>2. ASSUME NEW a \in Admins, FindByURL(a) PROVE UrlsKnown'
  <2>1. UNCHANGED <<stored, runs, tasks, forced>> /\ requests[a].pc = "find"
    BY <1>2 DEF FindByURL
  <2>2. CASE Answer(a)
    <3>1. requests'[a].pc = "idle" /\ \A b \in Admins \ {a} : requests'[b] = requests[b]
      BY <1>0, <2>2, Acting
    <3>. QED  BY <1>0, <2>1, <3>1, UrlsStay DEF Creating, AtWork
  <2>3. CASE /\ ~FoundByURL(requests[a].copy.url)
             /\ lastRun < MaxRuns /\ lastRun' = lastRun + 1
             /\ requests' = [requests EXCEPT ![a].run = lastRun + 1, ![a].pc = "save"]
    <3>. DEFINE u0 == requests[a].copy.url
                new == lastRun + 1
    <3>1. /\ requests'[a].op = "create" /\ requests'[a].run = new
          /\ requests'[a].pc = "save" /\ requests'[a].copy = requests[a].copy
          /\ \A b \in Admins \ {a} : requests'[b] = requests[b]
      BY <1>0, <2>1, <2>3 DEF TypeOK, Request, Known, KnownRequest
    <3>2. \A b \in Admins \ {a} : Creating(b)' = Creating(b) /\ AtWork(b)' = AtWork(b)
      BY <3>1 DEF Creating, AtWork
    <3>3. Creating(a)' /\ ~Creating(a) /\ ~AtWork(a)'
      BY <2>1, <3>1 DEF Creating, AtWork
    <3>4. \A q, u : Named(q, u)' => Named(q, u) \/ (q = new /\ (u = u0 \/ Named(q, u)))
      BY <2>1, <3>1, <3>2 DEF Named
    <3>5. ASSUME NEW q \in Runs, Named(q, u0) PROVE <<q, new>> \in unseen'
      <4>1. q \in Overlooked
        <5>1. CASE q \in stored /\ runs[q].url = u0
          <6>1. q \notin Listed
            BY <2>3, <5>1 DEF FoundByURL
          <6>. QED  BY <5>1, <6>1 DEF Overlooked
        <5>2. CASE \E b \in Admins : Creating(b) /\ requests[b].run = q
          BY <5>2 DEF Overlooked
        <5>. QED  BY <3>5, <5>1, <5>2 DEF Named
      <4>2. NoteUnseen
        BY <1>0, <2>3 DEF vars
      <4>3. new \in (lastRun + 1)..lastRun'
        BY <1>0, <2>3
      <4>. QED  BY <4>1, <4>2, <4>3 DEF NoteUnseen
    <3>6. ASSUME NEW q \in Runs, NEW s \in Runs, NEW u \in Urls,
                 q < s, Named(q, u)', Named(s, u)'
          PROVE  Explained(q, s)' \/ (Named(q, u) /\ Named(s, u))
      <4>1. CASE Named(s, u)
        <5>1. s <= lastRun
          BY <1>a, <4>1
        <5>2. q # new
          BY <1>0, <3>6, <5>1
        <5>. QED  BY <3>4, <3>6, <4>1, <5>2
      <4>2. CASE ~Named(s, u)
        <5>1. s = new /\ u = u0
          BY <3>4, <3>6, <4>2
        <5>2. q # new
          BY <3>6, <5>1
        <5>3. Named(q, u0)
          BY <3>4, <3>6, <5>1, <5>2
        <5>. QED  BY <3>5, <5>1, <5>3 DEF Explained
      <4>. QED  BY <4>1, <4>2
    <3>7. \A b \in Admins : AtWork(b)' /\ requests'[b].run \in stored' =>
             requests'[b].copy.url = runs'[requests'[b].run].url
      BY <2>1, <3>1, <3>2, <3>3 DEF UrlsKnown
    <3>8. \A t \in Tasks : tasks'[t].status = "active" /\ tasks'[t].run \in stored' =>
             tasks'[t].copy.url = runs'[tasks'[t].run].url
      BY <2>1 DEF UrlsKnown
    <3>. QED  BY <1>0, <2>1, <3>6, <3>7, <3>8, UrlsKept
  <2>. QED  BY <1>2, <2>2, <2>3 DEF FindByURL
<1>3. ASSUME NEW a \in Admins,
             CheckAnother(a) \/ RemoveEntry(a) \/ PublishEntry(a) \/ ListFails(a)
      PROVE  UrlsKnown'
  <2>1. /\ UNCHANGED <<stored, runs, tasks, forced>>
        /\ requests[a].pc \in {"check", "remove", "publish"}
    BY <1>3 DEF CheckAnother, RemoveEntry, PublishEntry, ListFails
  <2>2. PICK pc \in {"remove", "save", "delete"} : Goto(a, pc)
    BY <1>3 DEF CheckAnother, RemoveEntry, PublishEntry, ListFails, AfterUnpublish
  <2>3. /\ requests'[a].op = requests[a].op
        /\ requests'[a].run = requests[a].run /\ requests'[a].copy = requests[a].copy
        /\ \A b \in Admins \ {a} : requests'[b] = requests[b]
    BY <1>0, <2>2, Acting
  <2>4. requests[a].op \notin {"create", "create_forced"}
    BY <2>1 DEF Known, KnownRequest
  <2>5. AtWork(a) /\ ~Creating(a)'
    BY <2>1, <2>3, <2>4 DEF AtWork, Creating
  <2>6. \A b \in Admins \ {a} : Creating(b)' = Creating(b) /\ AtWork(b)' = AtWork(b)
    BY <2>3 DEF Creating, AtWork
  <2>. QED  BY <1>0, <2>1, <2>3, <2>5, <2>6, UrlsStay
<1>4. ASSUME NEW a \in Admins, Answer(a), UNCHANGED forced, stored' \subseteq stored,
             \A r \in stored' : runs'[r] = runs[r],
             \A t \in Tasks : tasks'[t] = tasks[t] \/ tasks'[t].status # "active"
      PROVE  UrlsKnown'
  <2>1. requests'[a].pc = "idle" /\ \A b \in Admins \ {a} : requests'[b] = requests[b]
    BY <1>0, <1>4, Acting
  <2>2. ~Creating(a)' /\ ~AtWork(a)'
    BY <2>1 DEF Creating, AtWork
  <2>3. \A b \in Admins \ {a} : Creating(b)' = Creating(b) /\ AtWork(b)' = AtWork(b)
    BY <2>1 DEF Creating, AtWork
  <2>. QED  BY <1>0, <1>4, <2>1, <2>2, <2>3, UrlsStay
<1>5. ASSUME NEW a \in Admins, Enqueue(a) \/ RequestFails(a) PROVE UrlsKnown'
  <2>1. Answer(a) /\ UNCHANGED <<stored, runs, forced>>
    BY <1>5 DEF Enqueue, RequestFails
  <2>2. \A t \in Tasks : tasks'[t] = tasks[t] \/ tasks'[t].status # "active"
    BY <1>0, <1>5, Queueing DEF RequestFails
  <2>. QED  BY <1>4, <2>1, <2>2
<1>6. ASSUME NEW a \in Admins, DeleteRun(a) PROVE UrlsKnown'
  <2>1. Answer(a) /\ UNCHANGED <<tasks, forced>>
    BY <1>0, <1>6, Deleting
  <2>2. stored' \subseteq stored /\ \A r \in stored' : runs'[r] = runs[r]
    BY <1>0, <1>6, Deleting DEF Deleted
  <2>. QED  BY <1>4, <2>1, <2>2
<1>7. ASSUME NEW a \in Admins, SaveRequest(a) \/ SaveQueueFailed(a) PROVE UrlsKnown'
  <2>1. UNCHANGED <<tasks, forced>> /\ (Refused(a) \/ Written(a)) /\ (Creating(a) \/ AtWork(a))
    BY <1>7, Saving
  <2>2. CASE Refused(a)
    BY <1>4, <2>1, <2>2 DEF Refused
  <2>3. CASE Written(a)
    <3>. DEFINE r == requests[a].run
    <3>1. /\ requests'[a].pc \in {"idle", "enqueue"}
          /\ requests'[a].pc = "enqueue" => requests'[a].run = r /\ requests'[a].copy = requests[a].copy
          /\ \A b \in Admins \ {a} : requests'[b] = requests[b]
      BY <1>0, <2>3, Acting DEF Written
    <3>2. /\ r \in Runs /\ stored' = stored \cup {r}
          /\ runs'[r] = requests[a].copy /\ \A q \in Runs \ {r} : runs'[q] = runs[q]
      BY <1>0, <2>3 DEF Written
    <3>3. ~Creating(a)' /\ (AtWork(a)' => requests'[a].run = r /\ requests'[a].copy = requests[a].copy)
      BY <3>1 DEF Creating, AtWork
    <3>4. \A b \in Admins \ {a} : Creating(b)' = Creating(b) /\ AtWork(b)' = AtWork(b)
      BY <3>1 DEF Creating, AtWork
    <3>5. r \in stored => requests[a].copy.url = runs[r].url
      BY <2>1 DEF UrlsKnown, Known, KnownRequest
    <3>6. \A q \in Runs : \A u : Named(q, u)' => Named(q, u)
      <4>1. Named(r, requests[a].copy.url)
        BY <2>3, <3>5 DEF Named, Written
      <4>. QED  BY <3>1, <3>2, <3>3, <3>4, <4>1 DEF Named
    <3>7. r \notin stored =>
            /\ \A b \in Admins \ {a} : AtWork(b) => requests[b].run # r
            /\ \A t \in Tasks : tasks[t].status = "active" => tasks[t].run # r
      BY <2>3 DEF Written, Known, KnownRequest
    <3>8. ASSUME NEW b \in Admins, AtWork(b)', requests'[b].run \in stored'
          PROVE  requests'[b].copy.url = runs'[requests'[b].run].url
      <4>1. CASE b = a
        BY <3>2, <3>3, <3>8, <4>1
      <4>2. CASE b # a
        <5>1. AtWork(b) /\ requests'[b] = requests[b]
          BY <3>1, <3>4, <3>8, <4>2
        <5>2. requests[b].run \in stored
          BY <3>2, <3>7, <3>8, <4>2, <5>1
        <5>3. requests[b].copy.url = runs[requests[b].run].url
          BY <5>1, <5>2 DEF UrlsKnown
        <5>. QED  BY <1>0, <3>2, <3>5, <5>1, <5>2, <5>3
      <4>. QED  BY <4>1, <4>2
    <3>9. ASSUME NEW t \in Tasks, tasks'[t].status = "active", tasks'[t].run \in stored'
          PROVE  tasks'[t].copy.url = runs'[tasks'[t].run].url
      <4>1. tasks'[t] = tasks[t] /\ tasks[t].run \in stored
        BY <2>1, <3>2, <3>7, <3>9
      <4>2. tasks[t].copy.url = runs[tasks[t].run].url
        BY <3>9, <4>1 DEF UrlsKnown
      <4>. QED  BY <1>0, <3>2, <3>5, <4>1, <4>2
    <3>. QED  BY <1>0, <2>1, <3>6, <3>8, <3>9, UrlsKept
  <2>. QED  BY <2>1, <2>2, <2>3
<1>8. ASSUME NEW a \in Admins, EnqueueFails(a) PROVE UrlsKnown'
  <2>1. /\ requests[a].pc = "enqueue" /\ requests'[a].pc = "save_failed"
        /\ requests'[a].run = requests[a].run
        /\ requests'[a].copy.url = requests[a].copy.url
        /\ \A b \in Admins \ {a} : requests'[b] = requests[b]
        /\ UNCHANGED <<stored, runs, tasks, forced>>
    BY <1>0, <1>8, EnqueueingFails
  <2>2. AtWork(a) /\ ~Creating(a)'
    BY <2>1 DEF AtWork, Creating
  <2>3. \A b \in Admins \ {a} : Creating(b)' = Creating(b) /\ AtWork(b)' = AtWork(b)
    BY <2>1 DEF Creating, AtWork
  <2>. QED  BY <1>0, <2>1, <2>2, <2>3, UrlsStay
<1>9. ASSUME UNCHANGED <<stored, requests, forced>>, \A r \in stored : runs'[r].url = runs[r].url,
             \A t \in Tasks : tasks'[t].status = "active" =>
                \/ /\ tasks[t].status = "active" /\ tasks'[t].run = tasks[t].run
                   /\ tasks'[t].copy.url = tasks[t].copy.url
                \/ tasks'[t].copy.url = runs[tasks'[t].run].url
      PROVE  UrlsKnown'
  <2>1. \A b \in Admins : Creating(b)' = Creating(b) /\ AtWork(b)' = AtWork(b)
    BY <1>9 DEF Creating, AtWork
  <2>. QED  BY <1>0, <1>9, <2>1, UrlsStay
<1>10. ASSUME NEW t \in Tasks, NEW stage, NEW next, Crawled(t, stage, next) PROVE UrlsKnown'
  <2>. DEFINE r == tasks[t].run
  <2>1. /\ UNCHANGED <<stored, requests, forced>> /\ \A s \in Tasks \ {t} : tasks'[s] = tasks[s]
        /\ \/ tasks'[t].status # "active" /\ UNCHANGED runs
           \/ /\ r \in stored /\ runs' = [runs EXCEPT ![r] = tasks[t].copy]
              /\ tasks[t].status = "active"
              /\ tasks'[t].status = "active" => /\ tasks'[t].run = r
                                                /\ tasks'[t].copy.url = tasks[t].copy.url
    BY <1>10, CrawlWrites
  <2>2. \A q \in stored : runs'[q].url = runs[q].url
    BY <1>0, <2>1 DEF UrlsKnown
  <2>. QED  BY <1>9, <2>1, <2>2
<1>11. ASSUME NEW t \in Tasks, Load(t) PROVE UrlsKnown'
  <2>1. /\ UNCHANGED <<stored, runs, requests, forced>> /\ \A s \in Tasks \ {t} : tasks'[s] = tasks[s]
        /\ tasks'[t].status = "active" => tasks'[t].copy.url = runs[tasks'[t].run].url
    BY <1>11, LoadReads
  <2>. QED  BY <1>9, <2>1
<1>12. CASE \/ \E t \in Tasks : WorkerFails(t)
            \/ \E r \in Runs : ExpireTombstone(r)
            \/ UNCHANGED vars
  <2>1. /\ UNCHANGED <<stored, runs, requests, forced>>
        /\ \A t \in Tasks : tasks'[t] = tasks[t] \/ tasks'[t].status # "active"
    BY <1>12, IdleSteps
  <2>. QED  BY <1>9, <2>1
<1>. QED  BY <1>1, <1>2, <1>3, <1>5, <1>6, <1>7, <1>8, <1>10, <1>11, <1>12, ReceiveKinds, CrawlForm
          DEF Next, ServeRequest

-----------------------------------------------------------------------------
(***************************************************************************)
(* Published records and entries.  What happens to a place is noted before *)
(* it can do harm, so each step finds its excuse or needs none.            *)
(***************************************************************************)
Excused(p, excuses) == causes[p] \cap excuses # {}

CausesTyped == causes \in [Places -> SUBSET Causes]

\* No excuse is forgotten, and what happens to a place is one.
LEMMA Noting ==
  ASSUME CausesTyped, NoteCauses, NEW p \in Places
  PROVE  /\ \A excuses : Excused(p, excuses) => Excused(p, excuses)'
         /\ PublishedUnderRemoval(p) => Excused(p, HidingCauses)'
         /\ \A a \in Admins : TooShort(a) /\ requests[a].copy.place = p => Excused(p, HidingCauses)'
         /\ DeletedUnderPublication(p) \/ DeletedTogether(p) => Excused(p, OrphaningCauses)'
         /\ \A a \in Admins : Unanswered(a) /\ requests[a].copy.place = p => Excused(p, OrphaningCauses)'
         /\ \A r \in Runs : Moved(r, p) => Excused(p, OrphaningCauses)'
<1>1. causes'[p] = causes[p] \cup {cause \in Causes : Happens(cause, p)}
  BY DEF NoteCauses, CausesTyped
<1>2. \A cause \in Causes : Happens(cause, p) => cause \in causes'[p]
  BY <1>1
<1>3. \A excuses : Excused(p, excuses) => Excused(p, excuses)'
  BY <1>1 DEF Excused
<1>4. PublishedUnderRemoval(p) => Excused(p, HidingCauses)'
  BY <1>2 DEF Happens, Causes, Excused, HidingCauses
<1>5. \A a \in Admins : TooShort(a) /\ requests[a].copy.place = p => Excused(p, HidingCauses)'
  BY <1>2 DEF Happens, Causes, Excused, HidingCauses
<1>6. DeletedUnderPublication(p) \/ DeletedTogether(p) => Excused(p, OrphaningCauses)'
  BY <1>2 DEF Happens, Causes, Excused, OrphaningCauses
<1>7. \A a \in Admins : Unanswered(a) /\ requests[a].copy.place = p => Excused(p, OrphaningCauses)'
  BY <1>2 DEF Happens, Causes, Excused, OrphaningCauses
<1>8. \A r \in Runs : Moved(r, p) => Excused(p, OrphaningCauses)'
  BY <1>2 DEF Happens, Causes, Excused, OrphaningCauses
<1>. QED  BY <1>3, <1>4, <1>5, <1>6, <1>7, <1>8

LEMMA CausesStep ==
  ASSUME CausesTyped, NoteCauses \/ UNCHANGED causes
  PROVE  CausesTyped'
  BY DEF CausesTyped, NoteCauses

\* A published record's place is a place.
LEMMA PublishedPlace ==
  ASSUME IInv
  PROVE  /\ \A r \in Runs : runs[r].state = "published" => runs[r].place \in Places
         /\ \A a \in Admins : requests[a].copy.state = "published" => requests[a].copy.place \in Places
  BY DEF IInv, TypeOK, CopiesPublishable, Publishable, Request, Run

(***************************************************************************)
(* Published records are live.  The entry that a removal takes down stands *)
(* for no other published record, unless its list was too short or such a  *)
(* record is published meanwhile; a removal that is cut off after the      *)
(* entry went leaves its own record as it was.                             *)
(***************************************************************************)
Shows(q, p) == q \in stored /\ runs[q].state = "published" /\ runs[q].place = p

HidingRequest(a) ==
    /\ requests[a].pc = "remove" =>
         \A q \in Runs \ {requests[a].run}, p \in Places :
            p = requests[a].copy.place /\ Shows(q, p) => Excused(p, HidingCauses)
    /\ requests[a].pc = "save" /\ requests[a].copy.state = "published" =>
         catalogue[requests[a].copy.place] # Nobody \/ Excused(requests[a].copy.place, HidingCauses)

Seen(q) ==
    \/ catalogue[runs[q].place] # Nobody
    \/ BeingRemoved(q) \/ q \in cutOff
    \/ Excused(runs[q].place, HidingCauses)

HidingKnown ==
    /\ \A a \in Admins : HidingRequest(a)
    /\ \A q \in stored : runs[q].state = "published" => Seen(q)

\* Where no entry goes, no record becomes published, and the removal of a record
\* that stays and is not cut off goes on.
LEMMA HidingKept ==
  ASSUME IInv, IInv', CausesTyped, HidingKnown, NoteCauses, cutOff \subseteq cutOff', NEW a \in Admins,
         \A b \in Admins \ {a} : requests'[b] = requests[b],
         \A p \in Places : catalogue[p] # Nobody => catalogue'[p] # Nobody,
         \A q \in stored' : runs'[q].state = "published" => q \in stored /\ runs'[q] = runs[q],
         \A q \in stored' : BeingRemoved(q) => BeingRemoved(q)' \/ q \in cutOff',
         HidingRequest(a)'
  PROVE  HidingKnown'
<1>0. stored' \subseteq Runs
  BY DEF IInv, TypeOK
<1>1. ASSUME NEW b \in Admins \ {a} PROVE HidingRequest(b)'
  <2>1. HidingRequest(b) /\ requests'[b] = requests[b]
    BY DEF HidingKnown
  <2>2. ASSUME requests[b].pc = "remove", NEW q \in Runs \ {requests[b].run}, NEW p \in Places,
               p = requests[b].copy.place, Shows(q, p)'
        PROVE  Excused(p, HidingCauses)'
    <3>1. Shows(q, p)
      BY <2>2 DEF Shows
    <3>. QED  BY <2>1, <2>2, <3>1, Noting DEF HidingRequest
  <2>3. ASSUME requests[b].pc = "save", requests[b].copy.state = "published"
        PROVE  catalogue'[requests[b].copy.place] # Nobody \/ Excused(requests[b].copy.place, HidingCauses)'
    BY <2>1, <2>3, Noting, PublishedPlace DEF HidingRequest
  <2>. QED  BY <2>1, <2>2, <2>3 DEF HidingRequest
<1>2. ASSUME NEW q \in stored', runs'[q].state = "published" PROVE Seen(q)'
  <2>1. q \in stored /\ runs'[q] = runs[q] /\ runs[q].place \in Places
    BY <1>0, <1>2, PublishedPlace
  <2>2. Seen(q)
    BY <1>2, <2>1 DEF HidingKnown
  <2>. QED  BY <2>1, <2>2, Noting DEF Seen
<1>. QED  BY <1>1, <1>2 DEF HidingKnown

\* A request that removes nothing leaves every removal where it was.
LEMMA RemovalsGoOn ==
  ASSUME NEW a \in Admins, \A b \in Admins \ {a} : requests'[b] = requests[b], NEW q,
         BeingRemoved(q),
         \/ requests[a].run # q
         \/ requests[a].op \notin {"archive", "delete"}
         \/ requests[a].pc \notin {"save", "delete"}
  PROVE  BeingRemoved(q)'
  BY DEF BeingRemoved

LEMMA HidingStep ==
  ASSUME IInv, IInv', Known, CausesTyped, HidingKnown, Next, NoteCauses, NoteCutOff
  PROVE  HidingKnown'
<1>. USE DEF storeVars, historyVars
<1>0. /\ TypeOK /\ cutOff \subseteq cutOff' /\ catalogue \in [Places -> Runs \cup {Nobody}]
      /\ stored \subseteq Runs /\ runs \in [Runs -> Run] /\ requests \in [Admins -> Request]
  BY DEF IInv, TypeOK, NoteCutOff
<1>1. ASSUME NEW a \in Admins, NEW op, NEW r, NEW pc, NEW copy, ReceivedAs(a, op, r, pc, copy)
      PROVE  HidingKnown'
  <2>1. /\ requests'[a].op = op /\ requests'[a].run = r
        /\ requests'[a].pc = pc /\ requests'[a].copy = copy
        /\ \A b \in Admins \ {a} : requests'[b] = requests[b]
        /\ requests[a].pc = "idle"
        /\ UNCHANGED <<stored, runs, catalogue>>
    BY <1>0, <1>1, Reading DEF ReceivedAs
  <2>2. HidingRequest(a)'
    BY <1>1, <2>1 DEF ReceivedAs, ReadsRun, HidingRequest
  <2>3. \A q : BeingRemoved(q) => BeingRemoved(q)'
    BY <2>1, RemovalsGoOn
  <2>. QED  BY <1>0, <2>1, <2>2, <2>3, HidingKept
<1>2. ASSUME NEW a \in Admins, FindByURL(a) PROVE HidingKnown'
  <2>1. UNCHANGED <<stored, runs, catalogue>> /\ requests[a].pc = "find"
    BY <1>2 DEF FindByURL
  <2>2. requests[a].copy.state # "published"
    BY <2>1 DEF Known, KnownRequest
  <2>3. /\ \A b \in Admins \ {a} : requests'[b] = requests[b]
        /\ requests'[a].pc # "remove"
        /\ requests'[a].pc = "save" => requests'[a].copy = requests[a].copy
    <3>1. CASE Answer(a)
      BY <1>0, <3>1, Acting
    <3>2. CASE requests' = [requests EXCEPT ![a].run = lastRun + 1, ![a].pc = "save"]
      BY <1>0, <3>2 DEF Request
    <3>. QED  BY <1>2, <3>1, <3>2 DEF FindByURL
  <2>4. HidingRequest(a)'
    BY <2>2, <2>3 DEF HidingRequest
  <2>5. \A q : BeingRemoved(q) => BeingRemoved(q)'
    BY <2>1, <2>3, RemovalsGoOn
  <2>. QED  BY <1>0, <2>1, <2>3, <2>4, <2>5, HidingKept
<1>3. ASSUME NEW a \in Admins, CheckAnother(a) \/ ListFails(a) PROVE HidingKnown'
  <2>1. UNCHANGED <<stored, runs, catalogue>> /\ requests[a].pc = "check"
    BY <1>3 DEF CheckAnother, ListFails
  <2>2. PICK pc \in {"remove", "save", "delete"} :
           /\ Goto(a, pc)
           /\ pc = "save" => requests[a].op = "archive"
           /\ pc = "remove" => ~AnotherRecordExists(requests[a].run, requests[a].copy.place)
    BY <1>3, <2>1 DEF CheckAnother, ListFails, AfterUnpublish, Known, KnownRequest
  <2>3. /\ requests'[a].pc = pc /\ requests'[a].op = requests[a].op
        /\ requests'[a].run = requests[a].run /\ requests'[a].copy = requests[a].copy
        /\ \A b \in Admins \ {a} : requests'[b] = requests[b]
    BY <1>0, <2>2, Acting
  <2>4. requests'[a].pc = "save" => requests'[a].copy.state # "published"
    BY <2>1, <2>2, <2>3 DEF Known, KnownRequest
  <2>5. ASSUME requests'[a].pc = "remove", NEW q \in Runs \ {requests[a].run}, NEW p \in Places,
               p = requests[a].copy.place, Shows(q, p)'
        PROVE  Excused(p, HidingCauses)'
    <3>1. Represents(q, p) /\ q # requests[a].run /\ q \notin Listed
      BY <2>1, <2>2, <2>3, <2>5 DEF Shows, Represents, AnotherRecordExists
    <3>2. TooShort(a)
      BY <2>1, <2>5, <3>1 DEF TooShort, Represented, Represents
    <3>. QED  BY <2>5, <3>2, Noting
  <2>6. HidingRequest(a)'
    BY <2>3, <2>4, <2>5 DEF HidingRequest
  <2>7. \A q : BeingRemoved(q) => BeingRemoved(q)'
    BY <2>1, <2>3, RemovalsGoOn
  <2>. QED  BY <1>0, <2>1, <2>3, <2>6, <2>7, HidingKept
<1>4. ASSUME NEW a \in Admins, RemoveEntry(a) PROVE HidingKnown'
  <2>. DEFINE place == requests[a].copy.place
  <2>1. /\ UNCHANGED <<stored, runs>> /\ requests[a].pc = "remove"
        /\ catalogue' = [catalogue EXCEPT ![place] = Nobody] /\ Goto(a, AfterUnpublish(a))
    BY <1>4 DEF RemoveEntry
  <2>2. /\ requests'[a].pc = AfterUnpublish(a) /\ requests'[a].op = requests[a].op
        /\ requests'[a].run = requests[a].run /\ requests'[a].copy = requests[a].copy
        /\ \A b \in Admins \ {a} : requests'[b] = requests[b]
    BY <1>0, <2>1, Acting
  <2>3. /\ requests[a].op \in {"archive", "delete"} /\ AfterUnpublish(a) \in {"save", "delete"}
        /\ AfterUnpublish(a) = "save" => requests[a].copy.state # "published"
    BY <2>1 DEF AfterUnpublish, Known, KnownRequest
  <2>4. HidingRequest(a)'
    BY <2>2, <2>3 DEF HidingRequest
  <2>5. ASSUME NEW b \in Admins \ {a} PROVE HidingRequest(b)'
    <3>1. HidingRequest(b) /\ requests'[b] = requests[b]
      BY <2>2 DEF HidingKnown
    <3>2. ASSUME requests[b].pc = "remove", NEW q \in Runs \ {requests[b].run}, NEW p \in Places,
                 p = requests[b].copy.place, Shows(q, p)'
          PROVE  Excused(p, HidingCauses)'
      <4>1. Shows(q, p)
        BY <2>1, <3>2 DEF Shows
      <4>. QED  BY <3>1, <3>2, <4>1, Noting DEF HidingRequest
    <3>3. ASSUME requests[b].pc = "save", requests[b].copy.state = "published"
          PROVE  \/ catalogue'[requests[b].copy.place] # Nobody
                 \/ Excused(requests[b].copy.place, HidingCauses)'
      <4>1. requests[b].copy.place \in Places /\ requests[b].op = "publish"
        BY <3>3, PublishedPlace DEF Known, KnownRequest
      <4>2. CASE requests[b].copy.place = place
        <5>1. Waits(a, "archive", "remove", place) \/ Waits(a, "delete", "remove", place)
          BY <2>1, <2>3 DEF Waits
        <5>2. Waits(b, "publish", "save", place)
          BY <3>3, <4>1, <4>2 DEF Waits
        <5>3. PublishedUnderRemoval(place)
          BY <5>1, <5>2 DEF PublishedUnderRemoval
        <5>. QED  BY <3>1, <4>1, <4>2, <5>3, Noting
      <4>3. CASE requests[b].copy.place # place
        <5>1. catalogue'[requests[b].copy.place] = catalogue[requests[b].copy.place]
          BY <1>0, <2>1, <4>1, <4>3
        <5>. QED  BY <3>1, <3>3, <4>1, <5>1, Noting DEF HidingRequest
      <4>. QED  BY <4>2, <4>3
    <3>. QED  BY <3>1, <3>2, <3>3 DEF HidingRequest
  <2>6. ASSUME NEW q \in stored, runs[q].state = "published" PROVE Seen(q)'
    <3>1. runs[q].place \in Places /\ q \in Runs /\ Seen(q)
      BY <1>0, <2>6, PublishedPlace DEF HidingKnown
    <3>2. CASE q = requests[a].run
      <4>1. BeingRemoved(q)'
        BY <2>2, <2>3, <3>2 DEF BeingRemoved
      <4>. QED  BY <4>1 DEF Seen
    <3>3. CASE q # requests[a].run /\ runs[q].place = place
      <4>1. Excused(place, HidingCauses)
        BY <2>1, <2>6, <3>1, <3>3 DEF HidingKnown, HidingRequest, Shows
      <4>. QED  BY <2>1, <3>1, <3>3, <4>1, Noting DEF Seen
    <3>4. CASE runs[q].place # place
      <4>1. catalogue'[runs[q].place] = catalogue[runs[q].place]
        BY <1>0, <2>1, <3>1, <3>4
      <4>2. BeingRemoved(q) => BeingRemoved(q)'
        BY <2>1, <2>2, RemovalsGoOn
      <4>. QED  BY <1>0, <2>1, <3>1, <4>1, <4>2, Noting DEF Seen
    <3>. QED  BY <3>2, <3>3, <3>4
  <2>. QED  BY <2>1, <2>4, <2>5, <2>6 DEF HidingKnown
<1>5. ASSUME NEW a \in Admins, PublishEntry(a) PROVE HidingKnown'
  <2>. DEFINE place == requests[a].copy.place
  <2>1. /\ UNCHANGED <<stored, runs>> /\ requests[a].pc = "publish" /\ Goto(a, "save")
        /\ catalogue' = [catalogue EXCEPT ![place] = requests[a].run]
    BY <1>5 DEF PublishEntry
  <2>2. /\ requests'[a].pc = "save" /\ requests'[a].copy = requests[a].copy
        /\ \A b \in Admins \ {a} : requests'[b] = requests[b]
    BY <1>0, <2>1, Acting
  <2>3. requests[a].run # Nobody
    BY <2>1 DEF IInv, IdsDrawn
  <2>4. \A p \in Places : /\ catalogue[p] # Nobody => catalogue'[p] # Nobody
                          /\ p = place => catalogue'[p] # Nobody
    BY <1>0, <2>1, <2>3
  <2>5. HidingRequest(a)'
    BY <2>2, <2>4, PublishedPlace DEF HidingRequest
  <2>6. \A q : BeingRemoved(q) => BeingRemoved(q)'
    BY <2>1, <2>2, RemovalsGoOn
  <2>. QED  BY <1>0, <2>1, <2>2, <2>4, <2>5, <2>6, HidingKept
<1>6. ASSUME NEW a \in Admins, Answer(a), UNCHANGED catalogue,
             \A q \in stored' : q \in stored /\ runs'[q] = runs[q],
             \A q \in stored' : BeingRemoved(q) => BeingRemoved(q)' \/ q \in cutOff'
      PROVE  HidingKnown'
  <2>1. requests'[a].pc = "idle" /\ \A b \in Admins \ {a} : requests'[b] = requests[b]
    BY <1>0, <1>6, Acting
  <2>2. HidingRequest(a)'
    BY <2>1 DEF HidingRequest
  <2>. QED  BY <1>0, <1>6, <2>1, <2>2, HidingKept
<1>7. ASSUME NEW a \in Admins, DeleteRun(a) PROVE HidingKnown'
  <2>1. Answer(a) /\ UNCHANGED catalogue
    BY <1>0, <1>7, Deleting
  <2>2. \A q \in stored' : q \in stored /\ runs'[q] = runs[q] /\ q # requests[a].run
    BY <1>0, <1>7, Deleting DEF Deleted
  <2>3. \A q \in stored' : BeingRemoved(q) => BeingRemoved(q)'
    BY <1>0, <2>1, <2>2, Acting, RemovalsGoOn
  <2>. QED  BY <1>6, <2>1, <2>2, <2>3
<1>8. ASSUME NEW a \in Admins, Enqueue(a) PROVE HidingKnown'
  <2>1. Answer(a) /\ UNCHANGED <<stored, runs, catalogue>> /\ requests[a].pc = "enqueue"
    BY <1>8 DEF Enqueue
  <2>2. \A q \in stored' : BeingRemoved(q) => BeingRemoved(q)'
    BY <1>0, <2>1, Acting, RemovalsGoOn
  <2>. QED  BY <1>6, <2>1, <2>2
<1>9. ASSUME NEW a \in Admins, RequestFails(a) PROVE HidingKnown'
  <2>1. Answer(a) /\ UNCHANGED <<stored, runs, catalogue>>
    BY <1>9 DEF RequestFails
  <2>2. requests'[a].pc = "idle" /\ \A b \in Admins \ {a} : requests'[b] = requests[b]
    BY <1>0, <2>1, Acting
  <2>3. faults' # faults
    BY <1>0, <1>9 DEF RequestFails, Fault, TypeOK
  <2>4. ASSUME NEW q \in stored', BeingRemoved(q) PROVE BeingRemoved(q)' \/ q \in cutOff'
    <3>1. CASE /\ requests[a].run = q
               /\ requests[a].op \in {"archive", "delete"} /\ requests[a].pc \in {"save", "delete"}
      <4>1. CutOff(a)
        BY <2>2, <2>3, <3>1 DEF CutOff
      <4>. QED  BY <3>1, <4>1 DEF NoteCutOff
    <3>2. CASE ~(/\ requests[a].run = q
                 /\ requests[a].op \in {"archive", "delete"} /\ requests[a].pc \in {"save", "delete"})
      BY <2>2, <2>4, <3>2, RemovalsGoOn
    <3>. QED  BY <3>1, <3>2
  <2>. QED  BY <1>6, <2>1, <2>4
<1>10. ASSUME NEW a \in Admins, SaveRequest(a) \/ SaveQueueFailed(a) PROVE HidingKnown'
  <2>. DEFINE r == requests[a].run
              copy == requests[a].copy
  <2>1. UNCHANGED catalogue /\ (Refused(a) \/ Written(a))
    BY <1>10, Saving
  <2>2. CASE Refused(a)
    <3>1. Answer(a) /\ UNCHANGED <<stored, runs>> /\ r \notin stored
      BY <2>2 DEF Refused
    <3>2. \A q \in stored' : BeingRemoved(q) => BeingRemoved(q)'
      BY <1>0, <3>1, Acting, RemovalsGoOn
    <3>. QED  BY <1>6, <2>1, <3>1, <3>2
  <2>3. CASE Written(a)
    <3>1. requests'[a].pc \in {"idle", "enqueue"} /\ \A b \in Admins \ {a} : requests'[b] = requests[b]
      BY <1>0, <2>3, Acting DEF Written
    <3>2. /\ r \in Runs /\ stored' = stored \cup {r}
          /\ runs'[r] = copy /\ \A q \in Runs \ {r} : runs'[q] = runs[q]
      BY <1>0, <2>3 DEF Written
    <3>3. ASSUME copy.state = "published"
          PROVE  /\ copy.place \in Places /\ requests[a].op = "publish" /\ requests[a].pc = "save"
                 /\ catalogue[copy.place] # Nobody \/ Excused(copy.place, HidingCauses)
      <4>1. requests[a].pc = "save"
        BY <2>3, <3>3 DEF Written
      <4>. QED  BY <3>3, <4>1, PublishedPlace DEF Known, KnownRequest, HidingKnown, HidingRequest
    <3>4. HidingRequest(a)'
      BY <3>1 DEF HidingRequest
    <3>5. ASSUME NEW b \in Admins \ {a} PROVE HidingRequest(b)'
      <4>1. HidingRequest(b) /\ requests'[b] = requests[b]
        BY <3>1 DEF HidingKnown
      <4>2. ASSUME requests[b].pc = "remove", NEW q \in Runs \ {requests[b].run}, NEW p \in Places,
                   p = requests[b].copy.place, Shows(q, p)'
            PROVE  Excused(p, HidingCauses)'
        <5>1. CASE q = r
          <6>1. copy.state = "published" /\ copy.place = p
            BY <3>2, <4>2, <5>1 DEF Shows
          <6>2. requests[b].op \in {"archive", "delete"}
            BY <4>2 DEF Known, KnownRequest
          <6>3. PublishedUnderRemoval(p)
            BY <3>3, <4>2, <6>1, <6>2 DEF PublishedUnderRemoval, Waits
          <6>. QED  BY <6>3, Noting
        <5>2. CASE q # r
          <6>1. Shows(q, p)
            BY <3>2, <4>2, <5>2 DEF Shows
          <6>. QED  BY <4>1, <4>2, <6>1, Noting DEF HidingRequest
        <5>. QED  BY <5>1, <5>2
      <4>3. ASSUME requests[b].pc = "save", requests[b].copy.state = "published"
            PROVE  \/ catalogue'[requests[b].copy.place] # Nobody
                   \/ Excused(requests[b].copy.place, HidingCauses)'
        BY <2>1, <4>1, <4>3, Noting, PublishedPlace DEF HidingRequest
      <4>. QED  BY <4>1, <4>2, <4>3 DEF HidingRequest
    <3>6. ASSUME NEW q \in stored', runs'[q].state = "published" PROVE Seen(q)'
      <4>1. CASE q = r
        <5>1. runs'[q].place = copy.place /\ copy.state = "published"
          BY <3>2, <3>6, <4>1
        <5>. QED  BY <2>1, <3>3, <5>1, Noting DEF Seen
      <4>2. CASE q # r
        <5>1. q \in stored /\ runs'[q] = runs[q] /\ q \in Runs
          BY <1>0, <3>2, <4>2
        <5>2. Seen(q) /\ runs[q].place \in Places
          BY <3>6, <5>1, PublishedPlace DEF HidingKnown
        <5>3. BeingRemoved(q) => BeingRemoved(q)'
          BY <3>1, <4>2, RemovalsGoOn
        <5>. QED  BY <1>0, <2>1, <5>1, <5>2, <5>3, Noting DEF Seen
      <4>. QED  BY <4>1, <4>2
    <3>. QED  BY <3>4, <3>5, <3>6 DEF HidingKnown
  <2>. QED  BY <2>1, <2>2, <2>3
<1>11. ASSUME NEW a \in Admins, EnqueueFails(a) PROVE HidingKnown'
  <2>1. /\ requests[a].pc = "enqueue" /\ requests'[a].pc = "save_failed"
        /\ \A b \in Admins \ {a} : requests'[b] = requests[b]
        /\ UNCHANGED <<stored, runs, catalogue>>
    BY <1>0, <1>11, EnqueueingFails
  <2>2. HidingRequest(a)'
    BY <2>1 DEF HidingRequest
  <2>3. \A q : BeingRemoved(q) => BeingRemoved(q)'
    BY <2>1, RemovalsGoOn
  <2>. QED  BY <1>0, <2>1, <2>2, <2>3, HidingKept
<1>12. ASSUME UNCHANGED <<stored, requests, catalogue>>,
              \A q \in stored : runs'[q] = runs[q] \/ runs'[q].state # "published"
       PROVE  HidingKnown'
  <2>1. \A q : BeingRemoved(q)' = BeingRemoved(q)
    BY <1>12 DEF BeingRemoved
  <2>2. ASSUME NEW a \in Admins PROVE HidingRequest(a)'
    <3>1. HidingRequest(a)
      BY DEF HidingKnown
    <3>2. ASSUME requests[a].pc = "remove", NEW q \in Runs \ {requests[a].run}, NEW p \in Places,
                 p = requests[a].copy.place, Shows(q, p)'
          PROVE  Excused(p, HidingCauses)'
      <4>1. Shows(q, p)
        BY <1>12, <3>2 DEF Shows
      <4>. QED  BY <3>1, <3>2, <4>1, Noting DEF HidingRequest
    <3>3. ASSUME requests[a].pc = "save", requests[a].copy.state = "published"
          PROVE  \/ catalogue[requests[a].copy.place] # Nobody
                 \/ Excused(requests[a].copy.place, HidingCauses)'
      <4>1. requests[a].copy.place \in Places
        BY <3>3, PublishedPlace
      <4>. QED  BY <1>12, <3>1, <3>3, <4>1, Noting DEF HidingRequest
    <3>. QED  BY <1>12, <3>2, <3>3 DEF HidingRequest
  <2>3. ASSUME NEW q \in stored, runs'[q].state = "published" PROVE Seen(q)'
    <3>1. runs'[q] = runs[q] /\ Seen(q) /\ runs[q].place \in Places
      BY <1>0, <1>12, <2>3, PublishedPlace DEF HidingKnown
    <3>. QED  BY <1>0, <1>12, <2>1, <3>1, Noting DEF Seen
  <2>. QED  BY <1>12, <2>2, <2>3 DEF HidingKnown
<1>13. ASSUME NEW t \in Tasks, NEW stage, NEW next, Crawled(t, stage, next) PROVE HidingKnown'
  <2>1. UNCHANGED <<stored, requests, catalogue>>
    BY <1>13, CrawlWrites
  <2>2. \/ UNCHANGED runs
        \/ runs' = [runs EXCEPT ![tasks[t].run] = tasks[t].copy] /\ tasks[t].copy.state # "published"
    BY <1>13, CrawlWrites
  <2>3. \A q \in stored : runs'[q] = runs[q] \/ runs'[q].state # "published"
    BY <1>0, <2>2
  <2>. QED  BY <1>12, <2>1, <2>3
<1>14. ASSUME NEW t \in Tasks, Load(t) PROVE HidingKnown'
  BY <1>12, <1>14, LoadReads
<1>15. CASE (\E t \in Tasks : WorkerFails(t)) \/ (\E r \in Runs : ExpireTombstone(r))
  BY <1>12, <1>15, IdleSteps
<1>. QED  BY <1>1, <1>2, <1>3, <1>4, <1>5, <1>7, <1>8, <1>9, <1>10, <1>11, <1>13, <1>14, <1>15,
             ReceiveKinds, CrawlForm DEF Next, ServeRequest

-----------------------------------------------------------------------------
(***************************************************************************)
(* Live entries have records.  A deletion that leaves the entry alone has  *)
(* seen another record of the place; that one goes only by being moved or  *)
(* by a deletion at the same time, both of which are noted.                *)
(***************************************************************************)
OrphaningRequest(a) ==
    LET p == requests[a].copy.place IN
    /\ requests[a].pc = "delete" /\ p \in Places =>
         \/ catalogue[p] = Nobody
         \/ Represented(p, Runs \ {requests[a].run})
         \/ Excused(p, OrphaningCauses)
    /\ requests[a].pc = "publish" /\ p \in Places =>
         Represents(requests[a].run, p) \/ Excused(p, OrphaningCauses)

OrphaningKnown ==
    /\ \A a \in Admins : OrphaningRequest(a)
    /\ \A p \in Places : catalogue[p] # Nobody =>
         Represented(p, Runs) \/ Excused(p, OrphaningCauses)

\* A record that stays and no longer stands for its place has moved.
LEMMA StandsOn ==
  ASSUME CausesTyped, NoteCauses, NEW q \in Runs, NEW p \in Places, Represents(q, p), q \in stored'
  PROVE  Represents(q, p)' \/ Excused(p, OrphaningCauses)'
<1>1. CASE runs'[q].place = p
  BY <1>1 DEF Represents
<1>2. CASE runs'[q].place # p
  <2>1. Moved(q, p)
    BY <1>2 DEF Moved
  <2>. QED  BY <2>1, Noting
<1>. QED  BY <1>1, <1>2

\* A request that goes on as it was, where no record goes and no entry comes.
LEMMA OrphaningGoesOn ==
  ASSUME IInv, CausesTyped, NoteCauses, stored \subseteq stored', NEW b \in Admins,
         OrphaningRequest(b), requests'[b] = requests[b],
         \A p \in Places : /\ catalogue[p] = Nobody => catalogue'[p] = Nobody \/ Excused(p, OrphaningCauses)'
  PROVE  OrphaningRequest(b)'
<1>1. ASSUME NEW p \in Places, requests[b].copy.place = p, requests[b].pc = "delete"
      PROVE  \/ catalogue'[p] = Nobody
             \/ Represented(p, Runs \ {requests[b].run})'
             \/ Excused(p, OrphaningCauses)'
  <2>1. CASE catalogue[p] = Nobody \/ Excused(p, OrphaningCauses)
    BY <2>1, Noting
  <2>2. ASSUME NEW q \in Runs \ {requests[b].run}, Represents(q, p)
        PROVE  Represented(p, Runs \ {requests[b].run})' \/ Excused(p, OrphaningCauses)'
    <3>1. q \in stored'
      BY <2>2 DEF Represents
    <3>2. Represents(q, p)' \/ Excused(p, OrphaningCauses)'
      BY <2>2, <3>1, StandsOn
    <3>. QED  BY <3>2 DEF Represented
  <2>. QED  BY <1>1, <2>1, <2>2 DEF OrphaningRequest, Represented
<1>2. ASSUME NEW p \in Places, requests[b].copy.place = p, requests[b].pc = "publish"
      PROVE  Represents(requests[b].run, p)' \/ Excused(p, OrphaningCauses)'
  <2>1. CASE Excused(p, OrphaningCauses)
    BY <2>1, Noting
  <2>2. CASE Represents(requests[b].run, p)
    <3>1. requests[b].run \in Runs /\ requests[b].run \in stored'
      BY <2>2 DEF Represents, IInv, TypeOK
    <3>2. \A q : q = requests[b].run => Represents(q, p)' \/ Excused(p, OrphaningCauses)'
      BY <2>2, <3>1, StandsOn
    <3>. QED  BY <3>2
  <2>. QED  BY <1>2, <2>1, <2>2 DEF OrphaningRequest
<1>. QED  BY <1>1, <1>2 DEF OrphaningRequest

\* A step of one request, or of none, that keeps every record and brings no entry.
LEMMA OrphaningKept ==
  ASSUME IInv, CausesTyped, OrphaningKnown, NoteCauses, stored \subseteq stored',
         \A p \in Places : catalogue'[p] # Nobody => catalogue[p] # Nobody,
         \A b \in Admins : requests'[b] = requests[b] \/ OrphaningRequest(b)'
  PROVE  OrphaningKnown'
<1>1. ASSUME NEW b \in Admins PROVE OrphaningRequest(b)'
  <2>1. CASE requests'[b] = requests[b]
    <3>1. OrphaningRequest(b)
      BY DEF OrphaningKnown
    <3>. QED  BY <2>1, <3>1, OrphaningGoesOn
  <2>. QED  BY <2>1
<1>2. ASSUME NEW p \in Places, catalogue'[p] # Nobody
      PROVE  Represented(p, Runs)' \/ Excused(p, OrphaningCauses)'
  <2>1. CASE Excused(p, OrphaningCauses)
    BY <2>1, Noting
  <2>2. ASSUME NEW q \in Runs, Represents(q, p)
        PROVE  Represented(p, Runs)' \/ Excused(p, OrphaningCauses)'
    <3>1. q \in stored'
      BY <2>2 DEF Represents
    <3>2. Represents(q, p)' \/ Excused(p, OrphaningCauses)'
      BY <2>2, <3>1, StandsOn
    <3>. QED  BY <3>2 DEF Represented
  <2>. QED  BY <1>2, <2>1, <2>2 DEF OrphaningKnown, Represented
<1>. QED  BY <1>1, <1>2 DEF OrphaningKnown

LEMMA OrphaningStep ==
  ASSUME IInv, Known, CausesTyped, OrphaningKnown, Next, NoteCauses
  PROVE  OrphaningKnown'
<1>. USE DEF storeVars, historyVars
<1>0. /\ TypeOK /\ catalogue \in [Places -> Runs \cup {Nobody}] /\ NoPlace \notin Places
      /\ stored \subseteq Runs /\ runs \in [Runs -> Run] /\ requests \in [Admins -> Request]
  BY DEF IInv, TypeOK
<1>1. ASSUME NEW a \in Admins, NEW op, NEW r, NEW pc, NEW copy, ReceivedAs(a, op, r, pc, copy)
      PROVE  OrphaningKnown'
  <2>1. /\ requests'[a].op = op /\ requests'[a].run = r
        /\ requests'[a].pc = pc /\ requests'[a].copy = copy
        /\ \A b \in Admins \ {a} : requests'[b] = requests[b]
        /\ UNCHANGED <<stored, runs, catalogue>>
    BY <1>0, <1>1, Reading DEF ReceivedAs
  <2>2. /\ pc = "delete" => copy.place \notin Places
        /\ pc = "publish" => r \in stored /\ copy.place = runs[r].place
    BY <1>0, <1>1 DEF ReceivedAs, ReadsRun
  <2>3. OrphaningRequest(a)'
    BY <2>1, <2>2 DEF OrphaningRequest, Represents
  <2>. QED  BY <2>1, <2>3, OrphaningKept
<1>2. ASSUME NEW a \in Admins, requests'[a].pc \notin {"delete", "publish"}, stored \subseteq stored',
             UNCHANGED catalogue, \A b \in Admins \ {a} : requests'[b] = requests[b]
      PROVE  OrphaningKnown'
  <2>1. OrphaningRequest(a)'
    BY <1>2 DEF OrphaningRequest
  <2>. QED  BY <1>2, <2>1, OrphaningKept
<1>3. ASSUME NEW a \in Admins, FindByURL(a) PROVE OrphaningKnown'
  <2>1. UNCHANGED <<stored, catalogue>>
    BY <1>3 DEF FindByURL
  <2>2. /\ \A b \in Admins \ {a} : requests'[b] = requests[b]
        /\ requests'[a].pc \in {"idle", "save"}
    <3>1. CASE Answer(a)
      BY <1>0, <3>1, Acting
    <3>2. CASE requests' = [requests EXCEPT ![a].run = lastRun + 1, ![a].pc = "save"]
      BY <1>0, <3>2 DEF Request
    <3>. QED  BY <1>3, <3>1, <3>2 DEF FindByURL
  <2>. QED  BY <1>2, <2>1, <2>2
<1>4. ASSUME NEW a \in Admins, CheckAnother(a) \/ ListFails(a) PROVE OrphaningKnown'
  <2>1. UNCHANGED <<stored, runs, catalogue>> /\ requests[a].pc = "check"
    BY <1>4 DEF CheckAnother, ListFails
  <2>2. PICK pc \in {"remove", "save", "delete"} :
           /\ Goto(a, pc)
           /\ pc = "delete" => \/ AnotherRecordExists(requests[a].run, requests[a].copy.place)
                               \/ ListFails(a)
    BY <1>4 DEF CheckAnother, ListFails, AfterUnpublish
  <2>3. /\ requests'[a].pc = pc
        /\ requests'[a].run = requests[a].run /\ requests'[a].copy = requests[a].copy
        /\ \A b \in Admins \ {a} : requests'[b] = requests[b]
    BY <1>0, <2>2, Acting
  <2>4. ASSUME NEW p \in Places, p = requests[a].copy.place, pc = "delete"
        PROVE  Represented(p, Runs \ {requests[a].run})' \/ Excused(p, OrphaningCauses)'
    <3>1. CASE Represented(p, Runs \ {requests[a].run})
      BY <2>1, <2>3, <3>1 DEF Represented, Represents
    <3>2. CASE ~Represented(p, Runs \ {requests[a].run})
      <4>1. ~AnotherRecordExists(requests[a].run, p)
        BY <1>0, <3>2 DEF AnotherRecordExists, Represented, Represents, Listed
      <4>2. ListFails(a)
        BY <2>2, <2>4, <4>1
      <4>3. faults' # faults
        BY <1>0, <4>2 DEF ListFails, Fault, TypeOK
      <4>4. Unanswered(a)
        BY <2>1, <2>3, <2>4, <3>2, <4>3 DEF Unanswered
      <4>. QED  BY <2>4, <4>4, Noting
    <3>. QED  BY <3>1, <3>2
  <2>5. OrphaningRequest(a)'
    BY <2>3, <2>4 DEF OrphaningRequest
  <2>. QED  BY <2>1, <2>3, <2>5, OrphaningKept
<1>5. ASSUME NEW a \in Admins, RemoveEntry(a) PROVE OrphaningKnown'
  <2>1. /\ UNCHANGED <<stored, runs>> /\ requests[a].pc = "remove" /\ Goto(a, AfterUnpublish(a))
        /\ catalogue' = [catalogue EXCEPT ![requests[a].copy.place] = Nobody]
    BY <1>5 DEF RemoveEntry
  <2>2. /\ requests'[a].pc \in {"save", "delete"} /\ requests'[a].copy = requests[a].copy
        /\ \A b \in Admins \ {a} : requests'[b] = requests[b]
    BY <1>0, <2>1, Acting DEF AfterUnpublish
  <2>3. \A p \in Places : /\ p = requests[a].copy.place => catalogue'[p] = Nobody
                          /\ catalogue'[p] # Nobody => catalogue[p] # Nobody
    BY <1>0, <2>1
  <2>4. OrphaningRequest(a)'
    BY <2>2, <2>3 DEF OrphaningRequest
  <2>. QED  BY <2>1, <2>2, <2>3, <2>4, OrphaningKept
<1>6. ASSUME NEW a \in Admins, PublishEntry(a) PROVE OrphaningKnown'
  <2>. DEFINE place == requests[a].copy.place
  <2>1. /\ UNCHANGED <<stored, runs>> /\ requests[a].pc = "publish" /\ Goto(a, "save")
        /\ catalogue' = [catalogue EXCEPT ![place] = requests[a].run]
    BY <1>6 DEF PublishEntry
  <2>2. requests'[a].pc = "save" /\ \A b \in Admins \ {a} : requests'[b] = requests[b]
    BY <1>0, <2>1, Acting
  <2>3. \A p \in Places : p # place => catalogue'[p] = catalogue[p]
    BY <1>0, <2>1
  <2>4. requests[a].op = "publish" /\ requests[a].run \in Runs
    BY <2>1 DEF Known, KnownRequest, IInv, IdsDrawn
  <2>5. OrphaningRequest(a)'
    BY <2>2 DEF OrphaningRequest
  <2>6. ASSUME NEW b \in Admins \ {a} PROVE OrphaningRequest(b)'
    <3>1. OrphaningRequest(b) /\ requests'[b] = requests[b]
      BY <2>2 DEF OrphaningKnown
    <3>2. CASE requests[b].pc = "delete" /\ requests[b].copy.place = place /\ place \in Places
      <4>1. requests[b].op = "delete"
        BY <3>2 DEF Known, KnownRequest
      <4>2. Waits(b, "delete", "delete", place) /\ Waits(a, "publish", "publish", place)
        BY <2>1, <2>4, <3>2, <4>1 DEF Waits
      <4>3. \A p \in Places : p = place => DeletedUnderPublication(p)
        BY <4>2 DEF DeletedUnderPublication
      <4>4. \A p \in Places : p = place => Excused(p, OrphaningCauses)'
        BY <4>3, Noting
      <4>. QED  BY <3>1, <3>2, <4>4 DEF OrphaningRequest
    <3>3. CASE requests[b].pc = "delete" /\ requests[b].copy.place # place
      <4>1. ASSUME NEW p \in Places, p = requests[b].copy.place
            PROVE  \/ catalogue'[p] = Nobody
                   \/ Represented(p, Runs \ {requests[b].run})'
                   \/ Excused(p, OrphaningCauses)'
        BY <2>1, <2>3, <3>1, <3>3, <4>1, Noting DEF OrphaningRequest, Represented, Represents
      <4>. QED  BY <3>1, <3>3, <4>1 DEF OrphaningRequest
    <3>4. CASE requests[b].pc # "delete"
      <4>1. ASSUME NEW p \in Places, p = requests[b].copy.place, requests[b].pc = "publish"
            PROVE  Represents(requests[b].run, p)' \/ Excused(p, OrphaningCauses)'
        <5>1. Represents(requests[b].run, p) \/ Excused(p, OrphaningCauses)
          BY <3>1, <4>1 DEF OrphaningRequest
        <5>2. CASE Represents(requests[b].run, p)
          BY <2>1, <3>1, <5>2 DEF Represents
        <5>. QED  BY <5>1, <5>2, Noting
      <4>. QED  BY <3>1, <3>4, <4>1 DEF OrphaningRequest
    <3>5. CASE requests[b].copy.place \notin Places
      BY <3>1, <3>5 DEF OrphaningRequest
    <3>. QED  BY <3>2, <3>3, <3>4, <3>5
  <2>7. ASSUME NEW p \in Places, catalogue'[p] # Nobody
        PROVE  Represented(p, Runs)' \/ Excused(p, OrphaningCauses)'
    <3>1. Represented(p, Runs) \/ Excused(p, OrphaningCauses)
      <4>1. CASE p = place
        BY <2>1, <2>4, <4>1 DEF OrphaningKnown, OrphaningRequest, Represented
      <4>2. CASE p # place
        BY <2>3, <2>7, <4>2 DEF OrphaningKnown
      <4>. QED  BY <4>1, <4>2
    <3>2. Represented(p, Runs) => Represented(p, Runs)'
      BY <2>1 DEF Represented, Represents
    <3>. QED  BY <3>1, <3>2, Noting
  <2>. QED  BY <2>5, <2>6, <2>7 DEF OrphaningKnown
<1>7. ASSUME NEW a \in Admins, DeleteRun(a), Deleted(a) PROVE OrphaningKnown'
  <2>. DEFINE r == requests[a].run
  <2>1. /\ requests[a].pc = "delete" /\ requests'[a].pc = "idle"
        /\ \A b \in Admins \ {a} : requests'[b] = requests[b]
        /\ UNCHANGED catalogue /\ r \in stored /\ stored' = stored \ {r}
        /\ requests[a].op = "delete"
    BY <1>0, <1>7, Deleting, Acting DEF Deleted, Known, KnownRequest
  <2>2. ASSUME NEW p \in Places, Represents(r, p)
        PROVE  requests[a].copy.place = p \/ Excused(p, OrphaningCauses)'
    <3>1. requests[a].copy.place # p => Moved(r, p)
      BY <2>1, <2>2 DEF Moved
    <3>2. r \in Runs
      BY <1>0, <2>1
    <3>. QED  BY <3>1, <3>2, Noting
  <2>3. ASSUME NEW p \in Places, NEW q \in Runs \ {r}, Represents(q, p)
        PROVE  Represents(q, p)' \/ Excused(p, OrphaningCauses)'
    <3>1. q \in stored'
      BY <2>1, <2>3 DEF Represents
    <3>. QED  BY <2>3, <3>1, StandsOn
  <2>4. OrphaningRequest(a)'
    BY <2>1 DEF OrphaningRequest
  <2>5. ASSUME NEW b \in Admins \ {a} PROVE OrphaningRequest(b)'
    <3>1. OrphaningRequest(b) /\ requests'[b] = requests[b]
      BY <2>1 DEF OrphaningKnown
    <3>2. ASSUME NEW p \in Places, p = requests[b].copy.place, requests[b].pc = "delete"
          PROVE  \/ catalogue'[p] = Nobody
                 \/ Represented(p, Runs \ {requests[b].run})'
                 \/ Excused(p, OrphaningCauses)'
      <4>1. CASE catalogue[p] = Nobody \/ Excused(p, OrphaningCauses)
        BY <2>1, <4>1, Noting
      <4>2. ASSUME NEW q \in Runs \ {requests[b].run}, Represents(q, p)
            PROVE  Represented(p, Runs \ {requests[b].run})' \/ Excused(p, OrphaningCauses)'
        <5>1. CASE q = r
          <6>1. requests[a].copy.place = p => DeletedTogether(p)
            <7>1. requests[b].op = "delete"
              BY <3>2 DEF Known, KnownRequest
            <7>2. requests[a].copy.place = p =>
                    Waits(a, "delete", "delete", p) /\ Waits(b, "delete", "delete", p)
              BY <2>1, <3>2, <7>1 DEF Waits
            <7>. QED  BY <4>2, <5>1, <7>2 DEF DeletedTogether
          <6>. QED  BY <2>2, <4>2, <5>1, <6>1, Noting
        <5>2. CASE q # r
          BY <2>3, <3>1, <4>2, <5>2 DEF Represented
        <5>. QED  BY <5>1, <5>2
      <4>. QED  BY <3>1, <3>2, <4>1, <4>2 DEF OrphaningRequest, Represented
    <3>3. ASSUME NEW p \in Places, p = requests[b].copy.place, requests[b].pc = "publish"
          PROVE  Represents(requests[b].run, p)' \/ Excused(p, OrphaningCauses)'
      <4>1. CASE Excused(p, OrphaningCauses)
        BY <4>1, Noting
      <4>2. CASE Represents(requests[b].run, p)
        <5>1. requests[b].run \in Runs
          BY <1>0, <4>2 DEF Represents
        <5>2. CASE requests[b].run = r
          <6>1. requests[b].op = "publish"
            BY <3>3 DEF Known, KnownRequest
          <6>2. requests[a].copy.place = p =>
                  Waits(a, "delete", "delete", p) /\ Waits(b, "publish", "publish", p)
            BY <2>1, <3>3, <6>1 DEF Waits
          <6>3. requests[a].copy.place = p => DeletedUnderPublication(p)
            BY <6>2 DEF DeletedUnderPublication
          <6>. QED  BY <2>2, <4>2, <5>2, <6>3, Noting
        <5>3. CASE requests[b].run # r
          <6>1. \A q \in Runs \ {r} : q = requests[b].run => Represents(q, p)' \/ Excused(p, OrphaningCauses)'
            BY <2>3, <4>2
          <6>. QED  BY <3>1, <5>1, <5>3, <6>1
        <5>. QED  BY <5>2, <5>3
      <4>. QED  BY <3>1, <3>3, <4>1, <4>2 DEF OrphaningRequest
    <3>. QED  BY <3>1, <3>2, <3>3 DEF OrphaningRequest
  <2>6. ASSUME NEW p \in Places, catalogue'[p] # Nobody
        PROVE  Represented(p, Runs)' \/ Excused(p, OrphaningCauses)'
    <3>1. CASE Excused(p, OrphaningCauses)
      BY <3>1, Noting
    <3>2. ASSUME NEW q \in Runs \ {r}, Represents(q, p)
          PROVE  Represented(p, Runs)' \/ Excused(p, OrphaningCauses)'
      BY <2>3, <3>2 DEF Represented
    <3>3. CASE Represents(r, p) /\ requests[a].copy.place = p
      <4>1. Represented(p, Runs \ {r}) \/ Excused(p, OrphaningCauses)
        BY <2>1, <2>6, <3>3 DEF OrphaningKnown, OrphaningRequest
      <4>. QED  BY <3>1, <3>2, <4>1 DEF Represented
    <3>4. Represented(p, Runs) \/ Excused(p, OrphaningCauses)
      BY <2>1, <2>6 DEF OrphaningKnown
    <3>. QED  BY <2>2, <3>1, <3>2, <3>3, <3>4 DEF Represented
  <2>. QED  BY <2>4, <2>5, <2>6 DEF OrphaningKnown
<1>8. ASSUME NEW a \in Admins, DeleteRun(a) PROVE OrphaningKnown'
  <2>1. CASE requests[a].run \notin stored /\ UNCHANGED stored
    <3>1. requests'[a].pc = "idle" /\ \A b \in Admins \ {a} : requests'[b] = requests[b]
      BY <1>0, <1>8, Deleting, Acting
    <3>. QED  BY <1>0, <1>2, <1>8, <2>1, <3>1, Deleting
  <2>. QED  BY <1>0, <1>7, <1>8, <2>1, Deleting
<1>9. ASSUME NEW a \in Admins, Enqueue(a) \/ RequestFails(a) PROVE OrphaningKnown'
  <2>1. Answer(a) /\ UNCHANGED <<stored, catalogue>>
    BY <1>9 DEF Enqueue, RequestFails
  <2>2. requests'[a].pc = "idle" /\ \A b \in Admins \ {a} : requests'[b] = requests[b]
    BY <1>0, <2>1, Acting
  <2>. QED  BY <1>2, <2>1, <2>2
<1>10. ASSUME NEW a \in Admins, SaveRequest(a) \/ SaveQueueFailed(a) PROVE OrphaningKnown'
  <2>1. UNCHANGED catalogue /\ (Refused(a) \/ Written(a))
    BY <1>10, Saving
  <2>2. stored \subseteq stored' /\ (Answer(a) \/ Goto(a, "enqueue"))
    BY <2>1 DEF Refused, Written
  <2>3. requests'[a].pc \in {"idle", "enqueue"} /\ \A b \in Admins \ {a} : requests'[b] = requests[b]
    BY <1>0, <2>2, Acting
  <2>. QED  BY <1>2, <2>1, <2>2, <2>3
<1>11. ASSUME NEW a \in Admins, EnqueueFails(a) PROVE OrphaningKnown'
  BY <1>0, <1>2, <1>11, EnqueueingFails
<1>12. ASSUME UNCHANGED <<stored, requests, catalogue>> PROVE OrphaningKnown'
  BY <1>12, OrphaningKept
<1>13. ASSUME NEW t \in Tasks, NEW stage, NEW next, Crawled(t, stage, next) PROVE OrphaningKnown'
  BY <1>12, <1>13, CrawlWrites
<1>14. ASSUME NEW t \in Tasks, Load(t) PROVE OrphaningKnown'
  BY <1>12, <1>14, LoadReads
<1>15. CASE (\E t \in Tasks : WorkerFails(t)) \/ (\E r \in Runs : ExpireTombstone(r))
  BY <1>12, <1>15, IdleSteps
<1>. QED  BY <1>1, <1>3, <1>4, <1>5, <1>6, <1>8, <1>9, <1>10, <1>11, <1>13, <1>14, <1>15,
             ReceiveKinds, CrawlForm DEF Next, ServeRequest

-----------------------------------------------------------------------------
(***************************************************************************)
(* The theorems about entries.                                             *)
(***************************************************************************)
EntriesKnown == Known /\ UrlsKnown /\ CausesTyped /\ HidingKnown /\ OrphaningKnown

LEMMA InitEntriesKnown ==
  ASSUME TracedInit
  PROVE  EntriesKnown
<1>1. /\ stored = {} /\ catalogue = [p \in Places |-> Nobody] /\ causes = [p \in Places |-> {}]
      /\ \A a \in Admins : requests[a].pc = "idle"
      /\ \A t \in Tasks : tasks[t].status # "active"
  BY DEF TracedInit, Init, Idle, FreeTask
<1>2. \A a \in Admins : ~Creating(a) /\ ~AtWork(a)
  BY <1>1 DEF Creating, AtWork
<1>3. Known
  BY <1>1, <1>2 DEF Known, KnownRequest
<1>4. UrlsKnown
  BY <1>1, <1>2 DEF UrlsKnown, Named
<1>5. CausesTyped
  BY <1>1 DEF CausesTyped
<1>6. HidingKnown
  BY <1>1 DEF HidingKnown, HidingRequest
<1>7. OrphaningKnown
  BY <1>1 DEF OrphaningKnown, OrphaningRequest
<1>. QED  BY <1>3, <1>4, <1>5, <1>6, <1>7 DEF EntriesKnown

LEMMA StutterEntriesKnown ==
  ASSUME IInv, EntriesKnown, UNCHANGED allVars
  PROVE  EntriesKnown'
<1>. USE DEF vars, storeVars, historyVars, allVars, historyOfEntries
<1>1. Known'
  BY KnownStep DEF EntriesKnown
<1>2. UrlsKnown'
  BY UrlsStep DEF EntriesKnown
<1>3. CausesTyped'
  BY CausesStep DEF EntriesKnown
<1>4. HidingKnown'
  BY DEF EntriesKnown, HidingKnown, HidingRequest, Shows, Seen, Excused, BeingRemoved
<1>5. OrphaningKnown'
  BY DEF EntriesKnown, OrphaningKnown, OrphaningRequest, Represented, Represents, Excused
<1>. QED  BY <1>1, <1>2, <1>3, <1>4, <1>5 DEF EntriesKnown

LEMMA StepEntriesKnown ==
  ASSUME IInv, EntriesKnown, [TracedNext]_allVars
  PROVE  EntriesKnown'
<1>1. CASE TracedNext
  <2>1. Next /\ NoteUnseen /\ NoteCauses /\ NoteCutOff /\ IInv'
    BY <1>1, StepIInv DEF TracedNext
  <2>. QED  BY <2>1, KnownStep, UrlsStep, CausesStep, HidingStep, OrphaningStep DEF EntriesKnown
<1>2. CASE UNCHANGED allVars
  BY <1>2, StutterEntriesKnown
<1>. QED  BY <1>1, <1>2

\* What the requests and the crawls know holds in every state of every behaviour.
THEOREM EntriesInductive == TracedSpec => [](IInv /\ EntriesKnown)
<1>1. TracedInit => IInv /\ EntriesKnown
  BY InitIInv, InitEntriesKnown DEF TracedInit
<1>2. IInv /\ EntriesKnown /\ [TracedNext]_allVars => IInv' /\ EntriesKnown'
  <2>1. [TracedNext]_allVars => [Next]_vars
    BY DEF TracedNext, allVars
  <2>. QED  BY <2>1, StepIInv, StepEntriesKnown
<1>. QED  BY <1>1, <1>2, PTL DEF TracedSpec

\* Two records have the same URL only where the second was forced, or where the
\* check before it could not see the first: a record still being created, or one
\* beyond the end of the list.  No crawl, retry, deletion or stale copy makes a
\* duplicate, whatever overlaps (service.go Create and findByURL, store.go List).
THEOREM DuplicatesHaveCauses == TracedSpec => []DuplicatesAreExplained
<1>1. IInv /\ EntriesKnown => DuplicatesAreExplained
  <2>1. ASSUME IInv, EntriesKnown, NEW q \in stored, NEW r \in stored, q < r, runs[q].url = runs[r].url
        PROVE  r \in forced \/ <<q, r>> \in unseen
    <3>1. q \in Runs /\ r \in Runs /\ runs[q].url \in Urls
      BY <2>1 DEF IInv, TypeOK, Run
    <3>2. \A u \in Urls : u = runs[q].url => Named(q, u) /\ Named(r, u)
      BY <2>1 DEF Named
    <3>. QED  BY <2>1, <3>1, <3>2 DEF EntriesKnown, UrlsKnown, Explained
  <2>. QED  BY <2>1 DEF DuplicatesAreExplained
<1>. QED  BY <1>1, EntriesInductive, PTL

\* A published record is hidden from visitors only while its own removal is at
\* work or was cut off, or after a removal of its place whose list ended before
\* it or which overlapped a publication (service.go Update, Delete and
\* anotherRecordExists, store.go List).
THEOREM HiddenHaveCauses == TracedSpec => []HiddenIsExplained
<1>1. IInv /\ EntriesKnown => HiddenIsExplained
  BY DEF EntriesKnown, HidingKnown, Seen, Excused, HiddenIsExplained
<1>. QED  BY <1>1, EntriesInductive, PTL

\* A live entry is without a record only where a deletion could not read the list,
\* or was overlapped by another or by a publication, or where a record has changed
\* its place (service.go Delete and anotherRecordExists, worker.go Handle).
THEOREM OrphansHaveCauses == TracedSpec => []OrphansAreExplained
<1>1. IInv /\ EntriesKnown => OrphansAreExplained
  BY DEF EntriesKnown, OrphaningKnown, Excused, OrphansAreExplained
<1>. QED  BY <1>1, EntriesInductive, PTL

=============================================================================

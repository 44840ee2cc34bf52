----------------------------- MODULE AdminQueue -----------------------------
(***************************************************************************)
(* One page of the admin app: the review queue it shows (useIngestionRuns) *)
(* and the session it lives in (useSession), against an API that answers   *)
(* its requests in any order, or not at all.                               *)
(*                                                                         *)
(* The page asks for the list of runs when it opens, every 1.5 seconds     *)
(* while it shows a run that is being crawled, and again some time after a *)
(* list that failed.  The answers to the administrator's own requests are  *)
(* patched into the list shown.  Nothing ties an answer to the state the   *)
(* page has reached meanwhile: any answer may find a newer list, or a page *)
(* that has already gone back to sign-in.                                  *)
(*                                                                         *)
(* The hooks' refs outlive the components they belong to: retryTimer and   *)
(* the timeouts of the browser are kept apart here.                        *)
(***************************************************************************)
EXTENDS Naturals, Sequences, FiniteSets

CONSTANTS
    Runs,           \* identifiers of runs
    Calls,          \* the calls of the page that may be under way at once
    MaxDelay,       \* the retry delay doubles up to this many times
    MaxOperations,  \* what the administrator and the session may do
    MaxFaults       \* requests that fail

ASSUME AdminQueueAssumption ==
    /\ Cardinality(Calls) > 0
    /\ MaxDelay \in Nat /\ MaxOperations \in Nat /\ MaxFaults \in Nat

VARIABLES
    server,        \* the state of each run at the API
    session,       \* the cookie the page sends is of a live session
    status,        \* useSession's status
    rows,          \* the states of the rows shown for each run
    calls,         \* the requests of the page
    retryTimer,    \* retryTimer.current is set
    timeouts,      \* load timeouts the browser holds
    delay,         \* doublings of retryDelay.current
    reconnecting,  \* the page says it retries
    operations,    \* left
    faults         \* left

page == <<rows, retryTimer, timeouts, delay, reconnecting>>
vars == <<server, session, status, page, calls, operations, faults>>

States == {"absent", "enriching", "needs_review", "published", "deleted"}
Edits == {"publish", "refresh", "delete"}
List == "list"  \* the one target of a request that names no run
Targets == Runs \cup {List}

(***************************************************************************)
(* What a request came to: the API did it, refused it, answered 401, or    *)
(* was not reached; and the runs its answer carries, in their new state.   *)
(***************************************************************************)
Outcomes == {"done", "refused", "unauthorized", "unreachable"}
Answer == [outcome: Outcomes, runs: UNION {[R -> States]: R \in SUBSET Runs}]

\* A call of the app sends one request for each of its targets, and goes on when all have answered.
Kinds == {"idle", "list", "create", "logout"} \cup Edits
Idle == [kind |-> "idle", todo |-> {}, got |-> <<>>]

\* The type invariant: timeouts never pile up, and the delay stops doubling.
TypeOK ==
    /\ server \in [Runs -> States]
    /\ session \in BOOLEAN
    /\ status \in {"checking", "signed-in", "signed-out"}
    /\ \A r \in Runs: Len(rows[r]) <= 2 /\ \A i \in DOMAIN rows[r]: rows[r][i] \in States
    /\ \A c \in Calls:
           /\ calls[c].kind \in Kinds
           /\ calls[c].todo \subseteq Targets /\ DOMAIN calls[c].got \subseteq Targets
           /\ \A t \in DOMAIN calls[c].got: calls[c].got[t] \in Answer
    /\ retryTimer \in BOOLEAN
    /\ timeouts \in 0 .. 1
    /\ delay \in 0 .. MaxDelay
    /\ reconnecting \in BOOLEAN
    /\ operations \in 0 .. MaxOperations
    /\ faults \in 0 .. MaxFaults
-----------------------------------------------------------------------------
\* The page has opened at sign-in or at a session that may have ended; some runs exist.
Init ==
    /\ server \in [Runs -> {"absent", "enriching"}]
    /\ session \in BOOLEAN
    /\ status = "checking"
    /\ rows = [r \in Runs |-> <<>>]
    /\ calls = [c \in Calls |-> Idle]
    /\ retryTimer = FALSE /\ timeouts = 0 /\ delay = 0 /\ reconnecting = FALSE
    /\ operations = MaxOperations
    /\ faults = MaxFaults

Sent(kind, targets) == [kind |-> kind, todo |-> targets, got |-> <<>>]

\* The call c is free for a request of this kind.
Start(c, kind, targets) ==
    /\ calls[c] = Idle
    /\ calls' = [calls EXCEPT ![c] = Sent(kind, targets)]

Mounted == status = "signed-in"

\* The session lookup answers; the dashboard mounts and loads the queue.
Bootstrap(c) ==
    /\ status = "checking"
    /\ \/ /\ session
          /\ status' = "signed-in"
          /\ Start(c, "list", {List})
       \/ /\ ~session \/ faults > 0
          /\ status' = "signed-out"
          /\ UNCHANGED calls
    /\ UNCHANGED <<server, session, page, operations, faults>>

Enriching(r) == \E i \in DOMAIN rows[r]: rows[r][i] = "enriching"

Shown == {r \in Runs: rows[r] # <<>>}

PollsForAll == Shown # {} /\ \A r \in Shown: Enriching(r)  \* mutant: only a queue that is all being crawled

\* The queue is polled while it shows a run that is being crawled.
Polls == \E r \in Runs: Enriching(r)

Poll(c) ==
    /\ Mounted
    /\ Polls
    /\ Start(c, "list", {List})
    /\ UNCHANGED <<server, session, status, page, operations, faults>>

TimerFiresStillHeld(c) ==  \* mutant: retryTimer.current is not reset
    /\ timeouts > 0
    /\ timeouts' = timeouts - 1
    /\ Start(c, "list", {List})
    /\ UNCHANGED <<server, session, status, rows, retryTimer, delay, reconnecting, operations, faults>>

\* A retry comes due, whether or not the dashboard is still there.
TimerFires(c) ==
    /\ timeouts > 0
    /\ timeouts' = timeouts - 1
    /\ retryTimer' = FALSE
    /\ Start(c, "list", {List})
    /\ UNCHANGED <<server, session, status, rows, delay, reconnecting, operations, faults>>
-----------------------------------------------------------------------------
(***************************************************************************)
(* The administrator, here and elsewhere.                                  *)
(***************************************************************************)

Operate == operations > 0 /\ operations' = operations - 1

Reload(c) ==
    /\ Mounted /\ Operate
    /\ Start(c, "list", {List})
    /\ UNCHANGED <<server, session, status, page, faults>>

Submitting == \E c \in Calls: calls[c].kind = "create"

Create(c) ==
    /\ Mounted /\ Operate
    /\ ~Submitting
    /\ Start(c, "create", {List})
    /\ UNCHANGED <<server, session, status, page, faults>>

\* One record or a selection; a bulk publication skips what is published.
Edit(c, kind, chosen) ==
    /\ Mounted /\ Operate
    /\ LET targets == IF kind = "publish"
                      THEN {r \in chosen: rows[r][1] # "published"} ELSE chosen
       IN  targets # {} /\ Start(c, kind, targets)
    /\ UNCHANGED <<server, session, status, page, faults>>

SignOut(c) ==
    /\ Mounted /\ Operate
    /\ Start(c, "logout", {List})
    /\ UNCHANGED <<server, session, status, page, faults>>

\* A session ends on its own, or the link is followed in another tab.
SessionChanges ==
    /\ Operate
    /\ session' = ~session
    /\ UNCHANGED <<server, status, page, calls, faults>>

Crawl(r) ==
    /\ server[r] = "enriching"
    /\ server' = [server EXCEPT ![r] = "needs_review"]
    /\ UNCHANGED <<session, status, page, calls, operations, faults>>
-----------------------------------------------------------------------------
(***************************************************************************)
(* The API.                                                                *)
(***************************************************************************)

Answered(c, t, outcome, runs) ==
    calls' = [calls EXCEPT ![c].todo = @ \ {t},
                           ![c].got = [u \in DOMAIN @ \cup {t} |->
                               IF u = t THEN [outcome |-> outcome, runs |-> runs] ELSE @[u]]]

Listed == [r \in {q \in Runs: server[q] \notin {"absent", "deleted"}} |-> server[r]]

\* The API does it, whether or not its answer arrives.
Does(c, t, runs) ==
    \/ Answered(c, t, "done", runs) /\ UNCHANGED faults
    \/ Answered(c, t, "unreachable", <<>>) /\ faults > 0 /\ faults' = faults - 1

Becomes(c, t, r, state) ==
    /\ server' = [server EXCEPT ![r] = state]
    /\ Does(c, t, IF state = "deleted" THEN <<>> ELSE [q \in {r} |-> state])

Refuses(c, t, outcome) == Answered(c, t, outcome, <<>>) /\ UNCHANGED <<server, faults>>

EndSession(c, t) ==
    /\ calls[c].kind = "logout"
    /\ Does(c, t, <<>>)
    /\ session' = FALSE
    /\ UNCHANGED server

\* What a request of a signed-in contributor comes to.
Serve(c, t) ==
    \/ calls[c].kind = "list" /\ Does(c, t, Listed) /\ UNCHANGED server
    \/ calls[c].kind = "create" /\ \E r \in Runs: server[r] = "absent" /\ Becomes(c, t, r, "enriching")
    \/ calls[c].kind = "create" /\ Refuses(c, t, "refused")
    \/ calls[c].kind = "refresh" /\ server[t] # "deleted" /\ Becomes(c, t, t, "enriching")
    \/ calls[c].kind = "publish" /\ server[t] = "needs_review" /\ Becomes(c, t, t, "published")
    \/ calls[c].kind = "publish" /\ server[t] # "needs_review" /\ Refuses(c, t, "refused")
    \/ calls[c].kind = "delete" /\ server[t] # "deleted" /\ Becomes(c, t, t, "deleted")
    \/ calls[c].kind \in {"refresh", "delete"} /\ server[t] = "deleted" /\ Refuses(c, t, "refused")

Handle(c, t) ==
    /\ t \in calls[c].todo
    /\ \/ EndSession(c, t)
       \/ /\ calls[c].kind # "logout" /\ UNCHANGED session
          /\ \/ ~session /\ Refuses(c, t, "unauthorized")
             \/ session /\ Serve(c, t)
    /\ UNCHANGED <<status, page, operations>>

\* A request that never reaches the API, or that it does not answer within 15 seconds.
Unreachable(c, t) ==
    /\ t \in calls[c].todo
    /\ faults > 0 /\ faults' = faults - 1
    /\ Answered(c, t, "unreachable", <<>>)
    /\ UNCHANGED <<server, session, status, page, operations>>
-----------------------------------------------------------------------------
(***************************************************************************)
(* The answers at the page.  State set after the dashboard is gone is lost *)
(* (rows, reconnecting); refs and timeouts are not.                        *)
(***************************************************************************)

Results(c) == {calls[c].got[t]: t \in DOMAIN calls[c].got}
Got(c, outcome) == \E a \in Results(c): a.outcome = outcome

\* An expired session is handed to useSession's signOut, which ends it at the API too.
ReportUnauthorized(c) ==
    calls' = [calls EXCEPT ![c] = IF Got(c, "unauthorized") THEN Sent("logout", {List}) ELSE Idle]

\* The runs that the answers of a call carry, in their new states.
News(c) == UNION {{<<r, a.runs[r]>>: r \in DOMAIN a.runs}: a \in Results(c)}

SetRows(new) == rows' = IF Mounted THEN new ELSE rows

ClearTimeout == timeouts' = IF retryTimer /\ timeouts > 0 THEN timeouts - 1 ELSE timeouts

ListAnswers(c) ==
    /\ Got(c, "done")
    /\ SetRows([r \in Runs |-> IF \E s \in States: <<r, s>> \in News(c)
                               THEN <<CHOOSE s \in States: <<r, s>> \in News(c)>> ELSE <<>>])
    /\ reconnecting' = (reconnecting /\ ~Mounted)
    /\ delay' = 0
    /\ ClearTimeout
    /\ retryTimer' = FALSE
    /\ ReportUnauthorized(c)

RetriesAgain == TRUE  \* mutant: a retry for each failure

\* A failed list is asked for again after a delay, one retry at a time.
Retries == ~retryTimer

ListFails(c) ==
    /\ ~Got(c, "done")
    /\ IF Retries
       THEN /\ retryTimer' = TRUE
            /\ timeouts' = timeouts + 1
            /\ delay' = IF delay < MaxDelay THEN delay + 1 ELSE delay
            /\ reconnecting' = (reconnecting \/ Mounted)
       ELSE UNCHANGED <<retryTimer, timeouts, delay, reconnecting>>
    /\ ReportUnauthorized(c)
    /\ UNCHANGED rows

\* A created run is put before the list, which may have been polled with it already.
CreateAnswers(c) ==
    /\ SetRows([r \in Runs |-> IF <<r, "enriching">> \in News(c) THEN <<"enriching">> \o rows[r] ELSE rows[r]])
    /\ ReportUnauthorized(c)
    /\ UNCHANGED <<retryTimer, timeouts, delay, reconnecting>>

\* An edit replaces the rows of its runs, where they are still shown; a deletion drops them.
EditAnswers(c) ==
    /\ SetRows([r \in Runs |->
           IF calls[c].kind = "delete"
           THEN IF r \in DOMAIN calls[c].got /\ calls[c].got[r].outcome = "done" THEN <<>> ELSE rows[r]
           ELSE [i \in DOMAIN rows[r] |->
                    IF \E s \in States: <<r, s>> \in News(c)
                    THEN CHOOSE s \in States: <<r, s>> \in News(c) ELSE rows[r][i]]])
    /\ ReportUnauthorized(c)
    /\ UNCHANGED <<retryTimer, timeouts, delay, reconnecting>>

\* The session is dropped even if the request failed; the dashboard unmounts and stops its retry.
SignedOut(c) ==
    /\ status' = "signed-out"
    /\ rows' = [r \in Runs |-> <<>>]
    /\ reconnecting' = FALSE
    /\ IF Mounted THEN ClearTimeout ELSE UNCHANGED timeouts
    /\ calls' = [calls EXCEPT ![c] = Idle]
    /\ UNCHANGED <<retryTimer, delay>>

Receive(c) ==
    /\ calls[c] # Idle /\ calls[c].todo = {}
    /\ \/ /\ calls[c].kind = "list" /\ UNCHANGED status
          /\ ListAnswers(c) \/ ListFails(c)
       \/ calls[c].kind = "create" /\ CreateAnswers(c) /\ UNCHANGED status
       \/ calls[c].kind \in Edits /\ EditAnswers(c) /\ UNCHANGED status
       \/ calls[c].kind = "logout" /\ SignedOut(c)
    /\ UNCHANGED <<server, session, operations, faults>>
-----------------------------------------------------------------------------
Administrator ==
    \/ SessionChanges
    \/ \E c \in Calls:
          \/ Reload(c) \/ Create(c) \/ SignOut(c)
          \/ \E kind \in Edits, chosen \in SUBSET Shown: Edit(c, kind, chosen)

Next ==
    \/ Administrator
    \/ \E r \in Runs: Crawl(r)
    \/ \E c \in Calls:
          \/ Bootstrap(c) \/ Poll(c) \/ TimerFires(c) \/ Receive(c)
          \/ \E t \in Targets: Handle(c, t) \/ Unreachable(c, t)

Spec == Init /\ [][Next]_vars

(***************************************************************************)
(* Intervals and timeouts fire, crawls end (see Ingestion), and a request  *)
(* is answered or times out.  Nobody has to use the page.                  *)
(***************************************************************************)
FairSpec ==
    /\ Spec
    /\ \A r \in Runs: WF_vars(Crawl(r))
    /\ WF_vars(\E c \in Calls: Poll(c))
    /\ WF_vars(\E c \in Calls: TimerFires(c))
    /\ \A c \in Calls: WF_vars(Receive(c)) /\ WF_vars(\E t \in Targets: Handle(c, t))
-----------------------------------------------------------------------------
(***************************************************************************)
(* A page that says it retries does: a retry is pending or a list is on    *)
(* its way (the banner's "Retrying automatically", and the loop of load).  *)
(***************************************************************************)
BannerIsTrue ==
    reconnecting => timeouts = 1 \/ \E c \in Calls: calls[c].kind = "list"

(***************************************************************************)
(* However late and out of order the answers arrive, a run is not shown as *)
(* being crawled for ever: polling goes on until the list that ends it.    *)
(* And a page whose list failed recovers on its own once requests are      *)
(* answered again, unless its session turns out to have ended.             *)
(***************************************************************************)
QueueCatchesUp ==
    /\ \A r \in Runs: Enriching(r) ~> ~Enriching(r)
    /\ reconnecting ~> ~reconnecting

(***************************************************************************)
(* "An expired session is not an ingestion failure: it hands the visitor   *)
(* back to sign-in." (useIngestionRuns.ts:33)  Back at sign-in nothing is  *)
(* retried.                                                                *)
(***************************************************************************)
SignInIsQuiet == status = "signed-out" => timeouts = 0
=============================================================================

-------------------------- MODULE AdminQueueProofs ---------------------------
(***************************************************************************)
(* For any number of runs, calls, operations and faults: a queue that says *)
(* it retries does, and shows no run more than twice.                      *)
(*                                                                         *)
(* The invariant behind the first ties the ref retryTimer to the one       *)
(* timeout it stands for.  The two part only when the dashboard unmounts,  *)
(* which stops the timeout and leaves the ref set.                         *)
(***************************************************************************)
EXTENDS AdminQueue, TLAPS

Held ==
    /\ retryTimer \in BOOLEAN
    /\ timeouts \in 0 .. 1
    /\ timeouts = 1 => retryTimer
    /\ retryTimer /\ status # "signed-out" => timeouts = 1

\* As much of the calls as a change of one of them must leave alone.
Shaped ==
    /\ calls = [c \in Calls |-> calls[c]]
    /\ \A c \in Calls: {"kind", "todo", "got"} \subseteq DOMAIN calls[c]

IInv ==
    /\ Shaped
    /\ Held
    /\ reconnecting \in BOOLEAN
    /\ reconnecting => Mounted
    /\ BannerIsTrue

Listing == \E c \in Calls: calls[c].kind = "list"

-----------------------------------------------------------------------------
LEMMA SentShape ==
  ASSUME NEW kind, NEW targets
  PROVE  /\ Sent(kind, targets).kind = kind
         /\ {"kind", "todo", "got"} \subseteq DOMAIN Sent(kind, targets)
  BY DEF Sent

\* A call that starts takes a free place.
LEMMA Starting ==
  ASSUME Shaped, NEW c \in Calls, NEW kind, NEW targets, Start(c, kind, targets)
  PROVE  /\ Shaped'
         /\ calls'[c].kind = kind
         /\ Listing => Listing'
<1> DEFINE new == Sent(kind, targets)
<1>1. new.kind = kind /\ {"kind", "todo", "got"} \subseteq DOMAIN new
  BY SentShape
<1>2. calls[c].kind = "idle"
  BY DEF Start, Idle
<1>3. calls' = [calls EXCEPT ![c] = new]
  BY DEF Start
<1> HIDE DEF new
<1> QED  BY <1>1, <1>2, <1>3 DEF Shaped, Listing

\* An answer changes nothing else of its call.
LEMMA Answering ==
  ASSUME Shaped, NEW c \in Calls, NEW t, NEW outcome, NEW runs, Answered(c, t, outcome, runs)
  PROVE  Shaped' /\ (Listing => Listing')
<1> DEFINE old == calls[c].got
           got == [u \in DOMAIN old \cup {t} |->
                     IF u = t THEN [outcome |-> outcome, runs |-> runs] ELSE old[u]]
           todo == calls[c].todo \ {t}
<1>1. calls' = [calls EXCEPT ![c].todo = todo, ![c].got = got]
  BY DEF Answered
<1> HIDE DEF got, todo
<1>2. /\ calls' = [d \in Calls |-> calls'[d]]
      /\ \A d \in Calls: {"kind", "todo", "got"} \subseteq DOMAIN calls'[d] /\ calls'[d].kind = calls[d].kind
  BY <1>1 DEF Shaped
<1> QED  BY <1>2 DEF Shaped, Listing

\* A call that ends leaves the other lists on their way.
LEMMA Ending ==
  ASSUME Shaped, NEW c \in Calls, calls[c].kind # "list",
         ReportUnauthorized(c) \/ calls' = [calls EXCEPT ![c] = Idle]
  PROVE  Shaped' /\ (Listing => Listing')
<1>1. PICK new \in {Sent("logout", {List}), Idle}: calls' = [calls EXCEPT ![c] = new]
  BY DEF ReportUnauthorized
<1>2. {"kind", "todo", "got"} \subseteq DOMAIN new
  BY <1>1, SentShape DEF Idle
<1> QED  BY <1>1, <1>2 DEF Shaped, Listing

LEMMA ListEnding ==
  ASSUME Shaped, NEW c \in Calls, ReportUnauthorized(c)
  PROVE  Shaped'
<1>1. PICK new \in {Sent("logout", {List}), Idle}: calls' = [calls EXCEPT ![c] = new]
  BY DEF ReportUnauthorized
<1>2. {"kind", "todo", "got"} \subseteq DOMAIN new
  BY <1>1, SentShape DEF Idle
<1> QED  BY <1>1, <1>2 DEF Shaped

\* What the page keeps is left alone by everything but its own timers and answers.
LEMMA PageKept ==
  ASSUME IInv, UNCHANGED <<page, status>>, Shaped', Listing => Listing'
  PROVE  IInv'
  BY DEF IInv, Held, page, Mounted, BannerIsTrue, Listing

-----------------------------------------------------------------------------
LEMMA BootstrapStep ==
  ASSUME IInv, NEW c \in Calls, Bootstrap(c)
  PROVE  IInv'
<1>1. Shaped' /\ (Listing => Listing')
  BY Starting DEF Bootstrap, IInv, Shaped, Listing
<1>2. UNCHANGED page /\ status = "checking"
  BY DEF Bootstrap
<1> QED  BY <1>1, <1>2 DEF IInv, Held, page, Mounted, BannerIsTrue, Listing

LEMMA TimerStep ==
  ASSUME IInv, NEW c \in Calls, TimerFires(c)
  PROVE  IInv'
<1>1. Shaped' /\ calls'[c].kind = "list"
  BY Starting DEF TimerFires, IInv
<1>2. timeouts = 1 /\ timeouts' = 0 /\ retryTimer' = FALSE /\ UNCHANGED <<reconnecting, status>>
  BY DEF TimerFires, IInv, Held
<1>3. timeouts' \in 0 .. 1 /\ timeouts' # 1
  BY <1>2
<1>4. Held'
  BY <1>2, <1>3, Zenon DEF Held
<1>5. BannerIsTrue'
  BY <1>1 DEF BannerIsTrue
<1> QED  BY <1>1, <1>2, <1>4, <1>5 DEF IInv, Mounted

LEMMA AdministratorStep ==
  ASSUME IInv, Administrator
  PROVE  IInv'
<1>1. UNCHANGED <<page, status>>
  BY DEF Administrator, SessionChanges, Reload, Create, SignOut, Edit
<1>2. \/ UNCHANGED calls
      \/ \E c \in Calls, kind \in Kinds, targets \in SUBSET (Runs \cup Targets): Start(c, kind, targets)
  BY DEF Administrator, SessionChanges, Reload, Create, SignOut, Edit, Kinds, Edits, Targets, Shown
<1>3. Shaped' /\ (Listing => Listing')
  BY <1>2, Starting DEF IInv, Shaped, Listing
<1> QED  BY <1>1, <1>3, PageKept

LEMMA ServerStep ==
  ASSUME IInv, NEW c \in Calls, NEW t \in Targets, Handle(c, t) \/ Unreachable(c, t)
  PROVE  IInv'
<1>1. UNCHANGED <<page, status>>
  BY DEF Handle, Unreachable
<1>2. \E outcome, runs: Answered(c, t, outcome, runs)
  BY DEF Handle, Unreachable, EndSession, Serve, Refuses, Does, Becomes
<1>3. Shaped' /\ (Listing => Listing')
  BY <1>2, Answering DEF IInv
<1> QED  BY <1>1, <1>3, PageKept

LEMMA ReceiveStep ==
  ASSUME IInv, NEW c \in Calls, Receive(c)
  PROVE  IInv'
<1>1. CASE calls[c].kind = "list" /\ ListAnswers(c) /\ UNCHANGED status
  <2>1. Shaped'
    BY <1>1, ListEnding DEF ListAnswers, IInv
  <2>2. retryTimer' = FALSE
    BY <1>1 DEF ListAnswers
  <2>3. reconnecting' = (reconnecting /\ ~Mounted)
    BY <1>1 DEF ListAnswers
  <2>4. reconnecting' = FALSE
    BY <2>3 DEF IInv
  <2>5. timeouts' = IF retryTimer /\ timeouts > 0 THEN timeouts - 1 ELSE timeouts
    BY <1>1 DEF ListAnswers, ClearTimeout
  <2>6. timeouts' = 0
    BY <2>5 DEF IInv, Held
  <2>7. timeouts' \in 0 .. 1 /\ timeouts' # 1
    BY <2>6
  <2>8. Held'
    BY <2>2, <2>7, Zenon DEF Held
  <2> QED  BY <2>1, <2>4, <2>8 DEF IInv, BannerIsTrue
<1>2. CASE calls[c].kind = "list" /\ ListFails(c) /\ UNCHANGED status
  <2>1. Shaped'
    BY <1>2, ListEnding DEF ListFails, IInv
  <2>2. CASE retryTimer
    BY <1>2, <2>1, <2>2 DEF ListFails, Retries, IInv, Held, Mounted, BannerIsTrue
  <2>3. CASE ~retryTimer
    <3>1. retryTimer' = TRUE /\ timeouts' = 1 /\ reconnecting' = (reconnecting \/ Mounted)
      BY <1>2, <2>3 DEF ListFails, Retries, IInv, Held
    <3> QED  BY <1>2, <2>1, <3>1 DEF IInv, Held, Mounted, BannerIsTrue
  <2> QED  BY <2>2, <2>3
<1>3. CASE calls[c].kind \in {"create"} \cup Edits /\ (CreateAnswers(c) \/ EditAnswers(c)) /\ UNCHANGED status
  <2>1. Shaped' /\ (Listing => Listing')
    BY <1>3, Ending DEF CreateAnswers, EditAnswers, Edits, IInv
  <2>2. UNCHANGED <<retryTimer, timeouts, reconnecting, status>>
    BY <1>3 DEF CreateAnswers, EditAnswers
  <2> QED  BY <2>1, <2>2 DEF IInv, Held, Mounted, BannerIsTrue, Listing
<1>4. CASE calls[c].kind = "logout" /\ SignedOut(c)
  <2>1. Shaped'
    BY <1>4, Ending DEF SignedOut, IInv
  <2>2. reconnecting' = FALSE /\ retryTimer' = retryTimer /\ status' = "signed-out"
    BY <1>4 DEF SignedOut
  <2>3. timeouts' \in 0 .. 1 /\ (timeouts' = 1 => retryTimer)
    BY <1>4 DEF SignedOut, ClearTimeout, IInv, Held
  <2> QED  BY <2>1, <2>2, <2>3 DEF IInv, Held, BannerIsTrue
<1> QED  BY <1>1, <1>2, <1>3, <1>4 DEF Receive

LEMMA Inductive == Spec => []IInv
<1>1. Init => IInv
  <2>1. Init => Shaped
    BY DEF Init, Shaped, Idle
  <2>2. Init => reconnecting = FALSE /\ retryTimer = FALSE /\ timeouts = 0
    BY DEF Init
  <2>3. Init => Held
    <3>1. Init => timeouts \in 0 .. 1 /\ timeouts # 1
      BY <2>2
    <3> QED  BY <2>2, <3>1, Zenon DEF Held
  <2> QED  BY <2>1, <2>2, <2>3 DEF IInv, BannerIsTrue
<1>2. IInv /\ [Next]_vars => IInv'
  <2> SUFFICES ASSUME IInv, [Next]_vars PROVE IInv'
    OBVIOUS
  <2>1. CASE Administrator
    BY <2>1, AdministratorStep
  <2>2. ASSUME NEW r \in Runs, Crawl(r) PROVE IInv'
    BY <2>2, PageKept DEF Crawl, IInv, Shaped, Listing
  <2>3. ASSUME NEW c \in Calls, Bootstrap(c) PROVE IInv'
    BY <2>3, BootstrapStep
  <2>4. ASSUME NEW c \in Calls, Poll(c) PROVE IInv'
    BY <2>4, Starting, PageKept DEF Poll, IInv
  <2>5. ASSUME NEW c \in Calls, TimerFires(c) PROVE IInv'
    BY <2>5, TimerStep
  <2>6. ASSUME NEW c \in Calls, Receive(c) PROVE IInv'
    BY <2>6, ReceiveStep
  <2>7. ASSUME NEW c \in Calls, NEW t \in Targets, Handle(c, t) \/ Unreachable(c, t) PROVE IInv'
    BY <2>7, ServerStep
  <2>8. CASE UNCHANGED vars
    BY <2>8, PageKept DEF vars, page, IInv, Shaped, Listing
  <2> QED  BY <2>1, <2>2, <2>3, <2>4, <2>5, <2>6, <2>7, <2>8 DEF Next
<1> QED  BY <1>1, <1>2, PTL DEF Spec

(***************************************************************************)
(* A page that says it retries does: useIngestionRuns' load arms a retry   *)
(* for every list that fails, and at most one at a time, whatever order    *)
(* the answers arrive in.                                                  *)
(***************************************************************************)
THEOREM RetriesArePending == Spec => []BannerIsTrue
<1>1. IInv => BannerIsTrue
  BY DEF IInv
<1> QED  BY <1>1, Inductive, PTL

-----------------------------------------------------------------------------
(***************************************************************************)
(* The types.  That a run is shown at most twice is the one part that says *)
(* something: a run is created once and one submission is sent at a time,  *)
(* so its answer finds at most the row that a poll has brought before it.  *)
(***************************************************************************)
Known == UNION {[R -> States]: R \in SUBSET Runs}
Gots == UNION {[T -> Answer]: T \in SUBSET Targets}
Call == [kind: Kinds, todo: SUBSET Targets, got: Gots]

Typed ==
    /\ server \in [Runs -> States]
    /\ session \in BOOLEAN
    /\ status \in {"checking", "signed-in", "signed-out"}
    /\ calls \in [Calls -> Call]
    /\ delay \in 0 .. MaxDelay
    /\ operations \in 0 .. MaxOperations
    /\ faults \in 0 .. MaxFaults

\* The answers that a call has so far tell of the run.
Tells(c, r) == \E t \in DOMAIN calls[c].got: r \in DOMAIN calls[c].got[t].runs

\* The answer that puts the run before the list is still to be applied.
Carries(c, r) == calls[c].kind = "create" /\ Tells(c, r)

Once ==
    /\ \A c, d \in Calls: calls[c].kind = "create" /\ calls[d].kind = "create" => c = d
    /\ \A c \in Calls: calls[c].kind \in Edits => calls[c].todo \subseteq Runs
    /\ \A r \in Runs: server[r] = "absent" => rows[r] = <<>> /\ \A c \in Calls: ~Tells(c, r)
    /\ \A c \in Calls, r \in Runs: Carries(c, r) => Len(rows[r]) <= 1

RowsTyped ==
    /\ rows \in [Runs -> Seq(States)]
    /\ \A r \in Runs: Len(rows[r]) <= 2

TInv == Typed /\ RowsTyped /\ Once

\* A call of the page that starts, ends, or goes on as it was.
LEMMA CallsTyped ==
  /\ Idle \in Call /\ Idle.kind = "idle" /\ Idle.todo = {} /\ DOMAIN Idle.got = {}
  /\ \A kind \in Kinds, targets \in SUBSET Targets:
        /\ Sent(kind, targets) \in Call
        /\ Sent(kind, targets).kind = kind /\ Sent(kind, targets).todo = targets
        /\ DOMAIN Sent(kind, targets).got = {}
<1>1. <<>> \in Gots /\ DOMAIN <<>> = {}
  <2>1. <<>> \in [{} -> Answer] /\ {} \in SUBSET Targets
    OBVIOUS
  <2> QED  BY <2>1 DEF Gots
<1> QED  BY <1>1 DEF Idle, Sent, Call, Kinds

LEMMA StartKeeps ==
  ASSUME Typed, Once, NEW c \in Calls, NEW kind \in Kinds, NEW targets \in SUBSET Targets,
         Start(c, kind, targets), UNCHANGED <<server, rows>>,
         kind \in Edits => targets \subseteq Runs,
         kind = "create" => ~Submitting
  PROVE  calls' \in [Calls -> Call] /\ Once'
<1>1. PICK new \in Call: /\ calls' = [calls EXCEPT ![c] = new]
                        /\ new.kind = kind /\ new.todo = targets /\ DOMAIN new.got = {}
  BY CallsTyped DEF Start
<1>2. calls' \in [Calls -> Call] /\ calls'[c] = new /\ \A d \in Calls \ {c}: calls'[d] = calls[d]
  BY <1>1 DEF Typed
<1>3. \A d \in Calls: \A r: Tells(d, r)' => Tells(d, r) /\ d # c
  BY <1>1, <1>2 DEF Tells
<1>4. \A d, e \in Calls: calls'[d].kind = "create" /\ calls'[e].kind = "create" => d = e
  BY <1>1, <1>2 DEF Once, Submitting
<1>5. \A d \in Calls: calls'[d].kind \in Edits => calls'[d].todo \subseteq Runs
  BY <1>1, <1>2 DEF Once
<1>6. \A r \in Runs: server'[r] = "absent" => rows'[r] = <<>> /\ \A d \in Calls: ~Tells(d, r)'
  BY <1>3 DEF Once
<1>7. \A d \in Calls, r \in Runs: Carries(d, r)' => Carries(d, r)
  BY <1>2, <1>3 DEF Carries
<1>8. \A d \in Calls, r \in Runs: Carries(d, r)' => Len(rows'[r]) <= 1
  BY <1>7 DEF Once
<1> QED  BY <1>2, <1>4, <1>5, <1>6, <1>8 DEF Once

\* An answer may tell of any run; that of a creation tells of a run that was absent.
LEMMA AnswerKeeps ==
  ASSUME Typed, Once, NEW c \in Calls, NEW t \in calls[c].todo, NEW outcome \in Outcomes,
         NEW new \in Known, Answered(c, t, outcome, new), UNCHANGED rows,
         \A r \in Runs: server'[r] = "absent" => server[r] = "absent" /\ r \notin DOMAIN new,
         calls[c].kind = "create" => \A r \in DOMAIN new: server[r] = "absent"
  PROVE  calls' \in [Calls -> Call] /\ Once'
<1> DEFINE answer == [outcome |-> outcome, runs |-> new]
           old == calls[c].got
           got == [u \in DOMAIN old \cup {t} |-> IF u = t THEN answer ELSE old[u]]
           call == [calls[c] EXCEPT !.todo = @ \ {t}, !.got = got]
<1>1. answer \in Answer /\ answer.runs = new /\ DOMAIN new \subseteq Runs
  BY DEF Answer, Known
<1>2. calls[c] \in Call /\ t \in Targets
  BY DEF Typed, Call
<1>3. PICK T \in SUBSET Targets: calls[c].got \in [T -> Answer]
  BY <1>2 DEF Call, Gots
<1> HIDE DEF answer
<1>4. /\ got \in [T \cup {t} -> Answer]
      /\ \A u \in T \cup {t}: got[u] = answer \/ (u \in T /\ got[u] = calls[c].got[u])
  BY <1>1, <1>3
<1>5. got \in Gots
  BY <1>2, <1>4 DEF Gots
<1>6. calls' = [calls EXCEPT ![c] = call]
  BY DEF Answered, answer, Typed
<1> HIDE DEF got
<1>7. call \in Call /\ call.kind = calls[c].kind /\ call.got = got /\ call.todo \subseteq calls[c].todo
  BY <1>2, <1>5 DEF Call
<1> HIDE DEF call
<1>8. calls' \in [Calls -> Call] /\ calls'[c] = call /\ \A d \in Calls \ {c}: calls'[d] = calls[d]
  BY <1>6, <1>7 DEF Typed
<1>9. \A d \in Calls: \A r: Tells(d, r)' => Tells(d, r) \/ (d = c /\ r \in DOMAIN new)
  BY <1>1, <1>3, <1>4, <1>7, <1>8 DEF Tells
<1>10. \A d, e \in Calls: calls'[d].kind = "create" /\ calls'[e].kind = "create" => d = e
  BY <1>7, <1>8 DEF Once
<1>11. \A d \in Calls: calls'[d].kind \in Edits => calls'[d].todo \subseteq Runs
  BY <1>7, <1>8 DEF Once
<1>12. \A r \in Runs: server'[r] = "absent" => rows'[r] = <<>> /\ \A d \in Calls: ~Tells(d, r)'
  BY <1>9 DEF Once
<1>13. ASSUME NEW d \in Calls, NEW r \in Runs, Carries(d, r)'
       PROVE  Len(rows'[r]) <= 1
  <2>1. Carries(d, r) \/ rows[r] = <<>>
    BY <1>7, <1>8, <1>9, <1>13 DEF Carries, Once
  <2> QED  BY <2>1 DEF Once
<1> QED  BY <1>8, <1>10, <1>11, <1>12, <1>13 DEF Once

\* What the call c may make of the rows: it applies its own answers, which no other carries.
RowsFit(c, new) ==
    /\ new \in [Runs -> Seq(States)]
    /\ \A r \in Runs:
         /\ Len(new[r]) <= 2
         /\ server[r] = "absent" => new[r] = <<>>
         /\ \/ Len(new[r]) <= 1
            \/ Len(new[r]) = Len(rows[r])
            \/ \A d \in Calls \ {c}: ~Carries(d, r)

LEMMA EndKeeps ==
  ASSUME Typed, Once, NEW c \in Calls, UNCHANGED server, RowsFit(c, rows'),
         ReportUnauthorized(c) \/ calls' = [calls EXCEPT ![c] = Idle]
  PROVE  calls' \in [Calls -> Call] /\ Once'
<1>1. PICK new \in Call: /\ calls' = [calls EXCEPT ![c] = new]
                        /\ new.kind \in {"idle", "logout"} /\ DOMAIN new.got = {}
  BY CallsTyped DEF ReportUnauthorized, Kinds, Targets
<1>2. calls' \in [Calls -> Call] /\ calls'[c] = new /\ \A d \in Calls \ {c}: calls'[d] = calls[d]
  BY <1>1 DEF Typed
<1>3. \A d \in Calls: \A r: Tells(d, r)' => Tells(d, r) /\ d # c
  BY <1>1, <1>2 DEF Tells
<1>4. \A d, e \in Calls: calls'[d].kind = "create" /\ calls'[e].kind = "create" => d = e
  BY <1>1, <1>2 DEF Once
<1>5. \A d \in Calls: calls'[d].kind \in Edits => calls'[d].todo \subseteq Runs
  BY <1>1, <1>2 DEF Once, Edits
<1>6. \A r \in Runs: server'[r] = "absent" => rows'[r] = <<>> /\ \A d \in Calls: ~Tells(d, r)'
  BY <1>3 DEF Once, RowsFit
<1>7. \A d \in Calls, r \in Runs: Carries(d, r)' => Carries(d, r) /\ d # c
  BY <1>2, <1>3 DEF Carries
<1>8. \A d \in Calls, r \in Runs: Carries(d, r)' => Len(rows'[r]) <= 1
  BY <1>7 DEF Once, RowsFit
<1> QED  BY <1>2, <1>4, <1>5, <1>6, <1>8 DEF Once

\* The runs of the news about a call are runs that its answers tell of.
LEMMA NewsTells ==
  ASSUME Typed, NEW c \in Calls, NEW r, NEW state, <<r, state>> \in News(c)
  PROVE  Tells(c, r)
  BY DEF News, Results, Tells

LEMMA ListedKnown == Typed => Listed \in Known /\ \A r \in DOMAIN Listed: server[r] # "absent"
<1> DEFINE R == {q \in Runs: server[q] \notin {"absent", "deleted"}}
<1>1. Typed => Listed \in [R -> States] /\ R \in SUBSET Runs
  BY DEF Typed, Listed
<1> QED  BY <1>1 DEF Listed, Known

LEMMA OneKnown ==
  /\ <<>> \in Known /\ DOMAIN <<>> = {}
  /\ \A r \in Runs, state \in States:
       [q \in {r} |-> state] \in Known /\ DOMAIN [q \in {r} |-> state] = {r}
<1>1. <<>> \in [{} -> States] /\ {} \in SUBSET Runs
  OBVIOUS
<1>2. <<>> \in Known
  BY <1>1 DEF Known
<1>3. ASSUME NEW r \in Runs, NEW state \in States
      PROVE  [q \in {r} |-> state] \in Known
  <2>1. [q \in {r} |-> state] \in [{r} -> States] /\ {r} \in SUBSET Runs
    OBVIOUS
  <2> QED  BY <2>1 DEF Known
<1> QED  BY <1>2, <1>3

\* What the API does with a request, and what it may answer.
LEMMA HandleAnswers ==
  ASSUME Typed, Once, NEW c \in Calls, NEW t \in Targets, Handle(c, t) \/ Unreachable(c, t)
  PROVE  /\ t \in calls[c].todo /\ UNCHANGED <<status, page, operations>>
         /\ server' \in [Runs -> States] /\ session' \in BOOLEAN /\ faults' \in 0 .. MaxFaults
         /\ \E outcome \in Outcomes, new \in Known:
              /\ Answered(c, t, outcome, new)
              /\ \A r \in Runs: server'[r] = "absent" => server[r] = "absent" /\ r \notin DOMAIN new
              /\ calls[c].kind = "create" => \A r \in DOMAIN new: server[r] = "absent"
<1>0. /\ t \in calls[c].todo /\ UNCHANGED <<status, page, operations>>
      /\ server \in [Runs -> States] /\ session \in BOOLEAN /\ faults \in 0 .. MaxFaults
      /\ MaxFaults \in Nat
  BY AdminQueueAssumption DEF Handle, Unreachable, Typed
<1> DEFINE Fits(new) ==
             /\ \A r \in Runs: server'[r] = "absent" => server[r] = "absent" /\ r \notin DOMAIN new
             /\ calls[c].kind = "create" => \A r \in DOMAIN new: server[r] = "absent"
           Answers == \E outcome \in Outcomes, new \in Known: Answered(c, t, outcome, new) /\ Fits(new)
           Served == server' \in [Runs -> States] /\ session' \in BOOLEAN /\ faults' \in 0 .. MaxFaults
<1> SUFFICES Answers /\ Served
  BY <1>0
<1>1. ASSUME NEW outcome \in Outcomes, Answered(c, t, outcome, <<>>), UNCHANGED <<server, faults>>,
             session' \in BOOLEAN
      PROVE  Answers /\ Served
  <2>1. Fits(<<>>)
    BY <1>1, OneKnown
  <2> QED  BY <1>0, <1>1, <2>1, OneKnown
<1>2. ASSUME NEW new \in Known, Does(c, t, new), Fits(new), Fits(<<>>),
             server' \in [Runs -> States], session' \in BOOLEAN
      PROVE  Answers /\ Served
  <2>1. faults' \in 0 .. MaxFaults
    BY <1>0, <1>2 DEF Does
  <2>2. \/ Answered(c, t, "done", new)
        \/ Answered(c, t, "unreachable", <<>>)
    BY <1>2 DEF Does
  <2>3. {"done", "unreachable"} \subseteq Outcomes
    BY DEF Outcomes
  <2> QED  BY <1>2, <2>1, <2>2, <2>3, OneKnown
<1>3. ASSUME NEW r \in Runs, NEW state \in States \ {"absent"}, Becomes(c, t, r, state),
             calls[c].kind = "create" => server[r] = "absent", UNCHANGED session
      PROVE  Answers /\ Served
  <2>1. server' = [server EXCEPT ![r] = state] /\ server' \in [Runs -> States]
    BY <1>0, <1>3 DEF Becomes
  <2>2. PICK new \in {<<>>, [q \in {r} |-> state]}: Does(c, t, new)
    BY <1>3 DEF Becomes
  <2>3. new \in Known /\ DOMAIN new \subseteq {r}
    <3>1. CASE new = <<>>
      BY <3>1, OneKnown
    <3>2. CASE new = [q \in {r} |-> state]
      BY <3>2, OneKnown, Zenon
    <3> QED  BY <2>2, <3>1, <3>2
  <2>4. Fits(new) /\ Fits(<<>>)
    BY <1>0, <1>3, <2>1, <2>3, OneKnown
  <2> QED  BY <1>0, <1>2, <1>3, <2>1, <2>2, <2>3, <2>4
<1>4. CASE Unreachable(c, t)
  <2>1. Answered(c, t, "unreachable", <<>>) /\ UNCHANGED <<server, session>> /\ faults' \in 0 .. MaxFaults
    BY <1>0, <1>4 DEF Unreachable
  <2>2. Fits(<<>>) /\ "unreachable" \in Outcomes
    BY <2>1, OneKnown DEF Outcomes
  <2> QED  BY <1>0, <2>1, <2>2, OneKnown
<1>5. CASE Handle(c, t) /\ EndSession(c, t)
  <2>1. UNCHANGED server /\ session' = FALSE /\ Does(c, t, <<>>)
    BY <1>5 DEF EndSession
  <2>2. Fits(<<>>)
    BY <2>1, OneKnown
  <2> QED  BY <1>0, <1>2, <2>1, <2>2, OneKnown
<1>6. CASE Handle(c, t) /\ UNCHANGED session /\ \E outcome \in Outcomes: Refuses(c, t, outcome)
  BY <1>0, <1>1, <1>6 DEF Refuses
<1> HIDE DEF Answers, Served
<1>7. CASE Handle(c, t) /\ UNCHANGED session /\ Serve(c, t)
  <2>1. CASE calls[c].kind = "list" /\ Does(c, t, Listed) /\ UNCHANGED server
    <3>1. Fits(Listed) /\ Fits(<<>>)
      BY <2>1, ListedKnown, OneKnown
    <3> QED  BY <1>0, <1>2, <1>7, <2>1, <3>1, ListedKnown
  <2>2. CASE calls[c].kind = "create" /\ \E r \in Runs: server[r] = "absent" /\ Becomes(c, t, r, "enriching")
    <3>1. PICK r \in Runs: server[r] = "absent" /\ Becomes(c, t, r, "enriching")
      BY <2>2
    <3>2. "enriching" \in States \ {"absent"}
      BY DEF States
    <3> QED  BY <1>3, <1>7, <3>1, <3>2
  <2>3. CASE \E outcome \in Outcomes: Refuses(c, t, outcome)
    BY <1>6, <1>7, <2>3
  <2>4. CASE calls[c].kind \in Edits /\ \E state \in States \ {"absent"}: Becomes(c, t, t, state)
    <3>1. t \in Runs /\ calls[c].kind # "create"
      BY <1>0, <2>4 DEF Once, Edits
    <3>2. PICK state \in States \ {"absent"}: Becomes(c, t, t, state)
      BY <2>4
    <3> QED  BY <1>3, <1>7, <3>1, <3>2
  <2> QED  BY <1>7, <2>1, <2>2, <2>3, <2>4 DEF Serve, Edits, States, Outcomes
<1> QED  BY <1>0, <1>4, <1>5, <1>6, <1>7 DEF Handle, Outcomes

\* The rows after an answer.
LEMMA RowsReceived ==
  ASSUME Typed, Once, RowsTyped, NEW c \in Calls, Receive(c)
  PROVE  RowsFit(c, rows')
<1>0. /\ rows \in [Runs -> Seq(States)] /\ \A r \in Runs: Len(rows[r]) <= 2
      /\ \A r \in Runs: server[r] = "absent" => rows[r] = <<>>
      /\ <<>> \in Seq(States) /\ Len(<<>>) = 0
  BY DEF RowsTyped, Once
<1>1. RowsFit(c, rows) /\ RowsFit(c, [r \in Runs |-> <<>>])
  BY <1>0 DEF RowsFit
<1>2. ASSUME NEW new, SetRows(new), RowsFit(c, new)
      PROVE  RowsFit(c, rows')
  <2>1. rows' = new \/ rows' = rows
    BY <1>2 DEF SetRows
  <2> QED  BY <1>1, <1>2, <2>1
<1>3. \A r, state: <<r, state>> \in News(c) => Tells(c, r)
  BY NewsTells
<1>4. CASE ListAnswers(c)
  <2> DEFINE Told(r) == \E s \in States: <<r, s>> \in News(c)
             state(r) == CHOOSE s \in States: <<r, s>> \in News(c)
             new == [r \in Runs |-> IF Told(r) THEN <<state(r)>> ELSE <<>>]
  <2>1. SetRows(new)
    BY <1>4 DEF ListAnswers
  <2>2. ASSUME NEW r \in Runs
        PROVE  /\ new[r] \in Seq(States) /\ Len(new[r]) <= 1
               /\ server[r] = "absent" => new[r] = <<>>
    <3>1. Told(r) => state(r) \in States
      OBVIOUS
    <3>2. server[r] = "absent" => ~Told(r)
      BY <1>3 DEF Once
    <3> HIDE DEF Told, state
    <3> QED  BY <3>1, <3>2
  <2> HIDE DEF Told, state
  <2>3. new \in [Runs -> Seq(States)]
    BY <2>2
  <2> HIDE DEF new
  <2>4. RowsFit(c, new)
    BY <2>2, <2>3 DEF RowsFit
  <2> QED  BY <1>2, <2>1, <2>4
<1>5. CASE calls[c].kind = "create" /\ CreateAnswers(c)
  <2> DEFINE new == [r \in Runs |-> IF <<r, "enriching">> \in News(c)
                                   THEN <<"enriching">> \o rows[r] ELSE rows[r]]
  <2>1. SetRows(new)
    BY <1>5 DEF CreateAnswers
  <2>2. ASSUME NEW r \in Runs
        PROVE  /\ new[r] \in Seq(States) /\ Len(new[r]) <= 2
               /\ server[r] = "absent" => new[r] = <<>>
               /\ \/ Len(new[r]) = Len(rows[r])
                  \/ \A d \in Calls \ {c}: ~Carries(d, r)
    <3>1. CASE <<r, "enriching">> \in News(c)
      <4>1. Tells(c, r) /\ Carries(c, r)
        BY <1>3, <1>5, <3>1 DEF Carries
      <4>2. server[r] # "absent" /\ Len(rows[r]) <= 1 /\ \A d \in Calls \ {c}: ~Carries(d, r)
        BY <1>5, <4>1 DEF Once, Carries
      <4>3. "enriching" \in States
        BY DEF States
      <4>4. new[r] = <<"enriching">> \o rows[r]
        BY <3>1
      <4>5. rows[r] \in Seq(States) /\ <<"enriching">> \in Seq(States)
        BY <1>0, <4>3
      <4>6. new[r] \in Seq(States) /\ Len(new[r]) = 1 + Len(rows[r])
        BY <4>4, <4>5
      <4> HIDE DEF new
      <4> QED  BY <1>0, <4>2, <4>5, <4>6
    <3>2. CASE <<r, "enriching">> \notin News(c)
      BY <1>0, <3>2
    <3> QED  BY <3>1, <3>2
  <2>3. new \in [Runs -> Seq(States)]
    BY <2>2
  <2> HIDE DEF new
  <2>4. RowsFit(c, new)
    BY <2>2, <2>3 DEF RowsFit
  <2> QED  BY <1>2, <2>1, <2>4
<1>6. CASE EditAnswers(c)
  <2> DEFINE Told(r) == \E s \in States: <<r, s>> \in News(c)
             state(r) == CHOOSE s \in States: <<r, s>> \in News(c)
             Gone(r) == r \in DOMAIN calls[c].got /\ calls[c].got[r].outcome = "done"
             edited(r) == [i \in DOMAIN rows[r] |-> IF Told(r) THEN state(r) ELSE rows[r][i]]
             new == [r \in Runs |-> IF calls[c].kind = "delete"
                                   THEN IF Gone(r) THEN <<>> ELSE rows[r]
                                   ELSE edited(r)]
  <2>1. SetRows(new)
    BY <1>6 DEF EditAnswers
  <2>2. ASSUME NEW r \in Runs
        PROVE  edited(r) \in Seq(States) /\ Len(edited(r)) = Len(rows[r])
    <3>1. Told(r) => state(r) \in States
      OBVIOUS
    <3>2. rows[r] \in Seq(States) /\ Len(rows[r]) \in Nat /\ DOMAIN rows[r] = 1 .. Len(rows[r])
      BY <1>0
    <3> HIDE DEF Told, state
    <3>3. edited(r) \in [1 .. Len(rows[r]) -> States]
      BY <3>1, <3>2
    <3> HIDE DEF edited
    <3> QED  BY <3>2, <3>3
  <2> HIDE DEF edited, Gone
  <2>3. ASSUME NEW r \in Runs
        PROVE  /\ new[r] \in Seq(States) /\ Len(new[r]) \in {0, Len(rows[r])}
               /\ new[r] = <<>> \/ Len(new[r]) = Len(rows[r])
    BY <1>0, <2>2
  <2>4. new \in [Runs -> Seq(States)]
    BY <2>3
  <2> HIDE DEF new
  <2>5. \A r \in Runs: rows[r] = <<>> => new[r] = <<>>
    BY <1>0, <2>3, <2>4
  <2>6. RowsFit(c, new)
    BY <1>0, <2>3, <2>4, <2>5 DEF RowsFit
  <2> QED  BY <1>2, <2>1, <2>6
<1>7. CASE ListFails(c)
  BY <1>1, <1>7 DEF ListFails
<1>8. CASE SignedOut(c)
  BY <1>1, <1>8 DEF SignedOut
<1> QED  BY <1>4, <1>5, <1>6, <1>7, <1>8 DEF Receive

\* The step of a page that starts a call, or none.
LEMMA PageStep ==
  ASSUME TInv, UNCHANGED <<server, rows, delay, faults>>,
         session' \in BOOLEAN, status' \in {"checking", "signed-in", "signed-out"},
         operations' \in 0 .. MaxOperations,
         \/ UNCHANGED calls
         \/ \E c \in Calls, kind \in Kinds, targets \in SUBSET Targets:
              /\ Start(c, kind, targets)
              /\ kind \in Edits => targets \subseteq Runs
              /\ kind = "create" => ~Submitting
  PROVE  TInv'
<1>1. calls' \in [Calls -> Call] /\ Once'
  <2>1. CASE UNCHANGED calls
    BY <2>1 DEF TInv, Typed, Once, Carries, Tells
  <2> QED  BY <2>1, StartKeeps DEF TInv
<1> QED  BY <1>1 DEF TInv, Typed, RowsTyped

LEMMA TypesStep ==
  ASSUME TInv, [Next]_vars
  PROVE  TInv'
<1>0. /\ session \in BOOLEAN /\ status \in {"checking", "signed-in", "signed-out"}
      /\ operations \in 0 .. MaxOperations /\ delay \in 0 .. MaxDelay /\ faults \in 0 .. MaxFaults
      /\ MaxDelay \in Nat /\ MaxOperations \in Nat /\ MaxFaults \in Nat
      /\ "list" \in Kinds \ Edits /\ "list" # "create" /\ {List} \in SUBSET Targets
  BY AdminQueueAssumption DEF TInv, Typed, Kinds, Edits, Targets
<1>1. CASE Administrator
  <2>1. UNCHANGED <<server, rows, delay, faults, status>> /\ operations' = operations - 1 /\ operations > 0
    BY <1>1 DEF Administrator, SessionChanges, Reload, Create, SignOut, Edit, Operate, page
  <2>2. operations' \in 0 .. MaxOperations
    BY <1>0, <2>1
  <2>3. session' \in BOOLEAN
    BY <1>0, <1>1 DEF Administrator, SessionChanges, Reload, Create, SignOut, Edit
  <2>4. \/ UNCHANGED calls
        \/ \E c \in Calls, kind \in Kinds, targets \in SUBSET Targets:
             /\ Start(c, kind, targets)
             /\ kind \in Edits => targets \subseteq Runs
             /\ kind = "create" => ~Submitting
    <3>1. ASSUME NEW c \in Calls, NEW kind \in Edits, NEW chosen \in SUBSET Shown, Edit(c, kind, chosen)
          PROVE  /\ kind \in Kinds /\ kind # "create"
                 /\ \E targets \in SUBSET Targets: Start(c, kind, targets) /\ targets \subseteq Runs
      BY <3>1 DEF Edit, Edits, Kinds, Shown, Targets
    <3> QED  BY <1>0, <1>1, <3>1
             DEF Administrator, SessionChanges, Reload, Create, SignOut, Kinds, Edits
  <2> QED  BY <1>0, <2>1, <2>2, <2>3, <2>4, PageStep
<1>2. ASSUME NEW r \in Runs, Crawl(r) PROVE TInv'
  <2>1. server' = [server EXCEPT ![r] = "needs_review"] /\ server[r] = "enriching"
    BY <1>2 DEF Crawl
  <2>2. UNCHANGED <<session, status, rows, delay, calls, operations, faults>>
    BY <1>2 DEF Crawl, page
  <2>3. \A q \in Runs: server'[q] = "absent" => server[q] = "absent"
    BY <2>1 DEF TInv, Typed
  <2>4. server' \in [Runs -> States]
    BY <2>1 DEF TInv, Typed, States
  <2> QED  BY <2>2, <2>3, <2>4 DEF TInv, Typed, RowsTyped, Once, Carries, Tells
<1>3. ASSUME NEW c \in Calls, Bootstrap(c) \/ Poll(c) \/ TimerFires(c) PROVE TInv'
  <2>1. UNCHANGED <<server, rows, delay, faults, session, operations>>
    BY <1>3 DEF Bootstrap, Poll, TimerFires, page
  <2>2. status' \in {"checking", "signed-in", "signed-out"}
    BY <1>0, <1>3 DEF Bootstrap, Poll, TimerFires
  <2>3. UNCHANGED calls \/ Start(c, "list", {List})
    BY <1>3 DEF Bootstrap, Poll, TimerFires
  <2> QED  BY <1>0, <2>1, <2>2, <2>3, PageStep
<1>4. ASSUME NEW c \in Calls, NEW t \in Targets, Handle(c, t) \/ Unreachable(c, t) PROVE TInv'
  <2>1. Typed /\ Once /\ RowsTyped
    BY DEF TInv
  <2>2. /\ t \in calls[c].todo /\ UNCHANGED <<status, rows, delay, operations>>
        /\ server' \in [Runs -> States] /\ session' \in BOOLEAN /\ faults' \in 0 .. MaxFaults
    BY <1>4, <2>1, HandleAnswers DEF page
  <2>3. PICK outcome \in Outcomes, new \in Known:
              /\ Answered(c, t, outcome, new)
              /\ \A r \in Runs: server'[r] = "absent" => server[r] = "absent" /\ r \notin DOMAIN new
              /\ calls[c].kind = "create" => \A r \in DOMAIN new: server[r] = "absent"
    BY <1>4, <2>1, HandleAnswers
  <2>4. calls' \in [Calls -> Call] /\ Once'
    BY <2>1, <2>2, <2>3, AnswerKeeps
  <2> QED  BY <2>1, <2>2, <2>4 DEF TInv, Typed, RowsTyped
<1>5. ASSUME NEW c \in Calls, Receive(c) PROVE TInv'
  <2>1. Typed /\ Once /\ RowsTyped /\ RowsFit(c, rows')
    BY <1>5, RowsReceived DEF TInv
  <2>2. UNCHANGED <<server, session, operations, faults>> /\ status' \in {status, "signed-out"}
    BY <1>5 DEF Receive, SignedOut
  <2>3. delay' \in 0 .. MaxDelay
    <3>1. delay' \in {0, delay} \/ (delay < MaxDelay /\ delay' = delay + 1)
      BY <1>5 DEF Receive, ListAnswers, ListFails, CreateAnswers, EditAnswers, SignedOut
    <3> QED  BY <1>0, <3>1
  <2>4. ReportUnauthorized(c) \/ calls' = [calls EXCEPT ![c] = Idle]
    BY <1>5 DEF Receive, ListAnswers, ListFails, CreateAnswers, EditAnswers, SignedOut
  <2>5. calls' \in [Calls -> Call] /\ Once'
    BY <2>1, <2>2, <2>4, EndKeeps
  <2> QED  BY <1>0, <2>1, <2>2, <2>3, <2>5 DEF TInv, Typed, RowsTyped, RowsFit
<1>6. CASE UNCHANGED vars
  BY <1>0, <1>6, PageStep DEF vars, page
<1> QED  BY <1>1, <1>2, <1>3, <1>4, <1>5, <1>6 DEF Next

(***************************************************************************)
(* The page is of its type in every state: among the rest, no run is ever  *)
(* shown more than twice (create puts a run before a list to which a poll  *)
(* may have brought it already), load never holds two timeouts, and its    *)
(* delay stops doubling (useIngestionRuns).                                *)
(***************************************************************************)
THEOREM TypeCorrect == Spec => []TypeOK
<1>1. Init => TInv
  <2>1. Init => calls \in [Calls -> Call] /\ \A c \in Calls: calls[c].kind = "idle" /\ \A r: ~Tells(c, r)
    BY CallsTyped DEF Init, Tells
  <2>2. Init => Typed
    BY <2>1, AdminQueueAssumption DEF Init, Typed, States
  <2>3. Init => RowsTyped
    <3>1. <<>> \in Seq(States) /\ Len(<<>>) = 0
      OBVIOUS
    <3> QED  BY <3>1 DEF Init, RowsTyped
  <2>4. Init => Once
    BY <2>1 DEF Init, Once, Carries, Edits
  <2> QED  BY <2>2, <2>3, <2>4 DEF TInv
<1>2. TInv /\ [Next]_vars => TInv'
  BY TypesStep
<1>3. TInv /\ IInv => TypeOK
  <2>1. ASSUME TInv, NEW c \in Calls
        PROVE  /\ calls[c].kind \in Kinds
               /\ calls[c].todo \subseteq Targets /\ DOMAIN calls[c].got \subseteq Targets
               /\ \A t \in DOMAIN calls[c].got: calls[c].got[t] \in Answer
    <3>1. calls[c] \in Call
      BY <2>1 DEF TInv, Typed
    <3>2. PICK T \in SUBSET Targets: calls[c].got \in [T -> Answer]
      BY <3>1 DEF Call, Gots
    <3> QED  BY <3>1, <3>2 DEF Call
  <2>2. ASSUME TInv, NEW r \in Runs
        PROVE  Len(rows[r]) <= 2 /\ \A i \in DOMAIN rows[r]: rows[r][i] \in States
    BY <2>2 DEF TInv, RowsTyped
  <2> QED  BY <2>1, <2>2 DEF TInv, Typed, IInv, Held, TypeOK
<1> QED  BY <1>1, <1>2, <1>3, Inductive, PTL DEF Spec
=============================================================================

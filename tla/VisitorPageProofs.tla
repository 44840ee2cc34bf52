-------------------------- MODULE VisitorPageProofs --------------------------
(***************************************************************************)
(* For any number of queries, cafes, photos and faults: the page that      *)
(* waits for nothing shows what is typed.                                  *)
(*                                                                         *)
(* The invariant behind it says which attempts still matter: at most one   *)
(* is not aborted, it is the last one, and it searches what is typed.      *)
(***************************************************************************)
EXTENDS VisitorPage, TLAPS

Live(a) == ~a.aborted

Current ==
    /\ sequence <= typed
    /\ \A a \in attempts: Live(a) => a.number = sequence /\ a.query = query /\ Kind[query] # "short"
    /\ \A a, b \in attempts: Live(a) /\ Live(b) => a = b
    /\ \A a \in attempts: a.phase = "debounce" => Live(a)

\* A card that has reported nothing has counted nothing, and one whose report is unanswered
\* shows a failed image, which it will not report again.
Reporting(card) ==
    /\ card.refresh = "none" => card.reports = 0
    /\ card.refresh \in {"pending", "lost"} => card.image = "failed"

Reports == \A c \in data.cafes: Reporting(cards[c])

IInv == TypeOK /\ Current /\ Reports /\ AnswersTheQuery

-----------------------------------------------------------------------------
(***************************************************************************)
(* Facts about the records.                                                *)
(***************************************************************************)

\* Cleaning up keeps attempts, aborted.
LEMMA CleaningUp ==
  ASSUME TypeOK
  PROVE  /\ CleanedUp \subseteq Attempt
         /\ \A a \in CleanedUp: ~Live(a) /\ a.phase # "debounce"
<1>1. \A b \in attempts: LET a == [b EXCEPT !.aborted = TRUE]
                         IN  a \in Attempt /\ a.aborted /\ a.phase = b.phase
  BY DEF TypeOK, Attempt
<1> QED  BY <1>1 DEF CleanedUp, Live

\* A change of phase is all that happens to an attempt that goes on.
LEMMA GoingOn ==
  ASSUME NEW a \in Attempt, NEW p \in {"debounce", "locating", "fetching", "lost"}
  PROVE  LET b == [a EXCEPT !.phase = p]
         IN  /\ b \in Attempt /\ b.phase = p
             /\ b.number = a.number /\ b.query = a.query /\ b.aborted = a.aborted
  BY DEF Attempt

LEMMA FreshCard == Fresh \in Card /\ Reporting(Fresh)
  BY DEF Fresh, Card, Images, Reporting

\* The cards follow the answer shown.
LEMMA Showing ==
  ASSUME TypeOK, Reports, NEW answer \in [query: Queries \cup {none}, cafes: SUBSET Cafes], Show(answer)
  PROVE  /\ data' = answer
         /\ DOMAIN cards' = data'.cafes /\ \A c \in data'.cafes: cards'[c] \in Card
         /\ Reports'
<1>1. data' = answer /\ data'.cafes = answer.cafes
  BY DEF Show
<1>2. \A c \in answer.cafes: cards'[c] \in Card /\ Reporting(cards'[c])
  BY FreshCard DEF Show, TypeOK, Reports
<1> QED  BY <1>1, <1>2 DEF Show, Reports

\* One card changes, to a card.
LEMMA CardStep ==
  ASSUME IInv, NEW c \in data.cafes, NEW card \in Card, Reporting(card),
         cards' = [cards EXCEPT ![c] = card],
         UNCHANGED <<search, location, typed>>, faults' \in 0 .. MaxFaults
  PROVE  IInv'
<1>1. UNCHANGED <<query, sequence, attempts, status, data, located, prompt, problem, typed>>
  BY DEF search, location
<1>2. DOMAIN cards' = data'.cafes /\ \A d \in data'.cafes: cards'[d] \in Card
  BY <1>1 DEF IInv, TypeOK
<1>3. TypeOK'
  BY <1>1, <1>2 DEF IInv, TypeOK
<1>4. Current' /\ AnswersTheQuery'
  BY <1>1 DEF IInv, Current, AnswersTheQuery, Live
<1>5. Reports'
  BY <1>1 DEF IInv, TypeOK, Reports
<1> QED  BY <1>3, <1>4, <1>5 DEF IInv

-----------------------------------------------------------------------------
LEMMA TypeStep ==
  ASSUME IInv, NEW q \in Queries, Type(q)
  PROVE  IInv'
<1>0. /\ typed' = typed + 1 /\ typed' \in 0 .. MaxTyped /\ query' = q
      /\ UNCHANGED <<located, prompt, problem, faults>>
      /\ typed \in Nat /\ sequence \in Nat /\ sequence <= typed
  BY VisitorPageAssumption DEF Type, location, IInv, TypeOK, Current
<1>1. CleanedUp \subseteq Attempt /\ \A a \in CleanedUp: ~Live(a) /\ a.phase # "debounce"
  BY CleaningUp DEF IInv
<1>2. CASE Kind[q] = "short"
  <2>1. attempts' = CleanedUp /\ status' = "idle" /\ Show(NoData) /\ sequence' = sequence
    BY <1>2 DEF Type
  <2>2. NoData \in [query: Queries \cup {none}, cafes: SUBSET Cafes]
    BY DEF NoData
  <2>3. /\ data' = NoData /\ Reports'
        /\ DOMAIN cards' = data'.cafes /\ \A c \in data'.cafes: cards'[c] \in Card
    BY <2>1, <2>2, Showing DEF IInv
  <2>4. TypeOK'
    BY <1>0, <1>1, <2>1, <2>2, <2>3 DEF IInv, TypeOK
  <2>5. Current'
    BY <1>0, <1>1, <2>1 DEF Current, Live
  <2>6. AnswersTheQuery'
    BY <1>0, <1>2, <2>1, <2>3 DEF AnswersTheQuery
  <2> QED  BY <2>3, <2>4, <2>5, <2>6 DEF IInv
<1>3. CASE Kind[q] # "short"
  <2> DEFINE new == [number |-> sequence + 1, query |-> q, aborted |-> FALSE, phase |-> "debounce"]
  <2>1. /\ attempts' = CleanedUp \cup {new} /\ sequence' = sequence + 1
        /\ UNCHANGED <<status, data, cards>>
    BY <1>3 DEF Type
  <2>2. sequence + 1 \in 1 .. MaxTyped
    BY <1>0, VisitorPageAssumption
  <2>3. new \in Attempt /\ new.number = sequence + 1 /\ new.query = q /\ Live(new)
    BY <2>2 DEF Attempt, Live
  <2> HIDE DEF new
  <2>4. TypeOK'
    BY <1>0, <1>1, <2>1, <2>2, <2>3 DEF IInv, TypeOK
  <2>5. Current'
    BY <1>0, <1>1, <1>3, <2>1, <2>3 DEF Current, Live
  <2>6. AnswersTheQuery'
    BY <2>1, <2>3 DEF AnswersTheQuery, Live
  <2>7. Reports'
    BY <2>1 DEF IInv, Reports
  <2> QED  BY <2>4, <2>5, <2>6, <2>7 DEF IInv
<1> QED  BY <1>2, <1>3

LEMMA BeginStep ==
  ASSUME IInv, NEW a \in attempts, Begin(a)
  PROVE  IInv'
<1>1. PICK p \in {"locating", "fetching"}: Goes(a, p) /\ prompt' \in {prompt, TRUE}
  BY DEF Begin
<1> DEFINE b == [a EXCEPT !.phase = p]
<1>2. /\ attempts' = (attempts \ {a}) \cup {b}
      /\ status' = "loading"
      /\ UNCHANGED <<query, sequence, data, located, problem, cards, typed, faults>>
  BY <1>1 DEF Goes, Begin
<1>3. a \in Attempt /\ Live(a)
  BY DEF IInv, TypeOK, Current, Begin
<1>4. b \in Attempt /\ b.phase = p /\ b.number = a.number /\ b.query = a.query /\ b.aborted = a.aborted
  <2>1. p \in {"debounce", "locating", "fetching", "lost"}
    OBVIOUS
  <2> QED  BY <1>3, <2>1, GoingOn
<1> HIDE DEF b
<1>5. TypeOK'
  BY <1>1, <1>2, <1>4 DEF IInv, TypeOK
<1>6. Current'
  BY <1>1, <1>2, <1>3, <1>4 DEF IInv, Current, Live
<1>7. AnswersTheQuery'
  BY <1>2, <1>3, <1>4 DEF AnswersTheQuery, Live
<1>8. Reports'
  BY <1>2 DEF IInv, Reports
<1> QED  BY <1>5, <1>6, <1>7, <1>8 DEF IInv

LEMMA LocateStep ==
  ASSUME IInv, NEW found \in BOOLEAN, Locate(found)
  PROVE  IInv'
<1> DEFINE waiting == {a \in attempts: a.phase = "locating"}
           lost == {a \in waiting: ~found /\ Kind[a.query] = "nearby"}
           On(a) == [a EXCEPT !.phase = "fetching"]
<1>1. /\ attempts' = (attempts \ waiting) \cup {On(a): a \in waiting \ lost}
      /\ status' = IF \E a \in lost: ~a.aborted THEN "error" ELSE status
      /\ <<located', prompt', problem'>> \in BOOLEAN \X BOOLEAN \X BOOLEAN
      /\ UNCHANGED <<query, sequence, data, cards, typed, faults>>
  BY DEF Locate
<1>2. \A a \in waiting: /\ On(a) \in Attempt /\ On(a).phase = "fetching" /\ On(a).number = a.number
                        /\ On(a).query = a.query /\ On(a).aborted = a.aborted
  BY GoingOn DEF IInv, TypeOK
<1> HIDE DEF On
<1>3. TypeOK'
  BY <1>1, <1>2 DEF IInv, TypeOK
<1>4. Current'
  <2>1. \A b \in attempts': \/ b \in attempts /\ b \notin waiting
                            \/ \E a \in waiting \ lost: b = On(a)
    BY <1>1
  <2>2. \A b \in attempts': Live(b) => b.number = sequence /\ b.query = query /\ Kind[query] # "short"
    BY <1>2, <2>1 DEF IInv, Current, Live
  <2>3. \A b \in attempts': b.phase = "debounce" => Live(b)
    BY <1>2, <2>1 DEF IInv, Current, Live
  <2>4. \A b, c \in attempts': Live(b) /\ Live(c) => b = c
    BY <1>2, <2>1 DEF IInv, Current, Live
  <2> QED  BY <1>1, <2>2, <2>3, <2>4 DEF IInv, Current
<1>5. AnswersTheQuery'
  <2>1. CASE \E a \in lost: Live(a)
    BY <1>1, <2>1 DEF IInv, Current, AnswersTheQuery, Live
  <2>2. CASE \A a \in lost: ~Live(a)
    <3>1. ASSUME \A b \in attempts': ~Live(b) PROVE \A a \in attempts: ~Live(a)
      <4>1. ASSUME NEW a \in attempts PROVE ~Live(a)
        <5>1. CASE a \notin waiting
          BY <1>1, <3>1, <5>1
        <5>2. CASE a \in waiting \ lost
          BY <1>1, <1>2, <3>1, <5>2 DEF Live
        <5> QED  BY <2>2, <5>1, <5>2
      <4> QED  BY <4>1
    <3> QED  BY <1>1, <2>2, <3>1 DEF IInv, AnswersTheQuery, Live
  <2> QED  BY <2>1, <2>2
<1>6. Reports'
  BY <1>1 DEF IInv, Reports
<1> QED  BY <1>3, <1>4, <1>5, <1>6 DEF IInv

\* An attempt that is over leaves the others as they are.
LEMMA OverStep ==
  ASSUME Current, NEW a \in attempts, Over(a), UNCHANGED <<query, sequence, typed>>
  PROVE  /\ Current'
         /\ Live(a) => \A b \in attempts': ~Live(b)
         /\ ~Live(a) /\ (\A b \in attempts': ~Live(b)) => \A b \in attempts: ~Live(b)
  BY DEF Current, Over, Live

LEMMA AnswerStep ==
  ASSUME IInv, NEW a \in attempts, NEW cafes \in SUBSET Cafes, Answer(a, cafes)
  PROVE  IInv'
<1> DEFINE answer == [query |-> a.query, cafes |-> cafes]
<1>1. Live(a) /\ a.number = sequence /\ a.query = query /\ Kind[query] # "short" /\ a.query \in Queries
  BY DEF Answer, IInv, Current, Live, TypeOK, Attempt
<1>2. /\ Over(a) /\ Show(answer) /\ status' = "ready"
      /\ UNCHANGED <<query, sequence, located, prompt, problem, typed, faults>>
  BY <1>1 DEF Answer, location
<1>3. answer \in [query: Queries \cup {none}, cafes: SUBSET Cafes]
  BY <1>1
<1>4. /\ data' = answer /\ Reports'
      /\ DOMAIN cards' = data'.cafes /\ \A c \in data'.cafes: cards'[c] \in Card
  BY <1>2, <1>3, Showing DEF IInv
<1>5. TypeOK'
  BY <1>2, <1>3, <1>4 DEF IInv, TypeOK, Over
<1>6. Current'
  BY <1>2, OverStep DEF IInv
<1>7. AnswersTheQuery'
  BY <1>1, <1>2, <1>4 DEF AnswersTheQuery
<1> QED  BY <1>4, <1>5, <1>6, <1>7 DEF IInv

LEMMA FailStep ==
  ASSUME IInv, NEW a \in attempts, Fail(a)
  PROVE  IInv'
<1>1. Over(a) /\ UNCHANGED <<query, sequence, data, located, prompt, problem, cards, typed>>
  BY DEF Fail, location
<1>2. status' \in {status, "error"} /\ faults' \in 0 .. MaxFaults
  BY VisitorPageAssumption DEF Fail, IInv, TypeOK
<1>3. TypeOK'
  BY <1>1, <1>2 DEF IInv, TypeOK, Over
<1>4. Current' /\ (~Live(a) /\ (\A b \in attempts': ~Live(b)) => \A b \in attempts: ~Live(b))
  BY <1>1, OverStep DEF IInv
<1>5. AnswersTheQuery'
  <2>1. CASE Live(a)
    BY <1>1, <2>1 DEF Fail, Live, IInv, Current, AnswersTheQuery
  <2>2. CASE ~Live(a)
    BY <1>1, <1>4, <2>2 DEF Fail, Live, IInv, AnswersTheQuery
  <2> QED  BY <2>1, <2>2
<1>6. Reports'
  BY <1>1 DEF IInv, Reports
<1> QED  BY <1>3, <1>4, <1>5, <1>6 DEF IInv

\* A lost request is still the attempt's.
LEMMA LoseStep ==
  ASSUME IInv, NEW a \in attempts, Lose(a)
  PROVE  IInv'
<1> DEFINE b == [a EXCEPT !.phase = "lost"]
<1>1. /\ attempts' = (attempts \ {a}) \cup {b}
      /\ UNCHANGED <<query, sequence, status, data, located, prompt, problem, cards, typed>>
  BY DEF Lose, Goes, location
<1>2. /\ b \in Attempt /\ b.phase = "lost"
      /\ b.number = a.number /\ b.query = a.query /\ b.aborted = a.aborted
  BY GoingOn DEF IInv, TypeOK
<1>3. Live(a) /\ faults' \in 0 .. MaxFaults
  BY VisitorPageAssumption DEF Lose, Live, IInv, TypeOK
<1> HIDE DEF b
<1>4. TypeOK'
  BY <1>1, <1>2, <1>3 DEF IInv, TypeOK
<1>5. Current'
  BY <1>1, <1>2, <1>3 DEF IInv, Current, Live
<1>6. AnswersTheQuery'
  BY <1>1, <1>2, <1>3 DEF AnswersTheQuery, Live
<1>7. Reports'
  BY <1>1 DEF IInv, Reports
<1> QED  BY <1>4, <1>5, <1>6, <1>7 DEF IInv

-----------------------------------------------------------------------------
LEMMA PhotoStep ==
  ASSUME IInv, NEW c \in Cafes,
         \/ Load(c) \/ ReportBroken(c) \/ LosePhoto(c)
         \/ \E url \in Urls \cup {none}: FetchPhoto(c, url) \/ RefreshPhoto(c, url)
  PROVE  IInv'
<1>1. c \in data.cafes
  BY DEF Load, ReportBroken, LosePhoto, ShowsImage, FetchPhoto, RefreshPhoto
<1>a. \A card: Becomes(c, card) => /\ cards' = [cards EXCEPT ![c] = card] /\ faults' \in 0 .. MaxFaults
                                   /\ UNCHANGED <<search, location, typed>>
  BY DEF Becomes, IInv, TypeOK
<1>2. cards[c] \in Card /\ Reporting(cards[c])
  BY <1>1 DEF IInv, TypeOK, Reports
<1>3. CASE Load(c)
  <2> DEFINE card == [cards[c] EXCEPT !.image = "shown"]
  <2>1. card \in Card /\ Reporting(card)
    BY <1>2, <1>3 DEF Card, Images, Reporting, Load
  <2> QED  BY <1>1, <1>a, <1>3, <2>1, CardStep DEF Load
<1>4. CASE ReportBroken(c)
  <2>1. cards[c].image = "loading"
    BY <1>4 DEF ReportBroken
  <2>2. CASE cards[c].refresh = "settled"
    <3> DEFINE card == [cards[c] EXCEPT !.image = "failed", !.broken = TRUE]
    <3>1. card \in Card /\ Reporting(card)
      BY <1>2, <2>2 DEF Card, Images, Reporting
    <3> QED  BY <1>1, <1>a, <1>4, <2>2, <3>1, CardStep DEF ReportBroken, Reported
  <2>3. CASE cards[c].refresh = "none"
    <3> DEFINE card == [cards[c] EXCEPT !.image = "failed", !.refresh = "pending", !.reports = @ + 1]
    <3>1. cards[c].reports = 0 /\ cards[c].reports + 1 \in 0 .. 1
      BY <1>2, <2>1, <2>3 DEF Card, Reporting
    <3>2. card \in Card
      BY <1>2, <3>1 DEF Card, Images
    <3>3. card.refresh = "pending" /\ card.image = "failed"
      BY <1>2 DEF Card
    <3>4. Reporting(card)
      BY <3>3 DEF Reporting
    <3> QED  BY <1>1, <1>a, <1>4, <2>3, <3>2, <3>4, CardStep DEF ReportBroken, Reported
  <2>4. cards[c].refresh \notin {"pending", "lost"}
    BY <1>2, <2>1 DEF Reporting
  <2> QED  BY <1>2, <2>2, <2>3, <2>4 DEF Card
<1>5. ASSUME NEW url \in Urls \cup {none}, FetchPhoto(c, url) PROVE IInv'
  <2> DEFINE card == [cards[c] EXCEPT !.photo = "answered", !.url = url]
  <2>1. card \in Card /\ Reporting(card)
    BY <1>2 DEF Card, Images, Reporting
  <2> QED  BY <1>1, <1>a, <1>5, <2>1, CardStep DEF FetchPhoto
<1>6. ASSUME NEW url \in Urls \cup {none}, RefreshPhoto(c, url) PROVE IInv'
  <2>1. Refreshed(cards[c], url) \in Card /\ Reporting(Refreshed(cards[c], url))
    BY <1>2 DEF Card, Images, Reporting, Refreshed
  <2> QED  BY <1>1, <1>a, <1>6, <2>1, CardStep DEF RefreshPhoto
<1>7. CASE LosePhoto(c)
  <2> DEFINE card == [cards[c] EXCEPT !.refresh = "lost"]
  <2>1. card \in Card /\ card.refresh = "lost" /\ card.image = cards[c].image /\ cards[c].refresh = "pending"
    BY <1>2, <1>7 DEF Card, LosePhoto
  <2>2. Reporting(card)
    BY <1>2, <2>1 DEF Reporting
  <2>3. faults' \in 0 .. MaxFaults
    BY <1>7, VisitorPageAssumption DEF LosePhoto, IInv, TypeOK
  <2> QED  BY <1>1, <1>7, <2>1, <2>2, <2>3, CardStep DEF LosePhoto
<1> QED  BY <1>3, <1>4, <1>5, <1>6, <1>7

LEMMA Inductive == Spec => []IInv
<1>1. Init => IInv
  <2>1. NoData \in [query: Queries \cup {none}, cafes: SUBSET Cafes] /\ NoData.cafes = {}
    BY DEF NoData
  <2>2. Init => DOMAIN cards = {} /\ cards = [c \in {} |-> Fresh]
    BY DEF Init
  <2>3. Init => TypeOK
    <3> SUFFICES ASSUME Init PROVE TypeOK
      OBVIOUS
    <3>1. query \in Queries /\ sequence = 0 /\ attempts = {} /\ status = "idle" /\ typed = 0
      BY DEF Init
    <3>2. data \in [query: Queries \cup {none}, cafes: SUBSET Cafes] /\ data.cafes = {}
      BY <2>1 DEF Init
    <3>3. <<located, prompt, problem>> \in BOOLEAN \X BOOLEAN \X BOOLEAN
      BY DEF Init
    <3>4. faults \in 0 .. MaxFaults /\ 0 \in 0 .. MaxTyped
      BY VisitorPageAssumption DEF Init
    <3> QED  BY <2>2, <3>1, <3>2, <3>3, <3>4 DEF TypeOK
  <2>4. Init => Current /\ Reports /\ AnswersTheQuery
    BY <2>1 DEF Init, Current, Reports, AnswersTheQuery
  <2> QED  BY <2>3, <2>4 DEF IInv
<1>2. IInv /\ [Next]_vars => IInv'
  <2> SUFFICES ASSUME IInv, [Next]_vars PROVE IInv'
    OBVIOUS
  <2>1. CASE \E q \in Queries: Type(q)
    BY <2>1, TypeStep
  <2>2. CASE \E a \in attempts: Begin(a) \/ Ends(a) \/ Lose(a)
    BY <2>2, BeginStep, AnswerStep, FailStep, LoseStep DEF Ends
  <2>3. CASE \E found \in BOOLEAN: Locate(found)
    BY <2>3, LocateStep
  <2>4. CASE \E c \in Cafes: \/ Load(c) \/ ReportBroken(c) \/ LosePhoto(c)
                            \/ \E url \in Urls \cup {none}: FetchPhoto(c, url) \/ RefreshPhoto(c, url)
    BY <2>4, PhotoStep
  <2>5. CASE UNCHANGED vars
    <3>1. UNCHANGED <<query, sequence, attempts, status, data, located, prompt, problem, cards, typed, faults>>
      BY <2>5 DEF vars, search, location
    <3>2. TypeOK'
      BY <3>1 DEF IInv, TypeOK
    <3>3. Current' /\ Reports' /\ AnswersTheQuery'
      BY <3>1 DEF IInv, Current, Reports, AnswersTheQuery, Live
    <3> QED  BY <3>2, <3>3 DEF IInv
  <2> QED  BY <2>1, <2>2, <2>3, <2>4, <2>5 DEF Next
<1> QED  BY <1>1, <1>2, PTL DEF Spec

(***************************************************************************)
(* The page's state is well typed; in particular usePlacePhoto reports a   *)
(* broken image to the API at most once in a card's life.                  *)
(***************************************************************************)
THEOREM TypeCorrect == Spec => []TypeOK
<1>1. IInv => TypeOK
  BY DEF IInv
<1> QED  BY <1>1, Inductive, PTL

(***************************************************************************)
(* Whatever is still under way, a page that waits for nothing shows the    *)
(* answer to what is typed, an error, or the start: the cleanup of         *)
(* useRecommendations' effect leaves no late answer that could be shown.   *)
(***************************************************************************)
THEOREM PageAnswersTheQuery == Spec => []AnswersTheQuery
<1>1. IInv => AnswersTheQuery
  BY DEF IInv
<1> QED  BY <1>1, Inductive, PTL
=============================================================================

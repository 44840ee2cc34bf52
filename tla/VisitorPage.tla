---------------------------- MODULE VisitorPage -----------------------------
(***************************************************************************)
(* The visitor's page: the search it makes as the visitor types            *)
(* (useRecommendations) and the photos of the cafes it shows               *)
(* (usePlacePhoto).                                                        *)
(*                                                                         *)
(* Every change of the query aborts the attempt before it and, when the    *)
(* query is long enough, starts another: it waits 350 ms, perhaps for the  *)
(* visitor's location, then for the answer of the API.  An attempt that    *)
(* waits for the location cannot be aborted there: it goes on afterwards,  *)
(* next to its successors.  No request has a deadline: one that the        *)
(* network loses never ends, unless it is aborted.                         *)
(*                                                                         *)
(* The cards of an answer each ask for a photo                             *)
(* and, when the browser cannot load it, once for another.  A card that    *)
(* leaves the page takes its requests with it.                             *)
(***************************************************************************)
EXTENDS Naturals, FiniteSets

CONSTANTS
    Queries,     \* texts the visitor types
    Kind,        \* what the location patterns make of each
    Cafes,       \* places an answer may hold
    Urls,        \* photo URLs
    none,        \* no URL, or no answer
    MaxTyped,    \* changes of the query or the language
    MaxFaults    \* requests that fail or are lost

ASSUME VisitorPageAssumption ==
    /\ Kind \in [Queries -> {"short", "named", "nearby", "plain"}]
    /\ \E q \in Queries: Kind[q] = "short"
    /\ none \notin Urls \cup Queries
    /\ MaxTyped \in Nat /\ MaxFaults \in Nat

VARIABLES
    query,      \* what the visitor has typed
    sequence,   \* the number of the last attempt
    attempts,   \* the attempts not over
    status,     \* what the panel says
    data,       \* the answer shown
    located,    \* the visitor's location is known
    prompt,     \* the browser is asking for it
    problem,    \* it could not be had, the last time
    cards,      \* the card of each cafe
    typed,      \* changes made
    faults      \* left

search == <<query, sequence, attempts, status, data>>
location == <<located, prompt, problem>>
vars == <<search, location, cards, typed, faults>>

Attempt == [number: 1 .. MaxTyped, query: Queries, aborted: BOOLEAN,
            phase: {"debounce", "locating", "fetching", "lost"}]

\* What an <img> that is given a URL has made of it.
Images == {"loading", "shown", "failed"}
Card == [photo: {"asked", "answered"}, url: Urls \cup {none}, image: Images, broken: BOOLEAN,
         refresh: {"none", "pending", "lost", "settled"}, reports: 0 .. 1]
Fresh == [photo |-> "asked", url |-> none, image |-> "loading", broken |-> FALSE,
          refresh |-> "none", reports |-> 0]

NoData == [query |-> none, cafes |-> {}]

\* The type invariant: a card reports a broken image to the API once in its life.
TypeOK ==
    /\ query \in Queries
    /\ sequence \in 0 .. MaxTyped
    /\ attempts \subseteq Attempt
    /\ status \in {"idle", "loading", "ready", "error"}
    /\ data \in [query: Queries \cup {none}, cafes: SUBSET Cafes]
    /\ <<located, prompt, problem>> \in BOOLEAN \X BOOLEAN \X BOOLEAN
    /\ DOMAIN cards = data.cafes /\ \A c \in data.cafes: cards[c] \in Card
    /\ typed \in 0 .. MaxTyped /\ faults \in 0 .. MaxFaults

Init ==
    /\ query \in {q \in Queries: Kind[q] = "short"}
    /\ sequence = 0 /\ attempts = {}
    /\ status = "idle" /\ data = NoData
    /\ located = FALSE /\ prompt = FALSE /\ problem = FALSE
    /\ cards = [c \in {} |-> Fresh]
    /\ typed = 0 /\ faults = MaxFaults
-----------------------------------------------------------------------------
(***************************************************************************)
(* The search.                                                             *)
(***************************************************************************)

\* The cards of the new answer; those that stay keep their photo.
Show(answer) ==
    /\ data' = answer
    /\ cards' = [c \in answer.cafes |-> IF c \in data.cafes THEN cards[c] ELSE Fresh]

LeftRunning ==  \* mutant: requests are not aborted
    {a \in attempts: a.phase # "debounce"}

\* Cleaning up after an attempt clears its timer and aborts its request.
CleanedUp == {[a EXCEPT !.aborted = TRUE]: a \in {b \in attempts: b.phase # "debounce"}}

Type(q) ==
    /\ typed < MaxTyped
    /\ typed' = typed + 1
    /\ query' = q
    /\ IF Kind[q] = "short"
       THEN /\ attempts' = CleanedUp
            /\ status' = "idle"
            /\ Show(NoData)
            /\ UNCHANGED sequence
       ELSE /\ attempts' = CleanedUp \cup {[number |-> sequence + 1, query |-> q,
                                           aborted |-> FALSE, phase |-> "debounce"]}
            /\ sequence' = sequence + 1
            /\ UNCHANGED <<status, data, cards>>
    /\ UNCHANGED <<location, faults>>

Over(a) == attempts' = attempts \ {a}
Goes(a, phase) == attempts' = (attempts \ {a}) \cup {[a EXCEPT !.phase = phase]}

\* A query that names no place is searched from where the visitor is.
ShouldLocate(a) == Kind[a.query] # "named" /\ ~located

\* The browser is asked once for all attempts, and again only for a query that says "near me".
Asks(a) == prompt \/ ~problem \/ Kind[a.query] = "nearby"

\* The timer of an attempt fires.
Begin(a) ==
    /\ a \in attempts /\ a.phase = "debounce"
    /\ status' = "loading"
    /\ \/ ShouldLocate(a) /\ Asks(a) /\ Goes(a, "locating") /\ prompt' = TRUE
       \/ ~(ShouldLocate(a) /\ Asks(a)) /\ Goes(a, "fetching") /\ UNCHANGED prompt
    /\ UNCHANGED <<query, sequence, data, located, problem, cards, typed, faults>>

(***************************************************************************)
(* The location is known, refused or late, and every attempt that waited   *)
(* for it goes on: to the API, which an aborted one does not reach, or to  *)
(* an error where the query says "near me" and there is no location.       *)
(***************************************************************************)
Locate(found) ==
    LET waiting == {a \in attempts: a.phase = "locating"}
        lost == {a \in waiting: ~found /\ Kind[a.query] = "nearby"}
    IN  /\ prompt /\ prompt' = FALSE
        /\ located' = found
        /\ problem' = ~found
        /\ attempts' = (attempts \ waiting) \cup {[a EXCEPT !.phase = "fetching"]: a \in waiting \ lost}
        /\ status' = IF \E a \in lost: ~a.aborted THEN "error" ELSE status
        /\ UNCHANGED <<query, sequence, data, cards, typed, faults>>

\* The API answers; an aborted request rejects instead.
Answer(a, cafes) ==
    /\ a \in attempts /\ a.phase = "fetching" /\ ~a.aborted
    /\ Over(a)
    /\ IF a.number = sequence
       THEN Show([query |-> a.query, cafes |-> cafes]) /\ status' = "ready"
       ELSE UNCHANGED <<status, data, cards>>
    /\ UNCHANGED <<query, sequence, location, typed, faults>>

FailInSilence(a) ==  \* mutant: no error is shown
    /\ a \in attempts /\ a.phase = "fetching"
    /\ Over(a)
    /\ \/ a.aborted /\ UNCHANGED faults
       \/ ~a.aborted /\ faults > 0 /\ faults' = faults - 1
    /\ UNCHANGED <<query, sequence, status, data, location, cards, typed>>

Fail(a) ==
    /\ a \in attempts /\ (a.phase = "fetching" \/ (a.phase = "lost" /\ a.aborted))
    /\ Over(a)
    /\ \/ a.aborted /\ UNCHANGED <<status, faults>>
       \/ ~a.aborted /\ status' = "error" /\ faults > 0 /\ faults' = faults - 1
    /\ UNCHANGED <<query, sequence, data, location, cards, typed>>

\* The network drops the request or its answer: only aborting ends it (Fail).
Lose(a) ==
    /\ a \in attempts /\ a.phase = "fetching" /\ ~a.aborted
    /\ faults > 0 /\ faults' = faults - 1
    /\ Goes(a, "lost")
    /\ UNCHANGED <<query, sequence, status, data, location, cards, typed>>
-----------------------------------------------------------------------------
(***************************************************************************)
(* The photo of a card.  A request that fails is a place without a photo.  *)
(***************************************************************************)

Becomes(c, card) == cards' = [cards EXCEPT ![c] = card] /\ UNCHANGED <<search, location, typed, faults>>

FetchPhoto(c, url) ==
    /\ c \in data.cafes /\ cards[c].photo = "asked"
    /\ Becomes(c, [cards[c] EXCEPT !.photo = "answered", !.url = url])

ShowsImage(c) == c \in data.cafes /\ cards[c].url # none /\ ~cards[c].broken

Load(c) ==
    /\ ShowsImage(c) /\ cards[c].image = "loading"
    /\ Becomes(c, [cards[c] EXCEPT !.image = "shown"])

ReportsAgain(card) ==  \* mutant: every failure is reported
    [card EXCEPT !.image = "failed", !.refresh = "pending", !.reports = @ + 1]

\* A second failure settles for the card's art, once the first report is answered.
Reported(card) ==
    IF card.refresh = "settled" THEN [card EXCEPT !.image = "failed", !.broken = TRUE]
    ELSE IF card.refresh # "none" THEN [card EXCEPT !.image = "failed"]
    ELSE [card EXCEPT !.image = "failed", !.refresh = "pending", !.reports = @ + 1]

\* The browser cannot load the image, and the card reports it.
ReportBroken(c) ==
    /\ ShowsImage(c) /\ cards[c].image = "loading"
    /\ Becomes(c, Reported(cards[c]))

Replaced(card, url) ==  \* mutant: the URL that failed is shown again
    IF url # none THEN [card EXCEPT !.refresh = "settled", !.url = url,
                                    !.image = IF url = card.url THEN @ ELSE "loading"]
    ELSE [card EXCEPT !.refresh = "settled", !.broken = TRUE]

\* The answer to a report is the new image, unless it is the one that failed.
Refreshed(card, url) ==
    IF url \notin {none, card.url}
    THEN [card EXCEPT !.refresh = "settled", !.url = url, !.image = "loading"]
    ELSE [card EXCEPT !.refresh = "settled", !.broken = TRUE]

RefreshPhoto(c, url) ==
    /\ c \in data.cafes /\ cards[c].refresh = "pending"
    /\ Becomes(c, Refreshed(cards[c], url))

\* The network drops a report or its answer: the card waits for as long as it is there.
LosePhoto(c) ==
    /\ c \in data.cafes /\ cards[c].refresh = "pending"
    /\ faults > 0 /\ faults' = faults - 1
    /\ cards' = [cards EXCEPT ![c].refresh = "lost"]
    /\ UNCHANGED <<search, location, typed>>
-----------------------------------------------------------------------------
Ends(a) == Fail(a) \/ \E cafes \in SUBSET Cafes: Answer(a, cafes)

Next ==
    \/ \E q \in Queries: Type(q)
    \/ \E a \in attempts: Begin(a) \/ Ends(a) \/ Lose(a)
    \/ \E found \in BOOLEAN: Locate(found)
    \/ \E c \in Cafes:
          \/ Load(c) \/ ReportBroken(c) \/ LosePhoto(c)
          \/ \E url \in Urls \cup {none}: FetchPhoto(c, url) \/ RefreshPhoto(c, url)

Spec == Init /\ [][Next]_vars

(***************************************************************************)
(* Timers fire, requests that are not lost end, aborted ones at once, and  *)
(* the visitor answers the browser's question: its 8 seconds only start    *)
(* with that.  A lost request ends by no rule (recommendations.ts:23 has   *)
(* no deadline), and nothing is assumed of images and first photos.        *)
(***************************************************************************)
FairSpec ==
    /\ Spec
    /\ WF_vars(\E a \in attempts: Begin(a))
    /\ WF_vars(\E found \in BOOLEAN: Locate(found))
    /\ \A n \in 1 .. MaxTyped: WF_vars(\E a \in attempts: a.number = n /\ Ends(a))
    /\ \A c \in Cafes: WF_vars(\E url \in Urls \cup {none}: RefreshPhoto(c, url))
-----------------------------------------------------------------------------
(***************************************************************************)
(* Whatever attempts are still about, a page that waits for nothing shows  *)
(* the answer to what is typed, an error, or the start: never the answer   *)
(* to an earlier query, and no spinner.                                    *)
(***************************************************************************)
AnswersTheQuery ==
    (\A a \in attempts: a.aborted) =>
        /\ status = "idle" <=> Kind[query] = "short"
        /\ status = "idle" => data = NoData
        /\ status = "ready" => data.query = query
        /\ status # "loading"

\* A query the visitor leaves alone is answered or refused, refused location or not, unless
\* the network loses its request: then the spinner stays until the next change of the query.
SearchEnds ==
    \A q \in Queries:
        query = q ~> \/ query # q \/ status \in {"idle", "error"}
                     \/ status = "ready" /\ data.query = q
                     \/ \E a \in attempts: ~a.aborted /\ a.phase = "lost"

(***************************************************************************)
(* No card keeps a dead image ("if the attempt yields nothing, or the same *)
(* URL again, the card settles on its art", usePlacePhoto.ts:11), unless   *)
(* the network loses its report.                                           *)
(***************************************************************************)
CardsSettle ==
    \A c \in Cafes:
        LET Dead == ShowsImage(c) /\ cards[c].image = "failed"
        IN  Dead ~> \/ ~Dead \/ cards[c].refresh = "lost"
=============================================================================

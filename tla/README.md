# A specification of ngopidimana

ngopidimana recommends cafés. Administrators submit the URL of a café; the back end
crawls it into a record of evidence, administrators review the record and publish it, and
visitors search what is published. These TLA+ modules model the parts of the system, its
two web apps included, whose behaviour depends on the order of things: requests that
overlap, crawls that fail and are retried, links and photo URLs that expire, evidence that
is edited in any order, a catalogue that is read while it changes, answers that arrive late.
TLC checks each on small instances; TLAPS proves their safety properties for every size of
the system.

Paths are relative to `src/`; `internal/` stands for `src/backend/internal/`.

## Reading order

| Module | Models | Checked by | Proved in |
|---|---|---|---|
| `Ingestion` | the life of a record: requests, Redis store, queue, worker, catalogue entries | `MCIngestion` | `IngestionProofs` |
| `Entries` | `Ingestion` with a history of what comes between catalogue entries and records | `MCEntries` | `IngestionProofs` |
| `Conflicts` | which evidence conflicts (`detectEvidenceConflicts`); used by the next two | | |
| `Crawl` | the evidence of one crawl: page, Google, three searches, the model's claims | `MCCrawl` | `CrawlProofs` |
| `Evidence` | the evidence of one record, what it publishes, the review edits | `MCEvidence` | `EvidenceProofs` |
| `ReviewedRun` | abstract: what a record's evidence may do to the record | implemented by `Evidence` | `EvidenceProofs` |
| `Recommend` | what a query asks for, and the score of a café (operators, no state) | through `Search` | |
| `Search` | a search beside publications: interpreter, the statements of `ListPublished`, ranking | `MCSearch` | `SearchProofs` |
| `SignIn` | contributors, mailed links, sessions | `MCSignIn` | `SignInProofs` |
| `PlacePhoto` | cover photos: URL cache, refreshes, stored references | `MCPlacePhoto` | `PlacePhotoProofs` |
| `AdminQueue` | the admin app's review queue and session | `MCAdminQueue` | `AdminQueueProofs` |
| `VisitorPage` | the visitor's search box and the photos of the cards | `MCVisitorPage` | `VisitorPageProofs` |

Constants that the code fixes (200 listed runs, 3 links, 15 minutes, 5 minutes of cooldown)
are CONSTANTS, and time is counted in ticks, so that an instance reaches the limit in few
steps. Every bound that only keeps an instance finite is marked `(bound)` where the
constant is declared. Operators whose comment says `mutant` are plausible wrong versions
of the operator next to them; no specification uses them.

## The system's parts

**Ingestion runs** (`internal/ingestion/{service,store,queue,worker,model}.go`, the
handlers of `internal/httpapi/server.go`). *State:* a JSON document per run in Redis, a
sorted index of run ids, a tombstone per deleted id that expires after 24 hours, the
Asynq queue, and the copy that each running task and each request holds. *Operations:*
create (with or without force), review, publish, refresh, archive, delete, the evidence
edits, and the worker's stages. *Interaction:* a request reads a run, decides, calls the
catalogue or the queue, and writes the run whole; a worker loads it once and writes its copy at
each of up to nine stages. *Hard:* nothing carries a version, so everybody overwrites
everybody; a crawl lasts minutes; the worker may fail between any two stages and start
again. *Correct when:* deletion is final; what is shown as published was publishable;
no run stays in `enriching` without somebody to finish it; the catalogue has exactly the
places that records stand for.

**Evidence review and conflicts** (`internal/ingestion/{llm,service,google_places,coverage}.go`,
`publicationData` in `internal/catalogue/catalogue.go`). *State:* the fields of a run with
their sources, confidence and exclusion, the run's name, area and issues. *Operations:* add
and remove manual evidence, exclude, restore, choose, replace; conflicts are recomputed at
every read and write. *Hard:* three mechanisms (exclusion, Google's precedence, confidence)
decide together which value is published, in an order of edits that no test walks through.
*Correct when:* contradictions are published only on somebody's decision, a decision takes
effect whatever preceded it, and the catalogue serves what a published record shows.

**Catalogue** (`internal/catalogue/catalogue.go`). *State:* Postgres tables of places,
locations, facts, scores, links, menu items. *Operations:* Publish (one transaction), Remove,
ListPublished (a statement for the places, then one for each other table), and the photo
columns. *Interaction:* called by ingestion, by search and by the photo handlers. *Hard:* the
statements of ListPublished have no transaction, so one answer mixes publications.
*Correct when:* what a search reads of a café was published while it ran, and no
other publication costs a café its place in it.

**Contributor sign-in** (`internal/auth/*.go`, `internal/httpapi/auth.go`,
`backend/cmd/contributors`). *State:* allow-list, login links, sessions. *Operations:* ask for a
link, follow it, use and close a session, invite and remove an address. *Hard:* a sign-in
is several statements; requests of one address overlap, links expire, are pruned, and
outlive an invitation. *Correct when:* a link opens one session, removing an address ends everything it
held, the number of links is limited.

**Place photos** (`internal/httpapi/photo.go`, photo columns of the catalogue, Google's
client). *State:* an in-process cache of URLs, the counters of the refresh budget, the stored reference
of each place. *Operations:* view, report a broken photo, publish. *Hard:* Google expires names at any
time; the cache is unlocked while a request calls Google; process memory is lost at a
restart. *Correct when:* a dead URL is served for a bounded time, a reported URL does not
return, refreshes are limited by a cooldown and a daily budget.

**Source discovery** (`internal/ingestion/exa.go`). *State:* the list of sources of one crawl.
*Operations:* three searches (Google Maps reviews, TikTok, the rest of the web), each with a limit, merged by URL.
**Extraction** (`extractor.go`, `google_places.go`, `openrouter.go`, `llm.go`). *State:* the
record under construction and its documents. *Operations:* read the page, merge Google's answer and its
reviews, build a prompt, accept or refuse the model's claims. *Hard:* every provider may fail, and
a model may say anything. *Correct when:* evidence cites what was read, only the page names the café, listings
never outweigh Google, and gaps are explained by warnings.

**Recommendation** (`internal/recommendation`, `recommend` in `server.go`). No state of its own:
a query becomes constraints, preferences, a place and a budget, by a model or by word lists,
and cafés are filtered and ranked by them. *Hard:* model and word lists overrule each other, and places come from
the query and from the browser. *Correct when:* what the answer calls a hard filter
holds, a named place bounds the search, and a better café does not rank lower.

**Admin app** (`apps/admin/src/hooks`). *State:* the list of runs shown, a retry timer, the session's
status. *Operations:* load, poll, retry, create, update, delete, bulk operations, sign out. *Hard:* answers arrive
in any order, refs and timers outlive the components they belong to. *Correct when:* the
queue catches up with the server, and what the page says of itself is true.

**Web app** (`apps/web/src/hooks`). *State:* the attempts of a search, the location, the cards.
*Operations:* type, locate, fetch, load images, report broken ones. *Hard:* an attempt that waits for the location
cannot be aborted and goes on beside its successors. *Correct when:* the page ends with the
answer to what is typed, and no card keeps a dead image.

The parts meet at few points. The admin app calls ingestion through the sign-in middleware;
ingestion publishes to the catalogue, search and photos read it; the visitor's page calls search and photos and is
the only one to see a photo go dead, which it reports. A crawl writes a record through the
stages of `Ingestion` with the evidence of `Crawl`, which `Evidence` then lets reviewers edit.

## How state and actions correspond to the code

### Ingestion

`runs`/`stored` are the Redis documents, `tombstones` the `:deleted:` keys, `tasks` the queue
with each handler's copy, `requests` the API handlers with theirs, `catalogue` the run last
published for each place. Each access to a shared store is one action, and the code between two
accesses belongs to the one before it: `ReceiveX` reads the run and decides as handler X
does, then `CheckAnother`, `RemoveEntry`, `PublishEntry`, `SaveRequest`, `Enqueue`,
`DeleteRun`, `SaveQueueFailed` follow as in `service.go`. A worker runs `Load`, then one
`Save...` action per stage; `ToReview`, `ToExtraction`, `ToDiscovery` are the jumps taken when a provider is not configured.
`Tombstoned` is the test in `RedisStore.Save`, which is one Lua script there and one action here.
`RequestFails`, `ListFails`, `EnqueueFails`, `WorkerFails` are errors and process deaths.

A run's evidence is one of partial, complete, conflicting. `Evidence` shows that real
evidence does no more than that (below). Stage names, progress and warnings are kept only
where a decision reads them. `List` (an index range, then one MGET) is one read.
Asynq's lease is assumed to hold: a handler that lost its lease and still runs beside its
retry is not modelled. A tombstone outlives every copy (24 hours against requests of
seconds and crawls of minutes), which `ExpireTombstone`'s guard states.

`Entries` adds three history variables to these actions, which note what the code relies on and can lose:
`unseen`, the records that `findByURL` could not find when another was drawn (not yet saved, or beyond the end of the list);
`causes`, per place, each of six occasions on which entry and records come apart (a list that is too short or fails, a record that
moves to another place, a publication that overlaps a removal or a deletion, two deletions at once); `cutOff`, the removals that a
failure ended after the entry was gone. An occasion is noted when two requests stand where their next accesses no longer fit together, or
when the answer of `anotherRecordExists` is wrong, whether or not harm comes of it. The variables steer nothing.

### Crawl

`name`, `unnamed`, `fields`, `documents` are the worker's record, `stage` the provider call that comes
next, `lane` and `sources` the loop of `Discover`. `FetchPage` is `Extract` with `extractHTML`, `ResolvePlace` is
`mergeGooglePlaceEvidence`, `Search` one lane of `Discover` and `Discover` what follows the last,
`Extract` is `ExtractEvidence` with `mergeModelExtraction`; each has an action for
its failure. A text is the set of statements it holds, so that an excerpt is in a document or is not; what
parsing reads in a statement (a price band, a review signal, a link) is given by the
instance. `Shown` is `buildExtractionPrompt`: the documents in order until one is too many or empty.
Stages, saves, retries and overlap belong to `Ingestion`.

### Evidence

`fields` is `run.Fields`; a field's value is its `canonicalConflictValue`, its confidence
counts hundredths, its method is Google's API, another source, or manual. `Contradicted`,
`GoogleWins` and `Conflicting` (in `Conflicts`) are `detectEvidenceConflicts`, `Best` is the selection in
`publicationData`, `Supported` is `chooseRecordIdentity`, which lets a run keep its name
and area when nothing supports them any more. Every edit ends in `SaveReviewed`, as in the
code. What a crawl may bring is given by the instance; `Crawl` has how it comes about. Here
requests come one at a time, but they are served while a crawl of the record is queued or running: `Refresh` starts one and leaves the
old evidence in place, `Crawl` is its end in one step, `CrawlFails` its failure, after which it may be tried again, and `crawls`
counts those that are left. `Review` is the action of that name in `Update`, allowed in every state. Requests that overlap, the stages of a crawl
and archived records belong to `Ingestion`.

### Recommend and Search

`Recommend` has the pure part: `Deterministic` and `Jev` are the two interpreters, `EnforceConstraints` and
`LocationMode` what the service overrules them with, `InPlace`, `Meets` and `MatchScore` the body of
`RankCafes`, in hundredths. A query is what the word lists find in it. Square distances, exponentials and
the scopes' radii are tables that the instance gives.

In `Search` a publication replaces all rows of a place in one transaction, so the tables are
represented by the record that each row ID was last published from, and what a search has read (`cafes`) by
the record behind each piece. `FactsOf`, `ScoresOf` and their evidence are `publicationData` and
`deriveScores`; `Cafe` is what the statements make of the pieces. The handler goes `Receive`, `InterpretWithJev` or
`InterpretLocally`, `ReadPlaces`, `LoadFacts`, `LoadScores` (with the links, which only fill in addresses), `LoadMenus`,
`Respond`; `ReadFails` is any failing statement. One search at a time: searches share nothing. The count that
`/healthz` shows (`CatalogueSize`) is left out.

### SignIn

One action per SQL statement: `RequestLink`, `CountRecent`, `SaveLink` (with the pruning in
its transaction), `SendLink`; `FollowLink`, `Consume`, `OpenSession`; `Logout`; and
`AddContributor`, `RemoveContributor` for the command. A handler keeps the time it started
at. A link's number stands for its random token, and only a mailed link can be followed.
`stays` numbers the invitations of an address. A handler, a link and a session carry both the number under which they were
begun (`stay`: that of the request, which a link takes from its request and a session from its link) and the one under which they were
stored (`inserted`), and `removed` has the time of the last removal, so that a property can tell what outlives it. `PruneAuth`, which nothing calls, and the tests' `MemoryStore` are
left out.

### PlacePhoto

`entries`, `dayStart`, `refreshedDay` are the fields of `photoCache`; a URL is represented by the time at
which it was issued. A view or a refresh is `View`/`Refresh`, then `ReadStored`, `MediaOfStored`, `Lookup`,
`MediaOfFresh`, `Remember`, `Set`, each of which may fail. `Roll` is Google giving a photo a
new name, so that every older name stops working; `Restart` empties the cache. `begun` (when each
lookup of the budget began), `refreshed`, `renewed` (the cached URL's refresh) and `overlapped` are history that the properties read.

### AdminQueue

`rows` is the `runs` state of `useIngestionRuns` (the states of each run's rows, since a created run may be shown
twice for a moment), `retryTimer`, `delay` and `reconnecting` its refs and state, `timeouts` what the
browser really holds, `status` that of `useSession`. A call is a request, or a bulk operation with one
request per run; `Handle` is the API doing it, `Unreachable` a failure or the client's 15 seconds, and `Receive`
the code after the `await`. State set after the dashboard has unmounted is lost, refs and timeouts are
not. Several 401s of one bulk operation are one logout. Edits of evidence answer like `update`
and are not told apart from it.

### VisitorPage

`attempts` are the closures of the effect in `useRecommendations`, each with its number, query and
abort signal, in one of three phases: debounce, waiting for the location, fetching. `Type` is the effect
with the clean-up of the one before. `cards` are the mounted cards, keyed by place, with the state of
`usePlacePhoto` and of their `<img>`. A card that leaves takes its requests with it, as the hook's
clean-up aborts them. A request that the network loses (`Lose`, and `LosePhoto` for a report) has no end of its own, as neither
fetch has a deadline: an attempt stays until it is aborted, a card's report until it leaves.

## What the runs check

Runs that find no violation:

| Run | Question | Instance |
|---|---|---|
| `IngestionRaces` | What survives any interleaving on one record? `DeletedStaysDeleted`, `PublishedIsPublishable`, `EnrichingIsOwned` | 2 requests at once, 3 in all, every operation; 2 tasks on 2 workers, 1 retry, 1 failure |
| `EntriesOverlap` | What makes duplicates, hides published records, or leaves entries without a record? `DuplicatesAreExplained`, `HiddenIsExplained`, `OrphansAreExplained` | 2 records of one URL and place, 2 requests at once, 5 in all (create, publish, delete), 1 failure, a list of one record |
| `IngestionLiveness` | Does every crawl end? `CrawlEnds` | every provider, 2 tasks, 1 worker, 1 retry, 1 failure, deletes and refreshes meanwhile |
| `CrawlEvidence` | What may become evidence? `CitationsHold`, `OnlyThePageNames`, `SourcesDistinct`, `IndexedListingsYield`, `GapsAreExplained` | 4 pages, 3 answers of Google, 8 search results in any order, 11 claims that are supported, misplaced or made up, one of negative confidence |
| `EvidenceReview` | Do review edits, in any order, decide what is published? `PublishedIsServed`, `ContradictionsFollowGoogle`, `ReviewerDecides`, `ReviewsRun` | three keys, Google and two sites that differ, one manual field at a time, refreshes at will but one crawl at a time, which may fail |
| `SearchCatalogue` | What does a search show while the catalogue changes? `PiecesWereCurrent`, `HardFiltersHold`, `SearchStaysInPlace`, `NoCafeIsLost`, `BetterCafesRankHigher` | 2 places, 3 records, 3 rows, 3 queries, with and without a location, 2 answers of the model |
| `SignInLinks` | Are links spent once, and limited? What outlives a removal, and how long? `LinkOpensOneSession`, `EarlierStaysAreOver`, `UsableLinksBounded` | 2 handlers, 3 links, 2 invitations |
| `PlacePhotoCache` | Freshness, cooldown, budget: `ServedUrlsAreFresh`, `ReportedUrlStaysGone`, `RefreshesAreRationed` | 1 place, 2 handlers, 3 refreshes a day, 1 failure or restart |
| `AdminQueue` | Does the queue catch up, and does it retry when it says so? `BannerIsTrue`, `QueueCatchesUp` | 2 runs, 2 calls at once, 2 operations, 1 unanswered request |
| `VisitorPage` | Where does the page end up? `AnswersTheQuery`, `SearchEnds`, `CardsSettle` | 4 queries (short, plain, near me, named), 4 changes, 1 café, 2 URLs, 2 failures or lost requests |

Why the bounds are enough: two of everything is what a race needs; a third actor of the same
kind repeats one of the two. One retry reaches both sides of the retry limit and one failure reaches every error path,
each in every state the others can be in. A limit of
one link makes the second refused or, through pruning, accepted. In `EvidenceReview`
each crawl has four facts: three that a café needs and one that differs, on the area
(where Google has no precedence), on the price with more confidence than Google, and on the price
with less; a fourth crawl leaves the café unnamed. In `SearchCatalogue` two records of one place differ in every
piece that a search reads separately, and a third row is that place removed and inserted again. In `CrawlEvidence` an answer holds
up to two results or claims, which is one more than a lane's limit; two repeat each other or
compete. In `VisitorPage` four changes allow an attempt that is superseded while it waits for the location, one after
it, and a return to the start between.

In `EntriesOverlap` each of the six causes, `unseen` and `cutOff` is needed: without it a property fails. Archiving, which
takes the path of a deletion up to its save, is part of `IngestionRaces` and of the proofs; a record changes its place there by finding its first one after
a deletion has read it, and the proofs have any number of places.

`ReportedUrlStaysGone` and the cooldown exempt a request that was already resolving the place at the
report, which the code lets bring its older URL back. The cache of `PlacePhotoCache` never fills; that it never overflows is proved.
Deadlock is not checked where an instance runs out of requests, links, time or typing; in
`EvidenceReview` and `SearchCatalogue`, where nothing runs out, it is.

### Divergences

Two runs show the code doing something its comments deny; each ends in
a violation.

- `IngestionDeleteRace`: two deletions of a place's last two records overlap. Each sees
  the other's record in `anotherRecordExists`, neither removes the entry, and the place stays in
  search with no record. `service.go:84` says the entry leaves "with the last record
  representing it".
- `AdminExpiredSession`: `load` treats a 401 like any failure and arms a retry. When the list answers after sign-out has
  unmounted the dashboard, nothing clears that timer: the page at sign-in asks for the list again and again, and
  every 401 posts another logout. `useIngestionRuns.ts:33` says "An expired session is not an ingestion failure".

Reading the code for the models brought up others, on which no run is spent:

- `Create` looks for the URL and saves its record later; two submissions that overlap both find nothing and both
  are accepted, although `README.md:155` says "Submitting the same URL twice is refused" and names "a second submission during the first round trip".
- `List` returns the newest 200 runs, so with more records `anotherRecordExists` overlooks an older
  published record, and deleting another record of its place unpublishes it (`README.md:153`, "unless another record still represents the same place").
- `Discover` reports the failures of its searches only when none of them found anything; when one fails and another finds
  something, the record has no warning (`README.md:151`, "Provider failures are non-blocking and appear as warnings").
- The photo cooldown is read off the cached entry, which an accepted report deletes: until the refresh has put its URL
  there, and if it never does, the place may be refreshed again at once; and 24 hours meet two daily budgets (`README.md:120`, "one refresh per place per 5 minutes,
  and 200 refresh-triggered resolutions per day").
- `SaveLoginToken` prunes spent links, which then no longer count: whoever follows a link may ask for
  another beyond the limit of `README.md:170`.
- Publishing again without a crawl replaces a refreshed photo reference by the older one in the
  record, which no longer works (`catalogue.go:52-53`).
- A record whose evidence for the area is all excluded still publishes that area, since `run.Area`
  is never cleared (`README.md:147`).
- `buildExtractionPrompt` stops at a document without text (`openrouter.go:164`): for a page without text no review reaches
  the model, although `README.md:32` says they are included.
- When the catalogue cannot be read, search answers 200 with no café (`recommendation/service.go:57`).
- Words next to "must" are hard filters only when the local interpreter answers; 24 hours always is.
- A café without known prices has price 0, so it fits every budget; evidence weaker than .68 ranks a café below one
  about which nothing is known.
- In the review queue a list that was read before a deletion and answers after it brings the deleted row back;
  unless some run is being crawled it stays until the next reload.
- A sign-in request, or a link being followed, that is under way while its address is removed and invited anew stores its link or session under
  the new invitation. It ends at the latest `TokenTTL` (a link) or `TokenTTL + SessionTTL` (a session) after the removal.
- A visitor's search has no deadline (`recommendations.ts:23`; the admin's client has one, `client.ts:37`): when the network loses the request, the
  spinner stays until the query changes.
- A refresh clears `Issues`, and "review" is accepted while the crawl is queued: a record without a name then has no issue left and may be
  published with its old evidence.

The notes of the hazards list further ones, among
them: a publication that overlaps a deletion leaves an entry without a record; a failing list makes
the last deletion leave the entry;
removing manual evidence during a crawl makes the record publishable while a worker owns it; a refresh that
resolves to another place leaves the entry of the earlier one.

## Fairness

`FairSpec` of `Ingestion` assumes weak fairness of `ServeRequest` for each request that was
received and of `HandleTask` for each task: a Go handler, once started, runs to its end or fails, and the
Asynq server keeps taking tasks and retries failed ones. It assumes nothing of administrators (`ReceiveRequest` is unfair),
of failures, or of tombstones. `CrawlEnds` needs no more, as a task is enabled until it ends.

`FairSpec` of `AdminQueue` assumes that the browser's interval and timeout fire (`Poll`, `TimerFires`), that requests are
answered or given up (`Handle`; the client aborts after 15 seconds) and the code after them runs
(`Receive`), and that crawls end, which is `CrawlEnds`. Nobody has to use the page; requests fail at most `MaxFaults` times, without which
no retry need ever succeed.

`FairSpec` of `VisitorPage` assumes that timers fire, that a search request ends in an answer or an error unless the network
loses it, and a report likewise, that an aborted request ends at once, and that the visitor answers the location prompt: the 8 seconds of `getCurrentPosition`
only start with that answer, so a prompt left alone keeps the search waiting in the code too. Nothing is assumed of a lost request, of
images, or of a card's first photo. `SearchEnds` and `CardsSettle` therefore exempt a request that is lost, and only that.

The other specifications state safety only.

## Abstract specification

`ReviewedRun` is the view that `Ingestion` takes of a record's evidence: its class, its name issue, whether some of it was added by hand, and
how many crawls are left. Only a crawl that a refresh asked for brings evidence of any class and loses what was added by hand, and it
lowers the count, so no other step can pass for one. An edit waits for the crawl to end (`state # "enriching"`), never makes a named café nameless, removes nothing
that was added by hand, and returns the record to review; a removal by hand, the one edit without that guard, names no café; publishing
needs complete evidence and a name. `Evidence` implements it with `evidence <- Class` and `manual <- HasManual`; the run `EvidenceReview` checks
`ReviewsRun`, and an edit that raises the name issue anew, say, violates it. So the conclusions of `Ingestion` hold of real evidence without its fields
being part of that state space.

## What is proved

Each proof module extends the module it is about and assumes only the named ASSUMEs of that module and those it extends, which the
runs evaluate; no theorem has a hypothesis of its own. Its core is an inductive invariant: most of the properties below are not inductive,
since what happens next depends on what somebody has read before. No bound of an instance is used: the results hold for any number of records,
handlers, places, cafés, claims, attempts and failures.

| Module | Theorems (property) |
|---|---|
| `IngestionProofs` | `TypeCorrect`, `DeletionIsFinal` (`DeletedStaysDeleted`), `PublishedRunsArePublishable` (`PublishedIsPublishable`), `EnrichingRunsAreOwned` (`EnrichingIsOwned`); of `Entries`, `DuplicatesHaveCauses` (`DuplicatesAreExplained`), `HiddenHaveCauses` (`HiddenIsExplained`), `OrphansHaveCauses` (`OrphansAreExplained`) |
| `CrawlProofs` | `TypeCorrect`, `EvidenceIsCited` (`CitationsHold`), `NamesComeFromPages` (`OnlyThePageNames`), `APageIsOneSource` (`SourcesDistinct`), `GoogleOverrulesListings` (`IndexedListingsYield`), `GapsAreReported` (`GapsAreExplained`) |
| `EvidenceProofs` | `TypeCorrect`, `PublishedRecordsAreServed` (`PublishedIsServed`), `ContradictionsArePublishedOnGooglesWord` (`ContradictionsFollowGoogle`), `TheReviewerDecides` (`ReviewerDecides`, an action property), `EvidenceImplementsReviewedRun` (`ReviewsRun`, the refinement) |
| `SearchProofs` | `TypeCorrect`, `PiecesAreCurrent` (`PiecesWereCurrent`), `HardFiltersAreNeverViolated` (`HardFiltersHold`), `SearchesStayInPlace` (`SearchStaysInPlace`), `NoCafeIsEverLost` (`NoCafeIsLost`), `BetterIsHigher` (`BetterCafesRankHigher`) |
| `SignInProofs` | `TypeCorrect`, `LinksOpenOneSession` (`LinkOpensOneSession`), `RemovalIsFinal` (`EarlierStaysAreOver`), `LinksAreLimited` (`UsableLinksBounded`) |
| `PlacePhotoProofs` | `TypeCorrect` (with the capacity and the daily budget), `UrlsAreFresh` (`ServedUrlsAreFresh`), `ReportedUrlsStayGone` (`ReportedUrlStaysGone`), `RefreshesAreLimited` (`RefreshesAreRationed`, an invariant and an action property) |
| `AdminQueueProofs` | `TypeCorrect`, `RetriesArePending` (`BannerIsTrue`) |
| `VisitorPageProofs` | `TypeCorrect`, `PageAnswersTheQuery` (`AnswersTheQuery`) |

**Ingestion.** `IInv` adds what each holder of a copy knows: `IdsDrawn`, whoever holds an id holds one that was
drawn, and only deleted ids have tombstones; `Buried`, once a tombstone has expired, nobody holds the
id; `CopiesPublishable`, no copy, stored or held, is published unless it could be, and no worker's is
published at all; `HandedOver`, every way a crawl can stop hands the run to a task, a request, another state, or
`stranded`. Each conjunct has a lemma; `ReceiveForm` and `CrawlForm` summarize the request and worker actions by what they may change, so
that each lemma treats the forms and not the actions one by one. TLC found `IInv` to hold on the instance of `IngestionRaces` first.

**Entries.** The three theorems hold for any number of administrators, records, places, crawls and failures and for any length of the
list, since what the code cannot exclude is noted and not assumed away; `EntriesInductive` is their invariant. `Known` says what a request and a crawl know of the
record they work on: it is stored or deleted, unless it is being created, and two requests never create the same one. `UrlsKnown` (for duplicates) says that no copy, stale as it may be, has
another URL than its record, and that two records of a URL, stored or about to be, are explained. `HiddenHaveCauses` rests on `HidingKnown`: a request about to take an entry down
knows of no other published record of the place, and one about to save its record as published has the entry up, unless there is an excuse. `OrphansHaveCauses` rests
on `OrphaningKnown`: a deletion that leaves the entry alone has another record to leave it to, a publication has its own. The steps that could spoil
this are the other requests', and `Noting` gives their excuse at that moment. Each conjunct has a lemma for the steps that cannot disturb it (`UrlsKept`, `HidingKept`,
`OrphaningKept`) and one that goes through the others.

**Crawl.** Fields do not follow from what the last step did but from what supports them: `Sourced` says that each is Google's about the
place, or cites a document that `Supports` it, which limits by the document's kind what it may be evidence of (no review or result names the
café) and how sure it may be (below Google for indexed listings). Documents are only appended, and their numbers are distinct (`Documents`: a page,
then reviews, then results), so what is cited stays and is one document. `InOrder`, the filters of the code as an increasing
sequence of the numbers kept, is shown to exist by taking the least each time. `ProvidersAssumption` is what the proof takes from the
services: Google links to each place it describes (the field mask asks for the link; a place without any fact would bring
neither evidence nor warning), gives five reviews at most, and the review rules give confidences of percents. A model may say
anything, negative or boundless confidence included.

**Evidence.** `TypeOK` with the two properties is inductive: every edit returns the record to review, and a
publication establishes both. An edit needs two facts more: a record with the name issue has no usable name, which only its crawl raises
(`NothingNamesIt`), and what was added by hand cites no source, so that its removal names nothing (`HandCitesNothing`). That a choice or a correction wins rests on `StrongestExists` (a set of evidence
has a strongest field, the earlier of equals, by the least natural number); the refinement maps each edit to `Edit`, a removal by hand to `RemoveManual`, each crawl
to `Crawl` or `CrawlFails`, a publication to `Publish`.

**Search.** `IInv` says that `held` has what each row was published from since the search began (`Tracked`), that the
pieces read are among it (`Pieces`), that a 24-hour query keeps its constraint from the interpreter on (`Enforced`), and that only
cafés that qualify by their pieces are answered (`Qualified`). The properties then follow from what a café makes of its pieces.

Ranking has its own invariant, `RInv`: one row per place, row numbers that are never used again, constraints and preferences with
finitely many wants and weights that add up, pieces that belong to one row, and an answer that is the ranking of what was read. Two
results about it rest on arithmetic over finite sets. Each part of `MatchScore` is monotone in what it measures (`SumGrows` for the
weighted sums, `QuotientGrows` for the rounding, which keeps the order), so a better café does not score lower; and at most `limit`
cafés have a smaller rank, so who is left out has `limit` cafés at or above him (`FewAreFirst`, `FirstAreAbove`). Assumed are the
numbers' ranges: a fit of 0 to 100 that falls with distance (`FitAssumption`), confidences in percents and tables that cover the records
(`RecordsAssumption`), limits in order (`SearchAssumption`).

**SignIn.** `Once`: a link that is not spent has opened nothing and is in nobody's hands, and a spent one is in the
hands of one handler at most. `Staying`: whatever is stored was stored under the present invitation of an invited address; what was begun under an earlier one
was begun before its removal, which limits when it expires, and what a handler still has in hand likewise (`Clocked`: no request began in the future). `Drawn`: links in
hand were drawn. The limit counts: a request that saves a link has counted fewer than `PerWindow` unspent ones, so whatever
exceeds them was saved by requests that had counted before, one per other handler.

**PlacePhoto.** `Dated`: a URL in hand was issued no earlier than its request looked into the cache, and an entry expires `TTL` after that
look, so it is dead before its URL is `TTL` old. `Since`: requests that resolve a place began after its last report, and what is cached was
issued since, unless that report overlapped one. That the cache never overflows uses the finite-set theorems on `Set`.
Rationing: `begun` rises with time, and those of the present day are no more than `refreshedDay` counts; a span of a day's length meets two
days of the code, which begin with the first report after the last one is over, hence twice the budget and not once. That a place waits
for its cooldown follows from the entry's `renewed`, unless an overlapping request wrote its own time there.

**AdminQueue.** A set `retryTimer` stands for exactly one timeout while the dashboard is mounted, and a cleared one for none (`Held`), so
a banner that stays after a failure has its retry. That no run has more than two rows comes from the server: a run is created once, and
while its answer is on the way (`Tells`) a list may bring it once before; every list that arrives replaces the rows by one each.

**VisitorPage.** An attempt that is not aborted is the last one and has the query that is typed (`Current`), so aborted attempts only end.

Every safety property that a passing run checks is a theorem. Model-checked only are the liveness properties (`CrawlEnds`, `QueueCatchesUp`,
`SearchEnds`, `CardsSettle`), since the prover knows no ENABLED. Induction on the size of a set is done with the least natural number of a set of
counterexamples, or as a set of numbers closed under successor; the libraries' induction rules, which take a predicate, are not used.

## Not modelled

- Parsing of HTML, of JSON and of opening hours, prices and coordinates; canonical URLs and name matching: no state, and `Crawl` takes
  their results from the instance.
- Trigonometry and exponentials of the ranking (tables), its wording and locales; floating-point rounding, also at
  the `.1` margin of `hasAuthoritativeGoogleWinner`.
- Google's, Exa's and the model's services, mail, Asynq and Redis themselves: external, modelled by how the code uses them.
- In the admin app: the selection of rows, dialogs, the Google place panel and the health light; in the web app: rendering and
  the language switch, which restarts a search as typing does.
- Configuration, migrations other than the sign-in tables, assets.
- `evidenceCoverage` and the stage/progress display: nothing decides by them.

## Plan

Done: every component but configuration has its module; eight modules have proofs. Left:

1. An abstract login link (issued, spent, dead) implemented by `SignIn`, and an abstract cache whose entries have an age, implemented
   by `PlacePhoto`; both proofs would reuse the invariants above.

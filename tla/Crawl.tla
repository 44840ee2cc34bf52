------------------------------- MODULE Crawl -------------------------------
(***************************************************************************)
(* One crawl: what the worker makes of a page, of Google's answer, of the  *)
(* reviews that three Exa searches find, and of the claims that a language *)
(* model makes about all of these.  Every provider may fail.               *)
(*                                                                         *)
(* Ingestion has the stages, their saves, retries and overlaps; here one   *)
(* handler works alone and the question is what evidence it ends with.     *)
(* A text is the set of the statements it holds.                           *)
(***************************************************************************)
EXTENDS Conflicts, Sequences, FiniteSets, Functions

CONSTANTS
    Pages,         \* pages that may be submitted
    Places,        \* Google's answers
    Items,         \* search results Exa has
    Claims,        \* claims and menu items that a model may make
    Blank,         \* nothing: no name, no link, what cannot be read
    Generic,       \* "Google Maps" as a title
    Host,          \* the page's host name, the last resort as a name
    Terms,         \* the brand and the branch in each name
    HostOf,        \* the host of each URL
    Signals,       \* what google_review_rules reads in each statement
    Bands, Crowds, \* statements that give a price band, that speak of a crowd
    Providers,     \* the optional providers that are configured
    MaxResults,    \* EXA_MAX_RESULTS
    MaxDocuments,  \* how many documents a prompt holds
    MaxCharacters, \* how much of their text
    MaxAnswer      \* how many results or claims an answer holds (bound)

ASSUME CrawlAssumption ==
    /\ MaxResults \in Nat \ {0}
    /\ MaxDocuments \in Nat \ {0} /\ MaxCharacters \in Nat \ {0}
    /\ MaxAnswer \in Nat
    /\ Providers \subseteq {"google", "exa", "model"}
    /\ Blank # Generic /\ Host \notin {Blank, Generic}

\* What Google may tell of a place, each with the confidence it is given.
PlaceFacts ==
    {"Google Maps", "Latitude", "Longitude", "Address", "Open 24 hours", "Area", "Opening hours",
     "Google rating", "Website", "Minimum price", "Maximum price"}

\* Google links to each place and gives up to five reviews of it; google_review_rules read
\* them all and never read a name; a model may claim any confidence.
ASSUME ProvidersAssumption ==
    /\ \A place \in Places :
        /\ "Google Maps" \in DOMAIN place.facts /\ DOMAIN place.facts \subseteq PlaceFacts
        /\ \E n \in 0..5 : DOMAIN place.reviews = 1..n
        /\ \A i \in DOMAIN place.reviews : place.reviews[i].says \subseteq DOMAIN Signals
    /\ \A t \in DOMAIN Signals : \A s \in Signals[t] : s.key # "Identity" /\ s.confidence \in 0..100
    /\ \A claim \in Claims : claim.confidence \in Int

VARIABLES
    stage,      \* the provider call that comes next
    name,       \* record.Name
    unnamed,    \* whether record.Issues holds missingCafeNameIssue
    fields,     \* record.Fields
    documents,  \* record.Documents
    lane,       \* the search that comes next
    sources,    \* what the searches found so far
    laneFailed, \* whether one of them failed
    warnings    \* run.Warnings, by provider

vars == <<stage, name, unnamed, fields, documents, lane, sources, laneFailed, warnings>>

\* Where an answer may be long, the instance stops at MaxAnswer.
Answers(S) == UNION {[1..n -> S] : n \in 0..MaxAnswer}

Evidence(k, v, id, source, excerpt, method, confidence) ==
    [key |-> k, value |-> v, id |-> id, source |-> source, excerpt |-> excerpt,
     method |-> method, confidence |-> confidence, excluded |-> FALSE]

\* evidenceFingerprint.
Same(f, g) == f.key = g.key /\ f.value = g.value /\ f.source = g.source

\* The members of a set of numbers, smallest first.
InOrder(S) ==
    CHOOSE s \in Bijection(1..Cardinality(S), S) : \A m, n \in DOMAIN s : m < n => s[m] < s[n]

\* Evidence of several sources in turn: the first to say something counts.
InTurn(news) ==
    UNION {{f \in news[i] : ~\E j \in 1..(i - 1) : \E g \in news[j] : Same(f, g)} : i \in DOMAIN news}

Adding(fs, new) == fs \cup {f \in new : ~\E g \in fs : Same(f, g)}

-----------------------------------------------------------------------------
(***************************************************************************)
(* extractHTML.  A page says where it is from (maps or not), its title and *)
(* structured data, and its text.                                          *)
(***************************************************************************)
\* The URL of a Google Maps place, the title, structured data: the first that names.
PageTitle(page) == IF page.maps /\ page.title = Generic THEN Blank ELSE page.title

Identity(page) ==
    IF page.maps /\ page.urlName \notin {Blank, Generic} THEN [value |-> page.urlName, confidence |-> 94]
    ELSE IF PageTitle(page) # Blank THEN [value |-> PageTitle(page), confidence |-> 88]
    ELSE IF page.ldName \notin {Blank, Generic} THEN [value |-> page.ldName, confidence |-> 92]
    ELSE [value |-> Blank, confidence |-> 0]

PageID == <<"source", 1>>

PageField(page, k, v, confidence) ==
    {Evidence(f, v, PageID, page.url, {}, "page", confidence) : f \in IF v = Blank THEN {} ELSE {k}}

\* Google Maps describes itself, not the place.
PageFields(page) ==
    PageField(page, "Identity", Identity(page).value, Identity(page).confidence)
    \cup PageField(page, "Source URL", page.url, 100)
    \cup PageField(page, "Description", IF page.maps THEN Blank ELSE page.description, 76)
    \cup PageField(page, "Address", page.address, 92)
    \cup PageField(page, "Opening hours", page.hours, 90)

PageDocument(page) ==
    [id |-> PageID, url |-> page.url, kind |-> "submitted_html", says |-> page.says]

-----------------------------------------------------------------------------
(***************************************************************************)
(* mergeGooglePlaceEvidence.  A place has facts by key and up to five      *)
(* reviews; a review may have a link of its own and may have no text.      *)
(***************************************************************************)
GoogleConfidence(k) ==
    CASE k = "Google Maps" -> 100
      [] k \in {"Latitude", "Longitude"} -> 99
      [] k \in {"Address", "Open 24 hours"} -> 97
      [] k = "Area" -> 96
      [] k \in {"Opening hours", "Google rating"} -> 95
      [] k = "Website" -> 90
      [] k \in {"Minimum price", "Maximum price"} -> 85

\* That it never closes is read off its hours.
PlaceFields(place) ==
    {Evidence(k, place.facts[k], <<"google_place", 1>>, place.url, {},
              IF k = "Open 24 hours" THEN "rules" ELSE "google", GoogleConfidence(k)) : k \in DOMAIN place.facts}

ReviewID(i) == <<"google_review", i>>

Written(place) == {i \in DOMAIN place.reviews : place.reviews[i].says # {}}

ReviewURL(place, i) == IF place.reviews[i].url = Blank THEN place.url ELSE place.reviews[i].url

Review(place, i) == Evidence("Google review", place.reviews[i].author, ReviewID(i), ReviewURL(place, i),
                             place.reviews[i].says, "google", 88)

ReviewDocument(place, i) ==
    [id |-> ReviewID(i), url |-> ReviewURL(place, i), kind |-> "google_places_review",
     says |-> place.reviews[i].says]

\* mergeDeterministicReviewSignals.
SignalsOf(doc) ==
    {Evidence(s.key, s.value, doc.id, doc.url, doc.says, "rules", s.confidence)
        : s \in UNION {Signals[t] : t \in doc.says}}

ReviewDocuments(place) ==
    LET next == InOrder(Written(place)) IN
    [n \in 1..Cardinality(Written(place)) |-> ReviewDocument(place, next[n])]

\* Reviews are added as they come; the rest only when it is new.
WithPlace(fs, place) ==
    Adding(fs, PlaceFields(place))
    \cup {Review(place, i) : i \in Written(place)}

WithSignals(fs, docs) == Adding(fs, InTurn([n \in DOMAIN docs |-> SignalsOf(docs[n])]))

-----------------------------------------------------------------------------
(***************************************************************************)
(* Discover: Google Maps reviews first, then TikTok, then the rest of the  *)
(* web for whatever room is left.                                          *)
(***************************************************************************)
MapsLimit   == IF MaxResults >= 2 THEN MaxResults \div 2 ELSE 1

TikTokLimit ==
    IF MaxResults < 2 THEN 0
    ELSE IF MaxResults - MapsLimit - 1 < 1 THEN 1 ELSE MaxResults - MapsLimit - 1

\* A limit of 0 is the room that is left.
Lanes ==
    LET maps == [kind |-> "maps", limit |-> MapsLimit]
        tiktok == [kind |-> "tiktok", limit |-> TikTokLimit]
        web == [kind |-> "web", limit |-> 0]
    IN  IF TikTokLimit > 0 THEN <<maps, tiktok, web>> ELSE <<maps, web>>

Room == MaxResults - Len(sources)

Limit == IF Lanes[lane].limit = 0 \/ Lanes[lane].limit > Room THEN Room ELSE Lanes[lane].limit

SourceAllowedForLane(item, kind) ==
    CASE kind = "maps" -> item.site = "maps"
      [] kind = "tiktok" -> item.site = "tiktok"
      [] OTHER -> TRUE

\* A result must name the brand and, where the cafe's name has one, the branch.
SourceMentionsVenue(item) == Terms[name] \subseteq item.terms

Boilerplate(item, kind) == kind = "maps" /\ item.boilerplate

Usable(item, kind) ==
    /\ SourceAllowedForLane(item, kind)
    /\ item.says # {}
    /\ ~Boilerplate(item, kind)
    /\ SourceMentionsVenue(item)

Discovered(item, kind) == [url |-> item.url, kind |-> kind, says |-> item.says]

\* The first usable result of each URL that no search has brought yet.
NewHere(items, i) ==  \* mutant: an earlier search's URLs are not remembered
    /\ Usable(items[i], Lanes[lane].kind)
    /\ ~\E j \in 1..(i - 1) : Usable(items[j], Lanes[lane].kind) /\ items[j].url = items[i].url

New(items, i) ==
    /\ Usable(items[i], Lanes[lane].kind)
    /\ ~\E s \in DOMAIN sources : sources[s].url = items[i].url
    /\ ~\E j \in 1..(i - 1) : Usable(items[j], Lanes[lane].kind) /\ items[j].url = items[i].url

FirstOf(S, n) == 1..(IF Cardinality(S) < n THEN Cardinality(S) ELSE n)

FoundAll(items) ==  \* mutant: an answer longer than the lane's limit is not cut
    LET new == {i \in DOMAIN items : New(items, i)}
        next == InOrder(new)
    IN  [n \in 1..Cardinality(new) |-> Discovered(items[next[n]], Lanes[lane].kind)]

Found(items) ==
    LET new == {i \in DOMAIN items : New(items, i)}
        next == InOrder(new)
    IN  [n \in FirstOf(new, Limit) |-> Discovered(items[next[n]], Lanes[lane].kind)]

SourceID(i) == <<"exa", i>>

ContextKey(kind) ==
    CASE kind = "maps" -> "Google Maps review context"
      [] kind = "tiktok" -> "TikTok review context"
      [] OTHER -> "Web review context"

\* discoveredEvidencePresentation, a little surer where earlier evidence has the same host.
ContextConfidence(fs, found, i) ==
    LET base == CASE found[i].kind = "maps" -> 78 [] found[i].kind = "tiktok" -> 70 [] OTHER -> 65
        host == HostOf[found[i].url]
    IN  IF \/ \E f \in fs : HostOf[f.source] = host
           \/ \E j \in 1..(i - 1) : HostOf[found[j].url] = host
        THEN IF base + 5 > 78 THEN 78 ELSE base + 5
        ELSE base

Context(fs, found, i) ==
    Evidence(ContextKey(found[i].kind), found[i].url, SourceID(i), found[i].url, found[i].says,
             "search", ContextConfidence(fs, found, i))

MergedSources(fs, found) == fs \cup {Context(fs, found, i) : i \in DOMAIN found}

SourceDocuments(found) ==
    [i \in DOMAIN found |-> [id |-> SourceID(i), url |-> found[i].url,
                             kind |-> found[i].kind, says |-> found[i].says]]

-----------------------------------------------------------------------------
(***************************************************************************)
(* The model: what it is shown, and which of its claims are accepted.      *)
(***************************************************************************)
\* buildExtractionPrompt: documents in order, until they are too many or too long, or one
\* has no text.  The last may be cut.
Shown(docs) ==
    LET fits(n) ==
            /\ n <= MaxDocuments
            /\ \A i \in 1..n : docs[i].says # {}
            /\ SumFunction([i \in 1..(n - 1) |-> Cardinality(docs[i].says)]) < MaxCharacters
    IN  {docs[n].id : n \in {m \in DOMAIN docs : fits(m)}}

Cap(kind) == CASE kind = "google_places_review" -> 88 [] kind = "tiktok" -> 70
               [] kind = "web" -> 72 [] kind = "maps" -> 78 [] OTHER -> 90

Uncapped(claim, doc) == claim.confidence  \* mutant: a model is believed whatever it read
Believed(claim, doc) ==
    IF claim.confidence < 0 THEN 0
    ELSE IF claim.confidence > Cap(doc.kind) THEN Cap(doc.kind) ELSE claim.confidence

ExcerptAnywhere(claim, doc) ==  \* mutant: the excerpt is looked for in every document
    \E i \in DOMAIN documents : claim.excerpt \in documents[i].says
ExcerptSupported(claim, doc) == claim.excerpt \in doc.says

IsReview(doc) == doc.kind # "submitted_html"

AnyIdentity(claim, doc) == TRUE  \* mutant: a review may name the cafe
MayIdentify(claim, doc) == claim.key \in {"Identity", "Identity alias"} => ~IsReview(doc)

SemanticallySupported(claim) == claim.key = "Crowd level" => claim.excerpt \in Crowds

\* normalizeClaimValue refuses what it cannot read; a link is the document's or in it.
Readable(claim, doc) ==
    /\ claim.value # Blank
    /\ claim.key \in {"Google Maps", "Instagram", "TikTok", "Website"}
          => claim.value = doc.url \/ claim.value \in doc.says

\* A venue's price band is not the price of its cheapest item.
ClaimKey(claim) ==
    IF claim.key = "Minimum price" /\ claim.excerpt \in Bands THEN "Typical spend minimum" ELSE claim.key

\* modelClaimToEvidence, and modelMenuItemToEvidence, which asks for the excerpt only.
Accepted(claim, doc) ==
    /\ claim.cites = doc.id
    /\ ExcerptSupported(claim, doc)
    /\ MayIdentify(claim, doc)
    /\ SemanticallySupported(claim)
    /\ Readable(claim, doc)

ClaimEvidence(claim, doc) ==
    Evidence(ClaimKey(claim), claim.value, doc.id, doc.url, {claim.excerpt}, "model", Believed(claim, doc))

FromClaim(claim) ==
    {ClaimEvidence(claim, doc) : doc \in {documents[i] : i \in {j \in DOMAIN documents : Accepted(claim, documents[j])}}}

\* mergeModelExtraction: the first of the claims that say the same of the same source.
Merged(answer) ==
    Adding(fields, InTurn([i \in DOMAIN answer |-> FromClaim(answer[i])]))

-----------------------------------------------------------------------------
(***************************************************************************)
(* The worker.                                                             *)
(***************************************************************************)
\* The next call of a provider that is configured.
Stages == <<"google", "exa", "model", "done">>

After(s) ==
    LET rank(t) == CHOOSE i \in DOMAIN Stages : Stages[i] = t
        ahead == {i \in DOMAIN Stages :
                    /\ s = "fetch" \/ i > rank(s)
                    /\ Stages[i] \in Providers \cup {"done"}}
    IN  Stages[CHOOSE i \in ahead : \A j \in ahead : i <= j]

Init ==
    /\ stage = "fetch" /\ name = Blank /\ unnamed = FALSE
    /\ fields = {} /\ documents = <<>>
    /\ lane = 1 /\ sources = <<>> /\ laneFailed = FALSE
    /\ warnings = {}

FetchPage ==
    /\ stage = "fetch"
    /\ \E page \in Pages :
        /\ fields' = PageFields(page)
        /\ documents' = <<PageDocument(page)>>
        /\ unnamed' = (Identity(page).value = Blank)
        /\ name' = IF unnamed' THEN Host ELSE Identity(page).value
    /\ stage' = After("fetch")
    /\ UNCHANGED <<lane, sources, laneFailed, warnings>>

FetchFails ==
    /\ stage = "fetch"
    /\ stage' = "failed"
    /\ UNCHANGED <<name, unnamed, fields, documents, lane, sources, laneFailed, warnings>>

ResolvePlace ==
    /\ stage = "google"
    /\ \E place \in Places :
        /\ fields' = WithSignals(WithPlace(fields, place), ReviewDocuments(place))
        /\ documents' = documents \o ReviewDocuments(place)
    /\ stage' = After("google")
    /\ UNCHANGED <<name, unnamed, lane, sources, laneFailed, warnings>>

\* The search for its Place ID fails, or the request for its details.
ResolveFails ==
    /\ stage = "google"
    /\ warnings' = warnings \cup {"google"}
    /\ stage' = After("google")
    /\ UNCHANGED <<name, unnamed, fields, documents, lane, sources, laneFailed>>

SearchLane(found, failed) ==
    /\ stage = "exa" /\ lane <= Len(Lanes) /\ Room > 0
    /\ sources' = sources \o found
    /\ laneFailed' = (laneFailed \/ failed)
    /\ lane' = lane + 1
    /\ UNCHANGED <<stage, name, unnamed, fields, documents, warnings>>

Search ==
    /\ stage = "exa" /\ lane <= Len(Lanes)
    /\ \E items \in Answers(Items) : SearchLane(Found(items), FALSE)

SearchFails == SearchLane(<<>>, TRUE)

\* An error counts only when no search found anything.
Discover ==
    /\ stage = "exa" /\ (lane > Len(Lanes) \/ Room = 0)
    /\ \/ /\ sources = <<>> /\ laneFailed
          /\ warnings' = warnings \cup {"exa"}
          /\ UNCHANGED <<fields, documents>>
       \/ /\ sources # <<>> \/ ~laneFailed
          /\ fields' = MergedSources(fields, sources)
          /\ documents' = documents \o SourceDocuments(sources)
          /\ UNCHANGED warnings
    /\ stage' = After("exa")
    /\ UNCHANGED <<name, unnamed, lane, sources, laneFailed>>

\* chooseRecordIdentity: the surest name, the page's before the model's.
Best(fs, k) ==
    LET named == IF Conflicting(fs, k) THEN {} ELSE OfKey(fs, k)
        best == {f \in named : \A g \in named : g.confidence <= f.confidence}
    IN  IF \E f \in best : f.method = "page" THEN {f \in best : f.method = "page"} ELSE best

ExtractInSilence ==  \* mutant: no warning when no claim was accepted
    /\ stage = "model" /\ Shown(documents) # {}
    /\ \E answer \in Answers(Claims) : fields' = Merged(answer)
    /\ \/ Best(fields', "Identity") = {} /\ UNCHANGED <<name, unnamed>>
       \/ /\ \E f \in Best(fields', "Identity") : name' = f.value
          /\ unnamed' = FALSE
    /\ stage' = After("model")
    /\ UNCHANGED <<documents, lane, sources, laneFailed, warnings>>

Extract ==
    /\ stage = "model" /\ Shown(documents) # {}
    /\ \E answer \in Answers(Claims) :
        /\ fields' = Merged(answer)
        /\ warnings' = IF fields' = fields THEN warnings \cup {"model"} ELSE warnings
    /\ \/ Best(fields', "Identity") = {} /\ UNCHANGED <<name, unnamed>>
       \/ /\ \E f \in Best(fields', "Identity") : name' = f.value
          /\ unnamed' = FALSE
    /\ stage' = After("model")
    /\ UNCHANGED <<documents, lane, sources, laneFailed>>

\* No prompt, no answer, a refusal, or twice an answer that cannot be read.
ExtractFails ==
    /\ stage = "model"
    /\ warnings' = warnings \cup {"model"}
    /\ stage' = After("model")
    /\ UNCHANGED <<name, unnamed, fields, documents, lane, sources, laneFailed>>

Next ==
    \/ FetchPage \/ FetchFails
    \/ ResolvePlace \/ ResolveFails
    \/ Search \/ SearchFails \/ Discover
    \/ Extract \/ ExtractFails

Spec == Init /\ [][Next]_vars

-----------------------------------------------------------------------------
TypeOK ==
    /\ stage \in {"fetch", "google", "exa", "model", "done", "failed"}
    /\ unnamed \in BOOLEAN /\ laneFailed \in BOOLEAN
    /\ \A f \in fields : f.confidence \in 0..100 /\ f.excluded = FALSE
    /\ lane \in 1..(Len(Lanes) + 1)
    /\ Len(sources) <= MaxResults
    /\ warnings \subseteq Providers

\* "Every model claim must cite a known source ID and a verbatim excerpt": each was made
\* of one document of this crawl, by that document's number and with its link.  The other
\* evidence of reviews and pages is numbered like its document too.
CitationsHold ==
    /\ \A i, j \in DOMAIN documents : documents[i].id = documents[j].id => i = j
    /\ \A f \in fields : f.id # <<"google_place", 1>> =>
         \E i \in DOMAIN documents :
            /\ documents[i].id = f.id /\ documents[i].url = f.source
            /\ f.method = "model" => f.excerpt # {} /\ f.excerpt \subseteq documents[i].says

\* Only the submitted page names the cafe, whatever reviews call it: the crawl brings no
\* conflict of identity, and the record has the surest of the page's names or, with an
\* issue, none.
OnlyThePageNames ==
    /\ \A f \in fields : f.key = "Identity" => f.id = PageID
    /\ ~Conflicting(fields, "Identity")
    /\ stage # "fetch" /\ ~unnamed /\ stage # "failed" => name \in {f.value : f \in Best(fields, "Identity")}
    /\ unnamed => name = Host /\ OfKey(fields, "Identity") = {}

\* A page is one source however many searches bring it.
SourcesDistinct == \A i, j \in DOMAIN sources : sources[i].url = sources[j].url => i = j

\* "A lower-confidence indexed listing [...] should not block publication": what the model
\* reads in web and TikTok results never contradicts Google's hours or prices.
IndexedListingsYield ==
    \A k \in Operational :
        /\ \E f \in OfKey(fields, k) : f.method = "google"
        /\ \A f \in OfKey(fields, k) : f.method # "google" =>
             \E i \in DOMAIN documents :
                documents[i].id = f.id /\ documents[i].kind \in {"web", "tiktok"}
        => ~Conflicting(fields, k)

\* A crawl that has nothing at all from a provider it asked says so: no fact of Google's,
\* no source although a search failed, no claim of the model's.  A search that fails beside
\* one that finds something is not covered (exa.go returns its error only without sources).
GapsAreExplained ==
    stage = "done" =>
        /\ "google" \in Providers /\ ~(\E f \in fields : f.method = "google") => "google" \in warnings
        /\ sources = <<>> /\ laneFailed => "exa" \in warnings
        /\ "model" \in Providers /\ ~(\E f \in fields : f.method = "model") => "model" \in warnings

=============================================================================

----------------------------- MODULE PlacePhoto -----------------------------
(***************************************************************************)
(* Cover photos of published places: the stored reference (a photo name    *)
(* that Google expires in time), the URL that the API resolves from it and *)
(* keeps in process, and the reports of dead URLs that refresh it.         *)
(*                                                                         *)
(* A handler takes the time when it looks into the cache; every call it    *)
(* then makes to the catalogue or to Google is one action, and the cache   *)
(* is only locked inside a step.                                           *)
(***************************************************************************)
EXTENDS Integers, Sequences, FiniteSets

CONSTANTS
    PlaceIDs,     \* Google place IDs
    Handlers,     \* API requests served at the same time
    TTL,          \* photoCacheTTL, in ticks
    CacheMax,     \* photoCacheMax
    Cooldown,     \* photoRefreshCooldown, in ticks
    Budget,       \* photoRefreshesPerDay
    Day,          \* 24 hours, in ticks
    MaxNames,     \* how many names Google gives a photo in turn (bound)
    MaxTime,      \* last tick of the clock (bound)
    MaxFaults     \* how many calls fail, restarts included (bound)

ASSUME PlacePhotoAssumption ==
    /\ {TTL, CacheMax, Cooldown, Budget, Day, MaxNames, MaxTime, MaxFaults} \subseteq Nat
    /\ 0 < Cooldown /\ Cooldown <= TTL /\ 0 < Budget
    /\ PlaceIDs # {} /\ IsFiniteSet(PlaceIDs)

VARIABLES
    now,
    entries,       \* photoCache.entries
    dayStart, refreshedDay,
    handlers,      \* the request each handler is serving
    rows,          \* places that the catalogue has a row for
    stored,        \* places.photo_name (0: none)
    override,      \* whether places.photo_override_url is set
    accepted,      \* the name that Google accepts (0: the place has no photo)
    faults,
    begun,         \* history: the tick of each refresh begun, by this process
    refreshed,     \* history: when a refresh of the place last began (-Cooldown: never)
    renewed,       \* history: that time, once the refresh has put its URL in the cache
    overlapped     \* history: that refresh began while the place was being resolved

cache     == <<entries, dayStart, refreshedDay>>
catalogue == <<rows, stored, override, accepted>>
history   == <<begun, refreshed, renewed, overlapped>>
vars == <<now, cache, handlers, catalogue, faults, history>>

Times  == 0..MaxTime
Names  == 0..MaxNames
Never  == -Cooldown
NoEntry == [url |-> Never, expires |-> Never, resolved |-> Never]

\* A URL is named by the tick at which Google issued it.
Entry == [url: Times, expires: TTL..(MaxTime + TTL), resolved: Times] \cup {NoEntry}

Handler == [pc: {"idle", "stored", "media", "lookup", "fresh", "remember", "set"},
            refresh: BOOLEAN, place: PlaceIDs, at: Times, name: Names, url: Times]

Idle == [pc |-> "idle", refresh |-> FALSE, place |-> CHOOSE p \in PlaceIDs : TRUE,
         at |-> 0, name |-> 0, url |-> 0]

Init ==
    /\ now = 0
    /\ entries = [p \in PlaceIDs |-> NoEntry]
    /\ dayStart = -(Day + 1)      \* the zero time, long ago
    /\ refreshedDay = 0
    /\ handlers = [h \in Handlers |-> Idle]
    /\ rows = {}
    /\ stored = [p \in PlaceIDs |-> 0]
    /\ override = [p \in PlaceIDs |-> FALSE]
    /\ accepted \in [PlaceIDs -> Names \cap {0, 1}]
    /\ faults = 0
    /\ begun = <<>>
    /\ refreshed = [p \in PlaceIDs |-> Never]
    /\ renewed = [p \in PlaceIDs |-> Never]
    /\ overlapped = [p \in PlaceIDs |-> FALSE]

-----------------------------------------------------------------------------
(***************************************************************************)
(* The world: time, Google's names, publications, restarts.                *)
(***************************************************************************)
Tick ==
    /\ now < MaxTime
    /\ now' = now + 1
    /\ UNCHANGED <<cache, handlers, catalogue, faults, history>>

\* Google replaces a photo's name; the earlier one is no longer accepted.
Roll(p) ==
    /\ accepted[p] \in 1..(MaxNames - 1)
    /\ accepted' = [accepted EXCEPT ![p] = @ + 1]
    /\ UNCHANGED <<now, cache, handlers, rows, stored, override, faults, history>>

\* Publish replaces the reference by the one the run holds, if it holds one: any name
\* that Google has had for the photo, as of the run's last crawl.  A run without a
\* PhotoOverride leaves the place's as it is, and one with an empty one clears it.
Publish(p, name, carried) ==
    /\ name <= accepted[p]
    /\ rows' = rows \cup {p}
    /\ stored' = [stored EXCEPT ![p] = IF name = 0 THEN @ ELSE name]
    /\ override' = [override EXCEPT ![p] = IF carried = {} THEN @ ELSE carried = {TRUE}]
    /\ UNCHANGED <<now, cache, handlers, accepted, faults, history>>

Restart ==
    /\ faults < MaxFaults
    /\ faults' = faults + 1
    /\ entries' = [p \in PlaceIDs |-> NoEntry]
    /\ dayStart' = -(Day + 1)
    /\ refreshedDay' = 0
    /\ handlers' = [h \in Handlers |-> Idle]
    /\ begun' = <<>>
    /\ refreshed' = [p \in PlaceIDs |-> Never]
    /\ renewed' = [p \in PlaceIDs |-> Never]
    /\ overlapped' = [p \in PlaceIDs |-> FALSE]
    /\ UNCHANGED <<now, catalogue>>

-----------------------------------------------------------------------------
(***************************************************************************)
(* placePhotoHandler and refreshPlacePhoto up to the cache.                *)
(***************************************************************************)
Goto(h, pc) == handlers' = [handlers EXCEPT ![h].pc = pc]
Answer(h)   == handlers' = [handlers EXCEPT ![h] = Idle]
Fails   == faults < MaxFaults /\ faults' = faults + 1
Works   == UNCHANGED faults

\* An owned photo answers the request, unless it cannot be read.
NoOverride(p) == \/ ~override[p] /\ Works
                 \/ override[p] /\ Fails

Resolves(h, p, refresh) ==
    handlers' = [handlers EXCEPT ![h] =
        [Idle EXCEPT !.pc = "stored", !.refresh = refresh, !.place = p, !.at = now]]

Cached(p) == entries[p] # NoEntry /\ entries[p].expires > now

View(h, p) ==
    /\ handlers[h].pc = "idle"
    /\ NoOverride(p)
    /\ ~Cached(p)
    /\ Resolves(h, p, FALSE)
    /\ UNCHANGED <<now, cache, catalogue, history>>

\* beginRefresh, for a report that it accepts; one that it refuses changes nothing.
CoolingDown(p) == entries[p] # NoEntry /\ now - entries[p].resolved < Cooldown

NewDay == now - dayStart > Day
StartForgotten == dayStart  \* mutant: the count restarts, the day does not
StartOfDay == IF NewDay THEN now ELSE dayStart

CountRefreshLate ==  \* mutant: the budget is exceeded by one
    /\ NewDay \/ refreshedDay <= Budget
    /\ dayStart' = StartOfDay
    /\ refreshedDay' = IF NewDay THEN 1 ELSE refreshedDay + 1

CountRefresh ==
    /\ NewDay \/ refreshedDay < Budget
    /\ dayStart' = StartOfDay
    /\ refreshedDay' = IF NewDay THEN 1 ELSE refreshedDay + 1

BeginRefreshKeepsEntry(p) ==  \* mutant: the reported URL stays until another comes
    /\ ~CoolingDown(p)
    /\ CountRefresh
    /\ UNCHANGED entries

BeginRefresh(p) ==
    /\ ~CoolingDown(p)
    /\ CountRefresh
    /\ entries' = [entries EXCEPT ![p] = NoEntry]

Resolving(g, p) == handlers[g].pc # "idle" /\ handlers[g].place = p

Refresh(h, p) ==
    /\ handlers[h].pc = "idle"
    /\ NoOverride(p)
    /\ BeginRefresh(p)
    /\ Resolves(h, p, TRUE)
    /\ begun' = Append(begun, now)
    /\ refreshed' = [refreshed EXCEPT ![p] = now]
    /\ renewed' = [renewed EXCEPT ![p] = Never]
    /\ overlapped' = [overlapped EXCEPT ![p] = \E g \in Handlers : Resolving(g, p)]
    /\ UNCHANGED <<now, catalogue>>

-----------------------------------------------------------------------------
(***************************************************************************)
(* resolvePlacePhoto.                                                      *)
(***************************************************************************)
ReadStored(h) ==
    LET p == handlers[h].place IN
    /\ handlers[h].pc = "stored"
    /\ \/ /\ stored[p] # 0 /\ Works
          /\ handlers' = [handlers EXCEPT ![h].pc = "media", ![h].name = stored[p]]
       \/ /\ (stored[p] = 0 /\ Works) \/ (stored[p] # 0 /\ Fails)
          /\ Goto(h, "lookup")
    /\ UNCHANGED <<now, cache, catalogue, history>>

Issued(h, pc) == handlers' = [handlers EXCEPT ![h].pc = pc, ![h].url = now]

\* One attempt with the stored name, whatever the reason it fails for.
MediaOfStored(h) ==
    LET accepts == handlers[h].name = accepted[handlers[h].place] IN
    /\ handlers[h].pc = "media"
    /\ \/ accepts /\ Works /\ Issued(h, "set")
       \/ ((~accepts /\ Works) \/ (accepts /\ Fails)) /\ Goto(h, "lookup")
    /\ UNCHANGED <<now, cache, catalogue, history>>

\* GetPlace. A place without a photo, and a lookup that fails, end the request.
Lookup(h) ==
    LET p == handlers[h].place IN
    /\ handlers[h].pc = "lookup"
    /\ \/ /\ accepted[p] # 0 /\ Works
          /\ handlers' = [handlers EXCEPT ![h].pc = "fresh", ![h].name = accepted[p]]
       \/ /\ (accepted[p] = 0 /\ Works) \/ (accepted[p] # 0 /\ Fails)
          /\ Answer(h)
    /\ UNCHANGED <<now, cache, catalogue, history>>

\* The place's photos are tried in turn until one resolves; none does by a fault.
MediaOfFresh(h) ==
    /\ handlers[h].pc = "fresh"
    /\ \/ Works /\ Issued(h, "remember")
       \/ Fails /\ Answer(h)
    /\ UNCHANGED <<now, cache, catalogue, history>>

\* SavePhotoRef updates the row, if there is one; its failure is only logged.
Remember(h) ==
    LET p == handlers[h].place IN
    /\ handlers[h].pc = "remember"
    /\ \/ /\ Works
          /\ stored' = IF p \in rows THEN [stored EXCEPT ![p] = handlers[h].name] ELSE stored
       \/ Fails /\ UNCHANGED stored
    /\ Goto(h, "set")
    /\ UNCHANGED <<now, cache, rows, override, accepted, history>>

-----------------------------------------------------------------------------
(***************************************************************************)
(* photoCache.set: expired entries leave, and the URL is kept if there is  *)
(* room, as of the time at which the request looked into the cache.        *)
(***************************************************************************)
Swept(at) == [p \in PlaceIDs |-> IF entries[p].expires <= at THEN NoEntry ELSE entries[p]]

Room(kept) == Cardinality({p \in PlaceIDs : kept[p] # NoEntry}) < CacheMax

\* Mutant: the clock is read again when the URL is kept.
KeptFromNow(url, at) == [url |-> url, expires |-> now + TTL, resolved |-> now]
KeptFrom(url, at)    == [url |-> url, expires |-> at + TTL, resolved |-> at]

Set(h) ==
    LET r == handlers[h]
        kept == Swept(r.at) IN
    /\ r.pc = "set"
    /\ IF Room(kept)
       THEN /\ entries' = [kept EXCEPT ![r.place] = KeptFrom(r.url, r.at)]
            /\ renewed' = IF r.refresh THEN [renewed EXCEPT ![r.place] = r.at] ELSE renewed
       ELSE entries' = kept /\ UNCHANGED renewed
    /\ Answer(h)
    /\ UNCHANGED <<now, dayStart, refreshedDay, catalogue, faults, begun, refreshed, overlapped>>

Next ==
    \/ Tick \/ Restart
    \/ \E p \in PlaceIDs :
         \/ Roll(p)
         \/ \E name \in Names, carried \in {{}, {TRUE}, {FALSE}} : Publish(p, name, carried)
    \/ \E h \in Handlers :
         \/ \E p \in PlaceIDs : View(h, p) \/ Refresh(h, p)
         \/ ReadStored(h) \/ MediaOfStored(h) \/ Lookup(h) \/ MediaOfFresh(h)
         \/ Remember(h) \/ Set(h)

Spec == Init /\ [][Next]_vars

-----------------------------------------------------------------------------
TypeOK ==
    /\ now \in Times
    /\ entries \in [PlaceIDs -> Entry]
    /\ Cardinality({p \in PlaceIDs : entries[p] # NoEntry}) <= CacheMax
    /\ dayStart \in {-(Day + 1)} \cup Times
    /\ refreshedDay \in 0..Budget
    /\ handlers \in [Handlers -> Handler]
    /\ rows \subseteq PlaceIDs
    /\ stored \in [PlaceIDs -> Names]
    /\ override \in [PlaceIDs -> BOOLEAN]
    /\ accepted \in [PlaceIDs -> Names]
    /\ faults \in 0..MaxFaults
    /\ begun \in Seq(Times)
    /\ refreshed \in [PlaceIDs -> Times \cup {Never}]
    /\ renewed \in [PlaceIDs -> Times \cup {Never}]
    /\ overlapped \in [PlaceIDs -> BOOLEAN]

\* photoCacheTTL bounds how long a dead URL can be served: a URL that the cache still
\* answers with was issued less than TTL ago, however long its request took.
ServedUrlsAreFresh == \A p \in PlaceIDs : Cached(p) => now - entries[p].url < TTL

(***************************************************************************)
(* What visitors report costs a bounded number of lookups.  The daily      *)
(* budget is counted from the first report of a day, so a span of 24 hours *)
(* meets at most two of its days: never more than twice the budget.  And   *)
(* once a refresh has put a URL in the cache, no report of the place is    *)
(* accepted before the cooldown is over.  That is all: a refresh under     *)
(* way, one that failed or found nothing, and one that a full cache did    *)
(* not keep hold no cooldown, nor does one whose entry a request that was  *)
(* already resolving the place replaced by its own, older one.             *)
(***************************************************************************)
BegunFrom(t) == Cardinality({i \in DOMAIN begun : t <= begun[i] /\ begun[i] <= t + Day})

RefreshesAreRationed ==
    /\ [](\A t \in Times : BegunFrom(t) <= 2 * Budget)
    /\ [][\A p \in PlaceIDs, h \in Handlers :
            Refresh(h, p) /\ ~overlapped[p] => now - renewed[p] >= Cooldown]_vars

(***************************************************************************)
(* A URL that was reported and given up does not come back: what the cache *)
(* answers with was issued since the last accepted report of the place.    *)
(* Only a request that was resolving the place at that report may bring an *)
(* older URL back: placePhotoHandler keeps what it fetched whatever        *)
(* happened to the entry since it missed it.                               *)
(***************************************************************************)
ReportedUrlStaysGone == \A p \in PlaceIDs : Cached(p) /\ ~overlapped[p] => entries[p].url >= refreshed[p]

=============================================================================

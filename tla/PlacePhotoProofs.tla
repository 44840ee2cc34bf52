-------------------------- MODULE PlacePhotoProofs ---------------------------
(***************************************************************************)
(* For any number of places, handlers, ticks and faults, and every size of *)
(* the cache: it never holds more than it may, what it answers with is     *)
(* fresh, a URL that was reported does not come back, and reports cost a   *)
(* bounded number of refreshes.                                            *)
(*                                                                         *)
(* The invariant behind freshness dates everything: a request looks into   *)
(* the cache no later than its URL is issued, an entry lives TTL from when *)
(* its request looked, and unless requests overlapped at the last report   *)
(* of a place, whatever serves the place now looked after it.              *)
(***************************************************************************)
EXTENDS PlacePhoto, FiniteSetTheorems, TLAPS

-----------------------------------------------------------------------------
(***************************************************************************)
(* The capacity.                                                           *)
(***************************************************************************)

Entries(es) == {p \in PlaceIDs : es[p] # NoEntry}

LEMMA Fewer ==
  ASSUME NEW S \in SUBSET PlaceIDs, NEW T \in SUBSET S, Cardinality(S) <= CacheMax
  PROVE  Cardinality(T) <= CacheMax
<1>1. IsFiniteSet(S) /\ IsFiniteSet(T)
  BY FS_Subset, PlacePhotoAssumption
<1>2. Cardinality(T) <= Cardinality(S) /\ Cardinality(T) \in Nat /\ Cardinality(S) \in Nat
  BY <1>1, FS_Subset, FS_CardinalityType
<1> QED  BY <1>2, PlacePhotoAssumption

LEMMA OneMore ==
  ASSUME NEW S \in SUBSET PlaceIDs, NEW p \in PlaceIDs, NEW T \in SUBSET (S \cup {p}),
         Cardinality(S) < CacheMax
  PROVE  Cardinality(T) <= CacheMax
<1>1. IsFiniteSet(S) /\ Cardinality(S) \in Nat
  BY FS_Subset, FS_CardinalityType, PlacePhotoAssumption
<1>2. IsFiniteSet(S \cup {p}) /\ Cardinality(S \cup {p}) <= Cardinality(S) + 1
  BY <1>1, FS_AddElement
<1>3. Cardinality(S \cup {p}) \in Nat
  BY <1>2, FS_CardinalityType
<1>4. Cardinality(S \cup {p}) <= CacheMax
  BY <1>1, <1>2, <1>3, PlacePhotoAssumption
<1> QED  BY <1>4, Fewer

-----------------------------------------------------------------------------
(***************************************************************************)
(* Type correctness.                                                       *)
(***************************************************************************)

LEMMA NoEntryType == NoEntry \in Entry
  BY DEF Entry

LEMMA IdleType == Idle \in Handler
<1>1. (CHOOSE p \in PlaceIDs : TRUE) \in PlaceIDs
  BY PlacePhotoAssumption
<1> QED  BY <1>1, PlacePhotoAssumption DEF Idle, Handler, Times, Names

(***************************************************************************)
(* What becomes of a request: it goes on as it was, or it is answered.     *)
(***************************************************************************)
Follows(q, r) ==
    /\ r \in Handler
    /\ r.pc # "idle" => q.pc # "idle" /\ r.place = q.place /\ r.at = q.at /\ r.refresh = q.refresh
    /\ r.pc \in {"remember", "set"} => r.at <= r.url

Moves(h) == \E r : Follows(handlers[h], r) /\ handlers' = [handlers EXCEPT ![h] = r]

\* Times are in order.
Dated ==
    /\ \A p \in PlaceIDs : refreshed[p] <= now
    /\ \A h \in Handlers : handlers[h].pc # "idle" => handlers[h].at <= now
    /\ \A h \in Handlers : handlers[h].pc \in {"remember", "set"} => handlers[h].at <= handlers[h].url
    /\ \A p \in PlaceIDs : entries[p] # NoEntry =>
          entries[p].expires = entries[p].resolved + TTL /\ entries[p].resolved <= entries[p].url

\* Unless requests overlapped, what serves a place looked into the cache since its report.
Since ==
    \A p \in PlaceIDs : ~overlapped[p] =>
        /\ \A h \in Handlers : Resolving(h, p) => refreshed[p] <= handlers[h].at
        /\ entries[p] # NoEntry => refreshed[p] <= entries[p].url

IInv == TypeOK /\ Dated /\ Since

LEMMA AnswerMoves ==
  ASSUME NEW h \in Handlers, Answer(h)
  PROVE  Moves(h)
<1>1. Idle \in Handler /\ Idle.pc = "idle"
  BY IdleType DEF Idle
<1> QED  BY <1>1 DEF Answer, Moves, Follows

LEMMA GotoMoves ==
  ASSUME IInv, NEW h \in Handlers, handlers[h].pc # "idle",
         NEW pc \in {"media", "lookup", "fresh"}, NEW name \in Names,
         \/ Goto(h, pc)
         \/ handlers' = [handlers EXCEPT ![h].pc = pc, ![h].name = name]
  PROVE  Moves(h)
<1> DEFINE q == handlers[h]
           r == [q EXCEPT !.pc = pc]
           n == [q EXCEPT !.pc = pc, !.name = name]
<1>1. Follows(q, r) /\ Follows(q, n)
  BY DEF IInv, TypeOK, Handler, Follows
<1>2. handlers' = [handlers EXCEPT ![h] = r] \/ handlers' = [handlers EXCEPT ![h] = n]
  BY DEF Goto, IInv, TypeOK
<1> QED  BY <1>1, <1>2 DEF Moves

LEMMA IssuedMoves ==
  ASSUME IInv, NEW h \in Handlers, handlers[h].pc # "idle", NEW pc \in {"remember", "set"}, Issued(h, pc)
  PROVE  Moves(h)
<1> DEFINE q == handlers[h]
           r == [q EXCEPT !.pc = pc, !.url = now]
<1>1. r \in Handler /\ r.place = q.place /\ r.at = q.at /\ r.url = now /\ r.refresh = q.refresh
  BY DEF IInv, TypeOK, Handler
<1>2. Follows(q, r)
  BY <1>1 DEF IInv, Dated, Follows
<1>3. handlers' = [handlers EXCEPT ![h] = r]
  BY DEF Issued, IInv, TypeOK
<1> QED  BY <1>2, <1>3 DEF Moves

\* A request that moves disturbs nothing of what is dated.
LEMMA MoveStep ==
  ASSUME IInv, NEW h \in Handlers, Moves(h), UNCHANGED <<now, entries, refreshed, overlapped>>
  PROVE  handlers' \in [Handlers -> Handler] /\ Dated' /\ Since'
<1>1. PICK r : Follows(handlers[h], r) /\ handlers' = [handlers EXCEPT ![h] = r]
  BY DEF Moves
<1>2. handlers' \in [Handlers -> Handler] /\ handlers'[h] = r
      /\ \A g \in Handlers \ {h} : handlers'[g] = handlers[g]
  BY <1>1 DEF IInv, TypeOK, Follows
<1>3. Dated'
  BY <1>1, <1>2 DEF IInv, Dated, Follows
<1>4. \A g \in Handlers, p \in PlaceIDs :
         Resolving(g, p)' => Resolving(g, p) /\ handlers'[g].at = handlers[g].at
  BY <1>1, <1>2 DEF Resolving, Follows
<1>5. Since'
  BY <1>4 DEF IInv, Since
<1> QED  BY <1>2, <1>3, <1>5

-----------------------------------------------------------------------------
\* A request starts to resolve a place, now.
LEMMA ResolvesStep ==
  ASSUME IInv, NEW h \in Handlers, NEW p \in PlaceIDs, NEW refresh \in BOOLEAN, Resolves(h, p, refresh)
  PROVE  /\ handlers' \in [Handlers -> Handler]
         /\ handlers'[h].pc = "stored" /\ handlers'[h].place = p /\ handlers'[h].at = now
         /\ handlers'[h].refresh = refresh
         /\ \A g \in Handlers \ {h} : handlers'[g] = handlers[g]
<1> DEFINE r == [Idle EXCEPT !.pc = "stored", !.refresh = refresh, !.place = p, !.at = now]
<1>1. r \in Handler /\ r.pc = "stored" /\ r.place = p /\ r.at = now /\ r.refresh = refresh
  BY IdleType DEF IInv, TypeOK, Handler
<1>2. handlers' = [handlers EXCEPT ![h] = r]
  BY DEF Resolves
<1> HIDE DEF r
<1> QED  BY <1>1, <1>2 DEF IInv, TypeOK

LEMMA WorldStep ==
  ASSUME IInv, \/ Tick
               \/ \E p \in PlaceIDs : \/ Roll(p)
                                      \/ \E name \in Names, carried \in {{}, {TRUE}, {FALSE}} : Publish(p, name, carried)
  PROVE  IInv'
<1>1. CASE Tick
  <2>1. now' = now + 1 /\ now' \in Times /\ now \in Int
    BY <1>1, PlacePhotoAssumption DEF Tick, IInv, TypeOK, Times
  <2>2. UNCHANGED <<entries, dayStart, refreshedDay, handlers, rows, stored, override, accepted, faults,
                    begun, refreshed, renewed, overlapped>>
    BY <1>1 DEF Tick, cache, catalogue, history
  <2>3. TypeOK'
    BY <2>1, <2>2 DEF IInv, TypeOK
  <2>4. \A p \in PlaceIDs : refreshed[p] \in Int
    BY PlacePhotoAssumption DEF IInv, TypeOK, Times, Never
  <2>5. \A h \in Handlers : handlers[h].at \in Int
    BY DEF IInv, TypeOK, Handler, Times
  <2>6. Dated'
    BY <2>1, <2>2, <2>4, <2>5 DEF IInv, Dated
  <2>7. Since'
    BY <2>2 DEF IInv, Since, Resolving
  <2> QED  BY <2>3, <2>6, <2>7 DEF IInv
<1>2. ASSUME NEW p \in PlaceIDs, Roll(p) PROVE IInv'
  <2>1. UNCHANGED <<now, entries, dayStart, refreshedDay, handlers, rows, stored, override, faults,
                    begun, refreshed, renewed, overlapped>>
    BY <1>2 DEF Roll, cache, history
  <2>2. accepted[p] + 1 \in Names
    BY <1>2, PlacePhotoAssumption DEF Roll, Names
  <2>3. accepted' \in [PlaceIDs -> Names]
    BY <1>2, <2>2 DEF Roll, IInv, TypeOK
  <2>4. TypeOK' /\ Dated' /\ Since'
    BY <2>1, <2>3 DEF IInv, TypeOK, Dated, Since, Resolving
  <2> QED  BY <2>4 DEF IInv
<1>3. ASSUME NEW p \in PlaceIDs, NEW name \in Names, NEW carried \in {{}, {TRUE}, {FALSE}}, Publish(p, name, carried)
      PROVE  IInv'
  <2>1. UNCHANGED <<now, entries, dayStart, refreshedDay, handlers, accepted, faults,
                    begun, refreshed, renewed, overlapped>>
    BY <1>3 DEF Publish, cache, history
  <2>2. rows' \subseteq PlaceIDs /\ stored' \in [PlaceIDs -> Names]
    BY <1>3 DEF Publish, IInv, TypeOK
  <2>3. override' \in [PlaceIDs -> BOOLEAN]
    BY <1>3 DEF Publish, IInv, TypeOK
  <2>4. TypeOK' /\ Dated' /\ Since'
    BY <2>1, <2>2, <2>3 DEF IInv, TypeOK, Dated, Since, Resolving
  <2> QED  BY <2>4 DEF IInv
<1> QED  BY <1>1, <1>2, <1>3

LEMMA NoneHeld == Cardinality({}) <= CacheMax
  BY FS_EmptySet, PlacePhotoAssumption

\* The process has just started: an empty cache and no request.
LEMMA InitStep ==
  ASSUME Init
  PROVE  IInv
<1>1. entries \in [PlaceIDs -> Entry] /\ \A p \in PlaceIDs : entries[p] = NoEntry
  BY NoEntryType DEF Init
<1>2. {p \in PlaceIDs : entries[p] # NoEntry} = {}
  BY <1>1
<1>3. Cardinality({p \in PlaceIDs : entries[p] # NoEntry}) <= CacheMax
  BY <1>2, NoneHeld
<1>4. handlers \in [Handlers -> Handler] /\ \A h \in Handlers : handlers[h].pc = "idle"
  BY IdleType DEF Init, Idle
<1>5. dayStart \in {-(Day + 1)} \cup Times /\ refreshedDay \in 0..Budget
  BY PlacePhotoAssumption DEF Init
<1>6. /\ refreshed = [p \in PlaceIDs |-> Never] /\ renewed = [p \in PlaceIDs |-> Never]
      /\ overlapped = [p \in PlaceIDs |-> FALSE] /\ begun \in Seq(Times)
  BY DEF Init
<1>7. /\ now \in Times /\ rows \subseteq PlaceIDs /\ stored \in [PlaceIDs -> Names]
      /\ override \in [PlaceIDs -> BOOLEAN] /\ faults \in 0..MaxFaults
  BY PlacePhotoAssumption DEF Init, Times, Names
<1>8. accepted \in [PlaceIDs -> Names]
  BY DEF Init
<1>9. TypeOK
  BY <1>1, <1>3, <1>4, <1>5, <1>6, <1>7, <1>8 DEF TypeOK
<1>10. Never <= now
  BY <1>7, PlacePhotoAssumption DEF Never, Times
<1>11. Dated /\ Since
  BY <1>1, <1>4, <1>6, <1>10 DEF Dated, Since, Resolving
<1> QED  BY <1>9, <1>11 DEF IInv

LEMMA RestartStep ==
  ASSUME IInv, Restart
  PROVE  IInv'
<1>1. entries' \in [PlaceIDs -> Entry] /\ \A p \in PlaceIDs : entries'[p] = NoEntry
  BY NoEntryType DEF Restart
<1>2. {p \in PlaceIDs : entries'[p] # NoEntry} = {}
  BY <1>1
<1>3. Cardinality({p \in PlaceIDs : entries'[p] # NoEntry}) <= CacheMax
  BY <1>2, NoneHeld
<1>4. handlers' \in [Handlers -> Handler] /\ \A h \in Handlers : handlers'[h].pc = "idle"
  BY IdleType DEF Restart, Idle
<1>5. dayStart' \in {-(Day + 1)} \cup Times /\ refreshedDay' \in 0..Budget
  BY PlacePhotoAssumption DEF Restart
<1>6. /\ refreshed' = [p \in PlaceIDs |-> Never] /\ renewed' = [p \in PlaceIDs |-> Never]
      /\ overlapped' = [p \in PlaceIDs |-> FALSE] /\ begun' \in Seq(Times)
  BY DEF Restart
<1>7. UNCHANGED <<now, rows, stored, override, accepted>> /\ faults' \in 0..MaxFaults
  BY PlacePhotoAssumption DEF Restart, catalogue, IInv, TypeOK
<1>8. TypeOK'
  BY <1>1, <1>3, <1>4, <1>5, <1>6, <1>7 DEF IInv, TypeOK
<1>9. Never <= now'
  BY <1>7, PlacePhotoAssumption DEF Never, Times, IInv, TypeOK
<1>10. Dated' /\ Since'
  BY <1>1, <1>4, <1>6, <1>9 DEF Dated, Since, Resolving
<1> QED  BY <1>8, <1>10 DEF IInv

-----------------------------------------------------------------------------
LEMMA ViewStep ==
  ASSUME IInv, NEW h \in Handlers, NEW p \in PlaceIDs, View(h, p)
  PROVE  IInv'
<1>1. UNCHANGED <<now, entries, dayStart, refreshedDay, rows, stored, override, accepted,
                  begun, refreshed, renewed, overlapped>>
  BY DEF View, cache, catalogue, history
<1>2. faults' \in 0..MaxFaults
  BY PlacePhotoAssumption DEF View, NoOverride, Works, Fails, IInv, TypeOK
<1>3. /\ handlers' \in [Handlers -> Handler]
      /\ handlers'[h].pc = "stored" /\ handlers'[h].place = p /\ handlers'[h].at = now
      /\ \A g \in Handlers \ {h} : handlers'[g] = handlers[g]
  BY ResolvesStep DEF View
<1>4. TypeOK'
  BY <1>1, <1>2, <1>3 DEF IInv, TypeOK
<1>5. now <= now
  BY DEF IInv, TypeOK, Times
<1>6. Dated'
  BY <1>1, <1>3, <1>5 DEF IInv, Dated
<1>7. \A g \in Handlers, q \in PlaceIDs :
         Resolving(g, q)' => (Resolving(g, q) /\ handlers'[g].at = handlers[g].at) \/ (q = p /\ handlers'[g].at = now)
  BY <1>3 DEF Resolving
<1>8. Since'
  BY <1>1, <1>7 DEF IInv, Dated, Since
<1> QED  BY <1>4, <1>6, <1>8 DEF IInv

LEMMA BudgetType ==
  ASSUME IInv, CountRefresh
  PROVE  dayStart' \in {-(Day + 1)} \cup Times /\ refreshedDay' \in 0..Budget
  BY PlacePhotoAssumption DEF CountRefresh, StartOfDay, IInv, TypeOK

LEMMA RefreshStep ==
  ASSUME IInv, NEW h \in Handlers, NEW p \in PlaceIDs, Refresh(h, p)
  PROVE  IInv'
<1>1. UNCHANGED <<now, rows, stored, override, accepted>>
  BY DEF Refresh, catalogue
<1>2. faults' \in 0..MaxFaults
  BY PlacePhotoAssumption DEF Refresh, NoOverride, Works, Fails, IInv, TypeOK
<1>3. /\ handlers' \in [Handlers -> Handler]
      /\ handlers'[h].pc = "stored" /\ handlers'[h].place = p /\ handlers'[h].at = now
      /\ \A g \in Handlers \ {h} : handlers'[g] = handlers[g]
  BY ResolvesStep DEF Refresh
<1>4. dayStart' \in {-(Day + 1)} \cup Times /\ refreshedDay' \in 0..Budget
  BY BudgetType DEF Refresh, BeginRefresh
<1>5. entries' = [entries EXCEPT ![p] = NoEntry]
  BY DEF Refresh, BeginRefresh
<1>6. entries' \in [PlaceIDs -> Entry] /\ entries'[p] = NoEntry /\ \A q \in PlaceIDs \ {p} : entries'[q] = entries[q]
  BY <1>5, NoEntryType DEF IInv, TypeOK
<1>7. Cardinality({q \in PlaceIDs : entries'[q] # NoEntry}) <= CacheMax
  <2>1. {q \in PlaceIDs : entries'[q] # NoEntry} \in SUBSET {q \in PlaceIDs : entries[q] # NoEntry}
    BY <1>6
  <2> QED  BY <2>1, Fewer DEF IInv, TypeOK
<1>8. /\ refreshed' = [refreshed EXCEPT ![p] = now] /\ begun' = Append(begun, now)
      /\ renewed' = [renewed EXCEPT ![p] = Never]
      /\ overlapped' = [overlapped EXCEPT ![p] = \E g \in Handlers : Resolving(g, p)]
  BY DEF Refresh
<1>9. /\ refreshed' \in [PlaceIDs -> Times \cup {Never}] /\ begun' \in Seq(Times)
      /\ overlapped' \in [PlaceIDs -> BOOLEAN] /\ renewed' \in [PlaceIDs -> Times \cup {Never}]
  BY <1>8 DEF IInv, TypeOK
<1>10. TypeOK'
  BY <1>1, <1>2, <1>3, <1>4, <1>6, <1>7, <1>9 DEF IInv, TypeOK
<1>11. now <= now
  BY DEF IInv, TypeOK, Times
<1>12. refreshed'[p] = now /\ \A q \in PlaceIDs \ {p} : refreshed'[q] = refreshed[q] /\ overlapped'[q] = overlapped[q]
  BY <1>8 DEF IInv, TypeOK
<1>13. Dated'
  BY <1>1, <1>3, <1>6, <1>11, <1>12 DEF IInv, Dated
<1>14. ~overlapped'[p] => \A g \in Handlers : ~Resolving(g, p)
  BY <1>8 DEF IInv, TypeOK
<1>15. \A g \in Handlers, q \in PlaceIDs :
         Resolving(g, q)' => (Resolving(g, q) /\ handlers'[g].at = handlers[g].at) \/ (q = p /\ handlers'[g].at = now)
  BY <1>3 DEF Resolving
<1>16. Since'
  BY <1>6, <1>11, <1>12, <1>14, <1>15 DEF IInv, Since
<1> QED  BY <1>10, <1>13, <1>16 DEF IInv

\* The calls that a request makes.
LEMMA CallMoves ==
  ASSUME IInv, NEW h \in Handlers,
         ReadStored(h) \/ MediaOfStored(h) \/ Lookup(h) \/ MediaOfFresh(h) \/ Remember(h)
  PROVE  Moves(h)
<1>1. handlers[h].pc # "idle" /\ 0 \in Names
  BY PlacePhotoAssumption DEF ReadStored, MediaOfStored, Lookup, MediaOfFresh, Remember, Names
<1>2. handlers[h].place \in PlaceIDs
  BY DEF IInv, TypeOK, Handler
<1>3. CASE ReadStored(h)
  <2>1. stored[handlers[h].place] \in Names
    BY <1>2 DEF IInv, TypeOK
  <2> QED  BY <1>1, <1>3, <2>1, GotoMoves DEF ReadStored
<1>4. CASE MediaOfStored(h)
  BY <1>1, <1>4, GotoMoves, IssuedMoves DEF MediaOfStored
<1>5. CASE Lookup(h)
  <2>1. accepted[handlers[h].place] \in Names
    BY <1>2 DEF IInv, TypeOK
  <2> QED  BY <1>1, <1>5, <2>1, GotoMoves, AnswerMoves DEF Lookup
<1>6. CASE MediaOfFresh(h)
  BY <1>1, <1>6, IssuedMoves, AnswerMoves DEF MediaOfFresh
<1>7. CASE Remember(h)
  <2> DEFINE q == handlers[h]
             r == [q EXCEPT !.pc = "set"]
  <2>1. q.pc = "remember" /\ handlers' = [handlers EXCEPT ![h].pc = "set"]
    BY <1>7 DEF Remember, Goto
  <2>2. r \in Handler /\ r.place = q.place /\ r.at = q.at /\ r.url = q.url /\ r.refresh = q.refresh
    BY DEF IInv, TypeOK, Handler
  <2>3. Follows(q, r)
    BY <2>1, <2>2 DEF IInv, Dated, Follows
  <2>4. handlers' = [handlers EXCEPT ![h] = r]
    BY <2>1 DEF IInv, TypeOK
  <2> QED  BY <2>3, <2>4 DEF Moves
<1> QED  BY <1>3, <1>4, <1>5, <1>6, <1>7

LEMMA CallStep ==
  ASSUME IInv, NEW h \in Handlers,
         ReadStored(h) \/ MediaOfStored(h) \/ Lookup(h) \/ MediaOfFresh(h) \/ Remember(h)
  PROVE  IInv'
<1>1. UNCHANGED <<now, entries, dayStart, refreshedDay, rows, override, accepted,
                  begun, refreshed, renewed, overlapped>>
  BY DEF ReadStored, MediaOfStored, Lookup, MediaOfFresh, Remember, cache, catalogue, history
<1>2. faults' \in 0..MaxFaults
  BY PlacePhotoAssumption DEF ReadStored, MediaOfStored, Lookup, MediaOfFresh, Remember, Works, Fails, IInv, TypeOK
<1>3. stored' \in [PlaceIDs -> Names]
  BY DEF ReadStored, MediaOfStored, Lookup, MediaOfFresh, Remember, catalogue, IInv, TypeOK, Handler
<1>4. Moves(h)
  BY CallMoves
<1>5. handlers' \in [Handlers -> Handler] /\ Dated' /\ Since'
  BY <1>1, <1>4, MoveStep
<1>6. TypeOK'
  BY <1>1, <1>2, <1>3, <1>5 DEF IInv, TypeOK
<1> QED  BY <1>5, <1>6 DEF IInv

\* The URL goes into the cache, if there is room.
LEMMA SetStep ==
  ASSUME IInv, NEW h \in Handlers, Set(h)
  PROVE  IInv'
<1> DEFINE r == handlers[h]
           kept == Swept(r.at)
           new == KeptFrom(r.url, r.at)
<1>1. UNCHANGED <<now, dayStart, refreshedDay, rows, stored, override, accepted, faults, begun, refreshed, overlapped>>
  BY DEF Set, catalogue
<1>2. /\ r.pc = "set" /\ r.place \in PlaceIDs /\ r.at \in Times /\ r.url \in Times
      /\ r.at <= r.url
  BY DEF Set, IInv, TypeOK, Handler, Dated
<1>3. Moves(h)
  BY AnswerMoves DEF Set
<1>4. PICK j \in Handler : Follows(r, j) /\ handlers' = [handlers EXCEPT ![h] = j]
  BY <1>3 DEF Moves, Follows
<1>5. handlers' \in [Handlers -> Handler] /\ handlers'[h] = j
      /\ \A g \in Handlers \ {h} : handlers'[g] = handlers[g]
  BY <1>4 DEF IInv, TypeOK
<1>6. /\ new \in Entry /\ new.url = r.url /\ new.resolved = r.at /\ new.expires = r.at + TTL
  BY <1>2, PlacePhotoAssumption DEF KeptFrom, Entry, Times
<1>7. kept \in [PlaceIDs -> Entry] /\ \A p \in PlaceIDs : kept[p] \in {entries[p], NoEntry}
  BY NoEntryType DEF Swept, IInv, TypeOK
<1> HIDE DEF new, kept
<1>8. /\ entries' \in [PlaceIDs -> Entry]
      /\ \A p \in PlaceIDs : entries'[p] \in {entries[p], NoEntry} \/ (p = r.place /\ entries'[p] = new)
  <2>1. entries' = kept \/ entries' = [kept EXCEPT ![r.place] = new]
    BY DEF Set, kept, new
  <2> QED  BY <1>2, <1>6, <1>7, <2>1
<1>9. Cardinality({p \in PlaceIDs : entries'[p] # NoEntry}) <= CacheMax
  <2> DEFINE held == {p \in PlaceIDs : kept[p] # NoEntry}
  <2>1. CASE Room(kept) /\ entries' = [kept EXCEPT ![r.place] = new]
    <3>1. Cardinality(held) < CacheMax
      BY <2>1 DEF Room
    <3>2. {p \in PlaceIDs : entries'[p] # NoEntry} \in SUBSET (held \cup {r.place})
      BY <1>7, <2>1
    <3> QED  BY <1>2, <3>1, <3>2, OneMore
  <2>2. CASE entries' = kept
    <3>1. {p \in PlaceIDs : entries'[p] # NoEntry} \in SUBSET {p \in PlaceIDs : entries[p] # NoEntry}
      BY <1>7, <2>2
    <3> QED  BY <3>1, Fewer DEF IInv, TypeOK
  <2> QED  BY <2>1, <2>2 DEF Set, kept, new
<1>10. renewed' \in [PlaceIDs -> Times \cup {Never}]
  <2>1. renewed' = renewed \/ renewed' = [renewed EXCEPT ![r.place] = r.at]
    BY DEF Set
  <2> QED  BY <1>2, <2>1 DEF IInv, TypeOK
<1>11. TypeOK'
  BY <1>1, <1>5, <1>8, <1>9, <1>10 DEF IInv, TypeOK
<1>12. Dated'
  BY <1>1, <1>2, <1>4, <1>5, <1>6, <1>8 DEF IInv, Dated, Follows
<1>13. \A g \in Handlers, p \in PlaceIDs :
         Resolving(g, p)' => Resolving(g, p) /\ handlers'[g].at = handlers[g].at
  BY <1>4, <1>5 DEF Resolving, Follows
<1>14. ~overlapped[r.place] => refreshed[r.place] <= r.url
  <2>1. refreshed[r.place] \in Int /\ r.at \in Int /\ r.url \in Int
    BY <1>2, PlacePhotoAssumption DEF IInv, TypeOK, Times, Never
  <2>2. ~overlapped[r.place] => refreshed[r.place] <= r.at
    BY <1>2 DEF IInv, Since, Resolving
  <2> QED  BY <1>2, <2>1, <2>2
<1>15. Since'
  BY <1>1, <1>6, <1>8, <1>13, <1>14 DEF IInv, Since
<1> QED  BY <1>11, <1>12, <1>15 DEF IInv

LEMMA Inductive == Spec => []IInv
<1>1. Init => IInv
  BY InitStep
<1>2. IInv /\ [Next]_vars => IInv'
  <2> SUFFICES ASSUME IInv, [Next]_vars PROVE IInv'
    OBVIOUS
  <2>1. CASE UNCHANGED vars
    <3>1. UNCHANGED <<now, entries, dayStart, refreshedDay, handlers, rows, stored, override, accepted, faults,
                      begun, refreshed, renewed, overlapped>>
      BY <2>1 DEF vars, cache, catalogue, history
    <3>2. TypeOK'
      BY <3>1 DEF IInv, TypeOK
    <3>3. Dated' /\ Since'
      BY <3>1 DEF IInv, Dated, Since, Resolving
    <3> QED  BY <3>2, <3>3 DEF IInv
  <2> QED  BY <2>1, WorldStep, RestartStep, ViewStep, RefreshStep, CallStep, SetStep DEF Next
<1> QED  BY <1>1, <1>2, PTL DEF Spec

(***************************************************************************)
(* The state is well typed; in particular photoCache never holds more than *)
(* photoCacheMax entries and a day never more refreshes than its budget.   *)
(***************************************************************************)
THEOREM TypeCorrect == Spec => []TypeOK
<1>1. IInv => TypeOK
  BY DEF IInv
<1> QED  BY <1>1, Inductive, PTL

(***************************************************************************)
(* What the cache answers with was issued less than photoCacheTTL ago,     *)
(* however long the request that put it there took.                        *)
(***************************************************************************)
THEOREM UrlsAreFresh == Spec => []ServedUrlsAreFresh
<1>1. IInv => ServedUrlsAreFresh
  <2> SUFFICES ASSUME IInv, NEW p \in PlaceIDs, Cached(p) PROVE now - entries[p].url < TTL
    BY DEF ServedUrlsAreFresh
  <2>1. entries[p] \in [url: Times, expires: TTL..(MaxTime + TTL), resolved: Times]
    BY DEF Cached, IInv, TypeOK, Entry
  <2>2. /\ now \in Int /\ entries[p].url \in Int /\ entries[p].resolved \in Int /\ TTL \in Int
    BY <2>1, PlacePhotoAssumption DEF IInv, TypeOK, Times
  <2>3. /\ entries[p].expires = entries[p].resolved + TTL /\ entries[p].resolved <= entries[p].url
        /\ entries[p].expires > now
    BY DEF Cached, IInv, Dated
  <2> QED  BY <2>2, <2>3
<1> QED  BY <1>1, Inductive, PTL

(***************************************************************************)
(* A URL that visitors reported and the API gave up does not come back,    *)
(* unless another request was resolving its place at the time.             *)
(***************************************************************************)
THEOREM ReportedUrlsStayGone == Spec => []ReportedUrlStaysGone
<1>1. IInv => ReportedUrlStaysGone
  <2> SUFFICES ASSUME IInv, NEW p \in PlaceIDs, Cached(p), ~overlapped[p] PROVE entries[p].url >= refreshed[p]
    BY DEF ReportedUrlStaysGone
  <2>1. entries[p].url \in Int /\ refreshed[p] \in Int
    BY PlacePhotoAssumption DEF Cached, IInv, TypeOK, Entry, Times, Never
  <2> QED  BY <2>1 DEF Cached, IInv, Since
<1> QED  BY <1>1, Inductive, PTL

-----------------------------------------------------------------------------
(***************************************************************************)
(* The daily budget.  A day of the counter begins more than Day after the  *)
(* one before it, so a span of Day that ends now meets only today and the  *)
(* Day before it.                                                          *)
(***************************************************************************)
Span(from, to) == {i \in DOMAIN begun : from <= begun[i] /\ begun[i] <= to}

Rationed ==
    /\ dayStart <= now
    /\ \A i \in DOMAIN begun : begun[i] <= now /\ begun[i] <= dayStart + Day
    /\ Cardinality(Span(dayStart, now)) <= refreshedDay
    /\ Cardinality(Span(dayStart - Day, dayStart - 1)) <= Budget
    /\ \A t \in Times : BegunFrom(t) <= 2 * Budget

LEMMA Spans ==
  ASSUME IInv, NEW from, NEW to
  PROVE  IsFiniteSet(Span(from, to)) /\ Cardinality(Span(from, to)) \in Nat
<1>1. begun \in Seq(Times)
  BY DEF IInv, TypeOK
<1>2. DOMAIN begun = 1..Len(begun) /\ Len(begun) \in Nat
  BY <1>1
<1>3. IsFiniteSet(DOMAIN begun)
  BY <1>2, FS_Interval
<1>4. Span(from, to) \in SUBSET DOMAIN begun
  BY DEF Span
<1> QED  BY <1>3, <1>4, FS_Subset, FS_CardinalityType

LEMMA CardinalitySubset ==
  ASSUME NEW T, IsFiniteSet(T), NEW S \in SUBSET T, NEW n \in Nat, Cardinality(T) <= n
  PROVE  Cardinality(S) <= n
<1>1. IsFiniteSet(S) /\ Cardinality(S) <= Cardinality(T)
  BY FS_Subset
<1>2. Cardinality(S) \in Nat /\ Cardinality(T) \in Nat
  BY <1>1, FS_CardinalityType
<1> QED  BY <1>1, <1>2

LEMMA CardinalityUnion ==
  ASSUME NEW S, NEW T, IsFiniteSet(S), IsFiniteSet(T), NEW U \in SUBSET (S \cup T),
         NEW m \in Nat, NEW n \in Nat, Cardinality(S) <= m, Cardinality(T) <= n
  PROVE  Cardinality(U) <= m + n
<1>1. /\ IsFiniteSet(S \cup T) /\ IsFiniteSet(S \cap T)
      /\ Cardinality(S \cup T) = Cardinality(S) + Cardinality(T) - Cardinality(S \cap T)
  BY FS_Union, FS_Intersection
<1>2. /\ Cardinality(S) \in Nat /\ Cardinality(T) \in Nat /\ Cardinality(S \cap T) \in Nat
      /\ Cardinality(S \cup T) \in Nat
  BY <1>1, FS_CardinalityType
<1>3. Cardinality(S \cup T) <= m + n
  BY <1>1, <1>2
<1> QED  BY <1>1, <1>3, CardinalitySubset

LEMMA CardinalityPlus ==
  ASSUME NEW S, IsFiniteSet(S), NEW x, NEW U \in SUBSET (S \cup {x}),
         NEW n \in Nat, Cardinality(S) <= n
  PROVE  IsFiniteSet(U) /\ Cardinality(U) \in Nat /\ Cardinality(U) <= n + 1
<1>1. IsFiniteSet({x}) /\ Cardinality({x}) = 1
  BY FS_Singleton
<1>2. Cardinality({x}) <= 1 /\ 1 \in Nat
  BY <1>1
<1>3. Cardinality(U) <= n + 1
  BY <1>1, <1>2, CardinalityUnion
<1>4. IsFiniteSet(S \cup {x})
  BY FS_AddElement
<1> QED  BY <1>3, <1>4, FS_Subset, FS_CardinalityType

\* Time may pass, but no refresh begins and the process goes on.
LEMMA RationedElsewhere ==
  ASSUME IInv, IInv', Rationed, now <= now', UNCHANGED <<dayStart, refreshedDay, begun>>
  PROVE  Rationed'
<1>1. now \in Int /\ now' \in Int /\ dayStart \in Int /\ \A i \in DOMAIN begun : begun[i] \in Int
  BY PlacePhotoAssumption DEF IInv, TypeOK, Times
<1>2. Span(dayStart, now)' = Span(dayStart, now)
  BY <1>1 DEF Rationed, Span
<1>3. Span(dayStart - Day, dayStart - 1)' = Span(dayStart - Day, dayStart - 1)
  BY DEF Span
<1>4. \A t \in Times : BegunFrom(t)' = BegunFrom(t)
  BY DEF BegunFrom
<1>5. dayStart <= now' /\ \A i \in DOMAIN begun : begun[i] <= now'
  BY <1>1 DEF Rationed
<1>6. Cardinality(Span(dayStart, now)') <= refreshedDay /\ Cardinality(Span(dayStart - Day, dayStart - 1)') <= Budget
  BY <1>2, <1>3 DEF Rationed
<1> QED  BY <1>4, <1>5, <1>6 DEF Rationed

\* The refresh that CountRefresh accepts.
LEMMA RationedRefresh ==
  ASSUME IInv, IInv', Rationed, UNCHANGED now, begun' = Append(begun, now), CountRefresh
  PROVE  Rationed'
<1> DEFINE n == Len(begun) + 1
<1>1. /\ begun \in Seq(Times) /\ now \in Times /\ dayStart \in Int /\ refreshedDay \in 0..Budget
      /\ Budget \in Nat /\ 0 < Budget /\ Day \in Nat
  BY PlacePhotoAssumption DEF IInv, TypeOK, Times
<1>2. /\ DOMAIN begun' = DOMAIN begun \cup {n} /\ n \notin DOMAIN begun
      /\ begun'[n] = now /\ \A i \in DOMAIN begun : begun'[i] = begun[i] /\ begun[i] \in Int
  <2>1. DOMAIN begun = 1..Len(begun) /\ Len(begun) \in Nat /\ DOMAIN Append(begun, now) = 1..(Len(begun) + 1)
    BY <1>1
  <2>2. \A i \in 1..Len(begun) : Append(begun, now)[i] = begun[i] /\ begun[i] \in Times
    BY <1>1
  <2>3. Append(begun, now)[n] = now
    BY <1>1
  <2> QED  BY <2>1, <2>2, <2>3 DEF Times
<1>3. now \in Int /\ dayStart <= now /\ \A i \in DOMAIN begun : begun[i] <= now /\ begun[i] <= dayStart + Day
  BY <1>1 DEF Rationed, Times
<1> HIDE DEF n
<1>4. CASE NewDay
  <2>1. dayStart + Day < now /\ dayStart' = now /\ refreshedDay' = 1
    BY <1>1, <1>3, <1>4 DEF NewDay, CountRefresh, StartOfDay
  <2>2. \A i \in DOMAIN begun : begun[i] < now
    BY <1>1, <1>2, <1>3, <2>1
  <2>3. Span(dayStart, now)' \in SUBSET ({} \cup {n})
    BY <1>2, <1>3, <2>1, <2>2 DEF Span
  <2>4. Cardinality(Span(dayStart, now)') <= 1
    <3>1. IsFiniteSet({}) /\ Cardinality({}) <= 0 /\ 0 \in Nat
      BY FS_EmptySet
    <3>2. Cardinality(Span(dayStart, now)') <= 0 + 1
      BY <2>3, <3>1, CardinalityPlus, Zenon
    <3> QED  BY <3>2
  <2>5. Span(dayStart - Day, dayStart - 1)' \in SUBSET Span(dayStart, now)
    BY <1>1, <1>2, <1>3, <2>1 DEF Span
  <2>6. Cardinality(Span(dayStart, now)) <= Budget
    BY <1>1, Spans DEF Rationed
  <2>7. Cardinality(Span(dayStart - Day, dayStart - 1)') <= Budget
    BY <1>1, <2>5, <2>6, Spans, CardinalitySubset
  <2>8. ASSUME NEW t \in Times PROVE BegunFrom(t)' <= 2 * Budget
    <3> DEFINE U == {i \in DOMAIN begun' : t <= begun'[i] /\ begun'[i] <= t + Day}
    <3>1. CASE now <= t + Day
      <4>1. U \in SUBSET (Span(dayStart, now) \cup {n})
        BY <1>1, <1>2, <1>3, <2>1, <3>1 DEF Span, Times
      <4> HIDE DEF U
      <4>2. Cardinality(U) \in Nat /\ Cardinality(U) <= Budget + 1
        BY <1>1, <2>6, <4>1, Spans, CardinalityPlus, Zenon
      <4>3. BegunFrom(t)' = Cardinality(U)
        BY DEF BegunFrom, U
      <4> QED  BY <1>1, <4>2, <4>3
    <3>2. CASE ~(now <= t + Day)
      <4>1. U = {i \in DOMAIN begun : t <= begun[i] /\ begun[i] <= t + Day}
        BY <1>2, <3>2
      <4> QED  BY <4>1 DEF BegunFrom, Rationed
    <3> QED  BY <3>1, <3>2
  <2>9. \A i \in DOMAIN begun' : begun'[i] <= now' /\ begun'[i] <= dayStart' + Day
    BY <1>1, <1>2, <1>3, <2>1
  <2> QED  BY <1>3, <2>1, <2>4, <2>7, <2>8, <2>9 DEF Rationed
<1>5. CASE ~NewDay
  <2>1. /\ now <= dayStart + Day /\ dayStart' = dayStart /\ refreshedDay' = refreshedDay + 1 /\ refreshedDay < Budget
    BY <1>1, <1>3, <1>5 DEF NewDay, CountRefresh, StartOfDay
  <2>2. Span(dayStart, now)' \in SUBSET (Span(dayStart, now) \cup {n})
    BY <1>2, <2>1 DEF Span
  <2>3. Cardinality(Span(dayStart, now)) <= refreshedDay
    BY DEF Rationed
  <2>4. Cardinality(Span(dayStart, now)') <= refreshedDay + 1
    <3>1. refreshedDay \in Nat
      BY <1>1
    <3> QED  BY <2>2, <2>3, <3>1, Spans, CardinalityPlus, Zenon
  <2>5. Span(dayStart - Day, dayStart - 1)' = Span(dayStart - Day, dayStart - 1)
    BY <1>1, <1>2, <1>3, <2>1 DEF Span, Rationed
  <2>6. ASSUME NEW t \in Times PROVE BegunFrom(t)' <= 2 * Budget
    <3> DEFINE U == {i \in DOMAIN begun' : t <= begun'[i] /\ begun'[i] <= t + Day}
    <3>1. CASE now <= t + Day
      <4>1. U \in SUBSET (Span(dayStart - Day, dayStart - 1) \cup (Span(dayStart, now) \cup {n}))
        <5> SUFFICES ASSUME NEW i \in DOMAIN begun, t <= begun[i], begun[i] < dayStart
                     PROVE  i \in Span(dayStart - Day, dayStart - 1)
          BY <1>1, <1>2, <1>3 DEF Span
        <5>1. t \in Int /\ begun[i] \in Int /\ dayStart - Day <= begun[i] /\ begun[i] <= dayStart - 1
          BY <1>1, <1>2, <1>3, <2>1, <3>1 DEF Times
        <5> QED  BY <5>1 DEF Span
      <4> DEFINE T == Span(dayStart, now) \cup {n}
      <4>2. IsFiniteSet(T) /\ Cardinality(T) <= refreshedDay + 1
        <5>1. refreshedDay \in Nat /\ T \in SUBSET (Span(dayStart, now) \cup {n})
          BY <1>1
        <5> HIDE DEF T
        <5> QED  BY <2>3, <5>1, Spans, CardinalityPlus, Zenon
      <4>3. Cardinality(Span(dayStart - Day, dayStart - 1)) <= Budget
        BY DEF Rationed
      <4>4. refreshedDay + 1 \in Nat
        BY <1>1
      <4>5. Cardinality(U) <= Budget + (refreshedDay + 1)
        <5> HIDE DEF U, T
        <5>1. U \in SUBSET (Span(dayStart - Day, dayStart - 1) \cup T)
          BY <4>1 DEF T
        <5> QED  BY <1>1, <4>2, <4>3, <4>4, <5>1, Spans, CardinalityUnion
      <4>6. IsFiniteSet(U)
        <5>1. IsFiniteSet(Span(dayStart - Day, dayStart - 1) \cup T)
          BY <4>2, Spans, FS_Union
        <5> QED  BY <4>1, <5>1, FS_Subset
      <4>7. Cardinality(U) \in Nat
        BY <4>6, FS_CardinalityType
      <4>8. BegunFrom(t)' = Cardinality(U)
        BY DEF BegunFrom, U
      <4>9. refreshedDay \in Int /\ Budget \in Int /\ refreshedDay + 1 <= Budget
        BY <1>1, <2>1
      <4> HIDE DEF U
      <4> QED  BY <4>5, <4>7, <4>8, <4>9
    <3>2. CASE ~(now <= t + Day)
      <4>1. U = {i \in DOMAIN begun : t <= begun[i] /\ begun[i] <= t + Day}
        BY <1>2, <3>2
      <4> QED  BY <4>1 DEF BegunFrom, Rationed
    <3> QED  BY <3>1, <3>2
  <2>7. \A i \in DOMAIN begun' : begun'[i] <= now' /\ begun'[i] <= dayStart' + Day
    BY <1>1, <1>2, <1>3, <2>1
  <2>8. Cardinality(Span(dayStart - Day, dayStart - 1)') <= Budget /\ dayStart' <= now'
    BY <2>1, <2>5 DEF Rationed
  <2> QED  BY <2>1, <2>4, <2>6, <2>7, <2>8 DEF Rationed
<1> QED  BY <1>4, <1>5

-----------------------------------------------------------------------------
(***************************************************************************)
(* The cooldown.  Unless requests overlapped at the last report, the URL   *)
(* of the refresh stays in the cache while the cooldown lasts: it has not  *)
(* expired, since Cooldown <= TTL, and what replaces it looked later.      *)
(***************************************************************************)
Renews ==
    /\ \A h \in Handlers : handlers[h].pc # "idle" /\ handlers[h].refresh
          => handlers[h].at <= refreshed[handlers[h].place]
    /\ \A p \in PlaceIDs : renewed[p] <= refreshed[p]

Cooled ==
    \A p \in PlaceIDs : ~overlapped[p] /\ now - renewed[p] < Cooldown
        => entries[p] # NoEntry /\ entries[p].resolved >= renewed[p]

\* What has been answered of a place may change, and time pass: no refresh begins.
LEMMA CooledElsewhere ==
  ASSUME IInv, IInv', Renews, Cooled, now <= now', UNCHANGED <<entries, refreshed, renewed, overlapped>>,
         \A h \in Handlers : handlers'[h].pc # "idle" /\ handlers'[h].refresh
            => handlers[h].pc # "idle" /\ handlers[h].refresh
               /\ handlers'[h].at = handlers[h].at /\ handlers'[h].place = handlers[h].place
  PROVE  Renews' /\ Cooled'
<1>1. Renews'
  BY DEF Renews
<1>2. now \in Int /\ now' \in Int /\ Cooldown \in Int /\ \A p \in PlaceIDs : renewed[p] \in Int
  BY PlacePhotoAssumption DEF IInv, TypeOK, Times, Never
<1>3. Cooled'
  BY <1>2 DEF Cooled
<1> QED  BY <1>1, <1>3

\* A request that moves keeps what it is for.
LEMMA MovesOn ==
  ASSUME IInv, NEW h \in Handlers, Moves(h)
  PROVE  \A g \in Handlers : handlers'[g].pc # "idle" /\ handlers'[g].refresh
            => handlers[g].pc # "idle" /\ handlers[g].refresh
               /\ handlers'[g].at = handlers[g].at /\ handlers'[g].place = handlers[g].place
<1>1. PICK r : Follows(handlers[h], r) /\ handlers' = [handlers EXCEPT ![h] = r]
  BY DEF Moves
<1>2. handlers'[h] = r /\ \A g \in Handlers \ {h} : handlers'[g] = handlers[g]
  BY <1>1 DEF IInv, TypeOK
<1> QED  BY <1>1, <1>2 DEF Follows

\* A refresh begins: nothing has come of it yet.
LEMMA CooledRefresh ==
  ASSUME IInv, IInv', Renews, Cooled, NEW h \in Handlers, NEW p \in PlaceIDs, Refresh(h, p)
  PROVE  Renews' /\ Cooled'
<1>1. /\ handlers'[h].place = p /\ handlers'[h].at = now
      /\ \A g \in Handlers \ {h} : handlers'[g] = handlers[g]
  BY ResolvesStep DEF Refresh
<1>2. /\ refreshed'[p] = now /\ renewed'[p] = Never /\ now' = now
      /\ \A q \in PlaceIDs \ {p} : /\ refreshed'[q] = refreshed[q] /\ renewed'[q] = renewed[q]
                                   /\ overlapped'[q] = overlapped[q] /\ entries'[q] = entries[q]
  BY DEF Refresh, BeginRefresh, IInv, TypeOK
<1>3. now \in Nat /\ Cooldown \in Nat
  BY PlacePhotoAssumption DEF IInv, TypeOK, Times
<1>4. now <= now /\ Never <= now /\ ~(now - Never < Cooldown)
  BY <1>3 DEF Never
<1>5. \A g \in Handlers : handlers[g].place \in PlaceIDs /\ (handlers[g].pc # "idle" => handlers[g].at <= now)
  BY DEF IInv, TypeOK, Handler, Dated
<1>6. Renews'
  BY <1>1, <1>2, <1>4, <1>5 DEF Renews
<1>7. Cooled'
  BY <1>2, <1>4 DEF Cooled
<1> QED  BY <1>6, <1>7

\* A URL is kept, by a refresh or by a view.
LEMMA CooledSet ==
  ASSUME IInv, IInv', Renews, Cooled, NEW h \in Handlers, Set(h)
  PROVE  Renews' /\ Cooled'
<1> DEFINE r == handlers[h]
           kept == Swept(r.at)
           new == KeptFrom(r.url, r.at)
<1>1. /\ r.pc = "set" /\ r.place \in PlaceIDs /\ r.at \in Times /\ r.refresh \in BOOLEAN /\ r.at <= now
      /\ UNCHANGED <<now, refreshed, overlapped>>
  BY DEF Set, IInv, TypeOK, Handler, Dated
<1>2. new # NoEntry /\ new.resolved = r.at
  BY <1>1, PlacePhotoAssumption DEF KeptFrom, NoEntry, Never, Times
<1>3. \A p \in PlaceIDs : /\ now \in Int /\ renewed[p] \in Int /\ refreshed[p] \in Int
                          /\ Cooldown \in Int /\ TTL \in Int /\ Cooldown <= TTL
  BY PlacePhotoAssumption DEF IInv, TypeOK, Times, Never
<1>4. ASSUME NEW p \in PlaceIDs, ~overlapped[p], now - renewed[p] < Cooldown
      PROVE  kept[p] = entries[p] /\ entries[p] # NoEntry /\ entries[p].resolved >= renewed[p]
  <2>1. entries[p] # NoEntry /\ entries[p].resolved >= renewed[p]
    BY <1>4 DEF Cooled
  <2>2. entries[p].resolved \in Int /\ entries[p].expires = entries[p].resolved + TTL
    BY <2>1 DEF IInv, TypeOK, Entry, Times, Dated
  <2>3. ~(entries[p].expires <= r.at)
    BY <1>1, <1>3, <1>4, <2>1, <2>2 DEF Times
  <2> QED  BY <2>1, <2>3 DEF Swept
<1>5. Moves(h)
  BY AnswerMoves DEF Set
<1>6. \/ UNCHANGED renewed
      \/ r.refresh /\ renewed' = [renewed EXCEPT ![r.place] = r.at]
  BY DEF Set
<1>7. r.refresh => r.at <= refreshed[r.place]
  BY <1>1 DEF Renews
<1>8. \A p \in PlaceIDs : renewed'[p] <= refreshed'[p]
  BY <1>1, <1>6, <1>7 DEF IInv, TypeOK, Renews
<1>9. Renews'
  BY <1>1, <1>5, <1>8, MovesOn DEF Renews
<1>10. kept \in [PlaceIDs -> Entry]
  BY NoEntryType DEF Swept, IInv, TypeOK
<1> HIDE DEF kept, new
<1>11. CASE Room(kept)
  <2>1. entries' = [kept EXCEPT ![r.place] = new]
    BY <1>11 DEF Set, kept, new
  <2>2. ASSUME NEW p \in PlaceIDs, ~overlapped[p], now - renewed'[p] < Cooldown, p # r.place
        PROVE  entries'[p] # NoEntry /\ entries'[p].resolved >= renewed'[p]
    <3>1. entries'[p] = kept[p] /\ renewed'[p] = renewed[p]
      BY <1>6, <1>10, <2>1, <2>2 DEF IInv, TypeOK
    <3> QED  BY <1>4, <2>2, <3>1
  <2>3. ~overlapped[r.place] => new.resolved >= renewed'[r.place]
    <3>1. ~overlapped[r.place] => refreshed[r.place] <= r.at
      BY <1>1 DEF IInv, Since, Resolving
    <3> QED  BY <1>1, <1>2, <1>3, <1>6, <3>1 DEF IInv, TypeOK, Renews, Times
  <2>4. entries'[r.place] = new
    BY <1>1, <1>10, <2>1
  <2> QED  BY <1>1, <1>2, <1>9, <2>2, <2>3, <2>4 DEF Cooled
<1>12. CASE ~Room(kept)
  <2>1. entries' = kept /\ UNCHANGED renewed
    BY <1>12 DEF Set, kept, new
  <2> QED  BY <1>1, <1>4, <1>9, <2>1 DEF Cooled
<1> QED  BY <1>11, <1>12

-----------------------------------------------------------------------------
Frugal == Rationed /\ Renews /\ Cooled

LEMMA OfNothing == \A S : S \subseteq DOMAIN << >> => Cardinality(S) = 0
<1>1. DOMAIN << >> = {}
  OBVIOUS
<1> QED  BY <1>1, FS_EmptySet

\* The process has just started: nothing is counted.
LEMMA FrugalInit ==
  ASSUME Init
  PROVE  Frugal
<1>1. now \in Nat /\ begun = <<>> /\ dayStart = -(Day + 1) /\ refreshedDay = 0
  BY DEF Init
<1>2. Rationed
  <2>1. \A from, to : Cardinality(Span(from, to)) = 0
    BY <1>1, OfNothing DEF Span
  <2>2. \A t \in Times : BegunFrom(t) = 0
    BY <1>1, OfNothing DEF BegunFrom
  <2> QED  BY <1>1, <2>1, <2>2, PlacePhotoAssumption DEF Rationed
<1>3. /\ \A h \in Handlers : handlers[h].pc = "idle"
      /\ \A p \in PlaceIDs : renewed[p] = Never /\ refreshed[p] = Never
  BY DEF Init, Idle
<1>4. Never <= Never /\ ~(now - Never < Cooldown)
  BY <1>1, PlacePhotoAssumption DEF Never
<1> QED  BY <1>2, <1>3, <1>4 DEF Frugal, Renews, Cooled

LEMMA FrugalRestart ==
  ASSUME IInv', Restart
  PROVE  Frugal'
<1>1. now' \in Nat /\ begun' = <<>> /\ dayStart' = -(Day + 1) /\ refreshedDay' = 0
  BY DEF Restart, IInv, TypeOK, Times
<1>2. Rationed'
  <2>1. /\ Cardinality(Span(dayStart, now)') = 0
        /\ Cardinality(Span(dayStart - Day, dayStart - 1)') = 0
    BY <1>1, OfNothing DEF Span
  <2>2. \A t \in Times : BegunFrom(t)' = 0
    BY <1>1, OfNothing DEF BegunFrom
  <2> QED  BY <1>1, <2>1, <2>2, PlacePhotoAssumption DEF Rationed
<1>3. /\ \A h \in Handlers : handlers'[h].pc = "idle"
      /\ \A p \in PlaceIDs : renewed'[p] = Never /\ refreshed'[p] = Never
  BY DEF Restart, Idle
<1>4. Never <= Never /\ ~(now' - Never < Cooldown)
  BY <1>1, PlacePhotoAssumption DEF Never
<1> QED  BY <1>2, <1>3, <1>4 DEF Frugal, Renews, Cooled

LEMMA FrugalStep ==
  ASSUME IInv, IInv', Frugal, [Next]_vars
  PROVE  Frugal'
<1> USE DEF Frugal
<1>0. now \in Int /\ now <= now
  BY DEF IInv, TypeOK, Times
<1>1. CASE UNCHANGED <<now, cache, handlers, history>>
  <2>1. /\ UNCHANGED <<now, entries, dayStart, refreshedDay, begun, refreshed, renewed, overlapped, handlers>>
        /\ now <= now'
    BY <1>0, <1>1 DEF cache, history
  <2> QED  BY <2>1, RationedElsewhere, CooledElsewhere
<1>2. CASE Tick
  <2>1. /\ UNCHANGED <<entries, dayStart, refreshedDay, begun, refreshed, renewed, overlapped, handlers>>
        /\ now <= now'
    BY <1>0, <1>2 DEF Tick, cache, history
  <2> QED  BY <2>1, RationedElsewhere, CooledElsewhere
<1>3. CASE Restart
  BY <1>3, FrugalRestart
<1>4. ASSUME NEW h \in Handlers, NEW p \in PlaceIDs, View(h, p) PROVE Frugal'
  <2>1. UNCHANGED <<now, entries, dayStart, refreshedDay, begun, refreshed, renewed, overlapped>> /\ now <= now'
    BY <1>0, <1>4 DEF View, cache, history
  <2>2. handlers'[h].refresh = FALSE /\ \A g \in Handlers \ {h} : handlers'[g] = handlers[g]
    BY <1>4, ResolvesStep DEF View
  <2> QED  BY <2>1, <2>2, RationedElsewhere, CooledElsewhere
<1>5. ASSUME NEW h \in Handlers, NEW p \in PlaceIDs, Refresh(h, p) PROVE Frugal'
  <2>1. Renews' /\ Cooled'
    BY <1>5, CooledRefresh
  <2>2. UNCHANGED now /\ begun' = Append(begun, now) /\ CountRefresh
    BY <1>5 DEF Refresh, BeginRefresh
  <2> QED  BY <2>1, <2>2, RationedRefresh
<1>6. ASSUME NEW h \in Handlers,
             ReadStored(h) \/ MediaOfStored(h) \/ Lookup(h) \/ MediaOfFresh(h) \/ Remember(h)
      PROVE  Frugal'
  <2>1. UNCHANGED <<now, entries, dayStart, refreshedDay, begun, refreshed, renewed, overlapped>> /\ now <= now'
    BY <1>0, <1>6 DEF ReadStored, MediaOfStored, Lookup, MediaOfFresh, Remember, cache, history
  <2>2. Moves(h)
    BY <1>6, CallMoves
  <2> QED  BY <2>1, <2>2, MovesOn, RationedElsewhere, CooledElsewhere
<1>7. ASSUME NEW h \in Handlers, Set(h) PROVE Frugal'
  <2>1. UNCHANGED <<now, dayStart, refreshedDay, begun>> /\ now <= now'
    BY <1>0, <1>7 DEF Set
  <2> QED  BY <1>7, <2>1, CooledSet, RationedElsewhere
<1>8. CASE UNCHANGED vars
  BY <1>1, <1>8 DEF vars
<1>9. ASSUME NEW p \in PlaceIDs,
             Roll(p) \/ \E name \in Names, carried \in {{}, {TRUE}, {FALSE}} : Publish(p, name, carried)
      PROVE  Frugal'
  BY <1>1, <1>9 DEF Roll, Publish
<1> QED  BY <1>2, <1>3, <1>4, <1>5, <1>6, <1>7, <1>8, <1>9 DEF Next

LEMMA InvariantlyFrugal == Spec => [](IInv /\ Frugal)
<1>1. IInv /\ Frugal /\ IInv' /\ [Next]_vars => Frugal'
  BY FrugalStep
<1>2. Init => Frugal
  BY FrugalInit
<1> QED  BY <1>1, <1>2, Inductive, PTL DEF Spec

(***************************************************************************)
(* No span of a day sees more than twice the daily budget of refreshes     *)
(* begun.  And beginRefresh accepts no report of a place within the        *)
(* cooldown of a refresh that has put its URL in the cache, where no       *)
(* request overlapped it; a refresh that is under way, failed, found       *)
(* nothing, or met a full cache delays no other.                           *)
(***************************************************************************)
THEOREM RefreshesAreLimited == Spec => RefreshesAreRationed
<1>1. Frugal => \A t \in Times : BegunFrom(t) <= 2 * Budget
  BY DEF Frugal, Rationed
<1>2. ASSUME IInv, Cooled, NEW p \in PlaceIDs, NEW h \in Handlers, Refresh(h, p), ~overlapped[p]
      PROVE  now - renewed[p] >= Cooldown
  <2>1. renewed[p] \in Int /\ now \in Int /\ Cooldown \in Int
    BY <1>2, PlacePhotoAssumption DEF IInv, TypeOK, Times, Never
  <2>2. CASE now - renewed[p] < Cooldown
    <3>1. entries[p] # NoEntry /\ entries[p].resolved >= renewed[p]
      BY <1>2, <2>2 DEF Cooled
    <3>2. entries[p].resolved \in Int
      BY <1>2, <3>1 DEF IInv, TypeOK, Entry, Times
    <3>3. ~CoolingDown(p)
      BY <1>2 DEF Refresh, BeginRefresh
    <3> QED  BY <2>1, <2>2, <3>1, <3>2, <3>3 DEF CoolingDown
  <2> QED  BY <2>1, <2>2
<1>3. IInv /\ Frugal => \A p \in PlaceIDs, h \in Handlers :
                           Refresh(h, p) /\ ~overlapped[p] => now - renewed[p] >= Cooldown
  BY <1>2 DEF Frugal
<1> QED  BY <1>1, <1>3, InvariantlyFrugal, PTL DEF RefreshesAreRationed
=============================================================================

---------------------------- MODULE SignInProofs ----------------------------
(***************************************************************************)
(* Theorems about SignIn, for any number of addresses, handlers, links and *)
(* invitations, and any clock.                                             *)
(***************************************************************************)
EXTENDS SignIn, FiniteSetTheorems, TLAPS

USE SignInAssumption DEF Times, Links, historyVars

LEMMA IdleType == Idle \in Handler /\ Idle.pc = "idle" /\ Idle.link = 0
  BY DEF Idle, Handler

\* What spending a link sets of its handler.
LEMMA Spends ==
  ASSUME handlers \in [Handlers -> Handler], NEW h \in Handlers, NEW e \in Emails, NEW n \in 1..MaxStays,
         handlers' = [handlers EXCEPT ![h].pc = "open", ![h].email = e, ![h].stay = n]
  PROVE  /\ handlers' \in [Handlers -> Handler]
         /\ \A g \in Handlers : g # h => handlers'[g] = handlers[g]
         /\ handlers'[h].pc = "open" /\ handlers'[h].email = e /\ handlers'[h].stay = n
         /\ handlers'[h].link = handlers[h].link /\ handlers'[h].at = handlers[h].at
<1> DEFINE next == [handlers[h] EXCEPT !.pc = "open", !.email = e, !.stay = n]
<1>1. n \in 0..MaxStays /\ handlers[h] \in Handler
  OBVIOUS
<1>2. /\ next \in Handler /\ next.pc = "open" /\ next.email = e /\ next.stay = n
      /\ next.link = handlers[h].link /\ next.at = handlers[h].at
  BY <1>1 DEF Handler
<1>3. handlers' = [handlers EXCEPT ![h] = next]
  OBVIOUS
<1> HIDE DEF next
<1> QED  BY <1>2, <1>3

-----------------------------------------------------------------------------
(***************************************************************************)
(* Types, and which numbers of links have been drawn.                      *)
(***************************************************************************)
Drawn ==
    /\ \A e \in allowed : stays[e] > 0
    /\ \A l \in links : l.id <= lastLink
    /\ \A k \in Links : k > lastLink => opened[k] = 0
    /\ \A h \in Handlers : /\ handlers[h].link <= lastLink
                           /\ handlers[h].pc \in {"send", "consume", "open"} => handlers[h].link \in Links
                           /\ handlers[h].pc \in {"count", "save", "open"} => handlers[h].stay > 0

LEMMA TypeInit == Init => TypeOK /\ Drawn
  BY IdleType DEF Init, TypeOK, Drawn

LEMMA TypeStep ==
  ASSUME TypeOK, Drawn, [Next]_vars
  PROVE  TypeOK' /\ Drawn'
<1> USE IdleType
<1>0. \A h \in Handlers : /\ handlers[h].email \in Emails /\ handlers[h].link \in 0..MaxLinks
                          /\ handlers[h].at \in 0..MaxTime /\ handlers[h].stay \in 0..MaxStays
  BY DEF TypeOK, Handler
<1>1. CASE Tick
  BY <1>1 DEF Tick, TypeOK, Drawn
<1>2. ASSUME NEW e \in Emails, AddContributor(e) PROVE TypeOK' /\ Drawn'
  BY <1>2 DEF AddContributor, TypeOK, Drawn
<1>3. ASSUME NEW e \in Emails, RemoveContributor(e) PROVE TypeOK' /\ Drawn'
  BY <1>3 DEF RemoveContributor, TypeOK, Drawn
<1>4. ASSUME NEW h \in Handlers, NEW e \in Emails, RequestLink(h, e) PROVE TypeOK' /\ Drawn'
  <2>1. handlers' \in [Handlers -> Handler]
    BY <1>4 DEF RequestLink, TypeOK, Handler
  <2>2. stays[e] > 0
    BY <1>4 DEF RequestLink, Drawn
  <2> QED  BY <1>4, <2>1, <2>2 DEF RequestLink, TypeOK, Drawn
<1>5. ASSUME NEW h \in Handlers, NEW k \in mailed, FollowLink(h, k) PROVE TypeOK' /\ Drawn'
  <2>1. k \in Links
    BY DEF TypeOK
  <2>2. [Idle EXCEPT !.pc = "consume", !.link = k, !.at = now] \in Handler
    <3>1. k \in 0..MaxLinks /\ now \in 0..MaxTime
      BY <2>1 DEF TypeOK
    <3> QED  BY <3>1, IdleType DEF Handler
  <2>3. handlers' \in [Handlers -> Handler]
    BY <1>5, <2>2 DEF FollowLink, TypeOK
  <2> QED  BY <1>5, <2>1, <2>3 DEF FollowLink, TypeOK, Drawn, Idle
<1>6. ASSUME NEW h \in Handlers, CountRecent(h) PROVE TypeOK' /\ Drawn'
  <2>1. \/ handlers' = [handlers EXCEPT ![h] = Idle]
        \/ handlers' = [handlers EXCEPT ![h].pc = "save"]
    BY <1>6 DEF CountRecent, Answer, Goto
  <2>a. [handlers[h] EXCEPT !.pc = "save"] \in Handler
    BY DEF TypeOK, Handler
  <2>2. handlers' \in [Handlers -> Handler]
    BY <2>1, <2>a DEF TypeOK
  <2>3. UNCHANGED <<now, allowed, links, lastLink, mailed, sessions, stays, removed, opened>>
    BY <1>6 DEF CountRecent
  <2>4. TypeOK'
    BY <2>2, <2>3 DEF TypeOK
  <2>b. \A g \in Handlers : \/ handlers'[g] = handlers[g]
                            \/ handlers'[g].pc = "idle" /\ handlers'[g].link = 0
                            \/ /\ handlers'[g].pc = "save" /\ handlers'[g].link = handlers[g].link
                               /\ handlers'[g].stay = handlers[g].stay /\ handlers[g].pc = "count"
    <3>1. CASE handlers' = [handlers EXCEPT ![h] = Idle]
      BY <3>1 DEF TypeOK
    <3>2. CASE handlers' = [handlers EXCEPT ![h].pc = "save"]
      BY <1>6, <3>2 DEF CountRecent, TypeOK, Handler
    <3> QED  BY <2>1, <3>1, <3>2
  <2>c. ASSUME NEW g \in Handlers
        PROVE  /\ handlers'[g].link <= lastLink
               /\ handlers'[g].pc \in {"send", "consume", "open"} => handlers'[g].link \in Links
               /\ handlers'[g].pc \in {"count", "save", "open"} => handlers'[g].stay > 0
    BY <2>b DEF TypeOK, Drawn
  <2>5. Drawn'
    BY <2>c, <2>3 DEF Drawn
  <2> QED  BY <2>4, <2>5
<1>7. ASSUME NEW h \in Handlers, SaveLink(h) PROVE TypeOK' /\ Drawn'
  <2> DEFINE e == handlers[h].email
  <2>1. CASE e \notin allowed
    <3>1. /\ handlers' = [handlers EXCEPT ![h] = Idle]
          /\ UNCHANGED <<now, allowed, links, lastLink, mailed, sessions, stays, removed, opened>>
      BY <1>7, <2>1 DEF SaveLink, Answer
    <3> QED  BY <3>1 DEF TypeOK, Drawn
  <2>2. CASE e \in allowed
    <3> DEFINE new == [id |-> lastLink + 1, email |-> e, stay |-> handlers[h].stay,
                       inserted |-> stays[e], created |-> now, expires |-> handlers[h].at + TokenTTL, spent |-> FALSE]
    <3>1. /\ lastLink < MaxLinks /\ lastLink' = lastLink + 1
          /\ links' = (links \ Pruned(e)) \cup {new}
          /\ handlers' = [handlers EXCEPT ![h].pc = "send", ![h].link = lastLink + 1]
          /\ UNCHANGED <<now, allowed, mailed, sessions, stays, removed, opened>>
      BY <1>7, <2>2 DEF SaveLink
    <3>b. handlers[h].stay \in 1..MaxStays
      BY <1>0, <1>7 DEF SaveLink, Drawn
    <3>2. stays[e] \in 1..MaxStays /\ e \in Emails /\ handlers[h].at \in 0..MaxTime
      BY <2>2, <1>0 DEF TypeOK, Drawn
    <3>3. lastLink \in 0..MaxLinks /\ lastLink + 1 \in 1..MaxLinks /\ now \in 0..MaxTime
      BY <3>1 DEF TypeOK
    <3>4. handlers[h].at + TokenTTL \in 0..(MaxTime + TokenTTL)
      BY <3>2
    <3>5. new \in Link
      BY <3>b, <3>2, <3>3, <3>4 DEF Link
    <3>a. [handlers[h] EXCEPT !.pc = "send", !.link = lastLink + 1] \in Handler
      <4>1. handlers[h] \in Handler
        BY DEF TypeOK
      <4>2. lastLink + 1 \in 0..MaxLinks
        BY <3>3
      <4> HIDE DEF e, new
      <4> QED  BY <4>1, <4>2 DEF Handler
    <3>6. handlers' \in [Handlers -> Handler]
      BY <3>1, <3>a DEF TypeOK
    <3>7. links' \subseteq Link
      BY <3>1, <3>5 DEF TypeOK
    <3>8. mailed' \subseteq 1..lastLink'
      BY <3>1, <3>3 DEF TypeOK
    <3>9. TypeOK'
      BY <3>1, <3>3, <3>6, <3>7, <3>8 DEF TypeOK
    <3>10. \A l \in links' : l.id <= lastLink'
      BY <3>1, <3>3, <3>7 DEF TypeOK, Drawn, Link
    <3>c. /\ \A g \in Handlers \ {h} : handlers'[g] = handlers[g]
          /\ handlers'[h].pc = "send" /\ handlers'[h].link = lastLink + 1
      <4>1. [handlers[h] EXCEPT !.pc = "send", !.link = lastLink + 1].pc = "send"
            /\ [handlers[h] EXCEPT !.pc = "send", !.link = lastLink + 1].link = lastLink + 1
        BY DEF TypeOK, Handler
      <4>2. handlers' = [handlers EXCEPT ![h] = [handlers[h] EXCEPT !.pc = "send", !.link = lastLink + 1]]
        BY <3>1
      <4> QED  BY <4>1, <4>2 DEF TypeOK
    <3>d. lastLink \in Nat /\ \A g \in Handlers : handlers[g].link \in Nat
      BY <1>0, <3>3
    <3>11. \A g \in Handlers : /\ handlers'[g].link <= lastLink'
                               /\ handlers'[g].pc \in {"send", "consume", "open"} => handlers'[g].link \in Links
                               /\ handlers'[g].pc \in {"count", "save", "open"} => handlers'[g].stay > 0
      <4> SUFFICES ASSUME NEW g \in Handlers
                   PROVE  /\ handlers'[g].link <= lastLink'
                          /\ handlers'[g].pc \in {"send", "consume", "open"} => handlers'[g].link \in Links
                          /\ handlers'[g].pc \in {"count", "save", "open"} => handlers'[g].stay > 0
        OBVIOUS
      <4>1. CASE g = h
        BY <3>1, <3>3, <3>c, <3>d, <4>1
      <4>2. CASE g # h
        <5>1. handlers'[g] = handlers[g] /\ lastLink' = lastLink + 1
          BY <3>1, <3>c, <4>2
        <5>2. handlers[g].link <= lastLink
          BY DEF Drawn
        <5> QED  BY <5>1, <5>2, <3>d DEF Drawn
      <4> QED  BY <4>1, <4>2
    <3>12. Drawn'
      BY <3>1, <3>3, <3>10, <3>11 DEF TypeOK, Drawn
    <3> QED  BY <3>9, <3>12
  <2> QED  BY <2>1, <2>2
<1>8. ASSUME NEW h \in Handlers, SendLink(h) PROVE TypeOK' /\ Drawn'
  <2>1. /\ handlers' = [handlers EXCEPT ![h] = Idle] /\ mailed' \in {mailed, mailed \cup {handlers[h].link}}
        /\ handlers[h].link \in Links /\ handlers[h].link <= lastLink
        /\ UNCHANGED <<now, allowed, links, lastLink, sessions, historyVars>>
    BY <1>8 DEF SendLink, Answer, Drawn
  <2>2. mailed' \subseteq 1..lastLink'
    BY <2>1 DEF TypeOK, Links
  <2>3. handlers' \in [Handlers -> Handler]
    BY <2>1 DEF TypeOK
  <2>4. TypeOK'
    BY <2>1, <2>2, <2>3 DEF TypeOK, historyVars
  <2>5. \A g \in Handlers : handlers'[g] = handlers[g] \/ handlers'[g] = Idle
    BY <2>1 DEF TypeOK
  <2>6. Drawn'
    BY <2>1, <2>5 DEF TypeOK, Drawn, historyVars
  <2> QED  BY <2>4, <2>6
<1>9. ASSUME NEW h \in Handlers, Consume(h) PROVE TypeOK' /\ Drawn'
  <2>1. CASE \E l \in links : Usable(l, h)
               /\ links' = (links \ {l}) \cup {[l EXCEPT !.spent = TRUE]}
               /\ handlers' = [handlers EXCEPT ![h].pc = "open", ![h].email = l.email, ![h].stay = l.stay]
    <3>1. PICK l \in links : Usable(l, h)
               /\ links' = (links \ {l}) \cup {[l EXCEPT !.spent = TRUE]}
               /\ handlers' = [handlers EXCEPT ![h].pc = "open", ![h].email = l.email, ![h].stay = l.stay]
      BY <2>1
    <3>2. l \in Link /\ [l EXCEPT !.spent = TRUE] \in Link /\ [l EXCEPT !.spent = TRUE].id = l.id
      BY DEF TypeOK, Link
    <3>3. l.email \in Emails /\ l.stay \in 1..MaxStays /\ l.id \in Links /\ l.id = handlers[h].link
      BY <3>1 DEF TypeOK, Link, Usable
    <3>4. handlers' \in [Handlers -> Handler]
      BY <3>1, <3>3, Spends DEF TypeOK
    <3>a. /\ \A g \in Handlers \ {h} : handlers'[g] = handlers[g]
          /\ handlers'[h].stay = l.stay /\ handlers'[h].link = handlers[h].link
      <4>1. handlers \in [Handlers -> Handler]
        BY DEF TypeOK
      <4>2. PICK e \in Emails, n \in 1..MaxStays : e = l.email /\ n = l.stay
        BY <3>3
      <4>3. handlers' = [handlers EXCEPT ![h].pc = "open", ![h].email = e, ![h].stay = n]
        BY <3>1, <4>2
      <4>4. handlers' = [handlers EXCEPT ![h] = [handlers[h] EXCEPT !.pc = "open", !.email = e, !.stay = n]]
        BY <4>1, <4>3
      <4>5. LET r == [handlers[h] EXCEPT !.pc = "open", !.email = e, !.stay = n] IN
            /\ r.pc = "open" /\ r.email = e /\ r.stay = n
            /\ r.link = handlers[h].link /\ r.at = handlers[h].at
        BY <4>1 DEF Handler
      <4> QED  BY <4>1, <4>2, <4>4, <4>5
    <3>5. UNCHANGED <<now, allowed, lastLink, mailed, sessions, stays, removed, opened>>
      BY <1>9 DEF Consume
    <3>6. TypeOK'
      BY <3>1, <3>2, <3>4, <3>5 DEF TypeOK
    <3>7. \A m \in links' : m.id <= lastLink'
      BY <3>1, <3>2, <3>5 DEF Drawn
    <3>8. \A g \in Handlers : /\ handlers'[g].link <= lastLink'
                              /\ handlers'[g].pc \in {"send", "consume", "open"} => handlers'[g].link \in Links
                              /\ handlers'[g].pc \in {"count", "save", "open"} => handlers'[g].stay > 0
      BY <3>3, <3>5, <3>a DEF Drawn
    <3> QED  BY <3>5, <3>6, <3>7, <3>8 DEF Drawn
  <2>2. CASE Answer(h) /\ UNCHANGED links
    <3>1. /\ handlers' = [handlers EXCEPT ![h] = Idle]
          /\ UNCHANGED <<now, allowed, links, lastLink, mailed, sessions, stays, removed, opened>>
      BY <1>9, <2>2 DEF Consume, Answer
    <3> QED  BY <3>1 DEF TypeOK, Drawn
  <2> QED  BY <1>9, <2>1, <2>2 DEF Consume
<1>10. ASSUME NEW h \in Handlers, OpenSession(h) PROVE TypeOK' /\ Drawn'
  <2> DEFINE e == handlers[h].email
             new == [link |-> handlers[h].link, email |-> e, stay |-> handlers[h].stay,
                     inserted |-> stays[e], expires |-> handlers[h].at + SessionTTL]
  <2>1. handlers[h].link \in Links /\ handlers[h].link <= lastLink /\ e \in Emails /\ handlers[h].at \in 0..MaxTime
        /\ handlers[h].stay \in 1..MaxStays
    BY <1>10 DEF OpenSession, TypeOK, Drawn, Handler
  <2>2. CASE e \in allowed
    <3>0. stays[e] \in 1..MaxStays /\ handlers[h].at + SessionTTL \in 0..(MaxTime + SessionTTL)
      BY <2>1, <2>2 DEF TypeOK, Drawn
    <3>1. new \in Session
      BY <2>1, <3>0 DEF Session
    <3>2. sessions' \subseteq Session
      BY <1>10, <2>2, <3>1 DEF OpenSession, TypeOK
    <3>3. opened' = [opened EXCEPT ![handlers[h].link] = @ + 1]
      BY <1>10, <2>2 DEF OpenSession
    <3>4. opened' \in [Links -> Nat] /\ \A k \in Links : k > lastLink => opened'[k] = 0
      BY <3>3, <2>1 DEF TypeOK, Drawn
    <3>5. /\ handlers' = [handlers EXCEPT ![h] = Idle]
          /\ UNCHANGED <<now, allowed, links, lastLink, mailed, stays, removed>>
      BY <1>10 DEF OpenSession, Answer
    <3>6. /\ handlers' \in [Handlers -> Handler]
          /\ \A g \in Handlers : handlers'[g] = handlers[g] \/ handlers'[g] = Idle
      BY <3>5 DEF TypeOK
    <3>7. TypeOK'
      BY <3>2, <3>4, <3>5, <3>6 DEF TypeOK
    <3>8. Drawn'
      BY <3>4, <3>5, <3>6 DEF TypeOK, Drawn
    <3> QED  BY <3>7, <3>8
  <2>3. CASE e \notin allowed
    <3>1. /\ handlers' = [handlers EXCEPT ![h] = Idle]
          /\ UNCHANGED <<now, allowed, links, lastLink, mailed, sessions, stays, removed, opened>>
      BY <1>10, <2>3 DEF OpenSession, Answer
    <3> QED  BY <3>1 DEF TypeOK, Drawn
  <2> QED  BY <2>2, <2>3
<1>11. ASSUME NEW h \in Handlers, HandlerFails(h) PROVE TypeOK' /\ Drawn'
  BY <1>11 DEF HandlerFails, Answer, TypeOK, Drawn
<1>12. ASSUME NEW s \in sessions, Logout(s) PROVE TypeOK' /\ Drawn'
  BY <1>12 DEF Logout, TypeOK, Drawn
<1>13. CASE UNCHANGED vars
  BY <1>13 DEF vars, TypeOK, Drawn
<1> QED  BY <1>1, <1>2, <1>3, <1>4, <1>5, <1>6, <1>7, <1>8, <1>9, <1>10, <1>11, <1>12, <1>13 DEF Next

-----------------------------------------------------------------------------
(***************************************************************************)
(* A link that may still open a session has opened none: it is unspent, or *)
(* one handler has spent it and not yet opened the session.                *)
(***************************************************************************)
Opening(h, k) == handlers[h].pc = "open" /\ handlers[h].link = k

Once ==
    /\ LinkOpensOneSession
    /\ \A l, m \in links : l.id = m.id => l = m
    /\ \A l \in links : ~l.spent => opened[l.id] = 0 /\ \A h \in Handlers : ~Opening(h, l.id)
    /\ \A h \in Handlers, k \in Links : Opening(h, k) => opened[k] = 0
    /\ \A g, h \in Handlers, k \in Links : Opening(g, k) /\ Opening(h, k) => g = h

\* Steps that open nothing, spend nothing and issue nothing.
LEMMA OnceKept ==
  ASSUME TypeOK, Once, links' \subseteq links, opened' = opened,
         \A h \in Handlers, k \in Links : Opening(h, k)' => Opening(h, k)
  PROVE  Once'
<1>1. \A l \in links : l.id \in Links
  BY DEF TypeOK, Link
<1> QED  BY <1>1 DEF Once, LinkOpensOneSession

LEMMA OnceStep ==
  ASSUME TypeOK, Drawn, Once, TypeOK', [Next]_vars
  PROVE  Once'
<1> USE IdleType
<1>0. \A l \in links : l.id \in Links
  BY DEF TypeOK, Link
<1>1. CASE Tick
  BY <1>1, OnceKept DEF Tick, Opening
<1>2. ASSUME NEW e \in Emails, AddContributor(e) PROVE Once'
  BY <1>2, OnceKept DEF AddContributor, Opening
<1>3. ASSUME NEW e \in Emails, RemoveContributor(e) PROVE Once'
  BY <1>3, OnceKept DEF RemoveContributor, Opening
<1>4. ASSUME NEW h \in Handlers, NEW e \in Emails, RequestLink(h, e) PROVE Once'
  <2>1. \A g \in Handlers, k \in Links : Opening(g, k)' => Opening(g, k)
    BY <1>4 DEF RequestLink, Opening, TypeOK
  <2> QED  BY <1>4, <2>1, OnceKept DEF RequestLink
<1>5. ASSUME NEW h \in Handlers, NEW k \in mailed, FollowLink(h, k) PROVE Once'
  <2>1. [Idle EXCEPT !.pc = "consume", !.link = k, !.at = now].pc = "consume"
    BY DEF Handler
  <2>2. \A g \in Handlers, j \in Links : Opening(g, j)' => Opening(g, j)
    BY <1>5, <2>1 DEF FollowLink, Opening, TypeOK
  <2> QED  BY <1>5, <2>2, OnceKept DEF FollowLink
<1>6. ASSUME NEW h \in Handlers, CountRecent(h) PROVE Once'
  <2>1. \/ handlers' = [handlers EXCEPT ![h] = Idle]
        \/ handlers' = [handlers EXCEPT ![h].pc = "save"]
    BY <1>6 DEF CountRecent, Answer, Goto
  <2>2. \A g \in Handlers, k \in Links : Opening(g, k)' => Opening(g, k)
    <3>1. CASE handlers' = [handlers EXCEPT ![h] = Idle]
      BY <3>1 DEF Opening, TypeOK
    <3>2. CASE handlers' = [handlers EXCEPT ![h].pc = "save"]
      BY <3>2 DEF Opening, TypeOK, Handler
    <3> QED  BY <2>1, <3>1, <3>2
  <2> QED  BY <1>6, <2>2, OnceKept DEF CountRecent
<1>7. ASSUME NEW h \in Handlers, SaveLink(h) PROVE Once'
  <2> DEFINE e == handlers[h].email
  <2>1. CASE e \notin allowed
    <3>1. \A g \in Handlers, k \in Links : Opening(g, k)' => Opening(g, k)
      BY <1>7, <2>1 DEF SaveLink, Answer, Opening, TypeOK
    <3> QED  BY <1>7, <2>1, <3>1, OnceKept DEF SaveLink
  <2>2. CASE e \in allowed
    <3> DEFINE new == [id |-> lastLink + 1, email |-> e, stay |-> handlers[h].stay,
                       inserted |-> stays[e], created |-> now, expires |-> handlers[h].at + TokenTTL, spent |-> FALSE]
    <3>1. /\ lastLink < MaxLinks
          /\ links' = (links \ Pruned(e)) \cup {new}
          /\ handlers' = [handlers EXCEPT ![h].pc = "send", ![h].link = lastLink + 1]
          /\ opened' = opened
      BY <1>7, <2>2 DEF SaveLink
    <3>2. \A g \in Handlers, k \in Links : Opening(g, k)' => Opening(g, k)
      BY <3>1 DEF Opening, TypeOK, Handler
    <3>3. /\ new.id = lastLink + 1 /\ lastLink + 1 \in Links /\ new.id > lastLink
          /\ opened[lastLink + 1] = 0
      BY <3>1 DEF TypeOK, Drawn
    <3>4. \A g \in Handlers : ~Opening(g, lastLink + 1)
      <4>1. lastLink \in Nat /\ \A g \in Handlers : handlers[g].link <= lastLink
        BY DEF TypeOK, Drawn
      <4> QED  BY <4>1 DEF Opening
    <3>5. \A l \in links : l.id # new.id
      BY <1>0, <3>3 DEF Drawn, TypeOK
    <3> HIDE DEF new
    <3>6. \A l, m \in links' : l.id = m.id => l = m
      BY <3>1, <3>5 DEF Once
    <3>7. \A l \in links' : ~l.spent => opened[l.id] = 0 /\ \A g \in Handlers : ~Opening(g, l.id)
      BY <3>1, <3>3, <3>4 DEF Once
    <3>8. \A l \in links' : l.id \in Links
      BY <3>1, <1>0, <3>3
    <3>9. \A l \in links' : ~l.spent => opened'[l.id] = 0 /\ \A g \in Handlers : ~Opening(g, l.id)'
      BY <3>1, <3>2, <3>7, <3>8
    <3> QED  BY <3>1, <3>2, <3>6, <3>9 DEF Once, LinkOpensOneSession
  <2> QED  BY <2>1, <2>2
<1>8. ASSUME NEW h \in Handlers, SendLink(h) PROVE Once'
  <2>1. \A g \in Handlers, k \in Links : Opening(g, k)' => Opening(g, k)
    BY <1>8 DEF SendLink, Answer, Opening, TypeOK
  <2> QED  BY <1>8, <2>1, OnceKept DEF SendLink
<1>9. ASSUME NEW h \in Handlers, Consume(h) PROVE Once'
  <2>1. CASE \E l \in links : Usable(l, h)
               /\ links' = (links \ {l}) \cup {[l EXCEPT !.spent = TRUE]}
               /\ handlers' = [handlers EXCEPT ![h].pc = "open", ![h].email = l.email, ![h].stay = l.stay]
    <3>1. PICK l \in links : Usable(l, h)
               /\ links' = (links \ {l}) \cup {[l EXCEPT !.spent = TRUE]}
               /\ handlers' = [handlers EXCEPT ![h].pc = "open", ![h].email = l.email, ![h].stay = l.stay]
      BY <2>1
    <3> DEFINE used == [l EXCEPT !.spent = TRUE]
    <3>2. used.id = l.id /\ used.spent = TRUE /\ l.id \in Links /\ ~l.spent /\ l.id = handlers[h].link
      BY <3>1 DEF TypeOK, Link, Usable
    <3>3. opened' = opened
      BY <1>9 DEF Consume
    <3>4. /\ \A g \in Handlers \ {h}, k \in Links : Opening(g, k)' <=> Opening(g, k)
          /\ \A k \in Links : Opening(h, k)' => k = l.id
      BY <3>1, <3>2 DEF Opening, TypeOK, Handler
    <3>5. opened[l.id] = 0 /\ \A g \in Handlers : ~Opening(g, l.id)
      BY <3>2 DEF Once
    <3> HIDE DEF used
    <3>6. \A m \in links' : m = used \/ (m \in links /\ m.id # l.id)
      BY <3>1 DEF Once, used
    <3>7. \A m, n \in links' : m.id = n.id => m = n
      BY <3>2, <3>6 DEF Once
    <3>8. \A m \in links' : ~m.spent => opened'[m.id] = 0 /\ \A g \in Handlers : ~Opening(g, m.id)'
      BY <1>0, <3>2, <3>3, <3>4, <3>6 DEF Once
    <3>9. \A g \in Handlers, k \in Links : Opening(g, k)' => opened'[k] = 0
      BY <3>3, <3>4, <3>5 DEF Once
    <3>10. \A f, g \in Handlers, k \in Links : Opening(f, k)' /\ Opening(g, k)' => f = g
      BY <3>4, <3>5 DEF Once
    <3> QED  BY <3>3, <3>7, <3>8, <3>9, <3>10 DEF Once, LinkOpensOneSession
  <2>2. CASE Answer(h) /\ UNCHANGED links
    <3>1. \A g \in Handlers, k \in Links : Opening(g, k)' => Opening(g, k)
      BY <2>2 DEF Answer, Opening, TypeOK
    <3> QED  BY <1>9, <2>2, <3>1, OnceKept DEF Consume
  <2> QED  BY <1>9, <2>1, <2>2 DEF Consume
<1>10. ASSUME NEW h \in Handlers, OpenSession(h) PROVE Once'
  <2> DEFINE k == handlers[h].link
  <2>1. k \in Links /\ Opening(h, k) /\ opened[k] = 0
    BY <1>10 DEF OpenSession, Drawn, Opening, Once
  <2>2. \A g \in Handlers, j \in Links : Opening(g, j)' => Opening(g, j) /\ g # h
    BY <1>10 DEF OpenSession, Answer, Opening, TypeOK
  <2>3. opened' = opened \/ opened' = [opened EXCEPT ![k] = @ + 1]
    BY <1>10 DEF OpenSession
  <2>4. \A j \in Links : opened'[j] = opened[j] \/ (j = k /\ opened'[j] = 1)
    <3>1. opened \in [Links -> Nat]
      BY DEF TypeOK
    <3> HIDE DEF k
    <3> QED  BY <2>1, <2>3, <3>1
  <2>5. links' = links
    BY <1>10 DEF OpenSession
  <2>6. \A g \in Handlers, j \in Links : Opening(g, j)' => j # k
    BY <2>1, <2>2 DEF Once
  <2>7. \A l \in links : ~l.spent => l.id # k
    BY <2>1 DEF Once
  <2> HIDE DEF k
  <2> QED  BY <1>0, <2>2, <2>4, <2>5, <2>6, <2>7 DEF Once, LinkOpensOneSession
<1>11. ASSUME NEW h \in Handlers, HandlerFails(h) PROVE Once'
  <2>1. \A g \in Handlers, k \in Links : Opening(g, k)' => Opening(g, k)
    BY <1>11 DEF HandlerFails, Answer, Opening, TypeOK
  <2> QED  BY <1>11, <2>1, OnceKept DEF HandlerFails
<1>12. ASSUME NEW s \in sessions, Logout(s) PROVE Once'
  BY <1>12, OnceKept DEF Logout, Opening
<1>13. CASE UNCHANGED vars
  BY <1>13, OnceKept DEF vars, Opening
<1> QED  BY <1>1, <1>2, <1>3, <1>4, <1>5, <1>6, <1>7, <1>8, <1>9, <1>10, <1>11, <1>12, <1>13 DEF Next

-----------------------------------------------------------------------------
(***************************************************************************)
(* What is stored belongs to the invitation in force: the deletes that     *)
(* cascade leave nothing behind for the next one.  What is under way when  *)
(* its address is removed started before the removal (Clocked), or follows *)
(* a link whose request did, and dates from then whatever it stores later. *)
(***************************************************************************)
Clocked ==
    /\ IsFiniteSet(links)
    /\ \A l \in links : l.created <= now /\ l.expires <= l.created + TokenTTL
    /\ \A h \in Handlers : handlers[h].at <= now

InForce(e, stay) == e \in allowed /\ stay = stays[e]

Staying ==
    /\ \A l \in links : /\ l.email \in allowed /\ l.inserted = stays[l.email]
                        /\ InForce(l.email, l.stay) \/ l.expires <= removed[l.email] + TokenTTL
    /\ \A s \in sessions :
          /\ s.email \in allowed /\ s.inserted = stays[s.email]
          /\ InForce(s.email, s.stay) \/ s.expires < removed[s.email] + TokenTTL + SessionTTL
    /\ \A h \in Handlers : LET r == handlers[h] IN
          /\ r.pc \in {"count", "save"} => InForce(r.email, r.stay) \/ r.at <= removed[r.email]
          /\ r.pc = "open" => InForce(r.email, r.stay) \/ r.at < removed[r.email] + TokenTTL

\* Steps that store nothing: a handler's request goes on or ends.
LEMMA StayingKept ==
  ASSUME Staying, UNCHANGED <<allowed, stays, removed>>, links' \subseteq links, sessions' \subseteq sessions,
         \A h \in Handlers :
            \/ handlers'[h].pc \notin {"count", "save", "open"}
            \/ /\ handlers'[h].email = handlers[h].email /\ handlers'[h].stay = handlers[h].stay
               /\ handlers'[h].at = handlers[h].at
               /\ \/ handlers'[h].pc = handlers[h].pc
                  \/ {handlers'[h].pc, handlers[h].pc} \subseteq {"count", "save"}
  PROVE  Staying'
BY DEF Staying, InForce

LEMMA StayingStep ==
  ASSUME TypeOK, Drawn, Clocked, Staying, [Next]_vars
  PROVE  Staying'
<1> USE IdleType
<1>a. /\ now \in Nat /\ handlers \in [Handlers -> Handler] /\ removed \in [Emails -> Nat]
      /\ \A s \in sessions : s.email \in Emails
  BY DEF TypeOK, Session
<1>b. \A h \in Handlers : handlers[h].at \in Nat /\ handlers[h].email \in Emails
  BY DEF TypeOK, Handler
<1>c. \A l \in links : l.email \in Emails /\ l.stay \in 1..MaxStays /\ l.expires \in Nat
  BY DEF TypeOK, Link
<1>0. /\ now \in Nat /\ handlers \in [Handlers -> Handler] /\ removed \in [Emails -> Nat]
      /\ \A h \in Handlers : handlers[h].at \in Nat /\ handlers[h].email \in Emails
      /\ \A l \in links : l.email \in Emails /\ l.stay \in 1..MaxStays /\ l.expires \in Nat
      /\ \A s \in sessions : s.email \in Emails
  BY <1>a, <1>b, <1>c
<1>1. CASE Tick
  BY <1>1, StayingKept DEF Tick
<1>2. ASSUME NEW e \in Emails, AddContributor(e) PROVE Staying'
  <2>1. /\ e \notin allowed /\ allowed' = allowed \cup {e}
        /\ \A d \in Emails : d # e => stays'[d] = stays[d]
        /\ UNCHANGED <<links, sessions, handlers, removed>>
    BY <1>2 DEF AddContributor, TypeOK
  <2>2. \A l \in links : l.email # e
    BY <2>1 DEF Staying
  <2>3. \A s \in sessions : s.email # e
    BY <2>1 DEF Staying
  <2>4. \A d \in Emails : \A n : InForce(d, n) => InForce(d, n)'
    BY <2>1 DEF InForce
  <2> QED  BY <1>0, <2>1, <2>2, <2>3, <2>4 DEF Staying
<1>3. ASSUME NEW e \in Emails, RemoveContributor(e) PROVE Staying'
  <2>1. /\ allowed' = allowed \ {e} /\ removed'[e] = now
        /\ \A d \in Emails : d # e => removed'[d] = removed[d]
        /\ links' = {l \in links : l.email # e} /\ sessions' = {s \in sessions : s.email # e}
        /\ UNCHANGED <<handlers, stays>>
    BY <1>3 DEF RemoveContributor, TypeOK
  <2>2. \A d \in Emails : \A n : d # e /\ InForce(d, n) => InForce(d, n)'
    BY <2>1 DEF InForce
  <2>3. \A h \in Handlers : handlers[h].email = e => handlers[h].at <= removed'[e]
                                                  /\ handlers[h].at < removed'[e] + TokenTTL
    BY <1>0, <2>1 DEF Clocked
  <2>4. \A l \in links' : /\ l.email \in allowed' /\ l.inserted = stays'[l.email]
                          /\ InForce(l.email, l.stay)' \/ l.expires <= removed'[l.email] + TokenTTL
    BY <1>0, <2>1, <2>2 DEF Staying
  <2>5. \A s \in sessions' :
          /\ s.email \in allowed' /\ s.inserted = stays'[s.email]
          /\ InForce(s.email, s.stay)' \/ s.expires < removed'[s.email] + TokenTTL + SessionTTL
    BY <1>0, <2>1, <2>2 DEF Staying
  <2>6. ASSUME NEW h \in Handlers
        PROVE  LET r == handlers[h] IN
               /\ r.pc \in {"count", "save"} => InForce(r.email, r.stay)' \/ r.at <= removed'[r.email]
               /\ r.pc = "open" => InForce(r.email, r.stay)' \/ r.at < removed'[r.email] + TokenTTL
    <3>1. CASE handlers[h].email = e
      BY <2>3, <3>1
    <3>2. CASE handlers[h].email # e
      BY <1>0, <2>1, <2>2, <3>2 DEF Staying
    <3> QED  BY <3>1, <3>2
  <2> QED  BY <2>1, <2>4, <2>5, <2>6 DEF Staying
<1>4. ASSUME NEW h \in Handlers, NEW e \in Emails, RequestLink(h, e) PROVE Staying'
  <2>1. /\ e \in allowed /\ UNCHANGED <<allowed, links, sessions, stays, removed>>
        /\ \A g \in Handlers \ {h} : handlers'[g] = handlers[g]
        /\ handlers'[h].pc = "count" /\ handlers'[h].email = e /\ handlers'[h].stay = stays[e]
    BY <1>0, <1>4 DEF RequestLink
  <2> QED  BY <2>1 DEF Staying, InForce
<1>5. ASSUME NEW h \in Handlers, NEW k \in mailed, FollowLink(h, k) PROVE Staying'
  <2>1. [Idle EXCEPT !.pc = "consume", !.link = k, !.at = now].pc = "consume"
    BY DEF Handler
  <2>2. \A g \in Handlers : handlers'[g] = handlers[g] \/ handlers'[g].pc = "consume"
    BY <1>0, <1>5, <2>1 DEF FollowLink
  <2> QED  BY <1>5, <2>2, StayingKept DEF FollowLink
<1>6. ASSUME NEW h \in Handlers, CountRecent(h) PROVE Staying'
  <2>1. CASE handlers' = [handlers EXCEPT ![h] = Idle]
    BY <1>0, <1>6, <2>1, StayingKept DEF CountRecent
  <2>2. CASE handlers' = [handlers EXCEPT ![h].pc = "save"]
    <3>1. LET r == [handlers[h] EXCEPT !.pc = "save"] IN
          /\ r.pc = "save" /\ r.email = handlers[h].email /\ r.stay = handlers[h].stay /\ r.at = handlers[h].at
      BY <1>0 DEF Handler
    <3>2. handlers[h].pc = "count" /\ handlers' = [handlers EXCEPT ![h] = [handlers[h] EXCEPT !.pc = "save"]]
      BY <1>6, <2>2 DEF CountRecent
    <3>3. \A g \in Handlers : \/ handlers'[g] = handlers[g]
                              \/ /\ handlers'[g].email = handlers[g].email /\ handlers'[g].stay = handlers[g].stay
                                 /\ handlers'[g].at = handlers[g].at
                                 /\ handlers'[g].pc = "save" /\ handlers[g].pc = "count"
      BY <1>0, <3>1, <3>2
    <3> QED  BY <1>6, <3>3, StayingKept DEF CountRecent
  <2> QED  BY <1>6, <2>1, <2>2 DEF CountRecent, Answer, Goto
<1>7. ASSUME NEW h \in Handlers, SaveLink(h) PROVE Staying'
  <2> DEFINE e == handlers[h].email
             new == [id |-> lastLink + 1, email |-> e, stay |-> handlers[h].stay,
                     inserted |-> stays[e], created |-> now, expires |-> handlers[h].at + TokenTTL, spent |-> FALSE]
  <2>0. UNCHANGED <<allowed, sessions, stays, removed>> /\ handlers[h].pc = "save"
    BY <1>7 DEF SaveLink
  <2>1. CASE handlers' = [handlers EXCEPT ![h] = Idle] /\ links' = links
    BY <1>0, <2>0, <2>1, StayingKept
  <2>2. CASE /\ e \in allowed /\ links' = (links \ Pruned(e)) \cup {new}
             /\ handlers' = [handlers EXCEPT ![h] = [@ EXCEPT !.pc = "send", !.link = lastLink + 1]]
    <3>1. [handlers[h] EXCEPT !.pc = "send", !.link = lastLink + 1].pc = "send"
      BY <1>0 DEF Handler
    <3>2. \A g \in Handlers : handlers'[g] = handlers[g] \/ handlers'[g].pc = "send"
      BY <1>0, <2>2, <3>1
    <3>3. /\ new.email = e /\ new.inserted = stays[e] /\ new.stay = handlers[h].stay
          /\ new.expires = handlers[h].at + TokenTTL
      OBVIOUS
    <3>4. InForce(e, handlers[h].stay) \/ handlers[h].at <= removed[e]
      BY <2>0 DEF Staying
    <3>5. handlers[h].at \in Nat /\ removed[e] \in Nat
      BY <1>0
    <3>6. InForce(new.email, new.stay) \/ new.expires <= removed[new.email] + TokenTTL
      BY <3>3, <3>4, <3>5
    <3> HIDE DEF new
    <3>7. \A l \in links' : l \in links \/ l = new
      BY <2>2
    <3>8. \A d, n : InForce(d, n)' <=> InForce(d, n)
      BY <2>0 DEF InForce
    <3>9. \A l \in links' : /\ l.email \in allowed' /\ l.inserted = stays'[l.email]
                            /\ InForce(l.email, l.stay)' \/ l.expires <= removed'[l.email] + TokenTTL
      BY <2>0, <2>2, <3>3, <3>6, <3>7, <3>8 DEF Staying
    <3> QED  BY <2>0, <3>2, <3>8, <3>9 DEF Staying
  <2> QED  BY <1>7, <2>1, <2>2 DEF SaveLink, Answer
<1>8. ASSUME NEW h \in Handlers, SendLink(h) PROVE Staying'
  BY <1>0, <1>8, StayingKept DEF SendLink, Answer
<1>9. ASSUME NEW h \in Handlers, Consume(h) PROVE Staying'
  <2>1. UNCHANGED <<allowed, stays, sessions, removed>> /\ \A d, n : InForce(d, n)' <=> InForce(d, n)
    BY <1>9 DEF Consume, InForce
  <2>2. CASE \E l \in links : Usable(l, h)
               /\ links' = (links \ {l}) \cup {[l EXCEPT !.spent = TRUE]}
               /\ handlers' = [handlers EXCEPT ![h].pc = "open", ![h].email = l.email, ![h].stay = l.stay]
    <3>1. PICK l \in links : Usable(l, h)
               /\ links' = (links \ {l}) \cup {[l EXCEPT !.spent = TRUE]}
               /\ handlers' = [handlers EXCEPT ![h].pc = "open", ![h].email = l.email, ![h].stay = l.stay]
      BY <2>2
    <3> DEFINE used == [l EXCEPT !.spent = TRUE]
    <3>2. used.email = l.email /\ used.stay = l.stay /\ used.inserted = l.inserted /\ used.expires = l.expires
      BY DEF TypeOK, Link
    <3>4. /\ \A g \in Handlers \ {h} : handlers'[g] = handlers[g]
          /\ handlers'[h].pc = "open" /\ handlers'[h].email = l.email /\ handlers'[h].stay = l.stay
          /\ handlers'[h].at = handlers[h].at
      <4>1. handlers \in [Handlers -> Handler]
        BY <1>0
      <4>2. PICK e \in Emails, n \in 1..MaxStays : e = l.email /\ n = l.stay
        BY <1>0
      <4>3. handlers' = [handlers EXCEPT ![h].pc = "open", ![h].email = e, ![h].stay = n]
        BY <3>1, <4>2
      <4>4. handlers' = [handlers EXCEPT ![h] = [handlers[h] EXCEPT !.pc = "open", !.email = e, !.stay = n]]
        BY <4>1, <4>3
      <4>5. LET r == [handlers[h] EXCEPT !.pc = "open", !.email = e, !.stay = n] IN
            /\ r.pc = "open" /\ r.email = e /\ r.stay = n
            /\ r.link = handlers[h].link /\ r.at = handlers[h].at
        BY <4>1 DEF Handler
      <4> QED  BY <4>1, <4>2, <4>4, <4>5
    <3>5. \A m \in links' : m \in links \/ m = used
      BY <3>1
    <3> HIDE DEF used
    <3>6. InForce(l.email, l.stay) \/ handlers[h].at < removed[l.email] + TokenTTL
      <4>1. handlers[h].at < l.expires
        BY <1>0, <3>1 DEF Usable
      <4>2. InForce(l.email, l.stay) \/ l.expires <= removed[l.email] + TokenTTL
        BY DEF Staying
      <4>3. removed[l.email] \in Nat /\ l.expires \in Nat /\ handlers[h].at \in Nat
        BY <1>0
      <4> QED  BY <4>1, <4>2, <4>3
    <3>7. \A m \in links' : /\ m.email \in allowed' /\ m.inserted = stays'[m.email]
                            /\ InForce(m.email, m.stay)' \/ m.expires <= removed'[m.email] + TokenTTL
      BY <2>1, <3>2, <3>5 DEF Staying
    <3>8. \A s \in sessions' :
            /\ s.email \in allowed' /\ s.inserted = stays'[s.email]
            /\ InForce(s.email, s.stay)' \/ s.expires < removed'[s.email] + TokenTTL + SessionTTL
      BY <2>1 DEF Staying
    <3>9. ASSUME NEW g \in Handlers
          PROVE  LET r == handlers'[g] IN
            /\ r.pc \in {"count", "save"} => InForce(r.email, r.stay) \/ r.at <= removed[r.email]
            /\ r.pc = "open" => InForce(r.email, r.stay) \/ r.at < removed[r.email] + TokenTTL
      <4>1. CASE g = h
        BY <3>4, <3>6, <4>1
      <4>2. CASE g # h
        BY <3>4, <4>2 DEF Staying
      <4> QED  BY <4>1, <4>2
    <3>10. (\A g \in Handlers : LET r == handlers[g] IN
            /\ r.pc \in {"count", "save"} => InForce(r.email, r.stay) \/ r.at <= removed[r.email]
            /\ r.pc = "open" => InForce(r.email, r.stay) \/ r.at < removed[r.email] + TokenTTL)'
      BY <2>1, <3>9 DEF InForce
    <3> QED  BY <3>7, <3>8, <3>10 DEF Staying
  <2>3. CASE handlers' = [handlers EXCEPT ![h] = Idle] /\ links' = links
    BY <1>0, <2>1, <2>3, StayingKept
  <2> QED  BY <1>9, <2>2, <2>3 DEF Consume, Answer
<1>10. ASSUME NEW h \in Handlers, OpenSession(h) PROVE Staying'
  <2> DEFINE e == handlers[h].email
             new == [link |-> handlers[h].link, email |-> e, stay |-> handlers[h].stay,
                     inserted |-> stays[e], expires |-> handlers[h].at + SessionTTL]
  <2>0. /\ UNCHANGED <<allowed, links, stays, removed>> /\ handlers[h].pc = "open"
        /\ \A g \in Handlers : handlers'[g] = handlers[g] \/ handlers'[g].pc = "idle"
        /\ \A d, n : InForce(d, n)' <=> InForce(d, n)
    BY <1>0, <1>10 DEF OpenSession, Answer, InForce
  <2>1. CASE e \notin allowed
    BY <1>10, <2>0, <2>1, StayingKept DEF OpenSession
  <2>2. CASE e \in allowed
    <3>1. \A s \in sessions' : s \in sessions \/ s = new
      BY <1>10, <2>2 DEF OpenSession
    <3>2. /\ new.email = e /\ new.inserted = stays[e] /\ new.stay = handlers[h].stay
          /\ new.expires = handlers[h].at + SessionTTL
      OBVIOUS
    <3>3. InForce(e, handlers[h].stay) \/ handlers[h].at < removed[e] + TokenTTL
      BY <2>0 DEF Staying
    <3>4. handlers[h].at \in Nat /\ removed[e] \in Nat
      BY <1>0
    <3>5. InForce(new.email, new.stay) \/ new.expires < removed[new.email] + TokenTTL + SessionTTL
      BY <3>2, <3>3, <3>4
    <3> HIDE DEF new
    <3>6. \A s \in sessions' :
            /\ s.email \in allowed' /\ s.inserted = stays'[s.email]
            /\ InForce(s.email, s.stay)' \/ s.expires < removed'[s.email] + TokenTTL + SessionTTL
      BY <2>0, <2>2, <3>1, <3>2, <3>5 DEF Staying
    <3> QED  BY <2>0, <3>6 DEF Staying
  <2> QED  BY <2>1, <2>2
<1>11. ASSUME NEW h \in Handlers, HandlerFails(h) PROVE Staying'
  BY <1>0, <1>11, StayingKept DEF HandlerFails, Answer
<1>12. ASSUME NEW s \in sessions, Logout(s) PROVE Staying'
  BY <1>12, StayingKept DEF Logout
<1>13. CASE UNCHANGED vars
  BY <1>13, StayingKept DEF vars
<1> QED  BY <1>1, <1>2, <1>3, <1>4, <1>5, <1>6, <1>7, <1>8, <1>9, <1>10, <1>11, <1>12, <1>13 DEF Next

-----------------------------------------------------------------------------
(***************************************************************************)
(* The limit on links.  A handler that counted too few and has not saved   *)
(* yet stands for a link to come, so both are counted; a link that is      *)
(* still usable is among those that any handler counts, since whoever      *)
(* counts started before now and the link was saved less than TokenTTL ago *)
(* (Clocked).                                                              *)
(***************************************************************************)
UsableOf(e) == {l \in links : l.email = e /\ ~l.spent /\ l.expires > now}

Saving(e) == {h \in Handlers : handlers[h].pc = "save" /\ handlers[h].email = e}

Limited ==
    \A e \in Emails :
        Cardinality(UsableOf(e)) + Cardinality(Saving(e)) <= PerWindow + Cardinality(Handlers) - 1

\* Any part of these sets is finite, and counts no more than the whole.
LEMMA Counted ==
  ASSUME IsFiniteSet(links), NEW e
  PROVE  /\ \A S \in SUBSET UsableOf(e) : /\ IsFiniteSet(S) /\ Cardinality(S) \in Nat
                                         /\ Cardinality(S) <= Cardinality(UsableOf(e))
         /\ \A S \in SUBSET Saving(e) : /\ IsFiniteSet(S) /\ Cardinality(S) \in Nat
                                       /\ Cardinality(S) <= Cardinality(Saving(e))
<1>1. UsableOf(e) \subseteq links /\ Saving(e) \subseteq Handlers
  BY DEF UsableOf, Saving
<1>2. IsFiniteSet(UsableOf(e)) /\ IsFiniteSet(Saving(e))
  BY <1>1, FS_Subset
<1> QED  BY <1>2, FS_Subset, FS_CardinalityType

\* Steps that neither add a usable link nor let a handler pass the count.
LEMMA LimitKept ==
  ASSUME IsFiniteSet(links), Limited,
         \A e \in Emails : UsableOf(e)' \subseteq UsableOf(e) /\ Saving(e)' \subseteq Saving(e)
  PROVE  Limited'
<1> SUFFICES ASSUME NEW e \in Emails
             PROVE  Cardinality(UsableOf(e)') + Cardinality(Saving(e)') <= PerWindow + Cardinality(Handlers) - 1
  BY DEF Limited
<1>1. /\ Cardinality(UsableOf(e)') \in Nat /\ Cardinality(UsableOf(e)) \in Nat
      /\ Cardinality(UsableOf(e)') <= Cardinality(UsableOf(e))
  BY Counted
<1>2. /\ Cardinality(Saving(e)') \in Nat /\ Cardinality(Saving(e)) \in Nat
      /\ Cardinality(Saving(e)') <= Cardinality(Saving(e))
  BY Counted
<1>3. Cardinality(Handlers) \in Nat
  BY FS_CardinalityType
<1>4. Cardinality(UsableOf(e)) + Cardinality(Saving(e)) <= PerWindow + Cardinality(Handlers) - 1
  BY DEF Limited
<1> QED  BY <1>1, <1>2, <1>3, <1>4

\* A handler keeps the time it started at until it is idle again.
LEMMA RestartedOrKept ==
  ASSUME TypeOK, NEW h \in Handlers,
         \/ handlers' = [handlers EXCEPT ![h] = Idle]
         \/ \E pc : handlers' = [handlers EXCEPT ![h] = [@ EXCEPT !.pc = pc]]
         \/ \E pc, k : handlers' = [handlers EXCEPT ![h] = [@ EXCEPT !.pc = pc, !.link = k]]
  PROVE  \A g \in Handlers : handlers'[g].at \in {0, handlers[g].at}
<1>1. handlers \in [Handlers -> Handler] /\ Idle.at = 0
  BY DEF TypeOK, Idle
<1>2. CASE handlers' = [handlers EXCEPT ![h] = Idle]
  BY <1>1, <1>2
<1>3. ASSUME NEW pc, handlers' = [handlers EXCEPT ![h] = [@ EXCEPT !.pc = pc]]
      PROVE  \A g \in Handlers : handlers'[g].at \in {0, handlers[g].at}
  BY <1>1, <1>3 DEF Handler
<1>4. ASSUME NEW pc, NEW k, handlers' = [handlers EXCEPT ![h] = [@ EXCEPT !.pc = pc, !.link = k]]
      PROVE  \A g \in Handlers : handlers'[g].at \in {0, handlers[g].at}
  <2>1. [handlers[h] EXCEPT !.pc = pc, !.link = k].at = handlers[h].at
    BY <1>1 DEF Handler
  <2> QED  BY <1>1, <1>4, <2>1
<1> QED  BY <1>2, <1>3, <1>4

LEMMA ClockedStep ==
  ASSUME TypeOK, Drawn, Clocked, [Next]_vars
  PROVE  Clocked'
<1> USE IdleType
<1>0. /\ now \in Nat /\ \A h \in Handlers : handlers[h].at \in Nat
      /\ \A l \in links : l.created \in Nat /\ l.expires \in Nat
      /\ Idle.at = 0
  BY DEF TypeOK, Handler, Link, Idle
<1>1. CASE Tick
  BY <1>0, <1>1 DEF Tick, Clocked
<1>2. ASSUME NEW e \in Emails, AddContributor(e) PROVE Clocked'
  BY <1>2 DEF AddContributor, Clocked
<1>3. ASSUME NEW e \in Emails, RemoveContributor(e) PROVE Clocked'
  <2>1. IsFiniteSet(links')
    BY <1>3, FS_Subset DEF RemoveContributor, Clocked
  <2> QED  BY <1>3, <2>1 DEF RemoveContributor, Clocked
<1>4. ASSUME NEW h \in Handlers, NEW e \in Emails, RequestLink(h, e) PROVE Clocked'
  BY <1>0, <1>4 DEF RequestLink, Clocked, TypeOK
<1>5. ASSUME NEW h \in Handlers, NEW k \in mailed, FollowLink(h, k) PROVE Clocked'
  <2>1. [Idle EXCEPT !.pc = "consume", !.link = k, !.at = now].at = now
    BY DEF Idle
  <2> QED  BY <1>0, <1>5, <2>1 DEF FollowLink, Clocked, TypeOK
<1>6. ASSUME NEW h \in Handlers, CountRecent(h) PROVE Clocked'
  <2>0. \/ handlers' = [handlers EXCEPT ![h] = Idle]
        \/ handlers' = [handlers EXCEPT ![h] = [@ EXCEPT !.pc = "save"]]
    BY <1>6 DEF CountRecent, Answer, Goto
  <2>1. \A g \in Handlers : handlers'[g].at \in {0, handlers[g].at}
    BY <1>0, <2>0, RestartedOrKept
  <2> QED  BY <1>0, <1>6, <2>1 DEF CountRecent, Clocked
<1>7. ASSUME NEW h \in Handlers, SaveLink(h) PROVE Clocked'
  <2> DEFINE e == handlers[h].email
             new == [id |-> lastLink + 1, email |-> e, stay |-> handlers[h].stay,
                     inserted |-> stays[e], created |-> now, expires |-> handlers[h].at + TokenTTL, spent |-> FALSE]
  <2>0. \/ handlers' = [handlers EXCEPT ![h] = Idle]
        \/ \E k : handlers' = [handlers EXCEPT ![h] = [@ EXCEPT !.pc = "send", !.link = k]]
    BY <1>7 DEF SaveLink, Answer
  <2>1. \A g \in Handlers : handlers'[g].at \in {0, handlers[g].at}
    BY <1>0, <2>0, RestartedOrKept
  <2>2. links' = links \/ links' = (links \ Pruned(e)) \cup {new}
    BY <1>7 DEF SaveLink
  <2>3. new.created = now /\ new.expires <= new.created + TokenTTL
    BY <1>0 DEF Clocked
  <2> HIDE DEF new
  <2>4. IsFiniteSet(links')
    BY <2>2, FS_Difference, FS_AddElement DEF Clocked
  <2>5. now' = now
    BY <1>7 DEF SaveLink
  <2> QED  BY <1>0, <2>1, <2>2, <2>3, <2>4, <2>5 DEF Clocked
<1>8. ASSUME NEW h \in Handlers, SendLink(h) PROVE Clocked'
  BY <1>0, <1>8 DEF SendLink, Answer, Clocked, TypeOK
<1>9. ASSUME NEW h \in Handlers, Consume(h) PROVE Clocked'
  <2>1. \A g \in Handlers : handlers'[g].at \in {0, handlers[g].at}
    <3>1. CASE Answer(h)
      BY <3>1, RestartedOrKept DEF Answer
    <3>2. ASSUME NEW l \in links,
                 handlers' = [handlers EXCEPT ![h].pc = "open", ![h].email = l.email, ![h].stay = l.stay]
          PROVE  \A g \in Handlers : handlers'[g].at \in {0, handlers[g].at}
      <4>1. l.email \in Emails /\ l.stay \in 1..MaxStays
        BY DEF TypeOK, Link
      <4> QED  BY <3>2, <4>1, Spends DEF TypeOK
    <3> QED  BY <1>9, <3>1, <3>2 DEF Consume
  <2>2. CASE \E l \in links : links' = (links \ {l}) \cup {[l EXCEPT !.spent = TRUE]}
    <3>1. PICK l \in links : links' = (links \ {l}) \cup {[l EXCEPT !.spent = TRUE]}
      BY <2>2
    <3> DEFINE used == [l EXCEPT !.spent = TRUE]
    <3>2. used.created = l.created /\ used.expires = l.expires
      BY DEF TypeOK, Link
    <3> HIDE DEF used
    <3>3. IsFiniteSet(links')
      BY <3>1, FS_RemoveElement, FS_AddElement DEF Clocked, used
    <3>4. links' = (links \ {l}) \cup {used} /\ now' = now
      BY <1>9, <3>1 DEF used, Consume
    <3> QED  BY <1>0, <2>1, <3>2, <3>3, <3>4 DEF Clocked
  <2>3. CASE UNCHANGED links
    <3>1. now' = now
      BY <1>9 DEF Consume
    <3> QED  BY <1>0, <2>1, <2>3, <3>1 DEF Clocked
  <2> QED  BY <1>9, <2>2, <2>3 DEF Consume
<1>10. ASSUME NEW h \in Handlers, OpenSession(h) PROVE Clocked'
  BY <1>0, <1>10 DEF OpenSession, Answer, Clocked, TypeOK
<1>11. ASSUME NEW h \in Handlers, HandlerFails(h) PROVE Clocked'
  BY <1>0, <1>11 DEF HandlerFails, Answer, Clocked, TypeOK
<1>12. ASSUME NEW s \in sessions, Logout(s) PROVE Clocked'
  BY <1>12 DEF Logout, Clocked
<1>13. CASE UNCHANGED vars
  BY <1>13 DEF vars, Clocked
<1> QED  BY <1>1, <1>2, <1>3, <1>4, <1>5, <1>6, <1>7, <1>8, <1>9, <1>10, <1>11, <1>12, <1>13 DEF Next

LEMMA LimitStep ==
  ASSUME TypeOK, Clocked, Clocked', Limited, [Next]_vars
  PROVE  Limited'
<1> USE IdleType
<1>0. /\ now \in Nat /\ \A h \in Handlers : handlers[h].at \in Nat
      /\ \A l \in links : l.created \in Nat /\ l.expires \in Nat
      /\ handlers \in [Handlers -> Handler]
      /\ IsFiniteSet(links) /\ IsFiniteSet(links')
  BY DEF TypeOK, Handler, Link, Clocked
<1>1. CASE Tick
  <2>1. \A e \in Emails : UsableOf(e)' \subseteq UsableOf(e) /\ Saving(e)' \subseteq Saving(e)
    BY <1>0, <1>1 DEF Tick, UsableOf, Saving
  <2> QED  BY <1>0, <2>1, LimitKept
<1>2. ASSUME NEW e \in Emails, AddContributor(e) PROVE Limited'
  BY <1>0, <1>2, LimitKept DEF AddContributor, UsableOf, Saving
<1>3. ASSUME NEW e \in Emails, RemoveContributor(e) PROVE Limited'
  <2>1. \A d \in Emails : UsableOf(d)' \subseteq UsableOf(d) /\ Saving(d)' \subseteq Saving(d)
    BY <1>3 DEF RemoveContributor, UsableOf, Saving
  <2> QED  BY <1>0, <2>1, LimitKept
<1>4. ASSUME NEW h \in Handlers, NEW e \in Emails, RequestLink(h, e) PROVE Limited'
  <2>1. \A d \in Emails : UsableOf(d)' \subseteq UsableOf(d) /\ Saving(d)' \subseteq Saving(d)
    BY <1>0, <1>4 DEF RequestLink, UsableOf, Saving
  <2> QED  BY <1>0, <2>1, LimitKept
<1>5. ASSUME NEW h \in Handlers, NEW k \in mailed, FollowLink(h, k) PROVE Limited'
  <2>1. [Idle EXCEPT !.pc = "consume", !.link = k, !.at = now].pc = "consume"
    BY DEF Handler
  <2>2. \A d \in Emails : UsableOf(d)' \subseteq UsableOf(d) /\ Saving(d)' \subseteq Saving(d)
    BY <1>0, <1>5, <2>1 DEF FollowLink, UsableOf, Saving
  <2> QED  BY <1>0, <2>2, LimitKept
<1>6. ASSUME NEW h \in Handlers, CountRecent(h) PROVE Limited'
  <2>a. PICK mine \in Emails : mine = handlers[h].email
    BY <1>0 DEF Handler
  <2>1. UNCHANGED <<now, links>> /\ \A e \in Emails : UsableOf(e)' = UsableOf(e)
    BY <1>6 DEF CountRecent, UsableOf
  <2>2. CASE handlers' = [handlers EXCEPT ![h] = Idle]
    <3>1. \A e \in Emails : Saving(e)' \subseteq Saving(e)
      BY <1>0, <2>2 DEF Saving
    <3> QED  BY <1>0, <2>1, <3>1, LimitKept
  <2>3. CASE Cardinality(Recent(mine, handlers[h].at)) < PerWindow /\ handlers' = [handlers EXCEPT ![h].pc = "save"]
    <3>1. UsableOf(mine) \subseteq Recent(mine, handlers[h].at)
      BY <1>0 DEF UsableOf, Recent, Clocked
    <3>2. IsFiniteSet(Recent(mine, handlers[h].at)) /\ Cardinality(Recent(mine, handlers[h].at)) \in Nat
      BY <1>0, FS_Subset, FS_CardinalityType DEF Recent
    <3>3. Cardinality(UsableOf(mine)) < PerWindow /\ Cardinality(UsableOf(mine)) \in Nat
      <4>1. Cardinality(UsableOf(mine)) <= Cardinality(Recent(mine, handlers[h].at))
        BY <3>1, <3>2, FS_Subset
      <4>2. Cardinality(UsableOf(mine)) \in Nat
        BY <1>0, Counted
      <4> QED  BY <2>3, <3>2, <4>1, <4>2
    <3>4. h \notin Saving(mine) /\ Saving(mine) \subseteq Handlers \ {h} /\ Saving(mine)' \subseteq Saving(mine) \cup {h}
      BY <1>0, <1>6, <2>a, <2>3 DEF CountRecent, Saving, Handler
    <3>5. Cardinality(Saving(mine)') <= Cardinality(Handlers) /\ Cardinality(Saving(mine)') \in Nat
      <4>1. Saving(mine)' \subseteq Handlers
        BY DEF Saving
      <4> QED  BY <4>1, FS_Subset, FS_CardinalityType
    <3>6. Cardinality(UsableOf(mine)') + Cardinality(Saving(mine)') <= PerWindow + Cardinality(Handlers) - 1
      <4>1. mine \in Emails /\ Cardinality(UsableOf(mine)') = Cardinality(UsableOf(mine))
        BY <1>0, <2>1 DEF Handler
      <4>2. Cardinality(Handlers) \in Nat
        BY FS_CardinalityType
      <4> QED  BY <3>3, <3>5, <4>1, <4>2
    <3>7. ASSUME NEW e \in Emails, e # mine
          PROVE  Cardinality(UsableOf(e)') + Cardinality(Saving(e)') <= PerWindow + Cardinality(Handlers) - 1
      <4>1. Saving(e)' = Saving(e)
        BY <1>0, <1>6, <2>a, <2>3, <3>7 DEF CountRecent, Saving, Handler
      <4> QED  BY <2>1, <4>1 DEF Limited
    <3> QED  BY <3>6, <3>7 DEF Limited
  <2>4. Cardinality(Recent(mine, handlers[h].at)) \in Nat
    BY <1>0, FS_Subset, FS_CardinalityType DEF Recent
  <2> QED  BY <1>6, <2>a, <2>2, <2>3, <2>4 DEF CountRecent, Answer, Goto
<1>7. ASSUME NEW h \in Handlers, SaveLink(h) PROVE Limited'
  <2>a. PICK e \in Emails : e = handlers[h].email
    BY <1>0 DEF Handler
  <2>b. PICK new : new =
           [id |-> lastLink + 1, email |-> e, stay |-> handlers[h].stay,
                     inserted |-> stays[e], created |-> now, expires |-> handlers[h].at + TokenTTL, spent |-> FALSE]
    OBVIOUS
  <2>0. now' = now /\ handlers[h].pc = "save"
    BY <1>7 DEF SaveLink
  <2>1. CASE handlers' = [handlers EXCEPT ![h] = Idle] /\ links' = links
    <3>1. \A d \in Emails : UsableOf(d)' \subseteq UsableOf(d) /\ Saving(d)' \subseteq Saving(d)
      BY <1>0, <2>0, <2>1 DEF UsableOf, Saving
    <3> QED  BY <1>0, <3>1, LimitKept
  <2>2. CASE /\ handlers' = [handlers EXCEPT ![h].pc = "send", ![h].link = lastLink + 1]
             /\ links' = (links \ Pruned(e)) \cup {new}
    <3>1. new.email = e
      BY <2>b
    <3>2. \A g \in Handlers : handlers'[g].pc = (IF g = h THEN "send" ELSE handlers[g].pc)
                            /\ handlers'[g].email = handlers[g].email
      <4>1. /\ [handlers[h] EXCEPT !.pc = "send", !.link = lastLink + 1].pc = "send"
            /\ [handlers[h] EXCEPT !.pc = "send", !.link = lastLink + 1].email = e
        BY <1>0, <2>a DEF Handler
      <4>2. handlers' = [handlers EXCEPT ![h] = [handlers[h] EXCEPT !.pc = "send", !.link = lastLink + 1]]
        BY <1>0, <2>2
      <4> QED  BY <1>0, <4>1, <4>2
    <3>3. ASSUME NEW d \in Emails, d # e
          PROVE  UsableOf(d)' \subseteq UsableOf(d) /\ Saving(d)' \subseteq Saving(d)
      <4>1. UsableOf(d)' \subseteq UsableOf(d)
        BY <2>0, <2>2, <3>1, <3>3 DEF UsableOf
      <4>2. Saving(d)' \subseteq Saving(d)
        BY <3>2 DEF Saving
      <4> QED  BY <4>1, <4>2
    <3>4. UsableOf(e)' \subseteq UsableOf(e) \cup {new}
      BY <2>0, <2>2 DEF UsableOf
    <3>5. h \in Saving(e) /\ Saving(e)' \subseteq Saving(e) \ {h}
      BY <2>0, <2>a, <3>2 DEF Saving
    <3>6. /\ Cardinality(UsableOf(e)') \in Nat /\ Cardinality(UsableOf(e)) \in Nat
          /\ Cardinality(UsableOf(e)') <= Cardinality(UsableOf(e)) + 1
      <4>1. IsFiniteSet(UsableOf(e)) /\ Cardinality(UsableOf(e)) \in Nat
        BY <1>0, Counted
      <4>2. /\ IsFiniteSet(UsableOf(e) \cup {new})
            /\ Cardinality(UsableOf(e) \cup {new}) <= Cardinality(UsableOf(e)) + 1
            /\ Cardinality(UsableOf(e) \cup {new}) \in Nat
        <5>1. /\ IsFiniteSet(UsableOf(e) \cup {new})
              /\ Cardinality(UsableOf(e) \cup {new}) \in {Cardinality(UsableOf(e)), Cardinality(UsableOf(e)) + 1}
          BY <4>1, FS_AddElement
        <5> QED  BY <4>1, <5>1
      <4>3. /\ Cardinality(UsableOf(e)') <= Cardinality(UsableOf(e) \cup {new})
            /\ Cardinality(UsableOf(e)') \in Nat
        BY <3>4, <4>2, FS_Subset, FS_CardinalityType
      <4> QED  BY <4>1, <4>2, <4>3
    <3>7. /\ Cardinality(Saving(e)') \in Nat /\ Cardinality(Saving(e)) \in Nat
          /\ Cardinality(Saving(e)') <= Cardinality(Saving(e)) - 1
      <4>1. IsFiniteSet(Saving(e)) /\ Cardinality(Saving(e)) \in Nat
        BY <1>0, Counted
      <4>2. /\ IsFiniteSet(Saving(e) \ {h}) /\ Cardinality(Saving(e) \ {h}) = Cardinality(Saving(e)) - 1
        BY <3>5, <4>1, FS_RemoveElement
      <4>3. /\ Cardinality(Saving(e)') <= Cardinality(Saving(e) \ {h})
            /\ Cardinality(Saving(e)') \in Nat
        BY <3>5, <4>2, FS_Subset, FS_CardinalityType
      <4> QED  BY <4>1, <4>2, <4>3
    <3>8. Cardinality(UsableOf(e)') + Cardinality(Saving(e)') <= PerWindow + Cardinality(Handlers) - 1
      <4>1. Cardinality(UsableOf(e)) + Cardinality(Saving(e)) <= PerWindow + Cardinality(Handlers) - 1
        BY <2>0 DEF Limited
      <4>2. Cardinality(Handlers) \in Nat
        BY FS_CardinalityType
      <4> QED  BY <3>6, <3>7, <4>1, <4>2
    <3>9. ASSUME NEW d \in Emails, d # e
          PROVE  Cardinality(UsableOf(d)') + Cardinality(Saving(d)') <= PerWindow + Cardinality(Handlers) - 1
      <4>1. UsableOf(d)' \subseteq UsableOf(d) /\ Saving(d)' \subseteq Saving(d)
        BY <3>3, <3>9
      <4>2. /\ Cardinality(UsableOf(d)') \in Nat /\ Cardinality(UsableOf(d)) \in Nat
            /\ Cardinality(UsableOf(d)') <= Cardinality(UsableOf(d))
            /\ Cardinality(Saving(d)') \in Nat /\ Cardinality(Saving(d)) \in Nat
            /\ Cardinality(Saving(d)') <= Cardinality(Saving(d))
        BY <1>0, <4>1, Counted
      <4>3. Cardinality(UsableOf(d)) + Cardinality(Saving(d)) <= PerWindow + Cardinality(Handlers) - 1
        BY DEF Limited
      <4>4. Cardinality(Handlers) \in Nat
        BY FS_CardinalityType
      <4> QED  BY <4>2, <4>3, <4>4
    <3> QED  BY <3>8, <3>9 DEF Limited
  <2> QED  BY <1>7, <2>a, <2>b, <2>1, <2>2 DEF SaveLink, Answer
<1>8. ASSUME NEW h \in Handlers, SendLink(h) PROVE Limited'
  <2>1. \A d \in Emails : UsableOf(d)' \subseteq UsableOf(d) /\ Saving(d)' \subseteq Saving(d)
    BY <1>0, <1>8 DEF SendLink, Answer, UsableOf, Saving
  <2> QED  BY <1>0, <2>1, LimitKept
<1>9. ASSUME NEW h \in Handlers, Consume(h) PROVE Limited'
  <2>1. \A d \in Emails : UsableOf(d)' \subseteq UsableOf(d)
    <3>1. now' = now
      BY <1>9 DEF Consume
    <3>2. CASE links' = links
      BY <3>1, <3>2 DEF UsableOf
    <3>3. ASSUME NEW l \in links, links' = (links \ {l}) \cup {[l EXCEPT !.spent = TRUE]}
          PROVE  \A d \in Emails : UsableOf(d)' \subseteq UsableOf(d)
      <4>1. [l EXCEPT !.spent = TRUE].spent = TRUE
        BY DEF TypeOK, Link
      <4> QED  BY <3>1, <3>3, <4>1 DEF UsableOf
    <3> QED  BY <1>9, <3>2, <3>3 DEF Consume
  <2>2. \A g \in Handlers : \/ handlers'[g] = handlers[g]
                           \/ handlers'[g].pc # "save"
    <3>1. CASE handlers' = [handlers EXCEPT ![h] = Idle]
      BY <1>0, <3>1
    <3>2. ASSUME NEW l \in links,
                 handlers' = [handlers EXCEPT ![h].pc = "open", ![h].email = l.email, ![h].stay = l.stay]
          PROVE  \A g \in Handlers : handlers'[g] = handlers[g] \/ handlers'[g].pc # "save"
      <4>1. l.email \in Emails /\ l.stay \in 1..MaxStays
        BY DEF TypeOK, Link
      <4>2. (\A g \in Handlers \ {h} : handlers'[g] = handlers[g]) /\ handlers'[h].pc = "open"
        BY <1>0, <3>2, <4>1, Spends
      <4> QED  BY <4>2
    <3> QED  BY <1>9, <3>1, <3>2 DEF Consume, Answer
  <2>3. \A d \in Emails : Saving(d)' \subseteq Saving(d)
    BY <2>2 DEF Saving
  <2> QED  BY <1>0, <2>1, <2>3, LimitKept
<1>10. ASSUME NEW h \in Handlers, OpenSession(h) PROVE Limited'
  <2>1. \A d \in Emails : UsableOf(d)' \subseteq UsableOf(d) /\ Saving(d)' \subseteq Saving(d)
    BY <1>0, <1>10 DEF OpenSession, Answer, UsableOf, Saving
  <2> QED  BY <1>0, <2>1, LimitKept
<1>11. ASSUME NEW h \in Handlers, HandlerFails(h) PROVE Limited'
  <2>1. \A d \in Emails : UsableOf(d)' \subseteq UsableOf(d) /\ Saving(d)' \subseteq Saving(d)
    BY <1>0, <1>11 DEF HandlerFails, Answer, UsableOf, Saving
  <2> QED  BY <1>0, <2>1, LimitKept
<1>12. ASSUME NEW s \in sessions, Logout(s) PROVE Limited'
  BY <1>0, <1>12, LimitKept DEF Logout, UsableOf, Saving
<1>13. CASE UNCHANGED vars
  BY <1>0, <1>13, LimitKept DEF vars, UsableOf, Saving
<1> QED  BY <1>1, <1>2, <1>3, <1>4, <1>5, <1>6, <1>7, <1>8, <1>9, <1>10, <1>11, <1>12, <1>13 DEF Next

-----------------------------------------------------------------------------
\* Together they are inductive.
IInv == TypeOK /\ Drawn /\ Once /\ Staying /\ Clocked /\ Limited

LEMMA Inductive == Spec => []IInv
<1>1. Init => IInv
  <2>1. Init => TypeOK /\ Drawn
    BY TypeInit
  <2>2. Init => Once /\ Staying
    BY IdleType DEF Init, Once, Staying, LinkOpensOneSession, Opening
  <2>3. Init => Clocked
    BY IdleType, FS_EmptySet DEF Init, Clocked, Idle
  <2>4. Init => Limited
    <3> SUFFICES ASSUME Init, NEW e \in Emails
                 PROVE  Cardinality(UsableOf(e)) + Cardinality(Saving(e)) <= PerWindow + Cardinality(Handlers) - 1
      BY DEF Limited
    <3>1. UsableOf(e) = {} /\ Saving(e) = {}
      BY IdleType DEF Init, UsableOf, Saving
    <3>2. Cardinality(Handlers) \in Nat
      BY FS_CardinalityType
    <3> QED  BY <3>1, <3>2, FS_EmptySet
  <2> QED  BY <2>1, <2>2, <2>3, <2>4 DEF IInv
<1>2. IInv /\ [Next]_vars => IInv'
  BY TypeStep, OnceStep, StayingStep, ClockedStep, LimitStep DEF IInv
<1> QED  BY <1>1, <1>2, PTL DEF Spec

(***************************************************************************)
(* Every reachable state is well typed; in particular a mail is only sent  *)
(* of a link that was saved.                                               *)
(***************************************************************************)
THEOREM TypeCorrect == Spec => []TypeOK
<1>1. IInv => TypeOK
  BY DEF IInv
<1> QED  BY <1>1, Inductive, PTL

(***************************************************************************)
(* However many handlers serve the same link at once, ConsumeLoginToken    *)
(* lets at most one of them open a session with it.                        *)
(***************************************************************************)
THEOREM LinksOpenOneSession == Spec => []LinkOpensOneSession
<1>1. IInv => LinkOpensOneSession
  BY DEF IInv, Once
<1> QED  BY <1>1, Inductive, PTL

(***************************************************************************)
(* However often addresses are removed and invited again, no link or       *)
(* session that was stored under an earlier invitation is there any more.  *)
(* A request that was under way when its address was removed may store its *)
(* link or open its session under the next invitation; then it expires     *)
(* within TokenTTL, or TokenTTL + SessionTTL, of the last removal.         *)
(***************************************************************************)
THEOREM RemovalIsFinal == Spec => []EarlierStaysAreOver
<1>1. IInv => EarlierStaysAreOver
  <2>1. ASSUME Staying PROVE EarlierStaysAreOver
    BY <2>1 DEF Staying, InForce, EarlierStaysAreOver
  <2> QED  BY <2>1 DEF IInv
<1> QED  BY <1>1, Inductive, PTL

(***************************************************************************)
(* The limit holds for any number of requests at once, up to the requests  *)
(* that counted before another one saved.                                  *)
(***************************************************************************)
THEOREM LinksAreLimited == Spec => []UsableLinksBounded
<1>1. IInv => UsableLinksBounded
  <2> SUFFICES ASSUME IInv, NEW e \in Emails
               PROVE  Cardinality(UsableOf(e)) <= PerWindow + Cardinality(Handlers) - 1
    BY DEF UsableLinksBounded, UsableOf
  <2>1. Cardinality(UsableOf(e)) \in Nat /\ Cardinality(Saving(e)) \in Nat
    BY Counted DEF IInv, Clocked
  <2>2. Cardinality(UsableOf(e)) + Cardinality(Saving(e)) <= PerWindow + Cardinality(Handlers) - 1
    BY DEF IInv, Limited
  <2>3. Cardinality(Handlers) \in Nat
    BY FS_CardinalityType
  <2> QED  BY <2>1, <2>2, <2>3
<1> QED  BY <1>1, Inductive, PTL

=============================================================================

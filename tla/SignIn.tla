------------------------------- MODULE SignIn -------------------------------
(***************************************************************************)
(* Sign-in of invited contributors: the allow-list, the mailed links that  *)
(* are spent once, and the sessions they open, as kept in Postgres.        *)
(*                                                                         *)
(* A handler reads its clock once and then makes several statements; each  *)
(* statement is one action, so handlers of one address interleave with     *)
(* each other, with the clock, and with the contributors command.          *)
(***************************************************************************)
EXTENDS Integers, FiniteSets

CONSTANTS
    Emails,       \* normalized addresses, invited or not
    Handlers,     \* API requests served at the same time
    TokenTTL,     \* LoginTokenTTL and loginWindow: both 15 minutes, in ticks
    SessionTTL,   \* sessionTTL, in ticks
    PerWindow,    \* loginsPerWindow (3)
    MaxLinks,     \* how many links are ever saved (bound)
    MaxStays,     \* how often an address is put on the allow-list (bound)
    MaxTime       \* last tick of the clock (bound)

ASSUME SignInAssumption ==
    /\ {TokenTTL, SessionTTL, PerWindow, MaxLinks, MaxStays, MaxTime} \subseteq Nat
    /\ TokenTTL > 0 /\ SessionTTL > 0 /\ PerWindow > 0
    /\ Emails # {}
    /\ IsFiniteSet(Handlers)

VARIABLES
    now,        \* the clock that the API and Postgres share
    allowed,    \* allowed_contributors
    links,      \* admin_login_tokens: the rows of links that were saved and not pruned
    lastLink,   \* links saved so far; a link's number stands for its token
    mailed,     \* links whose mail was sent: only these can be followed
    sessions,   \* admin_sessions
    handlers,   \* the request each handler is serving
    stays,      \* history: how often each address was put on the allow-list
    removed,    \* history: when each address was last removed
    opened      \* history: how many sessions each link opened

historyVars == <<stays, removed, opened>>
vars == <<now, allowed, links, lastLink, mailed, sessions, handlers, historyVars>>

Times == 0..MaxTime
Links == 1..MaxLinks

\* stay is the invitation under which the link was asked for, and inserted the one under
\* which its row was inserted; a session has the stay of the link that opened it.
Link == [id: Links, email: Emails, stay: 1..MaxStays, inserted: 1..MaxStays,
         created: Times, expires: 0..(MaxTime + TokenTTL), spent: BOOLEAN]

Session == [link: Links, email: Emails, stay: 1..MaxStays, inserted: 1..MaxStays,
            expires: 0..(MaxTime + SessionTTL)]

\* at is the clock that the handler read when it started; stay is history.
Handler == [pc: {"idle", "count", "save", "send", "consume", "open"},
            email: Emails, link: 0..MaxLinks, at: Times, stay: 0..MaxStays]

Idle == [pc |-> "idle", email |-> CHOOSE e \in Emails : TRUE, link |-> 0, at |-> 0, stay |-> 0]

Init ==
    /\ now = 0
    /\ allowed = {}
    /\ links = {}
    /\ lastLink = 0
    /\ mailed = {}
    /\ sessions = {}
    /\ handlers = [h \in Handlers |-> Idle]
    /\ stays = [e \in Emails |-> 0]
    /\ removed = [e \in Emails |-> 0]
    /\ opened = [k \in Links |-> 0]

Tick ==
    /\ now < MaxTime
    /\ now' = now + 1
    /\ UNCHANGED <<allowed, links, lastLink, mailed, sessions, handlers, historyVars>>

-----------------------------------------------------------------------------
(***************************************************************************)
(* The contributors command: add, and remove with its cascading deletes.   *)
(***************************************************************************)
AddContributor(e) ==
    /\ e \notin allowed
    /\ stays[e] < MaxStays
    /\ allowed' = allowed \cup {e}
    /\ stays' = [stays EXCEPT ![e] = @ + 1]
    /\ UNCHANGED <<now, links, lastLink, mailed, sessions, handlers, removed, opened>>

RemoveContributorOnly(e) ==  \* mutant: no ON DELETE CASCADE
    /\ e \in allowed
    /\ allowed' = allowed \ {e}
    /\ removed' = [removed EXCEPT ![e] = now]
    /\ UNCHANGED <<now, links, lastLink, mailed, sessions, handlers, stays, opened>>

RemoveContributor(e) ==
    /\ e \in allowed
    /\ allowed' = allowed \ {e}
    /\ links' = {l \in links : l.email # e}
    /\ sessions' = {s \in sessions : s.email # e}
    /\ removed' = [removed EXCEPT ![e] = now]
    /\ UNCHANGED <<now, lastLink, mailed, handlers, stays, opened>>

-----------------------------------------------------------------------------
(***************************************************************************)
(* RequestLink.                                                            *)
(***************************************************************************)
Goto(h, pc) == handlers' = [handlers EXCEPT ![h].pc = pc]
Answer(h)   == handlers' = [handlers EXCEPT ![h] = Idle]

\* An address that is not on the list gets the same answer and nothing happens.
RequestLink(h, e) ==
    /\ handlers[h].pc = "idle"
    /\ e \in allowed
    /\ handlers' = [handlers EXCEPT ![h] = [pc |-> "count", email |-> e, link |-> 0,
                                            at |-> now, stay |-> stays[e]]]
    /\ UNCHANGED <<now, allowed, links, lastLink, mailed, sessions, historyVars>>

\* CountRecentLoginTokens counts the rows that are still there.
RecentOrAbsent(e, at) == {}  \* mutant: nothing is counted
Recent(e, at) == {l \in links : l.email = e /\ l.created > at - TokenTTL}

CountThenMail(h) ==  \* mutant: the mail leaves before its link is saved
    /\ handlers[h].pc = "count"
    /\ IF Cardinality(Recent(handlers[h].email, handlers[h].at)) >= PerWindow
       THEN Answer(h) ELSE Goto(h, "send")
    /\ UNCHANGED <<now, allowed, links, lastLink, mailed, sessions, historyVars>>

CountRecent(h) ==
    /\ handlers[h].pc = "count"
    /\ IF Cardinality(Recent(handlers[h].email, handlers[h].at)) >= PerWindow
       THEN Answer(h) ELSE Goto(h, "save")
    /\ UNCHANGED <<now, allowed, links, lastLink, mailed, sessions, historyVars>>

\* SaveLoginToken prunes the address's spent and expired rows in the same
\* statement; the foreign key refuses an address that has been removed meanwhile, and
\* not one that has been invited again since.
Pruned(e) == {l \in links : l.email = e /\ (l.expires < now \/ l.spent)}

SaveLink(h) ==
    LET e == handlers[h].email IN
    /\ handlers[h].pc = "save"
    /\ \/ /\ e \notin allowed
          /\ Answer(h)
          /\ UNCHANGED <<links, lastLink>>
       \/ /\ e \in allowed
          /\ lastLink < MaxLinks
          /\ lastLink' = lastLink + 1
          /\ links' = (links \ Pruned(e)) \cup
                {[id |-> lastLink + 1, email |-> e, stay |-> handlers[h].stay,
                  inserted |-> stays[e], created |-> now,
                  expires |-> handlers[h].at + TokenTTL, spent |-> FALSE]}
          /\ handlers' = [handlers EXCEPT ![h].pc = "send", ![h].link = lastLink + 1]
    /\ UNCHANGED <<now, allowed, mailed, sessions, historyVars>>

\* The relay may refuse the mail: the link stays saved and nobody knows it.
SendLink(h) ==
    /\ handlers[h].pc = "send"
    /\ mailed' \in {mailed, mailed \cup {handlers[h].link}}
    /\ Answer(h)
    /\ UNCHANGED <<now, allowed, links, lastLink, sessions, historyVars>>

-----------------------------------------------------------------------------
(***************************************************************************)
(* Verify: a mailed link may be followed any number of times, at once too. *)
(***************************************************************************)
FollowLink(h, k) ==
    /\ handlers[h].pc = "idle"
    /\ k \in mailed
    /\ handlers' = [handlers EXCEPT ![h] = [Idle EXCEPT !.pc = "consume", !.link = k, !.at = now]]
    /\ UNCHANGED <<now, allowed, links, lastLink, mailed, sessions, historyVars>>

\* ConsumeLoginToken's UPDATE matches an unspent, unexpired row of a contributor.
UsableTwice(l, h) == l.id = handlers[h].link /\ l.expires > handlers[h].at  \* mutant
Usable(l, h) ==
    /\ l.id = handlers[h].link
    /\ ~l.spent
    /\ l.expires > handlers[h].at
    /\ l.email \in allowed

\* The update of last_login_at that follows touches nothing kept here; when it
\* fails, the link is spent and no session opens (HandlerFails).
Consume(h) ==
    /\ handlers[h].pc = "consume"
    /\ \/ \E l \in links :
            /\ Usable(l, h)
            /\ links' = (links \ {l}) \cup {[l EXCEPT !.spent = TRUE]}
            /\ handlers' = [handlers EXCEPT ![h].pc = "open", ![h].email = l.email,
                                            ![h].stay = l.stay]
       \/ /\ \A l \in links : ~Usable(l, h)
          /\ Answer(h)
          /\ UNCHANGED links
    /\ UNCHANGED <<now, allowed, lastLink, mailed, sessions, historyVars>>

\* CreateSession prunes the address's expired sessions; the foreign key refuses an
\* address that was removed since its link was spent, unless it was invited again.
OpenSession(h) ==
    LET e == handlers[h].email IN
    /\ handlers[h].pc = "open"
    /\ \/ /\ e \in allowed
          /\ sessions' = {s \in sessions : s.email # e \/ s.expires >= now} \cup
                {[link |-> handlers[h].link, email |-> e, stay |-> handlers[h].stay,
                  inserted |-> stays[e], expires |-> handlers[h].at + SessionTTL]}
          /\ opened' = [opened EXCEPT ![handlers[h].link] = @ + 1]
       \/ /\ e \notin allowed
          /\ UNCHANGED <<sessions, opened>>
    /\ Answer(h)
    /\ UNCHANGED <<now, allowed, links, lastLink, mailed, stays, removed>>

\* A statement fails, or the client leaves: what was written stays written.
HandlerFails(h) ==
    /\ handlers[h].pc # "idle"
    /\ Answer(h)
    /\ UNCHANGED <<now, allowed, links, lastLink, mailed, sessions, historyVars>>

Logout(s) ==
    /\ s \in sessions
    /\ sessions' = sessions \ {s}
    /\ UNCHANGED <<now, allowed, links, lastLink, mailed, handlers, historyVars>>

Next ==
    \/ Tick
    \/ \E e \in Emails : AddContributor(e) \/ RemoveContributor(e)
    \/ \E h \in Handlers :
         \/ \E e \in Emails : RequestLink(h, e)
         \/ \E k \in mailed : FollowLink(h, k)
         \/ CountRecent(h) \/ SaveLink(h) \/ SendLink(h)
         \/ Consume(h) \/ OpenSession(h) \/ HandlerFails(h)
    \/ \E s \in sessions : Logout(s)

Spec == Init /\ [][Next]_vars

-----------------------------------------------------------------------------
TypeOK ==
    /\ now \in Times
    /\ allowed \subseteq Emails
    /\ links \subseteq Link
    /\ lastLink \in 0..MaxLinks
    /\ mailed \subseteq 1..lastLink
    /\ sessions \subseteq Session
    /\ handlers \in [Handlers -> Handler]
    /\ stays \in [Emails -> 0..MaxStays]
    /\ removed \in [Emails -> Times]
    /\ opened \in [Links -> Nat]

\* However often, and however concurrently, a link is followed, it opens at most one
\* session (postgres.go ConsumeLoginToken "spends a link token exactly once").
LinkOpensOneSession == \A k \in Links : opened[k] <= 1

\* Removing a contributor ends what the address held: none of its links or sessions that
\* were stored then is there when it is invited anew.  Only what was under way outlives the
\* removal: a link that was asked for, and a session whose link was asked for, under an
\* earlier invitation, because the statement that stored it came after the new one.  Such a
\* link expires within TokenTTL of the last removal, and such a session a SessionTTL later
\* (postgres.go RemoveContributor, and the foreign keys of 002_admin_auth.sql).
EarlierStaysAreOver ==
    /\ \A l \in links : l.email \in allowed =>
          /\ l.inserted = stays[l.email]
          /\ l.stay # stays[l.email] => l.expires <= removed[l.email] + TokenTTL
    /\ \A s \in sessions : s.email \in allowed =>
          /\ s.inserted = stays[s.email]
          /\ s.stay # stays[s.email] => s.expires < removed[s.email] + TokenTTL + SessionTTL

\* An address never has more usable links than the limit, give or take the requests
\* that counted before another one saved.
UsableLinksBounded ==
    \A e \in Emails :
        Cardinality({l \in links : l.email = e /\ ~l.spent /\ l.expires > now})
            <= PerWindow + Cardinality(Handlers) - 1

=============================================================================

------------------------------ MODULE Sessions ------------------------------
(***************************************************************************)
(* SessionManager (packages/auth/src/sessions/manager.ts) over one of the  *)
(* two stores of store.ts.  A session id is a fresh token; requests carry  *)
(* any token ever given out, several at a time, and interleave with        *)
(* logouts, logins, "sign out everywhere" and the purge at every await of  *)
(* the code.  The database store makes each call one statement.  The cache *)
(* store's touch() is a find and then a set, its entries go at their       *)
(* expiry, and the cache may evict them.                                   *)
(***************************************************************************)
EXTENDS Integers, FiniteSets

CONSTANTS
  SessionIds,            \* tokens, 1 .. n, given out in order
  Requests, NoOne,       \* requests; no session
  IdleMs, AbsoluteMs, TouchMs,
  Dawn                   \* bound: the clock's last reading

\* A stored session.
Records == [lastSeenAt : Int, expiresAt : Int]

ASSUME SpansAssumption == IdleMs \in Int /\ AbsoluteMs \in Int /\ TouchMs \in Int
ASSUME NoOneAssumption == NoOne \notin Int \cup Records

VARIABLES
  store,      \* "database" or "cache"
  session,    \* [SessionIds -> its record or NoOne]
  request,    \* [Requests -> where its handler is]
  hour,       \* the clock, Date.now()
  opened,     \* history: [SessionIds -> instant of its login, or NoOne]
  lately,     \* history: [SessionIds -> latest instant its user was authenticated]
  ended,      \* history: sessions ended by a logout, a login or everywhere
  overtaken   \* history: sessions that ended inside a touch() of the cache store

sessionVars == <<store, session, request, hour, opened, lately, ended, overtaken>>

Quiet == [pc |-> "none", id |-> CHOOSE i \in SessionIds : TRUE, record |-> NoOne, now |-> 0]
Step(r, q) == request' = [request EXCEPT ![r] = q]
AtPc(r, pc) == request[r].pc = pc
Given == {i \in SessionIds : opened[i] # NoOne}

SessionsInit ==
  /\ store \in {"database", "cache"}
  /\ session = [i \in SessionIds |-> NoOne]
  /\ request = [r \in Requests |-> Quiet]
  /\ hour = 0
  /\ opened = [i \in SessionIds |-> NoOne]
  /\ lately = [i \in SessionIds |-> 0]
  /\ ended = {} /\ overtaken = {}

-----------------------------------------------------------------------------
\* The stores.

\* CacheSessionStore.insert: the entry lives to the session's expiry, at least a tick.
Put(i, record) == session' = [session EXCEPT ![i] = record]

find(i) == session[i]

\* delete, of a session that someone ends on purpose.
End(S) ==
  /\ session' = [i \in SessionIds |-> IF i \in S THEN NoOne ELSE session[i]]
  /\ ended' = ended \cup S
  /\ overtaken' = overtaken \cup {i \in S : \E r \in Requests : AtPc(r, "rewriting") /\ request[r].id = i}

-----------------------------------------------------------------------------
\* The manager.  A login with a cookie ends that session first.
endCurrent(r, i) ==
  /\ AtPc(r, "none")
  /\ End({i})
  /\ UNCHANGED <<store, hour, opened, lately>>

Login(r) ==
  /\ AtPc(r, "none")
  /\ Step(r, [Quiet EXCEPT !.pc = "inserting"])
  /\ UNCHANGED <<store, session, hour, opened, lately, ended, overtaken>>

Relogin(r, i) == endCurrent(r, i) /\ Step(r, [Quiet EXCEPT !.pc = "inserting"])

create(r) ==
  /\ AtPc(r, "inserting")
  /\ \E i \in SessionIds \ Given :
       /\ \A j \in SessionIds \ Given : i <= j
       /\ Put(i, [lastSeenAt |-> hour, expiresAt |-> hour + AbsoluteMs])
       /\ opened' = [opened EXCEPT ![i] = hour]
       /\ lately' = [lately EXCEPT ![i] = hour]
  /\ Step(r, Quiet)
  /\ UNCHANGED <<store, hour, ended, overtaken>>

destroy(r, i) == endCurrent(r, i) /\ UNCHANGED request

destroyAllFor ==
  /\ store = "database"
  /\ End(Given)
  /\ UNCHANGED <<store, request, hour, opened, lately>>

\* deleteExpired runs with a clock reading taken when it was called.
Lapsed(record, now) == now >= record.expiresAt \/ now - record.lastSeenAt > IdleMs
deleteExpired(i, now, idleBefore) ==
  session[i] # NoOne /\ (session[i].expiresAt <= now \/ session[i].lastSeenAt < idleBefore)

Purge(r) ==
  /\ store = "database" /\ AtPc(r, "none")
  /\ Step(r, [Quiet EXCEPT !.pc = "purging", !.now = hour])
  /\ UNCHANGED <<store, session, hour, opened, lately, ended, overtaken>>

purgeExpired(r) ==
  /\ AtPc(r, "purging")
  /\ LET now == request[r].now
     IN session' = [i \in SessionIds |-> IF deleteExpired(i, now, now - IdleMs) THEN NoOne ELSE session[i]]
  /\ Step(r, Quiet)
  /\ UNCHANGED <<store, hour, opened, lately, ended, overtaken>>

-----------------------------------------------------------------------------
\* strategy(): find, load the principal, touch, with the clock read after find.
Find(r, i) ==
  /\ AtPc(r, "none") /\ i \in Given
  /\ Step(r, [pc |-> "found", id |-> i, record |-> find(i), now |-> 0])
  /\ UNCHANGED <<store, session, hour, opened, lately, ended, overtaken>>

Judge(r) ==
  /\ AtPc(r, "found")
  /\ LET record == request[r].record
     IN Step(r, IF record = NoOne THEN Quiet
                ELSE IF Lapsed(record, hour) THEN [Quiet EXCEPT !.pc = "refused", !.id = request[r].id]
                ELSE [request[r] EXCEPT !.now = hour, !.pc = "loading"])
  /\ UNCHANGED <<store, session, hour, opened, lately, ended, overtaken>>

\* The user may be gone; otherwise the request is authenticated, and may touch.
Principal(r, known) ==
  /\ AtPc(r, "loading")
  /\ LET q == request[r]
     IN /\ Step(r, IF ~ known THEN [Quiet EXCEPT !.pc = "refused", !.id = q.id]
                   ELSE IF q.now - q.record.lastSeenAt >= TouchMs
                   THEN [q EXCEPT !.pc = "touching", !.record = NoOne]
                   ELSE Quiet)
        /\ lately' = [lately EXCEPT ![q.id] = IF known /\ q.now > @ THEN q.now ELSE @]
  /\ UNCHANGED <<store, session, hour, opened, ended, overtaken>>

\* A session found expired, or without its user, is deleted.
Refuse(r) ==
  /\ AtPc(r, "refused")
  /\ session' = [session EXCEPT ![request[r].id] = NoOne]
  /\ Step(r, Quiet)
  /\ UNCHANGED <<store, hour, opened, lately, ended, overtaken>>

\* touch of the database store: one update, of a row that may be gone.
\* Mutant: it inserts the row when there is none.
updateOrInsert(row, now) == [lastSeenAt |-> now, expiresAt |-> now + AbsoluteMs]
update(row, now) == IF row = NoOne THEN NoOne ELSE [row EXCEPT !.lastSeenAt = now]

touch(r) ==
  /\ AtPc(r, "touching") /\ store = "database"
  /\ LET i == request[r].id IN Put(i, update(session[i], request[r].now))
  /\ Step(r, Quiet)
  /\ UNCHANGED <<store, hour, opened, lately, ended, overtaken>>

\* touch of the cache store: find, and after the await insert what was found.
touchFind(r) ==
  /\ AtPc(r, "touching") /\ store = "cache"
  /\ Step(r, IF find(request[r].id) = NoOne THEN Quiet
             ELSE [request[r] EXCEPT !.pc = "rewriting", !.record = find(request[r].id)])
  /\ UNCHANGED <<store, session, hour, opened, lately, ended, overtaken>>

touchInsert(r) ==
  /\ AtPc(r, "rewriting")
  /\ Put(request[r].id, [request[r].record EXCEPT !.lastSeenAt = request[r].now])
  /\ Step(r, Quiet)
  /\ UNCHANGED <<store, hour, opened, lately, ended, overtaken>>

\* The cache drops entries: at their expiry, or to make room.
Evict(i) ==
  /\ store = "cache" /\ session[i] # NoOne
  /\ session' = [session EXCEPT ![i] = NoOne]
  /\ UNCHANGED <<store, request, hour, opened, lately, ended, overtaken>>

SessionsTick == hour < Dawn /\ hour' = hour + 1 /\ UNCHANGED <<store, session, request, opened, lately, ended, overtaken>>

strategy(r) == Judge(r) \/ (\E known \in BOOLEAN : Principal(r, known)) \/ Refuse(r)
               \/ touch(r) \/ touchFind(r) \/ touchInsert(r)

SessionsNext ==
  \/ \E r \in Requests : \/ Login(r) \/ create(r) \/ Purge(r) \/ purgeExpired(r) \/ strategy(r)
                         \/ \E i \in Given : Relogin(r, i) \/ destroy(r, i) \/ Find(r, i)
  \/ \E i \in SessionIds : Evict(i)
  \/ destroyAllFor \/ SessionsTick

SessionsSpec == SessionsInit /\ [][SessionsNext]_sessionVars

-----------------------------------------------------------------------------
\* Properties.

\* An ended session stays ended, and a session fixed before a login is not valid
\* after it.  Only the cache store can break that, and only when the session ended
\* inside one of its touches (store.ts:118), whose insert brings it back.
EndedStaysEnded ==
  \A i \in ended' : session'[i] # NoOne => store = "cache" /\ i \in overtaken'

\* No request is authenticated at or after the instant fixed at the login, nor
\* when the user was away for longer than the idle limit: whatever touches of
\* requests that overlap write, and also for a session that was brought back.
WithinLimits ==
  \A r \in Requests :
    LET q == request[r]
    IN Principal(r, TRUE) => /\ q.now < opened[q.id] + AbsoluteMs
                             /\ q.now <= lately[q.id] + IdleMs

\* The purge deletes a session only if a request at the purge's clock reading would
\* have been refused (the two conditions are written separately, store.ts:97 and
\* manager.ts:96), and never because of a clock reading that a touch overtook.
PurgesTheDead ==
  \A r \in Requests, i \in SessionIds :
    purgeExpired(r) /\ session[i] # NoOne /\ session'[i] = NoOne =>
      Lapsed(session[i], request[r].now)

\* What the manager promises, whichever store it has.
SessionsEnd == [][EndedStaysEnded /\ WithinLimits /\ PurgesTheDead]_sessionVars
=============================================================================

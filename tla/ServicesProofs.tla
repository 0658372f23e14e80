--------------------------- MODULE ServicesProofs ---------------------------
(***************************************************************************)
(* Proofs about the services that requests share.  Sessions, for any       *)
(* tokens, requests, time limits and either store: type correctness, and   *)
(* what the manager promises (SessionsEnd).  Container, for any keys,      *)
(* wirings, lifetimes and scopes: no instance outlives what it uses, and   *)
(* each is disposed once (ScopesHold).  EventBus, for any buses,           *)
(* listeners and events: who hears what, and when (BusHolds).  RateLimit,  *)
(* for any visitors, instances, limits and windows: how many requests are  *)
(* let through, and what a client is told (LimitsHold).  Storage, for any  *)
(* clients, keys, bodies and page size: files and sidecars belong          *)
(* together, and lists are complete (StorageHolds).                        *)
(***************************************************************************)
EXTENDS Sessions, Container, EventBus, RateLimit, Storage, FiniteSetTheorems, WellFoundedInduction, TLAPS

-----------------------------------------------------------------------------
\* Sessions.

Stages == {"none", "inserting", "purging", "found", "loading", "refused", "touching", "rewriting"}
Handlers == [pc : Stages, id : SessionIds \cup {Quiet.id}, record : Records \cup {NoOne}, now : Int]

SessionsTypeOK ==
  /\ store \in {"database", "cache"}
  /\ session \in [SessionIds -> Records \cup {NoOne}]
  /\ request \in [Requests -> Handlers]
  /\ hour \in Int
  /\ opened \in [SessionIds -> Int \cup {NoOne}]
  /\ lately \in [SessionIds -> Int]
  /\ ended \subseteq SessionIds /\ overtaken \subseteq SessionIds

\* A record of session i, stored or read: the expiry fixed at its login, last seen no
\* later than its user was.
Fits(i, record) ==
  i \in Given /\ record.expiresAt = opened[i] + AbsoluteMs /\ record.lastSeenAt <= lately[i]

Stored == \A i \in SessionIds : session[i] # NoOne => Fits(i, session[i])

\* What the handler q has read, and what it may still write.
Carries(q) ==
  /\ q.pc \in {"found", "loading", "rewriting"} /\ q.record # NoOne => Fits(q.id, q.record)
  /\ q.pc \in {"loading", "rewriting"} => q.record # NoOne
  /\ q.pc \in {"loading", "touching", "rewriting"} => q.id \in Given
  /\ q.pc = "loading" => ~ Lapsed(q.record, q.now)
  /\ q.pc \in {"touching", "rewriting"} => q.now <= lately[q.id]

Held == \A r \in Requests : Carries(request[r])

\* The sessions that ended, and the touches that may bring one back.
Gone ==
  /\ ended \subseteq Given
  /\ \A i \in ended : session[i] # NoOne => store = "cache" /\ i \in overtaken
  /\ \A r \in Requests : AtPc(r, "rewriting") =>
       store = "cache" /\ (request[r].id \in ended => request[r].id \in overtaken)

SessionsInv == SessionsTypeOK /\ Stored /\ Held /\ Gone

\* A handler that has nothing in hand, but perhaps a clock reading.
LEMMA Idling ==
  /\ Quiet \in Handlers /\ Quiet.pc = "none"
  /\ \A pc \in Stages : [Quiet EXCEPT !.pc = pc] \in Handlers
  /\ \A pc \in Stages, now \in Int : [Quiet EXCEPT !.pc = pc, !.now = now] \in Handlers
  /\ \A pc \in Stages, i \in SessionIds \cup {Quiet.id} : [Quiet EXCEPT !.pc = pc, !.id = i] \in Handlers
<1> DEFINE id == Quiet.id
<1>1. Quiet = [pc |-> "none", id |-> id, record |-> NoOne, now |-> 0]
  BY DEF Quiet
<1>2. Handlers = [pc : Stages, id : SessionIds \cup {id}, record : Records \cup {NoOne}, now : Int] /\ id = Quiet.id
  BY DEF Handlers
<1> HIDE DEF id
<1>3. "none" \in Stages
  BY DEF Stages
<1>4. Quiet.pc = "none" /\ Quiet.record = NoOne /\ Quiet.now = 0
  BY <1>1
<1>5. Quiet \in Handlers
  BY <1>1, <1>2, <1>3
<1> QED
  BY <1>2, <1>4, <1>5

LEMMA SessionsInitHolds == SessionsInit => SessionsInv
<1> SUFFICES ASSUME SessionsInit PROVE SessionsInv
  OBVIOUS
<1>1. Quiet \in Handlers /\ Quiet.pc = "none"
  BY Idling DEF Stages
<1>2. SessionsTypeOK
  BY <1>1 DEF SessionsInit, SessionsTypeOK
<1>3. Stored /\ Held /\ Gone
  BY <1>1 DEF SessionsInit, Stored, Held, Carries, Gone, AtPc
<1> QED
  BY <1>2, <1>3 DEF SessionsInv

-----------------------------------------------------------------------------
\* Time goes on: a session keeps its login, and its user is seen no earlier.
ClocksOn == \A i \in Given : opened'[i] = opened[i] /\ lately'[i] >= lately[i]

\* What was known of a record is still known of it.
LEMMA FitsOn ==
  ASSUME SessionsTypeOK, SessionsTypeOK', ClocksOn, NEW i \in SessionIds, NEW record \in Records, Fits(i, record)
  PROVE  Fits(i, record)'
<1>1. i \in Given /\ opened'[i] = opened[i] /\ lately'[i] >= lately[i] /\ opened[i] # NoOne
  BY DEF ClocksOn, Fits, Given
<1>2. record.lastSeenAt \in Int /\ lately[i] \in Int /\ lately'[i] \in Int
  BY DEF SessionsTypeOK, Records
<1> QED
  BY <1>1, <1>2 DEF Fits, Given

\* A handler that is not the one that moves carries what it did.
LEMMA CarriesOn ==
  ASSUME SessionsTypeOK, SessionsTypeOK', ClocksOn, NEW q \in Handlers, Carries(q)
  PROVE  Carries(q)'
<1>1. q.id \in Given => q.id \in SessionIds /\ q.id \in Given' /\ lately'[q.id] >= lately[q.id]
  BY DEF ClocksOn, Given
<1>2. q.id \in Given => lately[q.id] \in Int /\ lately'[q.id] \in Int
  BY <1>1 DEF SessionsTypeOK
<1>3. ASSUME q.pc \in {"found", "loading", "rewriting"}, q.record # NoOne
      PROVE  Fits(q.id, q.record)'
  <2>1. Fits(q.id, q.record) /\ q.record \in Records
    BY <1>3 DEF Carries, Handlers
  <2> QED
    BY <2>1, FitsOn DEF Fits, Given
<1>4. q.now \in Int
  BY DEF Handlers
<1> QED
  BY <1>1, <1>2, <1>3, <1>4 DEF Carries

\* The step of one handler that stores nothing.
LEMMA StepSound ==
  ASSUME SessionsInv, SessionsTypeOK', ClocksOn, NEW r \in Requests,
         \A s \in Requests : s # r => request'[s] = request[s],
         Carries(request[r])', ~ AtPc(r, "rewriting")',
         UNCHANGED <<store, session, ended, overtaken>>
  PROVE  SessionsInv'
<1> USE DEF SessionsInv
<1>1. Stored'
  BY FitsOn DEF Stored, SessionsTypeOK
<1>2. Held'
  <2> SUFFICES ASSUME NEW s \in Requests PROVE Carries(request[s])'
    BY DEF Held
  <2>1. CASE s # r
    BY <2>1, CarriesOn DEF Held, SessionsTypeOK
  <2>2. CASE s = r
    BY <2>2
  <2> QED
    BY <2>1, <2>2
<1>3. Gone'
  <2>1. ended' \subseteq Given'
    BY DEF Gone, ClocksOn, Given
  <2> QED
    BY <2>1 DEF Gone, AtPc
<1> QED
  BY <1>1, <1>2, <1>3

-----------------------------------------------------------------------------
\* The manager's own steps.

LEMMA EndSound ==
  ASSUME SessionsInv, NEW S \in SUBSET Given, End(S), UNCHANGED <<store, hour, opened, lately>>,
         \/ UNCHANGED request
         \/ \E r \in Requests : Step(r, [Quiet EXCEPT !.pc = "inserting"])
  PROVE  SessionsInv'
<1> USE DEF SessionsInv
<1>1. [Quiet EXCEPT !.pc = "inserting"] \in Handlers
  BY Idling DEF Stages
<1>2. SessionsTypeOK'
  BY <1>1 DEF SessionsTypeOK, End, Step, Given
<1>3. Stored'
  BY DEF Stored, End, Fits, Given, SessionsTypeOK
<1>4. \A s \in Requests : request'[s] = request[s] \/ (request'[s].pc = "inserting" /\ ~ AtPc(s, "rewriting")')
  BY <1>1 DEF Step, SessionsTypeOK, AtPc, Quiet
<1>5. Held'
  BY <1>4 DEF Held, Carries, Fits, Given
<1>6. Gone'
  <2>1. ended' \subseteq Given'
    BY DEF Gone, End, Given
  <2>2. \A i \in ended' : session'[i] # NoOne => store' = "cache" /\ i \in overtaken'
    BY DEF Gone, End, Given
  <2>3. ASSUME NEW s \in Requests, AtPc(s, "rewriting")'
        PROVE  store' = "cache" /\ (request'[s].id \in ended' => request'[s].id \in overtaken')
    <3>1. request'[s] = request[s] /\ AtPc(s, "rewriting")
      BY <1>4, <2>3 DEF AtPc
    <3> QED
      BY <3>1 DEF Gone, End
  <2> QED
    BY <2>1, <2>2, <2>3 DEF Gone
<1> QED
  BY <1>2, <1>3, <1>5, <1>6

LEMMA LoginSound ==
  ASSUME SessionsInv, NEW r \in Requests, Login(r) \/ Purge(r)
  PROVE  SessionsInv'
<1>1. PICK q \in Handlers : Step(r, q) /\ q.pc \in {"inserting", "purging"}
  <2> DEFINE Now(pc) == [Quiet EXCEPT !.pc = pc, !.now = hour]
  <2>1. Now("purging") \in Handlers /\ [Quiet EXCEPT !.pc = "inserting"] \in Handlers
    BY Idling DEF SessionsInv, SessionsTypeOK, Stages
  <2>2. Now("purging").pc = "purging" /\ [Quiet EXCEPT !.pc = "inserting"].pc = "inserting"
    BY DEF Quiet
  <2> QED
    BY <2>1, <2>2 DEF Login, Purge
<1>2. SessionsTypeOK' /\ ClocksOn
  BY <1>1 DEF SessionsInv, SessionsTypeOK, Login, Purge, Step, ClocksOn, Given
<1>3. request'[r] = q /\ \A s \in Requests : s # r => request'[s] = request[s]
  BY <1>1 DEF SessionsInv, SessionsTypeOK, Step
<1>4. Carries(request[r])' /\ ~ AtPc(r, "rewriting")'
  BY <1>1, <1>3 DEF Carries, AtPc
<1> QED
  BY <1>2, <1>3, <1>4, StepSound DEF Login, Purge

LEMMA CreateSound ==
  ASSUME SessionsInv, NEW r \in Requests, create(r)
  PROVE  SessionsInv'
<1> USE DEF SessionsInv
<1>1. PICK i \in SessionIds \ Given :
        /\ session' = [session EXCEPT ![i] = [lastSeenAt |-> hour, expiresAt |-> hour + AbsoluteMs]]
        /\ opened' = [opened EXCEPT ![i] = hour]
        /\ lately' = [lately EXCEPT ![i] = hour]
  BY DEF create, Put
<1>2. Quiet \in Handlers /\ Quiet.pc = "none" /\ Step(r, Quiet)
  BY Idling DEF Stages, create
<1>3. [lastSeenAt |-> hour, expiresAt |-> hour + AbsoluteMs] \in Records /\ hour \in Int
  BY SpansAssumption DEF SessionsTypeOK, Records
<1>4. SessionsTypeOK'
  BY <1>1, <1>2, <1>3 DEF SessionsTypeOK, create, Step
<1>5. ClocksOn
  BY <1>1 DEF ClocksOn, Given, SessionsTypeOK
<1>6. Stored'
  <2> SUFFICES ASSUME NEW j \in SessionIds, session'[j] # NoOne PROVE Fits(j, session[j])'
    BY DEF Stored
  <2>1. CASE j = i
    BY <2>1, <1>1, <1>3, NoOneAssumption DEF Fits, Given, SessionsTypeOK
  <2>2. CASE j # i
    <3>1. session'[j] = session[j] /\ session[j] \in Records /\ Fits(j, session[j])
      BY <2>2, <1>1 DEF Stored, SessionsTypeOK
    <3> QED
      BY <3>1, <1>4, <1>5, FitsOn
  <2> QED
    BY <2>1, <2>2
<1>7. request'[r] = Quiet /\ \A s \in Requests : s # r => request'[s] = request[s]
  BY <1>2 DEF SessionsTypeOK, Step
<1>8. Held'
  <2> SUFFICES ASSUME NEW s \in Requests PROVE Carries(request[s])'
    BY DEF Held
  <2>1. CASE s # r
    BY <2>1, <1>4, <1>5, <1>7, CarriesOn DEF Held, SessionsTypeOK
  <2>2. CASE s = r
    BY <2>2, <1>2, <1>7 DEF Carries
  <2> QED
    BY <2>1, <2>2
<1>9. Gone'
  <2>1. i \notin ended /\ UNCHANGED <<store, ended, overtaken>> /\ ended' \subseteq Given'
    BY <1>5 DEF Gone, create, Given, ClocksOn
  <2> QED
    BY <2>1, <1>1, <1>2, <1>7 DEF Gone, AtPc, SessionsTypeOK
<1> QED
  BY <1>4, <1>6, <1>8, <1>9

\* Records that are deleted, by the purge, a refusal or the cache, are no loss.
LEMMA DeleteSound ==
  ASSUME SessionsInv, \A i \in SessionIds : session'[i] \in {session[i], NoOne},
         session' \in [SessionIds -> Records \cup {NoOne}],
         UNCHANGED <<store, hour, opened, lately, ended, overtaken>>,
         UNCHANGED request \/ \E r \in Requests : Step(r, Quiet)
  PROVE  SessionsInv'
<1> USE DEF SessionsInv
<1>1. Quiet \in Handlers /\ Quiet.pc = "none"
  BY Idling DEF Stages
<1>2. SessionsTypeOK'
  BY <1>1 DEF SessionsTypeOK, Step
<1>3. Stored'
  BY DEF Stored, Fits, Given
<1>4. \A s \in Requests : request'[s] = request[s] \/ (request'[s].pc = "none" /\ ~ AtPc(s, "rewriting")')
  BY <1>1 DEF Step, SessionsTypeOK, AtPc
<1>5. Held'
  BY <1>4 DEF Held, Carries, Fits, Given
<1>6. Gone'
  BY <1>4 DEF Gone, AtPc, Given, SessionsTypeOK
<1> QED
  BY <1>2, <1>3, <1>5, <1>6

LEMMA DeletersSound ==
  ASSUME SessionsInv,
         \/ \E r \in Requests : purgeExpired(r) \/ Refuse(r)
         \/ \E i \in SessionIds : Evict(i)
  PROVE  SessionsInv'
<1>1. CASE \E r \in Requests : purgeExpired(r)
  BY <1>1, DeleteSound DEF purgeExpired, SessionsInv, SessionsTypeOK
<1>2. CASE \E r \in Requests : Refuse(r)
  BY <1>2, DeleteSound DEF Refuse, SessionsInv, SessionsTypeOK
<1>3. CASE \E i \in SessionIds : Evict(i)
  BY <1>3, DeleteSound DEF Evict, SessionsInv, SessionsTypeOK
<1> QED
  BY <1>1, <1>2, <1>3

-----------------------------------------------------------------------------
\* strategy().

\* A handler that moves on with q, and whatever it stores elsewhere.
LEMMA MovedOn ==
  ASSUME SessionsInv, NEW r \in Requests, NEW q \in Handlers, Step(r, q)
  PROVE  /\ request' \in [Requests -> Handlers] /\ request'[r] = q
         /\ \A s \in Requests : s # r => request'[s] = request[s]
  BY DEF SessionsInv, SessionsTypeOK, Step

LEMMA FindSound ==
  ASSUME SessionsInv, NEW r \in Requests, NEW i \in Given, Find(r, i)
  PROVE  SessionsInv'
<1> DEFINE q == [pc |-> "found", id |-> i, record |-> session[i], now |-> 0]
<1>1. i \in SessionIds /\ q \in Handlers /\ Step(r, q)
  BY DEF SessionsInv, SessionsTypeOK, Given, Handlers, Stages, Find, find
<1>2. SessionsTypeOK' /\ ClocksOn
  BY <1>1, MovedOn DEF SessionsInv, SessionsTypeOK, Find, ClocksOn, Given
<1>3. Carries(q)'
  BY <1>1 DEF SessionsInv, Stored, Carries, Fits, Given, Find
<1> QED
  BY <1>1, <1>2, <1>3, MovedOn, StepSound DEF Find, AtPc

LEMMA JudgeSound ==
  ASSUME SessionsInv, NEW r \in Requests, Judge(r)
  PROVE  SessionsInv'
<1> DEFINE old == request[r]
<1>1. old \in Handlers /\ old.pc = "found" /\ Carries(old) /\ hour \in Int
  BY DEF SessionsInv, SessionsTypeOK, Held, Judge, AtPc
<1>2. UNCHANGED <<store, session, hour, opened, lately, ended, overtaken>> /\ ClocksOn
  BY DEF Judge, ClocksOn, SessionsInv, SessionsTypeOK, Given
<1>3. ASSUME NEW q \in Handlers, Step(r, q), q.pc # "rewriting", Carries(q)
      PROVE  SessionsInv'
  <2>1. SessionsTypeOK'
    BY <1>2, <1>3, MovedOn DEF SessionsInv, SessionsTypeOK
  <2>2. Carries(q)'
    BY <1>2, <1>3, <2>1, CarriesOn DEF SessionsInv
  <2> QED
    BY <1>2, <1>3, <2>1, <2>2, MovedOn, StepSound DEF AtPc
<1>4. CASE old.record = NoOne
  BY <1>3, <1>4, Idling DEF Judge, Carries, Stages
<1>5. CASE old.record # NoOne /\ Lapsed(old.record, hour)
  <2> DEFINE q == [Quiet EXCEPT !.pc = "refused", !.id = old.id]
  <2>1. q \in Handlers /\ q.pc = "refused"
    <3>1. old.id \in SessionIds \cup {Quiet.id} /\ "refused" \in Stages
      BY <1>1 DEF Handlers, Stages
    <3>2. q \in Handlers
      BY <3>1, Idling
    <3>3. q.pc = "refused"
      BY Idling DEF Handlers
    <3> QED
      BY <3>2, <3>3
  <2> QED
    BY <1>3, <1>5, <2>1 DEF Judge, Carries
<1>6. CASE old.record # NoOne /\ ~ Lapsed(old.record, hour)
  <2> DEFINE q == [old EXCEPT !.now = hour, !.pc = "loading"]
  <2>1. q \in Handlers /\ q.pc = "loading" /\ q.record = old.record /\ q.id = old.id /\ q.now = hour
    BY <1>1 DEF Handlers, Stages
  <2>2. Carries(q)
    BY <1>1, <1>6, <2>1 DEF Carries, Fits
  <2>3. Step(r, q)
    BY <1>6 DEF Judge
  <2> QED
    BY <1>3, <2>1, <2>2, <2>3
<1> QED
  BY <1>4, <1>5, <1>6

LEMMA PrincipalSound ==
  ASSUME SessionsInv, NEW r \in Requests, NEW known \in BOOLEAN, Principal(r, known)
  PROVE  SessionsInv'
<1> DEFINE old == request[r]
<1>1. old \in Handlers /\ old.pc = "loading" /\ Carries(old) /\ old.id \in SessionIds /\ old.id \in Given
  BY DEF SessionsInv, SessionsTypeOK, Held, Principal, AtPc, Carries, Given
<1>2. old.now \in Int /\ lately[old.id] \in Int
  BY <1>1 DEF Handlers, SessionsInv, SessionsTypeOK
<1>3. lately' = [lately EXCEPT ![old.id] = IF known /\ old.now > @ THEN old.now ELSE @]
  BY DEF Principal
<1>4. /\ lately' \in [SessionIds -> Int] /\ (known => lately'[old.id] >= old.now)
      /\ \A i \in SessionIds : lately'[i] >= lately[i]
  BY <1>1, <1>2, <1>3 DEF SessionsInv, SessionsTypeOK
<1>5. UNCHANGED <<store, session, hour, opened, ended, overtaken>> /\ ClocksOn
  BY <1>4 DEF Principal, ClocksOn, Given
<1>6. ASSUME NEW q \in Handlers, Step(r, q), q.pc \in {"none", "refused", "touching"},
             q.pc = "touching" => known /\ q.id = old.id /\ q.now = old.now
      PROVE  SessionsInv'
  <2>1. SessionsTypeOK'
    BY <1>4, <1>5, <1>6, MovedOn DEF SessionsInv, SessionsTypeOK
  <2>2. Carries(q)'
    BY <1>1, <1>2, <1>4, <1>5, <1>6 DEF Carries, Given
  <2> QED
    BY <1>5, <1>6, <2>1, <2>2, MovedOn, StepSound DEF AtPc
<1>7. CASE ~ known
  <2> DEFINE q == [Quiet EXCEPT !.pc = "refused", !.id = old.id]
  <2>1. q \in Handlers
    BY <1>1, Idling DEF Stages
  <2>2. q.pc = "refused"
    BY Idling DEF Handlers
  <2> QED
    BY <1>6, <1>7, <2>1, <2>2 DEF Principal
<1>8. CASE known /\ old.now - old.record.lastSeenAt >= TouchMs
  <2> DEFINE q == [old EXCEPT !.pc = "touching", !.record = NoOne]
  <2>1. q \in Handlers /\ q.pc = "touching" /\ q.id = old.id /\ q.now = old.now
    BY <1>1 DEF Handlers, Stages
  <2>2. Step(r, q)
    BY <1>8 DEF Principal
  <2> QED
    BY <1>6, <1>8, <2>1, <2>2
<1>9. CASE known /\ ~ (old.now - old.record.lastSeenAt >= TouchMs)
  BY <1>6, <1>9, Idling DEF Principal
<1> QED
  BY <1>7, <1>8, <1>9

\* touch of either store: what is written is a record of the session that was seen again,
\* and one that ended comes back only if it ended inside a touch of the cache store.
LEMMA WriteSound ==
  ASSUME SessionsInv, NEW r \in Requests, NEW i \in SessionIds, NEW record \in Records \cup {NoOne},
         Put(i, record), Step(r, Quiet), UNCHANGED <<store, hour, opened, lately, ended, overtaken>>,
         record # NoOne => Fits(i, record),
         record # NoOne /\ i \in ended => store = "cache" /\ i \in overtaken
  PROVE  SessionsInv'
<1> USE DEF SessionsInv
<1>1. request' \in [Requests -> Handlers] /\ Quiet.pc = "none"
      /\ \A s \in Requests : request'[s] = request[s] \/ request'[s] = Quiet
  BY Idling, MovedOn
<1>2. SessionsTypeOK'
  BY <1>1 DEF SessionsTypeOK, Put
<1>3. Stored'
  BY DEF Stored, Put, SessionsTypeOK, Fits, Given
<1>4. Held'
  BY <1>1 DEF Held, Carries, Fits, Given
<1>5. Gone'
  BY <1>1 DEF Gone, AtPc, Given, SessionsTypeOK, Put
<1> QED
  BY <1>2, <1>3, <1>4, <1>5

LEMMA TouchSound ==
  ASSUME SessionsInv, NEW r \in Requests, touch(r) \/ touchInsert(r)
  PROVE  SessionsInv'
<1> DEFINE old == request[r]
<1>1. old \in Handlers /\ Carries(old) /\ old.pc \in {"touching", "rewriting"}
  BY DEF SessionsInv, SessionsTypeOK, Held, touch, touchInsert, AtPc
<1>2. old.id \in SessionIds /\ old.id \in Given /\ old.now \in Int /\ old.now <= lately[old.id]
  BY <1>1 DEF Carries, Given, Handlers
<1>3. ASSUME NEW record \in Records
      PROVE  [record EXCEPT !.lastSeenAt = old.now] \in Records
  BY <1>2 DEF Records
<1>4. CASE touch(r)
  <2> DEFINE record == update(session[old.id], old.now)
  <2>1. session[old.id] \in Records \cup {NoOne}
    BY <1>2 DEF SessionsInv, SessionsTypeOK
  <2>2. CASE session[old.id] = NoOne
    BY <1>2, <1>4, <2>2, WriteSound DEF touch, update
  <2>3. CASE session[old.id] # NoOne
    <3>1. record = [session[old.id] EXCEPT !.lastSeenAt = old.now] /\ record \in Records
      BY <1>3, <2>1, <2>3 DEF update
    <3>2. Fits(old.id, record)
      BY <1>2, <2>1, <2>3, <3>1 DEF SessionsInv, Stored, Fits, Records
    <3>3. old.id \notin ended \/ (store = "cache" /\ old.id \in overtaken)
      BY <2>3 DEF SessionsInv, Gone
    <3>4. Put(old.id, record) /\ Step(r, Quiet) /\ UNCHANGED <<store, hour, opened, lately, ended, overtaken>>
      BY <1>4 DEF touch
    <3> HIDE DEF record
    <3> QED
      BY <1>2, <3>1, <3>2, <3>3, <3>4, WriteSound
  <2> QED
    BY <2>2, <2>3
<1>5. CASE touchInsert(r)
  <2> DEFINE record == [old.record EXCEPT !.lastSeenAt = old.now]
  <2>1. old.pc = "rewriting" /\ old.record # NoOne /\ old.record \in Records /\ Fits(old.id, old.record)
    BY <1>1, <1>5 DEF touchInsert, AtPc, Carries, Handlers
  <2>2. record \in Records /\ Fits(old.id, record)
    BY <1>2, <1>3, <2>1 DEF Fits, Records
  <2>3. old.id \notin ended \/ (store = "cache" /\ old.id \in overtaken)
    BY <2>1 DEF SessionsInv, Gone, AtPc
  <2>4. Put(old.id, record) /\ Step(r, Quiet) /\ UNCHANGED <<store, hour, opened, lately, ended, overtaken>>
    BY <1>5 DEF touchInsert
  <2> HIDE DEF record
  <2> QED
    BY <1>2, <2>2, <2>3, <2>4, WriteSound
<1> QED
  BY <1>4, <1>5

LEMMA TouchFindSound ==
  ASSUME SessionsInv, NEW r \in Requests, touchFind(r)
  PROVE  SessionsInv'
<1> USE DEF SessionsInv
<1> DEFINE old == request[r]
           found == session[old.id]
           q == [old EXCEPT !.pc = "rewriting", !.record = found]
<1>1. old \in Handlers /\ Carries(old) /\ old.pc = "touching" /\ store = "cache"
  BY DEF SessionsTypeOK, Held, touchFind, AtPc
<1>2. old.id \in SessionIds /\ old.id \in Given /\ found \in Records \cup {NoOne}
  BY <1>1 DEF Carries, Given, SessionsTypeOK
<1>3. UNCHANGED <<store, session, hour, opened, lately, ended, overtaken>>
  BY DEF touchFind
<1>4. CASE found = NoOne
  BY <1>3, <1>4, DeleteSound DEF touchFind, find, SessionsTypeOK
<1>5. CASE found # NoOne
  <2>1. Step(r, q) /\ q \in Handlers
    BY <1>1, <1>2, <1>5 DEF touchFind, find, Handlers, Stages
  <2>2. q.pc = "rewriting" /\ q.record = found /\ q.id = old.id /\ q.now = old.now
    BY <1>1 DEF Handlers
  <2>3. request' \in [Requests -> Handlers] /\ request'[r] = q
        /\ \A s \in Requests : s # r => request'[s] = request[s]
    BY <2>1, MovedOn
  <2> HIDE DEF q
  <2>4. Carries(q)
    BY <1>1, <1>2, <1>5, <2>2 DEF Carries, Stored
  <2>5. SessionsTypeOK' /\ Stored'
    BY <1>3, <2>3 DEF SessionsTypeOK, Stored, Fits, Given
  <2>6. Held'
    BY <1>3, <2>3, <2>4 DEF Held, Carries, Fits, Given
  <2>7. Gone'
    BY <1>1, <1>2, <1>3, <1>5, <2>2, <2>3 DEF Gone, AtPc, Given
  <2> QED
    BY <2>5, <2>6, <2>7
<1> QED
  BY <1>4, <1>5

LEMMA TickSound == ASSUME SessionsInv, SessionsTick PROVE SessionsInv'
  BY DEF SessionsInv, SessionsTick, SessionsTypeOK, Stored, Held, Carries, Gone, Fits, Given, AtPc

LEMMA EndersSound ==
  ASSUME SessionsInv,
         \/ destroyAllFor
         \/ \E r \in Requests, i \in Given : Relogin(r, i) \/ destroy(r, i)
  PROVE  SessionsInv'
<1>1. CASE destroyAllFor
  BY <1>1, EndSound DEF destroyAllFor
<1>2. CASE \E r \in Requests, i \in Given : Relogin(r, i) \/ destroy(r, i)
  BY <1>2, EndSound DEF Relogin, destroy, endCurrent
<1> QED
  BY <1>1, <1>2

LEMMA SessionsNextSound == ASSUME SessionsInv, SessionsNext PROVE SessionsInv'
<1>1. CASE \E r \in Requests : Login(r) \/ create(r) \/ Purge(r)
  BY <1>1, LoginSound, CreateSound
<1>2. CASE (\E r \in Requests : purgeExpired(r) \/ Refuse(r)) \/ (\E i \in SessionIds : Evict(i))
  BY <1>2, DeletersSound
<1>3. CASE \E r \in Requests : Judge(r) \/ \E known \in BOOLEAN : Principal(r, known)
  BY <1>3, JudgeSound, PrincipalSound
<1>4. CASE \E r \in Requests : touch(r) \/ touchFind(r) \/ touchInsert(r)
  BY <1>4, TouchSound, TouchFindSound
<1>5. CASE \E r \in Requests : \E i \in Given : Find(r, i)
  BY <1>5, FindSound
<1>6. CASE destroyAllFor \/ \E r \in Requests, i \in Given : Relogin(r, i) \/ destroy(r, i)
  BY <1>6, EndersSound
<1>7. CASE SessionsTick
  BY <1>7, TickSound
<1> QED
  BY <1>1, <1>2, <1>3, <1>4, <1>5, <1>6, <1>7 DEF SessionsNext, strategy

LEMMA SessionsInvariance == SessionsSpec => []SessionsInv
<1>1. SessionsInv /\ [SessionsNext]_sessionVars => SessionsInv'
  <2>1. SessionsInv /\ UNCHANGED sessionVars => SessionsInv'
    BY DEF SessionsInv, sessionVars, SessionsTypeOK, Stored, Held, Carries, Gone, Fits, Given, AtPc
  <2> QED
    BY <2>1, SessionsNextSound
<1> QED
  BY <1>1, SessionsInitHolds, PTL DEF SessionsSpec

-----------------------------------------------------------------------------
\* Whatever requests do at once, stored records and those handlers have read across an await
\* keep their types (manager.ts).
THEOREM SessionsTypeCorrect == SessionsSpec => []SessionsTypeOK
<1>1. SessionsInv => SessionsTypeOK
  BY DEF SessionsInv
<1> QED
  BY <1>1, SessionsInvariance, PTL

\* The manager keeps what it promises, for any number of sessions and overlapping requests and
\* any limits: an ended session stays ended but for the cache store's touch, nobody is
\* authenticated beyond a limit, and the purge deletes what a request would refuse (manager.ts, store.ts).
THEOREM SessionsCorrect == SessionsSpec => SessionsEnd
<1>1. ASSUME SessionsInv, SessionsInv', [SessionsNext]_sessionVars
      PROVE  [EndedStaysEnded /\ WithinLimits /\ PurgesTheDead]_sessionVars
  <2> SUFFICES ASSUME SessionsNext PROVE EndedStaysEnded /\ WithinLimits /\ PurgesTheDead
    BY <1>1
  <2>1. EndedStaysEnded
    <3>1. store' = store
      BY DEF SessionsNext, strategy, Login, create, Purge, purgeExpired, Judge, Principal, Refuse, touch, touchFind,
             touchInsert, Relogin, destroy, endCurrent, Find, Evict, destroyAllFor, SessionsTick
    <3> QED
      BY <1>1, <3>1 DEF SessionsInv, Gone, EndedStaysEnded
  <2>2. WithinLimits
    <3> SUFFICES ASSUME NEW r \in Requests, Principal(r, TRUE)
                 PROVE  /\ request[r].now < opened[request[r].id] + AbsoluteMs
                        /\ request[r].now <= lately[request[r].id] + IdleMs
      BY DEF WithinLimits
    <3> DEFINE q == request[r]
    <3>1. q \in Handlers /\ q.pc = "loading" /\ Carries(q)
      BY <1>1 DEF SessionsInv, SessionsTypeOK, Held, Principal, AtPc
    <3>2. q.record \in Records /\ Fits(q.id, q.record) /\ ~ Lapsed(q.record, q.now) /\ q.id \in SessionIds
      BY <3>1 DEF Carries, Handlers, Fits, Given
    <3>3. q.now \in Int /\ lately[q.id] \in Int /\ q.record.lastSeenAt \in Int /\ q.record.expiresAt \in Int
      BY <1>1, <3>1, <3>2 DEF Handlers, SessionsInv, SessionsTypeOK, Records
    <3> QED
      BY <3>2, <3>3, SpansAssumption DEF Lapsed, Fits
  <2>3. PurgesTheDead
    <3> SUFFICES ASSUME NEW r \in Requests, NEW i \in SessionIds,
                        purgeExpired(r), session[i] # NoOne, session'[i] = NoOne
                 PROVE  Lapsed(session[i], request[r].now)
      BY DEF PurgesTheDead
    <3>1. deleteExpired(i, request[r].now, request[r].now - IdleMs)
      BY DEF purgeExpired
    <3>2. session[i] \in Records /\ request[r].now \in Int
      BY <1>1 DEF SessionsInv, SessionsTypeOK, Handlers
    <3> QED
      BY <3>1, <3>2, SpansAssumption DEF deleteExpired, Lapsed, Records
  <2> QED
    BY <2>1, <2>2, <2>3
<1> QED
  BY <1>1, SessionsInvariance, PTL DEF SessionsSpec, SessionsEnd
-----------------------------------------------------------------------------
\* Sequences.

LEMMA EveryElement ==
  ASSUME NEW S, NEW s \in Seq(S)
  PROVE  /\ DOMAIN s = 1 .. Len(s) /\ Len(s) \in Nat
         /\ \A n \in 1 .. Len(s) : s[n] \in ToSet(s)
         /\ ToSet(s) \subseteq S
BY DEF ToSet

LEMMA Appended ==
  ASSUME NEW S, NEW s \in Seq(S), NEW x \in S
  PROVE  /\ Append(s, x) \in Seq(S) /\ Len(Append(s, x)) = Len(s) + 1
         /\ DOMAIN Append(s, x) = 1 .. (Len(s) + 1)
         /\ \A n \in 1 .. Len(s) : Append(s, x)[n] = s[n]
         /\ Append(s, x)[Len(s) + 1] = x
         /\ ToSet(Append(s, x)) = ToSet(s) \cup {x}
<1>1. Append(s, x) \in Seq(S) /\ Len(Append(s, x)) = Len(s) + 1 /\ Len(s) \in Nat
  OBVIOUS
<1>2. \A n \in 1 .. Len(s) : Append(s, x)[n] = s[n]
  OBVIOUS
<1>3. Append(s, x)[Len(s) + 1] = x
  OBVIOUS
<1>4. DOMAIN Append(s, x) = 1 .. (Len(s) + 1) /\ DOMAIN s = 1 .. Len(s)
  BY <1>1
<1>5. 1 .. (Len(s) + 1) = (1 .. Len(s)) \cup {Len(s) + 1}
  BY <1>1
<1>6. ToSet(Append(s, x)) = ToSet(s) \cup {x}
  BY <1>2, <1>3, <1>4, <1>5 DEF ToSet
<1> QED
  BY <1>1, <1>2, <1>3, <1>4, <1>6

LEMMA Shortened ==
  ASSUME NEW S, NEW s \in Seq(S), s # <<>>
  PROVE  /\ Len(s) \in Nat \ {0}
         /\ Head(s) = s[1] /\ Head(s) \in S
         /\ Tail(s) \in Seq(S) /\ Len(Tail(s)) = Len(s) - 1
         /\ DOMAIN Tail(s) = 1 .. (Len(s) - 1)
         /\ \A n \in 1 .. (Len(s) - 1) : Tail(s)[n] = s[n + 1]
         /\ ToSet(s) = ToSet(Tail(s)) \cup {Head(s)}
<1>1. /\ Len(s) \in Nat \ {0} /\ Head(s) = s[1] /\ Head(s) \in S
      /\ Tail(s) \in Seq(S) /\ Len(Tail(s)) = Len(s) - 1
  OBVIOUS
<1>2. \A n \in 1 .. (Len(s) - 1) : Tail(s)[n] = s[n + 1]
  OBVIOUS
<1>3. DOMAIN s = 1 .. Len(s) /\ DOMAIN Tail(s) = 1 .. (Len(s) - 1)
  BY <1>1
<1>4. ASSUME NEW n \in DOMAIN s
      PROVE  s[n] \in ToSet(Tail(s)) \cup {Head(s)}
  <2>1. CASE n = 1
    BY <1>1, <2>1
  <2>2. CASE n # 1
    <3>1. n - 1 \in DOMAIN Tail(s) /\ s[(n - 1) + 1] = s[n]
      BY <1>1, <1>3, <1>4, <2>2
    <3> QED
      BY <1>2, <1>3, <3>1 DEF ToSet
  <2> QED
    BY <2>1, <2>2
<1>5. \A n \in DOMAIN Tail(s) : n + 1 \in DOMAIN s
  BY <1>1, <1>3
<1>6. ToSet(Tail(s)) \cup {Head(s)} \subseteq ToSet(s)
  BY <1>1, <1>2, <1>3, <1>5 DEF ToSet
<1>7. ToSet(s) \subseteq ToSet(Tail(s)) \cup {Head(s)}
  BY <1>4 DEF ToSet
<1> QED
  BY <1>1, <1>2, <1>3, <1>6, <1>7

LEMMA Fronted ==
  ASSUME NEW S, NEW s \in Seq(S), s # <<>>
  PROVE  /\ Last(s) = s[Len(s)] /\ Last(s) \in S
         /\ Front(s) \in Seq(S) /\ Len(Front(s)) = Len(s) - 1
         /\ DOMAIN Front(s) = 1 .. (Len(s) - 1)
         /\ \A n \in 1 .. (Len(s) - 1) : Front(s)[n] = s[n]
<1>1. Len(s) \in Nat \ {0} /\ Last(s) = s[Len(s)] /\ s[Len(s)] \in S
  BY DEF Last
<1>2. \A k \in 0 .. Len(s) : /\ SubSeq(s, 1, k) \in Seq(S) /\ Len(SubSeq(s, 1, k)) = k
                           /\ \A n \in 1 .. k : SubSeq(s, 1, k)[n] = s[n]
  BY <1>1
<1>3. Front(s) \in Seq(S) /\ Len(Front(s)) = Len(s) - 1 /\ \A n \in 1 .. (Len(s) - 1) : Front(s)[n] = s[n]
  <2> DEFINE k == Len(s) - 1
  <2>1. k \in 0 .. Len(s)
    BY <1>1
  <2>2. Front(s) = SubSeq(s, 1, k)
    BY DEF Front
  <2> HIDE DEF k
  <2>3. Front(s) \in Seq(S) /\ Len(Front(s)) = k /\ \A n \in 1 .. k : Front(s)[n] = s[n]
    BY <1>2, <2>1, <2>2
  <2> QED
    BY <2>3 DEF k
<1>4. DOMAIN Front(s) = 1 .. (Len(s) - 1)
  BY <1>3
<1> QED
  BY <1>1, <1>3, <1>4

LEMMA Reversed ==
  ASSUME NEW S, NEW s \in Seq(S)
  PROVE  /\ Reverse(s) \in Seq(S) /\ Len(Reverse(s)) = Len(s)
         /\ DOMAIN Reverse(s) = 1 .. Len(s)
         /\ \A n \in 1 .. Len(s) : Reverse(s)[n] = s[(Len(s) - n) + 1]
         /\ ToSet(Reverse(s)) = ToSet(s)
<1>1. Len(s) \in Nat /\ DOMAIN s = 1 .. Len(s)
  OBVIOUS
<1>2. \A n \in 1 .. Len(s) : (Len(s) - n) + 1 \in 1 .. Len(s) /\ (Len(s) - ((Len(s) - n) + 1)) + 1 = n
  BY <1>1
<1>3. Reverse(s) \in [1 .. Len(s) -> S]
  BY <1>1, <1>2 DEF Reverse
<1>4. Reverse(s) \in Seq(S) /\ Len(Reverse(s)) = Len(s) /\ DOMAIN Reverse(s) = 1 .. Len(s)
  BY <1>1, <1>3
<1>5. \A n \in 1 .. Len(s) : Reverse(s)[n] = s[(Len(s) - n) + 1]
  BY DEF Reverse
<1>6. ToSet(Reverse(s)) \subseteq ToSet(s)
  BY <1>1, <1>2, <1>4, <1>5 DEF ToSet
<1>7. \A n \in 1 .. Len(s) : Reverse(s)[(Len(s) - n) + 1] = s[n]
  BY <1>2, <1>5
<1>8. ToSet(s) \subseteq ToSet(Reverse(s))
  BY <1>1, <1>2, <1>4, <1>7 DEF ToSet
<1> QED
  BY <1>4, <1>5, <1>6, <1>8

LEMMA FirstOnes ==
  ASSUME NEW S, NEW s \in Seq(S), NEW n \in DOMAIN s
  PROVE  ToSet(SubSeq(s, 1, n)) = {s[m] : m \in 1 .. n}
<1>1. n \in 1 .. Len(s) /\ Len(s) \in Nat
  OBVIOUS
<1>2. /\ SubSeq(s, 1, n) \in Seq(S) /\ Len(SubSeq(s, 1, n)) = n
      /\ \A m \in 1 .. n : SubSeq(s, 1, n)[m] = s[m]
  BY <1>1
<1>3. DOMAIN SubSeq(s, 1, n) = 1 .. n
  BY <1>1, <1>2
<1> QED
  BY <1>2, <1>3 DEF ToSet

-----------------------------------------------------------------------------
\* Container.

Instance == [key : Tokens, home : Scopes, uses : SUBSET Nat, owned : BOOLEAN]
Frame == [key : Tokens, at : Scopes, todo : Seq(Tokens), got : Seq(Nat)]

ContainerTypeOK ==
  /\ wiring \in [Tokens -> Seq(Tokens)]
  /\ registrations \in [Tokens -> Kinds]
  /\ held \in [Scopes -> [Tokens -> Nat]]
  /\ created \in [Scopes -> Seq(Nat)]
  /\ made \in Seq(Instance)
  /\ calls \in Seq(Frame)
  /\ answer \in Nat \cup {Thrown}
  /\ phase \in [Scopes -> {"new", "open", "disposing", "disposed", "failed"}]
  /\ toDispose \in [Scopes -> Seq(Nat)]
  /\ released \in Seq(Nat)

\* An instance that create() at scope s may be given: of its own scope or of the root, and
\* not on its way out.
Usable(v, s) ==
  /\ v \in DOMAIN made /\ made[v].home \in {Root, s}
  /\ made[v].owned => v \in ToSet(created[made[v].home])

\* What a scope holds it made, under that key.
Holding == \A s \in Scopes : \A k \in Tokens : held[s][k] # NoInstance =>
  Usable(held[s][k], s) /\ made[held[s][k]].home = s

\* A create() under way makes the only instance of its key in its scope.
Begun(c) ==
  /\ \A v \in ToSet(c.got) : Usable(v, c.at)
  /\ ~ Owned(c.key) => c.got = <<>> /\ c.todo = <<>>
  /\ Lifetime(c.key) # "transient" => held[c.at][c.key] = NoInstance

Nested ==
  /\ \A n \in DOMAIN calls : Begun(calls[n])
  /\ \A n \in 1 .. Len(calls) - 1 : calls[n].todo # <<>> /\ calls[n + 1].at \in {Root, calls[n].at}
  /\ \A m, n \in DOMAIN calls : calls[m].key = calls[n].key => m = n
  /\ answer > NoInstance => ~ Idle /\ Top.todo # <<>> /\ Usable(answer, Top.at)

\* Of a key that is kept, whoever has an instance to dispose holds one.
Kept == \A s \in Scopes : \A i \in ToSet(created[s]) :
  registrations[made[i].key] \notin {"transient", "value"} => held[s][made[i].key] # NoInstance

Descending(s) == \A m, n \in DOMAIN s : m < n => s[n] < s[m]

\* Every instance is in one place, and the places are in the order of creation.
Placed ==
  /\ \A s \in Scopes : /\ Ascending(created[s]) /\ Descending(toDispose[s])
                       /\ \A i \in ToSet(created[s]) \cup ToSet(toDispose[s]) :
                            i \in DOMAIN made /\ made[i].home = s /\ i \notin ToSet(released)
                       /\ ToSet(created[s]) \cap ToSet(toDispose[s]) = {}
                       /\ phase[s] \in {"new", "open", "disposed"} => toDispose[s] = <<>>
  /\ ToSet(released) \subseteq DOMAIN made

\* What an instance uses is older, and does not go before it.
Uses ==
  \A i \in DOMAIN made :
    /\ \A u \in made[i].uses : u \in DOMAIN made /\ u < i
    /\ ~ made[i].owned => made[i].uses = {}
    /\ i \in ToSet(created[made[i].home]) =>
         \A u \in made[i].uses : made[u].home = made[i].home =>
           u \notin ToSet(released) /\ u \notin ToSet(toDispose[made[i].home])

ContainerInv == ContainerTypeOK /\ Holding /\ Nested /\ Kept /\ Placed /\ Uses /\ ScopesHold

-----------------------------------------------------------------------------
\* What was made stays as it was made, and in its scope's hands until that is disposed.

LEMMA FramesTyped ==
  ASSUME ContainerTypeOK
  PROVE  /\ DOMAIN calls = 1 .. Len(calls) /\ Len(calls) \in Nat
         /\ \A n \in 1 .. Len(calls) : calls[n] \in Frame
         /\ DOMAIN made = 1 .. Len(made) /\ Len(made) \in Nat
         /\ \A i \in 1 .. Len(made) : made[i] \in Instance
         /\ ~ Idle => Top \in Frame /\ Top = calls[Len(calls)] /\ Len(calls) \in 1 .. Len(calls)
         /\ Root \in Scopes
<1>1. /\ DOMAIN calls = 1 .. Len(calls) /\ Len(calls) \in Nat
      /\ \A n \in 1 .. Len(calls) : calls[n] \in Frame
  BY DEF ContainerTypeOK
<1>2. /\ DOMAIN made = 1 .. Len(made) /\ Len(made) \in Nat
      /\ \A i \in 1 .. Len(made) : made[i] \in Instance
  BY DEF ContainerTypeOK
<1>3. ~ Idle => Top \in Frame /\ Top = calls[Len(calls)] /\ Len(calls) \in 1 .. Len(calls)
  <2> HAVE ~ Idle
  <2>1. calls \in Seq(Frame) /\ calls # <<>>
    BY DEF ContainerTypeOK, Idle
  <2> QED
    BY <2>1, Fronted DEF Top
<1>4. Root \in Scopes
  BY DEF Scopes
<1> QED
  BY <1>1, <1>2, <1>3, <1>4

\* The calls under way touch no scope.
Untouched == UNCHANGED <<wiring, registrations, held, created, made, phase, toDispose, released>>

LEMMA StoresUntouched ==
  ASSUME ContainerInv, Untouched, calls' \in Seq(Frame), answer' \in Nat \cup {Thrown}, Nested'
  PROVE  ContainerInv'
<1>1. ContainerTypeOK'
  BY DEF ContainerInv, ContainerTypeOK, Untouched
<1>2. Holding' /\ Kept' /\ Placed' /\ Uses'
  BY DEF ContainerInv, Untouched, Holding, Kept, Placed, Uses, Usable
<1>3. ScopesHold'
  BY DEF ContainerInv, Untouched, ScopesHold, NoCapture, OneInstance, DisposedOnce, UsersFirst
<1> QED
  BY <1>1, <1>2, <1>3 DEF ContainerInv

LEMMA SameUsable ==
  ASSUME Untouched
  PROVE  /\ \A v, s : Usable(v, s)' <=> Usable(v, s)
         /\ (\A n \in DOMAIN calls' : Begun(calls'[n])) => (\A n \in DOMAIN calls : Begun(calls[n]))'
         /\ Usable(answer', Top'.at) => Usable(answer, Top.at)'
BY DEF Untouched, Usable, Begun, Owned, Lifetime

LEMMA NothingNested ==
  ASSUME calls' = <<>>, ~ (answer' > NoInstance)
  PROVE  Nested'
BY DEF Nested, NoInstance

\* resolve() at the scope of the innermost call, or for a handler.
LEMMA EnterSound ==
  ASSUME ContainerInv, NEW k \in Tokens, NEW s \in Scopes, Enter(k, s), Untouched,
         ~ Idle => s = Top.at /\ Top.todo # <<>>
  PROVE  ContainerInv'
<1> DEFINE home == HomeOf(k, s)
           begun == [key |-> k, at |-> home, got |-> <<>>, todo |-> IF Owned(k) THEN wiring[k] ELSE <<>>]
<1>1. home \in Scopes /\ home \in {Root, s}
  BY FramesTyped DEF HomeOf, ContainerInv
<1>2. ContainerTypeOK /\ Holding /\ Nested
  BY DEF ContainerInv
<1>3. ASSUME NEW v \in {held[s][k], held[home][k]} \ {NoInstance}, Returns(v, calls)
      PROVE  ContainerInv'
  <2>1. v \in Nat /\ v # NoInstance /\ v > NoInstance
    BY <1>1, <1>2 DEF ContainerTypeOK, NoInstance
  <2>2. Usable(v, s)
    <3>1. CASE v = held[s][k]
      BY <1>2, <2>1, <3>1 DEF Holding
    <3>2. CASE v = held[home][k]
      <4>1. Usable(v, home)
        BY <1>1, <1>2, <2>1, <3>2 DEF Holding
      <4> QED
        BY <1>1, <4>1 DEF Usable
    <3> QED
      BY <1>3, <3>1, <3>2
  <2>3. calls' = calls /\ answer' \in Nat \cup {Thrown}
    BY <1>3, <2>1 DEF Returns, NoInstance
  <2>4. Nested'
    <3>1. CASE Idle
      BY <1>3, <3>1, NothingNested DEF Returns, Idle, NoInstance
    <3>2. CASE ~ Idle
      <4>1. /\ \A n \in DOMAIN calls : Begun(calls[n])
            /\ \A n \in 1 .. Len(calls) - 1 : calls[n].todo # <<>> /\ calls[n + 1].at \in {Root, calls[n].at}
            /\ \A m, n \in DOMAIN calls : calls[m].key = calls[n].key => m = n
        BY <1>2, SameUsable DEF Nested
      <4>2. answer' = v /\ ~ Idle' /\ Top' = Top
        BY <1>3, <2>3, <3>2 DEF Returns, Idle, Top
      <4>3. Usable(answer, Top.at)' /\ Top'.todo # <<>>
        BY <2>2, <3>2, <4>2, SameUsable
      <4>4. (\A n \in DOMAIN calls : Begun(calls[n]))'
        BY <2>3, <4>1, SameUsable
      <4> QED
        BY <2>3, <4>1, <4>2, <4>3, <4>4 DEF Nested
    <3> QED
      BY <3>1, <3>2
  <2> QED
    BY <1>2, <2>3, <2>4, StoresUntouched DEF ContainerTypeOK
<1>4. ASSUME Returns(Thrown, calls)
      PROVE  ContainerInv'
  <2>1. calls' = calls /\ answer' \in {NoInstance, Thrown} /\ ~ (answer' > NoInstance)
    BY <1>4 DEF Returns, NoInstance, Thrown
  <2>2. Nested'
    <3>1. (\A n \in DOMAIN calls : Begun(calls[n]))'
      BY <1>2, <2>1, SameUsable DEF Nested
    <3> QED
      BY <1>2, <2>1, <3>1 DEF Nested
  <2> QED
    BY <1>2, <2>1, <2>2, StoresUntouched DEF ContainerTypeOK, NoInstance
<1>5. ASSUME held[s][k] = NoInstance, held[home][k] = NoInstance, ~ Refused(k, s, calls),
             calls' = Append(calls, begun), answer' = NoInstance
      PROVE  ContainerInv'
  <2>1. begun \in Frame
    BY <1>1, <1>2 DEF Frame, ContainerTypeOK
  <2> HIDE DEF home
  <2>2. Begun(begun)
    <3>1. ToSet(<<>>) = {}
      BY DEF ToSet
    <3> QED
      BY <1>5, <3>1 DEF Begun
  <2>3. /\ calls' \in Seq(Frame) /\ Len(calls') = Len(calls) + 1 /\ DOMAIN calls' = 1 .. (Len(calls) + 1)
        /\ \A n \in 1 .. Len(calls) : calls'[n] = calls[n]
        /\ calls'[Len(calls) + 1] = begun
        /\ Len(calls) \in Nat /\ DOMAIN calls = 1 .. Len(calls)
    BY <1>2, <1>5, <2>1, Appended, FramesTyped DEF ContainerTypeOK
  <2>4. ASSUME NEW n \in DOMAIN calls'
        PROVE  Begun(calls'[n])
    <3>1. CASE n \in 1 .. Len(calls)
      BY <1>2, <2>3, <3>1 DEF Nested
    <3>2. CASE n = Len(calls) + 1
      BY <2>2, <2>3, <3>2
    <3> QED
      BY <2>3, <3>1, <3>2
  <2>5. ASSUME NEW n \in 1 .. Len(calls') - 1
        PROVE  calls'[n].todo # <<>> /\ calls'[n + 1].at \in {Root, calls'[n].at}
    <3>0. n \in 1 .. Len(calls)
      BY <2>3
    <3>1. CASE n \in 1 .. Len(calls) - 1
      <4>1. n \in 1 .. Len(calls) /\ n + 1 \in 1 .. Len(calls)
        BY <2>3, <3>1
      <4> QED
        BY <1>2, <2>3, <3>1, <4>1 DEF Nested
    <3>2. CASE n = Len(calls)
      <4>1. ~ Idle /\ Top = calls[n] /\ calls'[n] = calls[n]
        BY <1>2, <2>3, <3>0, <3>2, FramesTyped DEF Idle
      <4> QED
        BY <1>1, <2>3, <3>2, <4>1
    <3>3. n \in 1 .. Len(calls) - 1 \/ n = Len(calls)
      <4>1. Len(calls) \in Nat
        BY <2>3
      <4> QED
        BY <3>0, <4>1
    <3> QED
      BY <3>1, <3>2, <3>3
  <2>6. \A n \in 1 .. Len(calls) : calls[n].key # k
    BY <1>5, <2>3 DEF Refused, Circular
  <2>7. ASSUME NEW m \in DOMAIN calls', NEW n \in DOMAIN calls', calls'[m].key = calls'[n].key
        PROVE  m = n
    <3>1. (m \in 1 .. Len(calls) \/ m = Len(calls) + 1) /\ (n \in 1 .. Len(calls) \/ n = Len(calls) + 1)
      BY <2>3, <2>7
    <3>2. CASE m \in 1 .. Len(calls) /\ n \in 1 .. Len(calls)
      BY <1>2, <2>3, <2>7, <3>2 DEF Nested
    <3>3. CASE m = Len(calls) + 1 /\ n = Len(calls) + 1
      BY <3>3
    <3> QED
      BY <2>3, <2>6, <2>7, <3>1, <3>2, <3>3
  <2>8. Nested'
    <3>1. (\A n \in DOMAIN calls : Begun(calls[n]))'
      BY <2>4, SameUsable
    <3>2. (\A n \in 1 .. Len(calls) - 1 : calls[n].todo # <<>> /\ calls[n + 1].at \in {Root, calls[n].at})'
      BY <2>5
    <3>3. (\A m, n \in DOMAIN calls : calls[m].key = calls[n].key => m = n)'
      BY <2>7
    <3>4. ~ (answer > NoInstance)'
      BY <1>5 DEF NoInstance
    <3> QED
      BY <3>1, <3>2, <3>3, <3>4 DEF Nested
  <2> QED
    BY <1>5, <2>3, <2>8, StoresUntouched DEF NoInstance
<1> QED
  BY <1>3, <1>4, <1>5 DEF Enter

LEMMA GetSound ==
  ASSUME ContainerInv, NEW s \in Scopes, NEW k \in Tokens, get(s, k)
  PROVE  ContainerInv'
BY EnterSound DEF get, Untouched

LEMMA AskSound ==
  ASSUME ContainerInv, Ask
  PROVE  ContainerInv'
<1>1. ~ Idle /\ Top \in Frame /\ Top.todo # <<>> /\ Enter(Head(Top.todo), Top.at) /\ Untouched
  BY FramesTyped DEF Ask, Untouched, ContainerInv
<1>2. Head(Top.todo) \in Tokens /\ Top.at \in Scopes
  BY <1>1, Shortened DEF Frame
<1> QED
  BY <1>1, <1>2, EnterSound

LEMMA ReceiveSound ==
  ASSUME ContainerInv, Receive
  PROVE  ContainerInv'
<1> DEFINE n == Len(calls)
           given == [Top EXCEPT !.todo = Tail(@), !.got = Append(@, answer)]
<1>1. ContainerTypeOK /\ Nested
  BY DEF ContainerInv
<1>2. /\ ~ Idle /\ answer > NoInstance /\ answer' = NoInstance /\ Untouched
      /\ Top \in Frame /\ Top = calls[n] /\ n \in DOMAIN calls /\ n \in Nat /\ DOMAIN calls = 1 .. n
  BY <1>1, FramesTyped DEF Receive, Untouched
<1>3. Usable(answer, Top.at) /\ Top.todo # <<>> /\ answer \in Nat
  BY <1>1, <1>2 DEF Nested, ContainerTypeOK, Thrown, NoInstance
<1>4. /\ given \in Frame /\ given.key = Top.key /\ given.at = Top.at /\ given.todo = Tail(Top.todo)
      /\ ToSet(given.got) = ToSet(Top.got) \cup {answer}
  <2>1. Top.todo \in Seq(Tokens) /\ Top.got \in Seq(Nat)
    BY <1>2 DEF Frame
  <2>2. Tail(Top.todo) \in Seq(Tokens)
    BY <1>3, <2>1, Shortened
  <2>3. Append(Top.got, answer) \in Seq(Nat) /\ ToSet(Append(Top.got, answer)) = ToSet(Top.got) \cup {answer}
    BY <1>3, <2>1, Appended
  <2> QED
    BY <1>2, <2>2, <2>3 DEF Frame
<1>5. /\ calls' \in Seq(Frame) /\ Len(calls') = n /\ DOMAIN calls' = 1 .. n
      /\ calls'[n] = given /\ \A m \in 1 .. n : m # n => calls'[m] = calls[m]
  <2>1. calls' = [calls EXCEPT ![n] = given]
    BY <1>2 DEF Receive
  <2> HIDE DEF given
  <2>2. calls \in [1 .. n -> Frame]
    BY <1>1, <1>2 DEF ContainerTypeOK
  <2>3. calls' \in [1 .. n -> Frame]
    BY <1>2, <1>4, <2>1, <2>2
  <2>4. calls' \in Seq(Frame) /\ Len(calls') = n
    BY <1>2, <2>3
  <2> QED
    BY <1>2, <2>1, <2>3, <2>4
<1> HIDE DEF given
<1>6. ASSUME NEW m \in DOMAIN calls'
      PROVE  Begun(calls'[m])
  <2>1. CASE m = n
    <3>1. Begun(Top)
      BY <1>1, <1>2 DEF Nested
    <3>2. Owned(Top.key)
      BY <1>3, <3>1 DEF Begun
    <3> QED
      BY <1>3, <1>4, <1>5, <2>1, <3>1, <3>2 DEF Begun
  <2>2. CASE m # n
    BY <1>1, <1>2, <1>5, <1>6, <2>2 DEF Nested
  <2> QED
    BY <2>1, <2>2
<1>7. \A m \in 1 .. n : calls'[m].key = calls[m].key /\ calls'[m].at = calls[m].at
  BY <1>2, <1>4, <1>5
<1>8. Nested'
  <2>1. (\A m \in DOMAIN calls : Begun(calls[m]))'
    BY <1>2, <1>6, SameUsable
  <2>2. \A m \in 1 .. n - 1 : calls'[m].todo # <<>> /\ calls'[m + 1].at \in {Root, calls'[m].at}
    <3> SUFFICES ASSUME NEW m \in 1 .. n - 1
                 PROVE  calls'[m].todo # <<>> /\ calls'[m + 1].at \in {Root, calls'[m].at}
      OBVIOUS
    <3>0. n \in Nat /\ m \in 1 .. n - 1
      BY <1>2
    <3>1. m \in 1 .. n /\ m + 1 \in 1 .. n /\ m # n
      <4> HIDE DEF n
      <4> QED
        BY <3>0
    <3>2. calls[m].todo # <<>> /\ calls[m + 1].at \in {Root, calls[m].at}
      BY <1>1 DEF Nested
    <3> QED
      BY <1>5, <1>7, <3>1, <3>2
  <2>3. \A l, m \in 1 .. n : calls'[l].key = calls'[m].key => l = m
    BY <1>1, <1>2, <1>7 DEF Nested
  <2>4. ~ (answer' > NoInstance)
    BY <1>2 DEF NoInstance
  <2> QED
    BY <1>5, <2>1, <2>2, <2>3, <2>4 DEF Nested
<1> QED
  BY <1>2, <1>5, <1>8, StoresUntouched DEF NoInstance

LEMMA ThrowsSound ==
  ASSUME ContainerInv, Throws
  PROVE  ContainerInv'
<1>1. calls' = <<>> /\ answer' = NoInstance /\ Untouched
  BY DEF Throws, Returns, Untouched
<1>2. calls' \in Seq(Frame)
  BY <1>1
<1>3. Nested'
  BY <1>1, NothingNested DEF NoInstance
<1> QED
  BY <1>1, <1>2, <1>3, StoresUntouched DEF NoInstance

-----------------------------------------------------------------------------
\* One more instance: of create(), or provided.

Added(k, s, uses, owned) ==
  LET new == Len(made) + 1
  IN /\ made' = Append(made, [key |-> k, home |-> s, uses |-> uses, owned |-> owned])
     /\ held' \in {held, [held EXCEPT ![s][k] = new]}
     /\ created' = IF owned THEN [created EXCEPT ![s] = Append(@, new)] ELSE created
     /\ UNCHANGED <<wiring, registrations, phase, toDispose, released>>

\* What it may be made of, and when.
Fair(k, s, uses, owned) ==
  /\ \A u \in uses : Usable(u, s)
  /\ ~ owned => uses = {}
  /\ owned /\ registrations[k] \notin {"transient", "value"} =>
       held[s][k] = NoInstance /\ held' # held

\* An instance that its scope is to dispose is not disposed, nor about to be; one that is
\* not owned never is.
LEMMA UsableStays ==
  ASSUME Placed, DisposedOnce, NEW s \in Scopes, NEW v, Usable(v, s), made[v].home \in Scopes
  PROVE  v \notin ToSet(released) /\ v \notin ToSet(toDispose[made[v].home])
<1>1. CASE made[v].owned
  BY <1>1 DEF Usable, Placed
<1>2. CASE ~ made[v].owned
  BY <1>2 DEF Usable, DisposedOnce
<1> QED
  BY <1>1, <1>2

\* What they come to.
Grown(k, s, uses, owned) ==
  /\ made' \in Seq(Instance) /\ DOMAIN made' = 1 .. (Len(made) + 1)
  /\ DOMAIN made = 1 .. Len(made) /\ Len(made) \in Nat
  /\ \A i \in 1 .. Len(made) : made'[i] = made[i] /\ made[i] \in Instance
  /\ made'[Len(made) + 1] = [key |-> k, home |-> s, uses |-> uses, owned |-> owned]
  /\ created' \in [Scopes -> Seq(Nat)]
  /\ \A h \in Scopes : ToSet(created'[h]) = ToSet(created[h]) \cup (IF owned /\ h = s THEN {Len(made) + 1} ELSE {})
  /\ \A h \in Scopes : Ascending(created'[h])
  /\ held' \in [Scopes -> [Tokens -> Nat]]
  /\ \A h \in Scopes, l \in Tokens :
       held'[h][l] = held[h][l] \/ (h = s /\ l = k /\ held'[h][l] = Len(made) + 1)
  /\ held' # held => held'[s][k] = Len(made) + 1

LEMMA AddedFacts ==
  ASSUME ContainerInv, NEW k \in Tokens, NEW s \in Scopes, NEW uses \in SUBSET Nat, NEW owned \in BOOLEAN,
         Added(k, s, uses, owned)
  PROVE  Grown(k, s, uses, owned)
<1> DEFINE new == Len(made) + 1
           instance == [key |-> k, home |-> s, uses |-> uses, owned |-> owned]
<1>0. ContainerTypeOK /\ Placed
  BY DEF ContainerInv
<1>1. instance \in Instance /\ made \in Seq(Instance) /\ new \in Nat /\ created[s] \in Seq(Nat)
  BY <1>0 DEF ContainerTypeOK, Instance
<1>2. /\ DOMAIN made = 1 .. Len(made) /\ Len(made) \in Nat
      /\ \A i \in 1 .. Len(made) : made[i] \in Instance
  BY <1>0, FramesTyped
<1>3. /\ made' \in Seq(Instance) /\ DOMAIN made' = 1 .. new
      /\ \A i \in 1 .. Len(made) : made'[i] = made[i]
      /\ made'[new] = instance
  <2> HIDE DEF instance
  <2>1. made' = Append(made, instance)
    BY DEF Added, instance
  <2> QED
    BY <1>1, <2>1, Appended
<1>4. /\ created' \in [Scopes -> Seq(Nat)]
      /\ \A h \in Scopes : ToSet(created'[h]) = ToSet(created[h]) \cup (IF owned /\ h = s THEN {new} ELSE {})
      /\ \A h \in Scopes : Ascending(created'[h])
  <2>0. \A h \in Scopes : Ascending(created[h])
    BY <1>0 DEF Placed
  <2>1. CASE ~ owned
    BY <1>0, <2>0, <2>1 DEF Added, ContainerTypeOK
  <2>2. CASE owned
    <3>1. created' = [created EXCEPT ![s] = Append(created[s], new)]
      BY <2>2 DEF Added
    <3> HIDE DEF new
    <3>2. /\ Append(created[s], new) \in Seq(Nat)
          /\ DOMAIN Append(created[s], new) = 1 .. (Len(created[s]) + 1)
          /\ DOMAIN created[s] = 1 .. Len(created[s]) /\ Len(created[s]) \in Nat
          /\ \A n \in 1 .. Len(created[s]) : Append(created[s], new)[n] = created[s][n]
          /\ Append(created[s], new)[Len(created[s]) + 1] = new
          /\ ToSet(Append(created[s], new)) = ToSet(created[s]) \cup {new}
      BY <1>1, Appended
    <3>3. \A n \in 1 .. Len(created[s]) : created[s][n] < new
      <4>1. \A n \in 1 .. Len(created[s]) : created[s][n] \in ToSet(created[s])
        BY <1>1, EveryElement
      <4>2. \A i \in ToSet(created[s]) : i \in 1 .. Len(made)
        BY <1>0, <1>2 DEF Placed
      <4> QED
        BY <1>2, <4>1, <4>2 DEF new
    <3>4. Ascending(Append(created[s], new))
      <4> SUFFICES ASSUME NEW m \in 1 .. (Len(created[s]) + 1), NEW n \in 1 .. (Len(created[s]) + 1), m < n
                   PROVE  Append(created[s], new)[m] < Append(created[s], new)[n]
        BY <3>2 DEF Ascending
      <4>1. m \in 1 .. Len(created[s]) /\ (n \in 1 .. Len(created[s]) \/ n = Len(created[s]) + 1)
        BY <3>2
      <4>2. CASE n \in 1 .. Len(created[s])
        BY <2>0, <3>2, <4>1, <4>2 DEF Ascending
      <4>3. CASE n = Len(created[s]) + 1
        BY <3>2, <3>3, <4>1, <4>3
      <4> QED
        BY <4>1, <4>2, <4>3
    <3>5. \A h \in Scopes : created'[h] = IF h = s THEN Append(created[s], new) ELSE created[h]
      BY <1>0, <3>1 DEF ContainerTypeOK
    <3>6. created' \in [Scopes -> Seq(Nat)]
      BY <1>0, <3>1, <3>2 DEF ContainerTypeOK
    <3> QED
      BY <2>0, <2>2, <3>2, <3>4, <3>5, <3>6
  <2> QED
    BY <2>1, <2>2
<1>5. /\ held' \in [Scopes -> [Tokens -> Nat]]
      /\ \A h \in Scopes, l \in Tokens : held'[h][l] = held[h][l] \/ (h = s /\ l = k /\ held'[h][l] = new)
      /\ held' # held => held'[s][k] = new
  <2>1. held' = held \/ held' = [held EXCEPT ![s][k] = new]
    BY DEF Added
  <2>2. held \in [Scopes -> [Tokens -> Nat]]
    BY <1>0 DEF ContainerTypeOK
  <2> HIDE DEF new
  <2>3. CASE held' = held
    BY <2>2, <2>3
  <2>4. CASE held' = [held EXCEPT ![s][k] = new]
    <3>1. held' \in [Scopes -> [Tokens -> Nat]]
      BY <1>1, <2>2, <2>4
    <3>2. \A h \in Scopes, l \in Tokens : held'[h][l] = IF h = s /\ l = k THEN new ELSE held[h][l]
      BY <2>2, <2>4
    <3> QED
      BY <3>1, <3>2
  <2> QED
    BY <2>1, <2>3, <2>4
<1> QED
  BY <1>2, <1>3, <1>4, <1>5 DEF Grown

\* An instance stays usable as others are added.
LEMMA UsableGrows ==
  ASSUME ContainerInv, NEW k \in Tokens, NEW s \in Scopes, NEW uses \in SUBSET Nat, NEW owned \in BOOLEAN,
         Added(k, s, uses, owned), NEW v, NEW h, Usable(v, h)
  PROVE  /\ v \in 1 .. Len(made) /\ made'[v] = made[v]
         /\ made[v].owned => v \in ToSet(created'[made[v].home])
<1>0. Grown(k, s, uses, owned)
  BY AddedFacts
<1>1. v \in 1 .. Len(made) /\ made'[v] = made[v] /\ made[v].home \in Scopes
  BY <1>0 DEF Grown, Usable, Instance
<1> QED
  BY <1>0, <1>1 DEF Grown, Usable

LEMMA AddedHolding ==
  ASSUME ContainerInv, NEW k \in Tokens, NEW s \in Scopes, NEW uses \in SUBSET Nat, NEW owned \in BOOLEAN,
         Added(k, s, uses, owned), Fair(k, s, uses, owned)
  PROVE  Holding'
<1> DEFINE new == Len(made) + 1
<1>0. Grown(k, s, uses, owned)
  BY AddedFacts
<1> SUFFICES ASSUME NEW h \in Scopes, NEW l \in Tokens, held'[h][l] # NoInstance
             PROVE  Usable(held[h][l], h)' /\ made'[held'[h][l]].home = h
  BY DEF Holding
<1>1. CASE held'[h][l] = held[h][l]
  <2>1. Usable(held[h][l], h) /\ made[held[h][l]].home = h
    BY <1>1 DEF ContainerInv, Holding
  <2>2. /\ held[h][l] \in 1 .. Len(made) /\ made'[held[h][l]] = made[held[h][l]]
        /\ made[held[h][l]].owned => held[h][l] \in ToSet(created'[made[held[h][l]].home])
    BY <2>1, UsableGrows
  <2> QED
    BY <1>0, <1>1, <2>1, <2>2 DEF Usable, Grown
<1>2. CASE h = s /\ l = k /\ held'[h][l] = new
  <2>1. new \in DOMAIN made' /\ made'[new] = [key |-> k, home |-> s, uses |-> uses, owned |-> owned]
    BY <1>0 DEF Grown
  <2>2. owned => new \in ToSet(created'[s])
    BY <1>0 DEF Grown
  <2> HIDE DEF new
  <2> QED
    BY <1>2, <2>1, <2>2 DEF Usable
<1> QED
  BY <1>0, <1>1, <1>2 DEF Grown

LEMMA AddedKept ==
  ASSUME ContainerInv, NEW k \in Tokens, NEW s \in Scopes, NEW uses \in SUBSET Nat, NEW owned \in BOOLEAN,
         Added(k, s, uses, owned), Fair(k, s, uses, owned)
  PROVE  Kept' /\ OneInstance'
<1> DEFINE new == Len(made) + 1
           stays(i) == registrations[made'[i].key] \notin {"transient", "value"}
<1>g. Grown(k, s, uses, owned)
  BY AddedFacts
<1>0. /\ new # NoInstance /\ made'[new].key = k
      /\ \A h \in Scopes : ToSet(created'[h]) = ToSet(created[h]) \cup (IF owned /\ h = s THEN {new} ELSE {})
      /\ \A h \in Scopes, l \in Tokens : held'[h][l] = held[h][l] \/ (h = s /\ l = k /\ held'[h][l] = new)
      /\ held' # held => held'[s][k] = new
  BY <1>g DEF Grown, NoInstance
<1>1. \A h \in Scopes : \A i \in ToSet(created[h]) :
        i \in 1 .. Len(made) /\ made'[i] = made[i] /\ made[i].key \in Tokens
  BY <1>g DEF Grown, ContainerInv, Placed, Instance
<1>2. /\ \A h \in Scopes : \A i \in ToSet(created[h]) : stays(i) => held[h][made'[i].key] # NoInstance
      /\ \A h \in Scopes : \A i, j \in ToSet(created[h]) :
           made'[i].key = made'[j].key /\ i # j => ~ stays(i)
  BY <1>1 DEF ContainerInv, ScopesHold, Kept, OneInstance
<1>3. owned /\ stays(new) => held[s][k] = NoInstance /\ held'[s][k] = new
  BY <1>0 DEF Fair
<1> HIDE DEF new, stays
<1>4. ASSUME NEW h \in Scopes, NEW i \in ToSet(created'[h]), stays(i)
      PROVE  held'[h][made'[i].key] # NoInstance
  <2>1. CASE i \in ToSet(created[h])
    BY <1>0, <1>1, <1>2, <1>4, <2>1
  <2>2. CASE owned /\ h = s /\ i = new
    BY <1>0, <1>3, <1>4, <2>2
  <2> QED
    BY <1>0, <1>4, <2>1, <2>2
<1>5. ASSUME NEW h \in Scopes, NEW i \in ToSet(created'[h]), NEW j \in ToSet(created'[h]),
             made'[i].key = made'[j].key, i # j, stays(i), stays(j)
      PROVE  FALSE
  <2>1. ASSUME NEW x \in ToSet(created[h]), made'[x].key = k, stays(x), owned, h = s, stays(new)
        PROVE  FALSE
    BY <1>0, <1>2, <1>3, <2>1
  <2>2. CASE i \in ToSet(created[h]) /\ j \in ToSet(created[h])
    BY <1>2, <1>5, <2>2
  <2>3. CASE i = new /\ owned /\ h = s
    BY <1>0, <1>5, <2>1, <2>3
  <2>4. CASE j = new /\ owned /\ h = s
    BY <1>0, <1>5, <2>1, <2>4
  <2> QED
    BY <1>0, <1>5, <2>2, <2>3, <2>4
<1>6. registrations' = registrations
  BY DEF Added
<1>7. Kept'
  BY <1>4, <1>6 DEF Kept, stays
<1>8. OneInstance'
  <2> SUFFICES ASSUME NEW h \in Scopes, NEW i \in ToSet(created'[h]), NEW j \in ToSet(created'[h]),
                      made'[i].key = made'[j].key, i # j, registrations'[made'[i].key] \notin {"transient", "value"}
               PROVE  FALSE
    BY DEF OneInstance
  <2>1. stays(i) /\ stays(j)
    BY <1>6 DEF stays
  <2> QED
    BY <1>5, <2>1
<1> QED
  BY <1>7, <1>8

LEMMA AddedPlaced ==
  ASSUME ContainerInv, NEW k \in Tokens, NEW s \in Scopes, NEW uses \in SUBSET Nat, NEW owned \in BOOLEAN,
         Added(k, s, uses, owned)
  PROVE  Placed' /\ DisposedOnce'
<1> DEFINE new == Len(made) + 1
<1>0. Grown(k, s, uses, owned)
  BY AddedFacts
<1>1. /\ made'[new].home = s /\ made'[new].owned = owned
      /\ DOMAIN made' = DOMAIN made \cup {new} /\ new \notin DOMAIN made
      /\ \A i \in DOMAIN made : made'[i] = made[i] /\ made[i].home \in Scopes
      /\ \A h \in Scopes : ToSet(created'[h]) = ToSet(created[h]) \cup (IF owned /\ h = s THEN {new} ELSE {})
      /\ \A h \in Scopes : Ascending(created'[h])
  <2>1. made'[new].home = s /\ made'[new].owned = owned
    BY <1>0 DEF Grown
  <2>2. DOMAIN made' = DOMAIN made \cup {new} /\ new \notin DOMAIN made
    BY <1>0 DEF Grown
  <2>3. \A i \in DOMAIN made : made'[i] = made[i] /\ made[i].home \in Scopes
    BY <1>0 DEF Grown, Instance
  <2>4. \A h \in Scopes : /\ ToSet(created'[h]) = ToSet(created[h]) \cup (IF owned /\ h = s THEN {new} ELSE {})
                         /\ Ascending(created'[h])
    BY <1>0 DEF Grown
  <2> QED
    BY <2>1, <2>2, <2>3, <2>4
<1>2. toDispose' = toDispose /\ released' = released /\ phase' = phase
  BY DEF Added
<1>3. Placed /\ DisposedOnce
  BY DEF ContainerInv, ScopesHold
<1> HIDE DEF new
<1>4. new \notin ToSet(released) /\ \A h \in Scopes : new \notin ToSet(toDispose[h]) /\ new \notin ToSet(created[h])
  BY <1>1, <1>3 DEF Placed
<1>5. Placed'
  <2>1. ASSUME NEW h \in Scopes
        PROVE  /\ Ascending(created'[h]) /\ Descending(toDispose'[h])
               /\ \A i \in ToSet(created'[h]) \cup ToSet(toDispose'[h]) :
                    i \in DOMAIN made' /\ made'[i].home = h /\ i \notin ToSet(released')
               /\ ToSet(created'[h]) \cap ToSet(toDispose'[h]) = {}
               /\ phase'[h] \in {"new", "open", "disposed"} => toDispose'[h] = <<>>
    <3>1. /\ Ascending(created'[h]) /\ Descending(toDispose[h])
          /\ phase[h] \in {"new", "open", "disposed"} => toDispose[h] = <<>>
      BY <1>1, <1>3 DEF Placed
    <3>2. \A i \in ToSet(created[h]) \cup ToSet(toDispose[h]) :
            i \in DOMAIN made' /\ made'[i].home = h /\ i \notin ToSet(released)
      BY <1>1, <1>3 DEF Placed
    <3>3. ToSet(created'[h]) \cap ToSet(toDispose[h]) = {}
      BY <1>1, <1>3, <1>4 DEF Placed
    <3> QED
      BY <1>1, <1>2, <1>4, <3>1, <3>2, <3>3
  <2>2. ToSet(released') \subseteq DOMAIN made'
    BY <1>1, <1>2, <1>3 DEF Placed
  <2>3. (\A h \in Scopes : /\ Ascending(created[h]) /\ Descending(toDispose[h])
                           /\ \A i \in ToSet(created[h]) \cup ToSet(toDispose[h]) :
                                i \in DOMAIN made /\ made[i].home = h /\ i \notin ToSet(released)
                           /\ ToSet(created[h]) \cap ToSet(toDispose[h]) = {}
                           /\ phase[h] \in {"new", "open", "disposed"} => toDispose[h] = <<>>)'
    BY <1>2, <2>1
  <2> QED
    BY <2>2, <2>3 DEF Placed
<1>6. DisposedOnce'
  <2>1. ASSUME NEW i \in DOMAIN made'
        PROVE  made'[i].owned <=>
                 i \in ToSet(released) \cup ToSet(created'[made'[i].home]) \cup ToSet(toDispose[made'[i].home])
    <3>1. CASE i \in DOMAIN made
      <4>1. made'[i] = made[i] /\ made[i].home \in Scopes /\ i # new
        BY <1>1, <3>1
      <4>2. i \in ToSet(created'[made[i].home]) <=> i \in ToSet(created[made[i].home])
        BY <1>1, <4>1
      <4> QED
        BY <1>3, <3>1, <4>1, <4>2 DEF DisposedOnce
    <3>2. CASE i = new
      BY <1>1, <1>4, <3>2
    <3> QED
      BY <1>1, <3>1, <3>2
  <2> QED
    BY <1>2, <1>3, <2>1 DEF DisposedOnce
<1> QED
  BY <1>5, <1>6

LEMMA AddedUses ==
  ASSUME ContainerInv, NEW k \in Tokens, NEW s \in Scopes, NEW uses \in SUBSET Nat, NEW owned \in BOOLEAN,
         Added(k, s, uses, owned), Fair(k, s, uses, owned)
  PROVE  Uses' /\ NoCapture' /\ UsersFirst'
<1> DEFINE new == Len(made) + 1
<1>0. Grown(k, s, uses, owned)
  BY AddedFacts
<1>1. /\ made'[new].home = s /\ made'[new].owned = owned /\ made'[new].uses = uses
      /\ DOMAIN made' = DOMAIN made \cup {new} /\ new \notin DOMAIN made
      /\ \A i \in DOMAIN made : made'[i] = made[i] /\ made[i].home \in Scopes /\ i < new
      /\ \A h \in Scopes : ToSet(created'[h]) = ToSet(created[h]) \cup (IF owned /\ h = s THEN {new} ELSE {})
  <2>1. made'[new].home = s /\ made'[new].owned = owned /\ made'[new].uses = uses
    BY <1>0 DEF Grown
  <2>2. /\ DOMAIN made' = DOMAIN made \cup {new} /\ new \notin DOMAIN made
        /\ \A i \in DOMAIN made : i < new
    BY <1>0 DEF Grown
  <2>3. \A i \in DOMAIN made : made'[i] = made[i] /\ made[i].home \in Scopes
    BY <1>0 DEF Grown, Instance
  <2>4. \A h \in Scopes : ToSet(created'[h]) = ToSet(created[h]) \cup (IF owned /\ h = s THEN {new} ELSE {})
    BY <1>0 DEF Grown
  <2> QED
    BY <2>1, <2>2, <2>3, <2>4
<1>2. toDispose' = toDispose /\ released' = released
  BY DEF Added
<1>3. Placed /\ DisposedOnce /\ Uses /\ NoCapture /\ UsersFirst
  BY DEF ContainerInv, ScopesHold
<1>4. ASSUME NEW u \in uses
      PROVE  /\ u \in DOMAIN made /\ made[u].home \in {Root, s}
             /\ u \notin ToSet(released) /\ u \notin ToSet(toDispose[made[u].home])
  <2>1. Usable(u, s)
    BY DEF Fair
  <2>2. u \in DOMAIN made /\ made[u].home \in {Root, s}
    BY <2>1 DEF Usable
  <2> QED
    BY <1>1, <1>3, <2>1, <2>2, UsableStays
<1> HIDE DEF new
<1>5. Uses'
  <2> SUFFICES ASSUME NEW i \in DOMAIN made'
               PROVE  /\ \A u \in made'[i].uses : u \in DOMAIN made' /\ u < i
                      /\ ~ made'[i].owned => made'[i].uses = {}
                      /\ i \in ToSet(created'[made'[i].home]) =>
                           \A u \in made'[i].uses : made'[u].home = made'[i].home =>
                             u \notin ToSet(released) /\ u \notin ToSet(toDispose[made'[i].home])
    BY <1>2 DEF Uses
  <2>1. CASE i \in DOMAIN made
    <3>1. made'[i] = made[i] /\ made[i].home \in Scopes /\ i # new
      BY <1>1, <2>1
    <3>2. i \in ToSet(created'[made[i].home]) => i \in ToSet(created[made[i].home])
      BY <1>1, <3>1
    <3>3. \A u \in made[i].uses : u \in DOMAIN made /\ made'[u] = made[u]
      BY <1>1, <1>3, <2>1 DEF Uses
    <3> QED
      BY <1>1, <1>3, <2>1, <3>1, <3>2, <3>3 DEF Uses
  <2>2. CASE i = new
    <3>1. \A u \in uses : u \in DOMAIN made' /\ u < i /\ made'[u] = made[u]
      BY <1>1, <1>4, <2>2
    <3>2. ~ owned => uses = {}
      BY DEF Fair
    <3> QED
      BY <1>1, <1>4, <2>2, <3>1, <3>2
  <2> QED
    BY <1>1, <2>1, <2>2
<1>6. NoCapture'
  <2> SUFFICES ASSUME NEW i \in DOMAIN made', NEW u \in made'[i].uses
               PROVE  made'[u].home \in {Root, made'[i].home}
    BY DEF NoCapture
  <2>1. CASE i \in DOMAIN made
    BY <1>1, <1>3, <2>1 DEF Uses, NoCapture
  <2>2. CASE i = new
    BY <1>1, <1>4, <2>2
  <2> QED
    BY <1>1, <2>1, <2>2
<1>7. UsersFirst'
  <2> SUFFICES ASSUME NEW n \in DOMAIN released, NEW i \in DOMAIN made',
                      released[n] \in made'[i].uses, made'[i].home = made'[released[n]].home
               PROVE  i \in ToSet(SubSeq(released, 1, n))
    BY <1>2 DEF UsersFirst
  <2>1. CASE i \in DOMAIN made
    BY <1>1, <1>3, <2>1 DEF Uses, UsersFirst
  <2>2. CASE i = new
    BY <1>1, <1>4, <2>2 DEF ToSet
  <2> QED
    BY <1>1, <2>1, <2>2
<1> QED
  BY <1>5, <1>6, <1>7

LEMMA AddedSound ==
  ASSUME ContainerInv, NEW k \in Tokens, NEW s \in Scopes, NEW uses \in SUBSET Nat, NEW owned \in BOOLEAN,
         Added(k, s, uses, owned), Fair(k, s, uses, owned),
         calls' \in Seq(Frame), answer' \in Nat \cup {Thrown}, Nested'
  PROVE  ContainerInv'
<1>1. ContainerTypeOK'
  <2>1. Grown(k, s, uses, owned)
    BY AddedFacts
  <2> QED
    BY <2>1 DEF ContainerInv, ContainerTypeOK, Added, Grown
<1> QED
  BY <1>1, AddedHolding, AddedKept, AddedPlaced, AddedUses DEF ContainerInv, ScopesHold

LEMMA CreatedSound ==
  ASSUME ContainerInv, Create
  PROVE  ContainerInv'
<1> DEFINE k == Top.key
           s == Top.at
           uses == ToSet(Top.got)
           owned == Owned(k)
           new == Len(made) + 1
           l == Len(calls)
<1>1. ContainerTypeOK /\ Nested /\ ~ Idle
  BY DEF ContainerInv, Create
<1>2. Top \in Frame /\ Top = calls[l] /\ l \in DOMAIN calls /\ l \in Nat /\ DOMAIN calls = 1 .. l
  BY <1>1, FramesTyped
<1>3. k \in Tokens /\ s \in Scopes /\ uses \in SUBSET Nat /\ owned \in BOOLEAN
  <2>1. Top.got \in Seq(Nat)
    BY <1>2 DEF Frame
  <2>2. uses \in SUBSET Nat
    BY <2>1, EveryElement
  <2>3. owned \in BOOLEAN
    BY DEF Owned
  <2> QED
    BY <1>2, <2>2, <2>3 DEF Frame
<1>4. Added(k, s, uses, owned)
  BY DEF Create, Added, Tracks
<1>5. Begun(Top)
  BY <1>1, <1>2 DEF Nested
<1>6. new # NoInstance /\ new \in Nat /\ new > NoInstance
  BY <1>1, FramesTyped DEF NoInstance
<1>7. Fair(k, s, uses, owned)
  <2>1. \A u \in uses : Usable(u, s)
    BY <1>5 DEF Begun
  <2>2. ~ owned => uses = {}
    BY <1>5 DEF Begun, ToSet
  <2>3. ASSUME registrations[k] \notin {"transient", "value"}
        PROVE  held[s][k] = NoInstance /\ held' # held
    <3>1. Lifetime(k) # "transient"
      BY <2>3 DEF Lifetime
    <3>2. held' = [held EXCEPT ![s][k] = new]
      BY <3>1 DEF Create
    <3>3. held'[s][k] = new
      BY <1>1, <1>3, <3>2 DEF ContainerTypeOK
    <3>4. held[s][k] = NoInstance
      BY <1>5, <3>1 DEF Begun
    <3> QED
      BY <1>6, <3>3, <3>4
  <2> QED
    BY <2>1, <2>2, <2>3 DEF Fair
<1>8. Grown(k, s, uses, owned)
  BY <1>3, <1>4, AddedFacts
<1>9. /\ calls' = Front(calls) /\ answer' = (IF Front(calls) = <<>> THEN NoInstance ELSE new)
      /\ UNCHANGED registrations
  BY DEF Create, Returns
<1>10. /\ calls' \in Seq(Frame) /\ Len(calls') = l - 1 /\ DOMAIN calls' = 1 .. l - 1
       /\ \A n \in 1 .. l - 1 : calls'[n] = calls[n] /\ n \in DOMAIN calls
  <2>1. calls \in Seq(Frame) /\ calls # <<>>
    BY <1>1 DEF ContainerTypeOK, Idle
  <2>2. /\ calls' \in Seq(Frame) /\ Len(calls') = l - 1 /\ DOMAIN calls' = 1 .. l - 1
        /\ \A n \in 1 .. l - 1 : calls'[n] = calls[n]
    BY <1>9, <2>1, Fronted
  <2> QED
    BY <1>2, <2>2
<1>11. ASSUME NEW v, NEW h, Usable(v, h)
       PROVE  Usable(v, h)'
  <2>1. /\ v \in 1 .. Len(made) /\ made'[v] = made[v]
        /\ made[v].owned => v \in ToSet(created'[made[v].home])
    BY <1>3, <1>4, <1>11, UsableGrows
  <2> QED
    BY <1>8, <1>11, <2>1 DEF Usable, Grown
<1> HIDE DEF k, s, uses, owned, new, l
<1>12. ASSUME NEW n \in 1 .. l - 1, NEW c, c = calls[n]
       PROVE  /\ \A v \in ToSet(c.got) : Usable(v, c.at)'
              /\ ~ Owned(c.key) => c.got = <<>> /\ c.todo = <<>>
              /\ Lifetime(c.key) # "transient" => held'[c.at][c.key] = NoInstance
  <2>1. Begun(c) /\ c \in Frame /\ n # l
    BY <1>1, <1>2, <1>10, <1>12, FramesTyped DEF Nested
  <2>2. \A v \in ToSet(c.got) : Usable(v, c.at)'
    BY <1>11, <2>1 DEF Begun
  <2>3. c.key # k /\ c.at \in Scopes /\ c.key \in Tokens
    BY <1>1, <1>2, <1>10, <1>12, <2>1 DEF Nested, Frame, k
  <2>4. held'[c.at][c.key] = held[c.at][c.key]
    BY <1>8, <2>3 DEF Grown
  <2> QED
    BY <2>1, <2>2, <2>4 DEF Begun
<1>13. (\A n \in DOMAIN calls : Begun(calls[n]))'
  BY <1>9, <1>10, <1>12 DEF Begun, Usable, Owned, Lifetime
<1>14. \A n \in 1 .. (l - 1) - 1 : calls'[n].todo # <<>> /\ calls'[n + 1].at \in {Root, calls'[n].at}
  <2> SUFFICES ASSUME NEW n \in 1 .. (l - 1) - 1
               PROVE  calls'[n].todo # <<>> /\ calls'[n + 1].at \in {Root, calls'[n].at}
    OBVIOUS
  <2>1. n \in 1 .. l - 1 /\ n + 1 \in 1 .. l - 1
    BY <1>2
  <2>2. calls[n].todo # <<>> /\ calls[n + 1].at \in {Root, calls[n].at}
    BY <1>1, <2>1 DEF Nested, l
  <2> QED
    BY <1>10, <2>1, <2>2
<1>15. \A m, n \in 1 .. l - 1 : calls'[m].key = calls'[n].key => m = n
  BY <1>1, <1>10 DEF Nested
<1>16. ASSUME answer' > NoInstance
       PROVE  ~ Idle' /\ Top'.todo # <<>> /\ Usable(answer, Top.at)'
  <2>1. Front(calls) # <<>> /\ answer' = new /\ calls' # <<>>
    BY <1>9, <1>16 DEF NoInstance
  <2>2. l - 1 \in 1 .. l - 1 /\ Top' = calls[l - 1]
    <3>1. Len(calls') # 0
      BY <1>10, <2>1
    <3>2. l - 1 \in 1 .. l - 1
      BY <1>2, <1>10, <3>1
    <3>3. Top' = calls'[l - 1]
      BY <1>10, <2>1, Fronted DEF Top
    <3> QED
      BY <1>10, <3>2, <3>3
  <2>3. calls[l - 1].todo # <<>> /\ s \in {Root, calls[l - 1].at}
    <3>1. (l - 1) + 1 = l /\ l = Len(calls) /\ s = calls[l].at
      BY <1>2 DEF l, s
    <3>2. calls[l - 1].todo # <<>> /\ calls[(l - 1) + 1].at \in {Root, calls[l - 1].at}
      BY <1>1, <2>2, <3>1 DEF Nested
    <3> QED
      BY <3>1, <3>2
  <2>4. new \in DOMAIN made' /\ made'[new].home = s /\ made'[new].owned = owned
    BY <1>8 DEF Grown, new
  <2>5. owned => new \in ToSet(created'[s])
    BY <1>3, <1>8 DEF Grown, new
  <2>6. Usable(answer, Top.at)'
    BY <2>1, <2>2, <2>3, <2>4, <2>5 DEF Usable
  <2> QED
    BY <2>1, <2>2, <2>3, <2>6 DEF Idle
<1>17. Nested'
  BY <1>10, <1>13, <1>14, <1>15, <1>16 DEF Nested
<1>18. answer' \in Nat \cup {Thrown}
  BY <1>6, <1>9 DEF NoInstance
<1> QED
  BY <1>3, <1>4, <1>7, <1>10, <1>17, <1>18, AddedSound

LEMMA IdleNested ==
  ASSUME ContainerInv, Idle, UNCHANGED <<calls, answer>>
  PROVE  Nested' /\ calls' \in Seq(Frame) /\ answer' \in Nat \cup {Thrown}
<1>1. Nested /\ ContainerTypeOK
  BY DEF ContainerInv
<1>2. calls' = <<>> /\ ~ (answer' > NoInstance)
  BY <1>1 DEF Nested, Idle
<1> QED
  BY <1>1, <1>2, NothingNested DEF ContainerTypeOK

LEMMA ProvideSound ==
  ASSUME ContainerInv, NEW s \in Scopes, NEW k \in Replaced, provide(s, k)
  PROVE  ContainerInv'
<1>1. k \in Tokens
  BY ReplacedAssumption
<1>2. Added(k, s, {}, FALSE) /\ Fair(k, s, {}, FALSE)
  BY DEF provide, Added, Fair
<1>3. Nested' /\ calls' \in Seq(Frame) /\ answer' \in Nat \cup {Thrown}
  BY IdleNested DEF provide
<1> QED
  BY <1>1, <1>2, <1>3, AddedSound

-----------------------------------------------------------------------------
\* What is done to a scope while no call is under way.

LEMMA OverrideSound ==
  ASSUME ContainerInv, NEW k \in Replaced, override(k)
  PROVE  ContainerInv'
<1>1. /\ ContainerTypeOK /\ Holding /\ Kept /\ Placed /\ Uses /\ ScopesHold
      /\ k \in Tokens /\ Root \in Scopes
  BY ReplacedAssumption, FramesTyped DEF ContainerInv
<1>2. Nested' /\ calls' \in Seq(Frame) /\ answer' \in Nat \cup {Thrown}
  BY IdleNested DEF override
<1>3. /\ UNCHANGED <<wiring, created, made, phase, toDispose, released>>
      /\ registrations' = [registrations EXCEPT ![k] = "value"]
      /\ held' = [held EXCEPT ![Root][k] = NoInstance]
  BY DEF override
<1>4. /\ held' \in [Scopes -> [Tokens -> Nat]] /\ registrations' \in [Tokens -> Kinds]
      /\ \A s \in Scopes, l \in Tokens : held'[s][l] = IF s = Root /\ l = k THEN NoInstance ELSE held[s][l]
      /\ \A l \in Tokens : registrations'[l] = IF l = k THEN "value" ELSE registrations[l]
  <2>1. held \in [Scopes -> [Tokens -> Nat]] /\ registrations \in [Tokens -> Kinds] /\ NoInstance \in Nat /\ "value" \in Kinds
    BY <1>1 DEF ContainerTypeOK, NoInstance, Kinds
  <2>2. held' \in [Scopes -> [Tokens -> Nat]]
    BY <1>1, <1>3, <2>1
  <2>3. \A s \in Scopes, l \in Tokens : held'[s][l] = IF s = Root /\ l = k THEN NoInstance ELSE held[s][l]
    BY <1>1, <1>3, <2>1
  <2>4. /\ registrations' \in [Tokens -> Kinds]
        /\ \A l \in Tokens : registrations'[l] = IF l = k THEN "value" ELSE registrations[l]
    BY <1>1, <1>3, <2>1
  <2> QED
    BY <2>2, <2>3, <2>4
<1>5. ContainerTypeOK'
  BY <1>1, <1>2, <1>3, <1>4 DEF ContainerTypeOK
<1>6. Holding'
  BY <1>1, <1>3, <1>4 DEF Holding, Usable
<1>7. \A s \in Scopes : \A i \in ToSet(created[s]) : made[i].key \in Tokens
  BY <1>1, FramesTyped DEF Placed, Instance
<1>8. Kept' /\ OneInstance'
  <2>1. Kept'
    <3> SUFFICES ASSUME NEW s \in Scopes, NEW i \in ToSet(created[s]),
                        registrations'[made[i].key] \notin {"transient", "value"}
                 PROVE  held'[s][made[i].key] # NoInstance
      BY <1>3 DEF Kept
    <3>1. made[i].key \in Tokens /\ made[i].key # k
      BY <1>4, <1>7
    <3> QED
      BY <1>1, <1>4, <3>1 DEF Kept
  <2>2. OneInstance'
    <3> SUFFICES ASSUME NEW s \in Scopes, NEW i \in ToSet(created[s]), NEW j \in ToSet(created[s]),
                        made[i].key = made[j].key, i # j
                 PROVE  registrations'[made[i].key] \in {"transient", "value"}
      BY <1>3 DEF OneInstance
    <3>1. made[i].key \in Tokens /\ registrations[made[i].key] \in {"transient", "value"}
      BY <1>1, <1>7 DEF ScopesHold, OneInstance
    <3> QED
      BY <1>4, <3>1
  <2> QED
    BY <2>1, <2>2
<1>9. Placed' /\ Uses' /\ NoCapture' /\ DisposedOnce' /\ UsersFirst'
  BY <1>1, <1>3 DEF Placed, Uses, ScopesHold, NoCapture, DisposedOnce, UsersFirst
<1> QED
  BY <1>2, <1>5, <1>6, <1>8, <1>9 DEF ContainerInv, ScopesHold

\* A phase changes, and nothing else.
LEMMA PhaseSound ==
  ASSUME ContainerInv, Idle, NEW s \in Scopes,
         NEW p \in {"new", "open", "disposing", "disposed", "failed"},
         phase' = [phase EXCEPT ![s] = p],
         p \in {"new", "open", "disposed"} => toDispose[s] = <<>>,
         UNCHANGED <<wiring, registrations, held, created, made, calls, answer, toDispose, released>>
  PROVE  ContainerInv'
<1>1. Nested' /\ calls' \in Seq(Frame) /\ answer' \in Nat \cup {Thrown}
  BY IdleNested
<1>2. /\ phase' \in [Scopes -> {"new", "open", "disposing", "disposed", "failed"}]
      /\ \A h \in Scopes : phase'[h] = IF h = s THEN p ELSE phase[h]
  BY DEF ContainerInv, ContainerTypeOK
<1>3. ContainerTypeOK'
  BY <1>1, <1>2 DEF ContainerInv, ContainerTypeOK
<1>4. Holding' /\ Kept' /\ Uses'
  BY DEF ContainerInv, Holding, Kept, Uses, Usable
<1>5. Placed' /\ DisposedOnce'
  BY <1>2 DEF ContainerInv, ScopesHold, Placed, DisposedOnce
<1>6. NoCapture' /\ OneInstance' /\ UsersFirst'
  BY DEF ContainerInv, ScopesHold, NoCapture, OneInstance, UsersFirst
<1> QED
  BY <1>1, <1>3, <1>4, <1>5, <1>6 DEF ContainerInv, ScopesHold

LEMMA DisposeSound ==
  ASSUME ContainerInv, NEW s \in Scopes, Dispose(s)
  PROVE  ContainerInv'
<1>1. ContainerTypeOK /\ Holding /\ Kept /\ Placed /\ Uses /\ ScopesHold
  BY DEF ContainerInv
<1>2. Nested' /\ calls' \in Seq(Frame) /\ answer' \in Nat \cup {Thrown}
  BY IdleNested DEF Dispose
<1>3. /\ created[s] \in Seq(Nat) /\ toDispose[s] = <<>>
      /\ UNCHANGED <<wiring, registrations, made, released>>
  BY <1>1 DEF ContainerTypeOK, Placed, Dispose
<1>4. ToSet(<<>>) = {} /\ <<>> \in Seq(Nat) /\ Ascending(<<>>)
  BY DEF ToSet, Ascending
<1>5. /\ created' \in [Scopes -> Seq(Nat)] /\ toDispose' \in [Scopes -> Seq(Nat)]
      /\ held' \in [Scopes -> [Tokens -> Nat]]
      /\ phase' \in [Scopes -> {"new", "open", "disposing", "disposed", "failed"}]
      /\ \A h \in Scopes : h # s => /\ created'[h] = created[h] /\ toDispose'[h] = toDispose[h]
                                    /\ held'[h] = held[h] /\ phase'[h] = phase[h]
      /\ created'[s] = <<>> /\ toDispose'[s] = Reverse(created[s]) /\ phase'[s] = "disposing"
      /\ \A l \in Tokens : held'[s][l] = NoInstance
  <2>1. Reverse(created[s]) \in Seq(Nat)
    BY <1>3, Reversed
  <2>2. [l \in Tokens |-> NoInstance] \in [Tokens -> Nat]
    BY DEF NoInstance
  <2>3. created' \in [Scopes -> Seq(Nat)] /\ toDispose' \in [Scopes -> Seq(Nat)]
    BY <1>1, <1>4, <2>1 DEF Dispose, ContainerTypeOK
  <2>4. held' \in [Scopes -> [Tokens -> Nat]]
    BY <1>1, <2>2 DEF Dispose, ContainerTypeOK
  <2> QED
    BY <1>1, <2>3, <2>4 DEF Dispose, ContainerTypeOK
<1>6. ToSet(toDispose'[s]) = ToSet(created[s]) /\ Descending(toDispose'[s])
  <2>1. ToSet(toDispose'[s]) = ToSet(created[s])
    BY <1>3, <1>5, Reversed
  <2>2. Ascending(created[s])
    BY <1>1 DEF Placed
  <2> DEFINE n == Len(created[s])
  <2>3. /\ n \in Nat /\ DOMAIN created[s] = 1 .. n /\ DOMAIN Reverse(created[s]) = 1 .. n
        /\ \A m \in 1 .. n : Reverse(created[s])[m] = created[s][(n - m) + 1]
    BY <1>3, Reversed
  <2> HIDE DEF n
  <2>4. ASSUME NEW a \in 1 .. n, NEW b \in 1 .. n, a < b
        PROVE  Reverse(created[s])[b] < Reverse(created[s])[a]
    <3>1. (n - a) + 1 \in 1 .. n /\ (n - b) + 1 \in 1 .. n /\ (n - b) + 1 < (n - a) + 1
      BY <2>3, <2>4
    <3> QED
      BY <2>2, <2>3, <3>1 DEF Ascending
  <2> QED
    BY <1>5, <2>1, <2>3, <2>4 DEF Descending
<1>7. ContainerTypeOK'
  BY <1>1, <1>2, <1>3, <1>5 DEF ContainerTypeOK
<1>8. Holding'
  <2> SUFFICES ASSUME NEW h \in Scopes, NEW l \in Tokens, held'[h][l] # NoInstance
               PROVE  Usable(held[h][l], h)' /\ made'[held'[h][l]].home = h
    BY DEF Holding
  <2>1. h # s /\ held'[h][l] = held[h][l] /\ created'[h] = created[h]
    BY <1>5
  <2>2. Usable(held[h][l], h) /\ made[held[h][l]].home = h
    BY <1>1, <2>1 DEF Holding
  <2> QED
    BY <1>3, <2>1, <2>2 DEF Usable
<1>9. Kept' /\ OneInstance'
  <2>1. \A h \in Scopes : \A i \in ToSet(created'[h]) : h # s /\ i \in ToSet(created[h]) /\ held'[h] = held[h]
    BY <1>4, <1>5
  <2>2. Kept'
    BY <1>1, <1>3, <2>1, SMTT(30) DEF Kept
  <2>3. OneInstance'
    BY <1>1, <1>3, <2>1 DEF ScopesHold, OneInstance
  <2> QED
    BY <2>2, <2>3
<1>10. Placed'
  <2>1. ASSUME NEW h \in Scopes
        PROVE  /\ Ascending(created'[h]) /\ Descending(toDispose'[h])
               /\ \A i \in ToSet(created'[h]) \cup ToSet(toDispose'[h]) :
                    i \in DOMAIN made /\ made[i].home = h /\ i \notin ToSet(released)
               /\ ToSet(created'[h]) \cap ToSet(toDispose'[h]) = {}
               /\ phase'[h] \in {"new", "open", "disposed"} => toDispose'[h] = <<>>
    <3>1. CASE h = s
      BY <1>1, <1>4, <1>5, <1>6, <3>1 DEF Placed
    <3>2. CASE h # s
      BY <1>1, <1>5, <3>2 DEF Placed
    <3> QED
      BY <3>1, <3>2
  <2> QED
    BY <1>1, <1>3, <2>1 DEF Placed
<1>11. Uses'
  <2>1. \A i \in DOMAIN made : made[i].home \in Scopes
    BY <1>1, FramesTyped DEF Instance
  <2> QED
    BY <1>1, <1>3, <1>4, <1>5, <2>1 DEF Uses
<1>12. NoCapture' /\ UsersFirst'
  BY <1>1, <1>3 DEF ScopesHold, NoCapture, UsersFirst
<1>13. DisposedOnce'
  <2>1. \A i \in DOMAIN made : made[i].home \in Scopes
    BY <1>1, FramesTyped DEF Instance
  <2>2. \A h \in Scopes : ToSet(created'[h]) \cup ToSet(toDispose'[h]) = ToSet(created[h]) \cup ToSet(toDispose[h])
    BY <1>3, <1>4, <1>5, <1>6
  <2>3. \A h \in Scopes : phase'[h] = "disposed" => toDispose'[h] = <<>>
    BY <1>1, <1>5 DEF ScopesHold, DisposedOnce
  <2>4. \A i \in DOMAIN made : made[i].owned <=>
          i \in ToSet(released) \cup ToSet(created'[made[i].home]) \cup ToSet(toDispose'[made[i].home])
    BY <1>1, <2>1, <2>2 DEF ScopesHold, DisposedOnce
  <2> QED
    BY <1>1, <1>3, <2>3, <2>4 DEF ScopesHold, DisposedOnce
<1> QED
  BY <1>2, <1>7, <1>8, <1>9, <1>10, <1>11, <1>12, <1>13 DEF ContainerInv, ScopesHold

LEMMA ReleaseSound ==
  ASSUME ContainerInv, Idle, NEW s \in Scopes, toDispose[s] # <<>>,
         released' = Append(released, Head(toDispose[s])),
         toDispose' = [toDispose EXCEPT ![s] = Tail(@)],
         phase[s] = "disposing",
         UNCHANGED <<wiring, registrations, held, created, made, calls, answer, phase>>
  PROVE  ContainerInv'
<1> DEFINE gone == Head(toDispose[s])
           left == Tail(toDispose[s])
<1>1. ContainerTypeOK /\ Placed /\ Uses /\ ScopesHold
  BY DEF ContainerInv
<1>2. Nested' /\ calls' \in Seq(Frame) /\ answer' \in Nat \cup {Thrown}
  BY IdleNested
<1>3. /\ gone = toDispose[s][1] /\ gone \in Nat /\ left \in Seq(Nat)
      /\ Len(toDispose[s]) \in Nat \ {0} /\ Len(left) = Len(toDispose[s]) - 1
      /\ DOMAIN left = 1 .. (Len(toDispose[s]) - 1) /\ DOMAIN toDispose[s] = 1 .. Len(toDispose[s])
      /\ \A n \in 1 .. (Len(toDispose[s]) - 1) : left[n] = toDispose[s][n + 1]
      /\ ToSet(toDispose[s]) = ToSet(left) \cup {gone}
  <2>1. toDispose[s] \in Seq(Nat)
    BY <1>1 DEF ContainerTypeOK
  <2> QED
    BY <2>1, Shortened, EveryElement
<1>4. /\ released' \in Seq(Nat) /\ ToSet(released') = ToSet(released) \cup {gone}
      /\ DOMAIN released' = 1 .. (Len(released) + 1) /\ Len(released) \in Nat /\ DOMAIN released = 1 .. Len(released)
      /\ \A n \in 1 .. Len(released) : released'[n] = released[n] /\ released[n] \in ToSet(released)
      /\ released'[Len(released) + 1] = gone
  <2>1. released \in Seq(Nat)
    BY <1>1 DEF ContainerTypeOK
  <2> QED
    BY <1>3, <2>1, Appended, EveryElement
<1> HIDE DEF gone, left
<1>5. /\ toDispose' \in [Scopes -> Seq(Nat)] /\ toDispose'[s] = left
      /\ \A h \in Scopes : h # s => toDispose'[h] = toDispose[h]
  BY <1>1, <1>3 DEF ContainerTypeOK, left
<1>6. \A i \in ToSet(left) : i < gone
  <2>1. \A n \in 1 .. (Len(toDispose[s]) - 1) : toDispose[s][n + 1] < toDispose[s][1]
    BY <1>1, <1>3 DEF Placed, Descending
  <2>2. \A n \in DOMAIN left : left[n] < gone
    BY <1>3, <2>1
  <2> QED
    BY <2>2 DEF ToSet
<1>7. /\ gone \in DOMAIN made /\ made[gone].home = s /\ gone \notin ToSet(released)
      /\ gone \notin ToSet(created[s]) /\ gone \notin ToSet(left)
  <2>1. gone \notin ToSet(left)
    BY <1>3, <1>6
  <2>2. gone \in ToSet(toDispose[s])
    BY <1>3
  <2> QED
    BY <1>1, <2>1, <2>2 DEF Placed
<1>8. \A h \in Scopes : gone \notin ToSet(created[h]) /\ gone \notin ToSet(toDispose'[h])
  BY <1>1, <1>5, <1>7 DEF Placed
<1>9. ContainerTypeOK'
  BY <1>1, <1>2, <1>4, <1>5 DEF ContainerTypeOK
<1>10. Holding' /\ Kept' /\ OneInstance' /\ NoCapture'
  BY DEF ContainerInv, ScopesHold, Holding, Kept, OneInstance, NoCapture, Usable
<1>11. Placed'
  <2>1. Descending(left)
    <3> DEFINE n == Len(toDispose[s])
    <3>1. /\ n \in Nat \ {0} /\ DOMAIN left = 1 .. (n - 1) /\ DOMAIN toDispose[s] = 1 .. n
          /\ \A m \in 1 .. (n - 1) : left[m] = toDispose[s][m + 1]
      BY <1>3
    <3>2. \A a, b \in 1 .. n : a < b => toDispose[s][b] < toDispose[s][a]
      BY <1>1, <3>1 DEF Placed, Descending
    <3> HIDE DEF n
    <3>3. ASSUME NEW a \in 1 .. (n - 1), NEW b \in 1 .. (n - 1), a < b
          PROVE  left[b] < left[a]
      <4>1. a + 1 \in 1 .. n /\ b + 1 \in 1 .. n /\ a + 1 < b + 1
        BY <3>1, <3>3
      <4> QED
        BY <3>1, <3>2, <4>1
    <3> QED
      BY <3>1, <3>3 DEF Descending
  <2>2. \A h \in Scopes : /\ Ascending(created[h]) /\ Descending(toDispose'[h])
                           /\ ToSet(toDispose'[h]) \subseteq ToSet(toDispose[h])
    BY <1>1, <1>3, <1>5, <2>1 DEF Placed
  <2>3. \A h \in Scopes : phase[h] \in {"new", "open", "disposed"} => toDispose'[h] = <<>>
    BY <1>1, <1>5 DEF Placed
  <2>4. \A h \in Scopes : \A i \in ToSet(created[h]) \cup ToSet(toDispose'[h]) :
          i \in DOMAIN made /\ made[i].home = h /\ i \notin ToSet(released')
    BY <1>1, <1>4, <1>8, <2>2 DEF Placed
  <2>5. \A h \in Scopes : ToSet(created[h]) \cap ToSet(toDispose'[h]) = {}
    BY <1>1, <2>2 DEF Placed
  <2>6. ToSet(released') \subseteq DOMAIN made
    BY <1>1, <1>4, <1>7 DEF Placed
  <2> QED
    BY <2>2, <2>3, <2>4, <2>5, <2>6 DEF Placed
<1>12. \A i \in DOMAIN made : made[i].home \in Scopes
  BY <1>1, FramesTyped DEF Instance
<1>13. Uses'
  <2> SUFFICES ASSUME NEW i \in DOMAIN made, i \in ToSet(created[made[i].home]), NEW u \in made[i].uses,
                      made[u].home = made[i].home
               PROVE  u \notin ToSet(released') /\ u \notin ToSet(toDispose'[made[i].home])
    BY <1>1 DEF Uses
  <2>1. u \notin ToSet(released) /\ u \notin ToSet(toDispose[made[i].home])
    BY <1>1 DEF Uses
  <2>2. u # gone
    BY <1>3, <1>7, <2>1
  <2> QED
    BY <1>3, <1>4, <1>5, <1>12, <2>1, <2>2
<1>14. DisposedOnce'
  <2>1. ASSUME NEW m \in DOMAIN released', NEW n \in DOMAIN released', released'[m] = released'[n]
        PROVE  m = n
    <3>1. \A l \in DOMAIN released' : l = Len(released) + 1 \/ (l \in DOMAIN released /\ released'[l] # gone)
      BY <1>4, <1>7
    <3>2. CASE m \in DOMAIN released /\ n \in DOMAIN released
      BY <1>1, <1>4, <2>1, <3>2 DEF ScopesHold, DisposedOnce
    <3> QED
      BY <1>4, <2>1, <3>1, <3>2
  <2>2. ASSUME NEW i \in DOMAIN made
        PROVE  made[i].owned <=>
                 i \in ToSet(released') \cup ToSet(created[made[i].home]) \cup ToSet(toDispose'[made[i].home])
    <3>1. made[i].owned <=>
            i \in ToSet(released) \cup ToSet(created[made[i].home]) \cup ToSet(toDispose[made[i].home])
      BY <1>1 DEF ScopesHold, DisposedOnce
    <3>2. CASE made[i].home = s
      BY <1>3, <1>4, <1>5, <3>1, <3>2
    <3>3. CASE made[i].home # s
      <4>1. toDispose'[made[i].home] = toDispose[made[i].home] /\ i # gone
        BY <1>5, <1>7, <1>12, <3>3
      <4> QED
        BY <1>4, <3>1, <4>1
    <3> QED
      BY <3>2, <3>3
  <2>3. \A h \in Scopes : phase[h] = "disposed" => toDispose'[h] = <<>>
    BY <1>1, <1>5 DEF ScopesHold, DisposedOnce
  <2> QED
    BY <2>1, <2>2, <2>3 DEF DisposedOnce
<1>15. UsersFirst'
  <2> SUFFICES ASSUME NEW n \in DOMAIN released', NEW i \in DOMAIN made,
                      released'[n] \in made[i].uses, made[i].home = made[released'[n]].home
               PROVE  i \in ToSet(SubSeq(released', 1, n))
    BY DEF UsersFirst
  <2> DEFINE log == released'
  <2>0. log \in Seq(Nat)
    BY <1>4
  <2> HIDE DEF log
  <2>1. ToSet(SubSeq(released', 1, n)) = {released'[l] : l \in 1 .. n}
    <3>1. n \in DOMAIN log
      BY DEF log
    <3>2. ToSet(SubSeq(log, 1, n)) = {log[l] : l \in 1 .. n}
      BY <2>0, <3>1, FirstOnes
    <3> QED
      BY <3>2 DEF log
  <2>2. CASE n \in DOMAIN released
    <3>1. i \in ToSet(SubSeq(released, 1, n))
      BY <1>1, <1>4, <2>2 DEF ScopesHold, UsersFirst
    <3>2. ToSet(SubSeq(released, 1, n)) = {released[l] : l \in 1 .. n}
      <4>1. released \in Seq(Nat)
        BY <1>1 DEF ContainerTypeOK
      <4> QED
        BY <2>2, <4>1, FirstOnes
    <3>3. \A l \in 1 .. n : released'[l] = released[l]
      BY <1>4, <2>2
    <3> QED
      BY <2>1, <3>1, <3>2, <3>3
  <2>3. CASE n = Len(released) + 1
    <3>1. gone \in made[i].uses /\ made[i].home = s
      BY <1>4, <1>7, <2>3
    <3>2. made[i].owned /\ gone < i
      BY <1>1, <3>1 DEF Uses
    <3>3. i \notin ToSet(created[s])
      <4>1. gone \in ToSet(toDispose[s])
        BY <1>3
      <4> QED
        BY <1>1, <1>7, <3>1, <4>1 DEF Uses
    <3>4. i \notin ToSet(toDispose[s])
      <4>1. i \in Nat
        BY <1>1, FramesTyped
      <4>2. \A j \in ToSet(left) : j \in Nat
        BY <1>3, EveryElement
      <4> QED
        BY <1>3, <1>6, <3>2, <4>1, <4>2
    <3>5. i \in ToSet(released)
      BY <1>1, <3>1, <3>2, <3>3, <3>4 DEF ScopesHold, DisposedOnce
    <3>6. PICK l \in DOMAIN released : released[l] = i
      BY <3>5 DEF ToSet
    <3>7. l \in 1 .. n /\ released'[l] = i
      BY <1>4, <2>3, <3>6
    <3> QED
      BY <2>1, <3>7
  <2> QED
    BY <1>4, <2>2, <2>3
<1> QED
  BY <1>2, <1>9, <1>10, <1>11, <1>13, <1>14, <1>15 DEF ContainerInv, ScopesHold

LEMMA DisposeInstanceSound ==
  ASSUME ContainerInv, NEW s \in Scopes, DisposeInstance(s)
  PROVE  ContainerInv'
<1>1. CASE toDispose[s] = <<>>
  BY <1>1, PhaseSound DEF DisposeInstance
<1>2. CASE toDispose[s] # <<>>
  BY <1>2, ReleaseSound DEF DisposeInstance
<1> QED
  BY <1>1, <1>2

LEMMA PhasesSound ==
  ASSUME ContainerInv, NEW s \in Scopes, createScope(s) \/ DisposeThrows(s)
  PROVE  ContainerInv'
<1>1. CASE createScope(s)
  <2>1. toDispose[s] = <<>>
    BY <1>1 DEF createScope, ContainerInv, Placed
  <2> QED
    BY <1>1, <2>1, PhaseSound DEF createScope
<1>2. CASE DisposeThrows(s)
  BY <1>2, PhaseSound DEF DisposeThrows
<1> QED
  BY <1>1, <1>2

-----------------------------------------------------------------------------
LEMMA ContainerInitHolds == ContainerInit => ContainerInv
<1> SUFFICES ASSUME ContainerInit
             PROVE  ContainerInv
  OBVIOUS
<1>1. ToSet(<<>>) = {} /\ <<>> \in Seq(Nat) /\ DOMAIN <<>> = {} /\ Len(<<>>) = 0
  BY DEF ToSet
<1>2. ContainerTypeOK
  <2>1. wiring \in [Tokens -> Seq(Tokens)] /\ registrations \in [Tokens -> Kinds]
    BY WiringsAssumption, LifetimesAssumption DEF ContainerInit
  <2>2. made \in Seq(Instance) /\ calls \in Seq(Frame) /\ released \in Seq(Nat)
    BY DEF ContainerInit
  <2>3. held \in [Scopes -> [Tokens -> Nat]] /\ answer \in Nat
    BY DEF ContainerInit, NoInstance
  <2>4. created \in [Scopes -> Seq(Nat)] /\ toDispose \in [Scopes -> Seq(Nat)]
    BY <1>1 DEF ContainerInit
  <2>5. phase \in [Scopes -> {"new", "open", "disposing", "disposed", "failed"}]
    BY DEF ContainerInit
  <2> QED
    BY <2>1, <2>2, <2>3, <2>4, <2>5 DEF ContainerTypeOK
<1>3. Holding
  BY DEF ContainerInit, Holding
<1>4. Nested
  BY <1>1 DEF ContainerInit, Nested, NoInstance
<1>5. Kept /\ OneInstance
  BY <1>1 DEF ContainerInit, Kept, OneInstance
<1>6. Placed
  BY <1>1 DEF ContainerInit, Placed, Ascending, Descending
<1>7. Uses /\ NoCapture
  BY <1>1 DEF ContainerInit, Uses, NoCapture
<1>8. DisposedOnce /\ UsersFirst
  BY <1>1 DEF ContainerInit, DisposedOnce, UsersFirst
<1> QED
  BY <1>2, <1>3, <1>4, <1>5, <1>6, <1>7, <1>8 DEF ContainerInv, ScopesHold

ContainerSpec == ContainerInit /\ [][ContainerNext]_containerVars

LEMMA ContainerInvariance == ContainerSpec => []ContainerInv
<1>1. ContainerInv /\ [ContainerNext]_containerVars => ContainerInv'
  <2> SUFFICES ASSUME ContainerInv, [ContainerNext]_containerVars
               PROVE  ContainerInv'
    OBVIOUS
  <2>1. ASSUME NEW s \in Scopes,
               \/ createScope(s) \/ Dispose(s) \/ DisposeInstance(s) \/ DisposeThrows(s)
               \/ \E k \in Tokens : get(s, k)
               \/ \E k \in Replaced : provide(s, k)
        PROVE  ContainerInv'
    BY <2>1, PhasesSound, DisposeSound, DisposeInstanceSound, GetSound, ProvideSound
  <2>2. CASE Ask \/ Receive \/ Throws \/ Create
    BY <2>2, AskSound, ReceiveSound, ThrowsSound, CreatedSound
  <2>3. ASSUME NEW k \in Replaced, override(k)
        PROVE  ContainerInv'
    BY <2>3, OverrideSound
  <2>4. CASE UNCHANGED containerVars
    BY <2>4 DEF containerVars, ContainerInv, ContainerTypeOK, Holding, Nested, Kept, Placed, Uses, ScopesHold,
                NoCapture, OneInstance, DisposedOnce, UsersFirst, Usable, Begun, Owned, Lifetime, Top, Idle
  <2> QED
    BY <2>1, <2>2, <2>3, <2>4 DEF ContainerNext
<1> QED
  BY <1>1, ContainerInitHolds, PTL DEF ContainerSpec

\* Whatever handlers resolve, override, provide and dispose, whichever create() throws and
\* whichever disposal fails: no instance is given one that goes before it, a scope makes one
\* instance of a key, disposes what it made once, and users before what they use
\* (container.ts, resolve, dispose).
THEOREM ScopesCorrect == ContainerSpec => []ScopesHold
<1>1. ContainerInv => ScopesHold
  BY DEF ContainerInv
<1> QED
  BY <1>1, ContainerInvariance, PTL

-----------------------------------------------------------------------------
\* EventBus.

LEMMA Smallest ==
  ASSUME NEW T, T \subseteq Nat, T # {}
  PROVE  \E x \in T : \A y \in T : x <= y
<1>1. PICK x \in T : \A y \in T : ~ (<<y, x>> \in OpToRel(<, Nat))
  BY NatLessThanWellFounded, WFMin
<1>2. \A y \in T : ~ (y < x)
  BY <1>1 DEF OpToRel
<1> QED
  BY <1>2

\* The place of an element, as SelectInSeq finds it.
LEMMA Place ==
  ASSUME NEW S, NEW s \in Seq(S), NEW x, Contains(s, x)
  PROVE  LET n == SelectInSeq(s, LAMBDA y : y = x)
         IN n \in 1 .. Len(s) /\ s[n] = x
<1> DEFINE I == {i \in 1 .. Len(s) : s[i] = x}
<1>1. Len(s) \in Nat /\ I \subseteq Nat /\ I # {}
  BY DEF Contains
<1>2. \E n \in I : \A m \in I : n <= m
  BY <1>1, Smallest
<1>3. Min(I) \in I
  BY <1>2 DEF Min
<1>4. SelectInSeq(s, LAMBDA y : y = x) = Min(I)
  BY <1>1 DEF SelectInSeq
<1> QED
  BY <1>3, <1>4
\* The place that splice() cuts: the listener's, or the last for one that is not there.
Cut(list, r) == IF Contains(list, r) THEN SelectInSeq(list, LAMBDA x : x = r) ELSE Len(list)

LEMMA Joined ==
  ASSUME NEW S, NEW s \in Seq(S), NEW t \in Seq(S)
  PROVE  /\ s \o t \in Seq(S) /\ Len(s \o t) = Len(s) + Len(t)
         /\ \A n \in 1 .. (Len(s) + Len(t)) : (s \o t)[n] = IF n <= Len(s) THEN s[n] ELSE t[n - Len(s)]
OBVIOUS

LEMMA SplicedOut ==
  ASSUME NEW S, NEW list \in Seq(S), list # <<>>, NEW r
  PROVE  /\ Len(list) \in Nat \ {0} /\ Cut(list, r) \in 1 .. Len(list)
         /\ Contains(list, r) => list[Cut(list, r)] = r
         /\ Spliced(list, r) \in Seq(S) /\ Len(Spliced(list, r)) = Len(list) - 1
         /\ \A n \in 1 .. (Len(list) - 1) :
              Spliced(list, r)[n] = IF n < Cut(list, r) THEN list[n] ELSE list[n + 1]
<1> DEFINE len == Len(list)
           at == Cut(list, r)
<1>1. len \in Nat \ {0}
  OBVIOUS
<1>2. at \in 1 .. len /\ (Contains(list, r) => list[at] = r)
  <2>1. CASE Contains(list, r)
    <3>1. Cut(list, r) = SelectInSeq(list, LAMBDA x : x = r)
      BY <2>1 DEF Cut
    <3>2. /\ SelectInSeq(list, LAMBDA x : x = r) \in 1 .. Len(list)
          /\ list[SelectInSeq(list, LAMBDA x : x = r)] = r
      BY <2>1, Place
    <3> QED
      BY <3>1, <3>2
  <2>2. CASE ~ Contains(list, r)
    BY <1>1, <2>2 DEF Cut
  <2> QED
    BY <2>1, <2>2
<1>3. Spliced(list, r) = SubSeq(list, 1, at - 1) \o SubSeq(list, at + 1, len)
  <2>1. CASE Contains(list, r)
    BY <2>1 DEF Spliced, RemoveFirst, RemoveAt, Cut, Contains
  <2>2. CASE ~ Contains(list, r)
    <3>1. Spliced(list, r) = SubSeq(list, 1, len - 1) /\ at = len
      BY <2>2 DEF Spliced, Front, Cut
    <3>2. SubSeq(list, len + 1, len) = <<>> /\ SubSeq(list, 1, len - 1) \in Seq(S)
      BY <1>1
    <3> QED
      BY <3>1, <3>2
  <2> QED
    BY <2>1, <2>2
<1> HIDE DEF at
<1>4. /\ SubSeq(list, 1, at - 1) \in Seq(S) /\ Len(SubSeq(list, 1, at - 1)) = at - 1
      /\ \A n \in 1 .. (at - 1) : SubSeq(list, 1, at - 1)[n] = list[n]
  BY <1>1, <1>2
<1>5. /\ SubSeq(list, at + 1, len) \in Seq(S) /\ Len(SubSeq(list, at + 1, len)) = len - at
      /\ \A n \in 1 .. (len - at) : SubSeq(list, at + 1, len)[n] = list[at + n]
  BY <1>1, <1>2
<1> DEFINE before == SubSeq(list, 1, at - 1)
           after == SubSeq(list, at + 1, len)
<1>6. /\ before \in Seq(S) /\ Len(before) = at - 1 /\ (\A n \in 1 .. (at - 1) : before[n] = list[n])
      /\ after \in Seq(S) /\ Len(after) = len - at /\ (\A n \in 1 .. (len - at) : after[n] = list[at + n])
      /\ Spliced(list, r) = before \o after
  BY <1>3, <1>4, <1>5
<1> HIDE DEF before, after, len
<1>7. /\ before \o after \in Seq(S) /\ Len(before \o after) = len - 1
      /\ \A n \in 1 .. (len - 1) : (before \o after)[n] = IF n < at THEN before[n] ELSE after[(n - at) + 1]
  <2>1. /\ before \o after \in Seq(S) /\ Len(before \o after) = (at - 1) + (len - at)
        /\ \A n \in 1 .. ((at - 1) + (len - at)) :
             (before \o after)[n] = IF n <= at - 1 THEN before[n] ELSE after[n - (at - 1)]
    <3>1. /\ before \o after \in Seq(S) /\ Len(before \o after) = Len(before) + Len(after)
          /\ \A n \in 1 .. (Len(before) + Len(after)) :
               (before \o after)[n] = IF n <= Len(before) THEN before[n] ELSE after[n - Len(before)]
      BY <1>6, Joined
    <3>2. Len(before) = at - 1 /\ Len(after) = len - at
      BY <1>6
    <3> QED
      BY <3>1, <3>2
  <2>2. (at - 1) + (len - at) = len - 1
    BY <1>1, <1>2
  <2>3. \A n \in 1 .. (len - 1) : (n <= at - 1 <=> n < at) /\ n - (at - 1) = (n - at) + 1
    BY <1>1, <1>2
  <2> QED
    BY <2>1, <2>2, <2>3
<1>8. \A n \in 1 .. (len - 1) : (before \o after)[n] = IF n < at THEN list[n] ELSE list[n + 1]
  <2> SUFFICES ASSUME NEW n \in 1 .. (len - 1)
               PROVE  (before \o after)[n] = IF n < at THEN list[n] ELSE list[n + 1]
    OBVIOUS
  <2>1. CASE n < at
    BY <1>1, <1>2, <1>6, <1>7, <2>1
  <2>2. CASE ~ (n < at)
    <3>1. (n - at) + 1 \in 1 .. (len - at) /\ at + ((n - at) + 1) = n + 1
      BY <1>1, <1>2, <2>2
    <3> QED
      BY <1>6, <1>7, <2>2, <3>1
  <2> QED
    BY <2>1, <2>2
<1> QED
  BY <1>1, <1>2, <1>6, <1>7, <1>8 DEF at, len

\* Who is left of a spliced array.
LEMMA SplicedSet ==
  ASSUME NEW S, NEW list \in Seq(S), list # <<>>, NEW r
  PROVE  /\ ToSet(Spliced(list, r)) \subseteq ToSet(list)
         /\ IsInjective(list) => IsInjective(Spliced(list, r))
         /\ ToSet(list) \ {list[Cut(list, r)]} \subseteq ToSet(Spliced(list, r))
         /\ r \in ToSet(list) => list[Cut(list, r)] = r
         /\ IsInjective(list) => r \notin ToSet(Spliced(list, r))
<1> DEFINE short == Spliced(list, r)
           at == Cut(list, r)
           len == Len(list)
<1>1. /\ len \in Nat \ {0} /\ at \in 1 .. len /\ (Contains(list, r) => list[at] = r)
      /\ short \in Seq(S) /\ Len(short) = len - 1
      /\ \A n \in 1 .. (len - 1) : short[n] = IF n < at THEN list[n] ELSE list[n + 1]
  BY SplicedOut
<1>2. DOMAIN list = 1 .. len /\ DOMAIN short = 1 .. (len - 1)
  BY <1>1
<1>3. r \in ToSet(list) => list[at] = r
  BY <1>1, <1>2 DEF Contains, ToSet
<1> HIDE DEF short, at, len
<1>4. ASSUME NEW n \in 1 .. (len - 1)
      PROVE  \E m \in 1 .. len : short[n] = list[m] /\ (m = IF n < at THEN n ELSE n + 1)
  <2>1. n \in 1 .. len /\ n + 1 \in 1 .. len
    BY <1>1
  <2> QED
    BY <1>1, <2>1
<1>5. ToSet(short) \subseteq ToSet(list)
  BY <1>2, <1>4 DEF ToSet
<1>6. IsInjective(list) => IsInjective(short)
  <2> SUFFICES ASSUME \A m, n \in 1 .. len : list[m] = list[n] => m = n,
                      NEW a \in 1 .. (len - 1), NEW c \in 1 .. (len - 1), short[a] = short[c]
               PROVE  a = c
    BY <1>2 DEF IsInjective
  <2>1. PICK m \in 1 .. len : short[a] = list[m] /\ (m = IF a < at THEN a ELSE a + 1)
    BY <1>4
  <2>2. PICK n \in 1 .. len : short[c] = list[n] /\ (n = IF c < at THEN c ELSE c + 1)
    BY <1>4
  <2>3. m = n
    BY <2>1, <2>2
  <2> QED
    BY <1>1, <2>1, <2>2, <2>3
<1>7. ToSet(list) \ {list[at]} \subseteq ToSet(short)
  <2> SUFFICES ASSUME NEW n \in 1 .. len, list[n] # list[at]
               PROVE  list[n] \in ToSet(short)
    BY <1>2 DEF ToSet
  <2>1. n # at
    OBVIOUS
  <2>2. CASE n < at
    <3>1. n \in 1 .. (len - 1) /\ short[n] = list[n]
      BY <1>1, <2>2
    <3> QED
      BY <1>2, <3>1 DEF ToSet
  <2>3. CASE n > at
    <3>1. n - 1 \in 1 .. (len - 1) /\ ~ (n - 1 < at) /\ (n - 1) + 1 = n
      BY <1>1, <2>3
    <3>2. short[n - 1] = list[n]
      BY <1>1, <3>1
    <3> QED
      BY <1>2, <3>1, <3>2 DEF ToSet
  <2> QED
    BY <1>1, <2>1, <2>2, <2>3
<1>8. IsInjective(list) => r \notin ToSet(short)
  <2> SUFFICES ASSUME \A m, n \in 1 .. len : list[m] = list[n] => m = n, NEW c \in 1 .. (len - 1), short[c] = r
               PROVE  FALSE
    BY <1>2 DEF IsInjective, ToSet
  <2>1. PICK m \in 1 .. len : short[c] = list[m] /\ (m = IF c < at THEN c ELSE c + 1)
    BY <1>4
  <2>2. list[m] = list[at]
    BY <1>2, <1>3, <2>1 DEF ToSet
  <2>3. m = at
    BY <1>1, <2>2
  <2> QED
    BY <1>1, <2>1, <2>3
<1> QED
  BY <1>3, <1>5, <1>6, <1>7, <1>8 DEF short, at
-----------------------------------------------------------------------------
\* The invariant.

Event == [pc : {"new", "dispatching", "waiting", "failed", "dropped", "refused", "delivered", "published", "home"},
          bus : Buses \cup {NoListener}, at : Nat \ {0},
          jobs : SUBSET DOMAIN DurableOn, had : SUBSET DOMAIN DurableOn,
          tx : {"none", "open", "committed", "rolled back"},
          deferred : Seq(DOMAIN DurableOn), lost : SUBSET DOMAIN DurableOn]
Loop == [bus : Buses, ear : Ears, send : Sends, at : Nat \ {0}, had : SUBSET DOMAIN LocalOn, shifted : BOOLEAN]

BusTypeOK ==
  /\ setup \in [aware : BOOLEAN, queue : Queues]
  /\ local \in [Buses -> Seq(DOMAIN LocalOn)]
  /\ durable \in [Buses -> Seq(DOMAIN DurableOn \cup {NoListener})]
  /\ Made \subseteq DOMAIN LocalOn \cup DOMAIN DurableOn /\ IsFiniteSet(Made) /\ offs \in [Made -> 0 .. MaxOffs]
  /\ sent \in [Sends -> Event]
  /\ delivery \in Seq(Loop) /\ Len(delivery) <= 1
  /\ listening \subseteq DOMAIN ListensOn /\ inbox \subseteq Ears \X Sends
  /\ ran \in [Ears \X Sends -> Seq(DOMAIN LocalOn)]
  /\ deliveries \in Seq(Ears \X Sends)

\* A listener is in the array of its bus once, a bus has one durable listener of the name, and
\* who is registered was not removed before.
Listed ==
  \A b \in Buses : /\ IsInjective(local[b]) /\ ToSet(local[b]) \cup LiveDurable(b) \subseteq Made
                   /\ \A x, y \in LiveDurable(b) : x = y
                   /\ \A x \in ToSet(local[b]) : LocalOn[x] = b /\ offs[x] = 0
                   /\ \A x \in LiveDurable(b) : DurableOn[x] = b /\ offs[x] = 0

\* Events that no local listener may have heard yet, or ever.
Silent == {"new", "dispatching", "waiting", "failed", "dropped", "refused"}

\* Listeners run for a delivery only, and a message in flight is of an event its ear has not delivered.
Told ==
  \A b \in Ears, s \in Sends :
    /\ ToSet(ran[<<b, s>>]) \subseteq Made /\ IsInjective(ran[<<b, s>>])
    /\ <<b, s>> \notin ToSet(deliveries) => ran[<<b, s>>] = <<>>
    /\ sent[s].pc \in Silent => <<b, s>> \notin ToSet(deliveries)
    /\ <<b, s>> \in inbox => sent[s].pc = "published" /\ <<b, s>> \notin ToSet(deliveries)

\* What an event has done to the listeners it passed.
Done(e) == e.jobs \cup e.lost \cup ToSet(e.deferred)

\* The loop `now` has started what it passed, unless the array shifted, and nothing of what is ahead.
Looping(now) ==
  /\ <<now.ear, now.send>> \in ToSet(deliveries)
  /\ \A n \in now.at .. Len(local[now.bus]) : local[now.bus][n] \notin ToSet(ran[<<now.ear, now.send>>])
  /\ ~ now.shifted => /\ now.at <= Len(local[now.bus]) + 1
                      /\ \A n \in 1 .. (now.at - 1) : local[now.bus][n] \in ToSet(ran[<<now.ear, now.send>>])
  /\ now.at = 1 /\ sent[now.send].pc = "delivered"
     => sent[now.send].had \cap LiveDurable(now.bus) \subseteq DealtWith(now.send)

\* The durable listeners an emit has passed have their jobs, or will after the commit.
Dispatching(s) ==
  /\ sent[s].pc \in {"dispatching", "waiting"} => sent[s].bus \in Buses /\ sent[s].had \subseteq Made
  /\ sent[s].pc = "dispatching" =>
       /\ sent[s].at <= Len(durable[sent[s].bus]) + 1
       /\ \A n \in 1 .. (sent[s].at - 1) : durable[sent[s].bus][n] \in Done(sent[s]) \cup {NoListener}
  /\ sent[s].pc = "waiting" => sent[s].had \cap LiveDurable(sent[s].bus) \subseteq Done(sent[s])

\* Only a queue that defers has dispatches that wait, and what waits shares the fate of the transaction.
Fated(s) ==
  /\ sent[s].tx \in {"open", "rolled back"} => /\ (setup.queue = "deferring" => sent[s].jobs = {})
                                              /\ sent[s].lost = {}
                                              /\ (setup.aware => sent[s].pc \in Silent)
  /\ sent[s].tx = "rolled back" => sent[s].deferred = <<>> /\ (setup.queue = "transactional" => sent[s].jobs = {})
  /\ sent[s].lost # {} => setup.queue = "deferring"
  /\ sent[s].deferred # <<>> => setup.queue = "deferring" /\ sent[s].tx \in {"open", "committed"}
  /\ sent[s].pc = "dispatching" => sent[s].tx \in {"none", "open"}

BusInv ==
  /\ BusTypeOK /\ Listed /\ Told /\ OthersStay /\ IsInjective(deliveries)
  /\ \A now \in ToSet(delivery) : Looping(now)
  /\ \A s \in Sends : Dispatching(s) /\ Fated(s)
-----------------------------------------------------------------------------
\* Facts that every step needs.

LEMMA Registers1 ==
  ASSUME BusInv, NEW r \in DOMAIN LocalOn \cup DOMAIN DurableOn, Registers(r)
  PROVE  /\ DOMAIN offs' = Made \cup {r} /\ offs' \in [Made \cup {r} -> 0 .. MaxOffs]
         /\ r \notin Made /\ offs'[r] = 0 /\ \A x \in Made : offs'[x] = offs[x]
         /\ IsFiniteSet(DOMAIN offs')
<1>1. /\ DOMAIN offs' = Made \cup {r} /\ offs' \in [Made \cup {r} -> 0 .. MaxOffs]
      /\ r \notin Made /\ offs'[r] = 0 /\ \A x \in Made : offs'[x] = offs[x]
  BY DEF BusInv, BusTypeOK, Registers, Made, MaxOffs
<1>2. IsFiniteSet(Made)
  BY DEF BusInv, BusTypeOK
<1> QED
  BY <1>1, <1>2, FS_AddElement

LEMMA CallsOff1 ==
  ASSUME BusInv, NEW r \in DOMAIN LocalOn \cup DOMAIN DurableOn, CallsOff(r)
  PROVE  /\ DOMAIN offs' = Made /\ offs' \in [Made -> 0 .. MaxOffs] /\ r \in Made
         /\ offs'[r] = offs[r] + 1 /\ offs[r] \in {0, 1}
         /\ \A x \in Made \ {r} : offs'[x] = offs[x]
<1>1. offs \in [Made -> 0 .. 2] /\ r \in Made /\ offs[r] < 2 /\ offs' = [offs EXCEPT ![r] = @ + 1]
  BY DEF BusInv, BusTypeOK, CallsOff, MaxOffs
<1>2. offs[r] \in {0, 1}
  BY <1>1
<1> QED
  BY <1>1, <1>2 DEF MaxOffs

\* A call that costs one listener is a first call of one that was missing, or another call.
LEMMA OneEach ==
  ASSUME NEW G, NEW R, NEW G1, NEW R1, NEW r, NEW y,
         IsFiniteSet(G), IsFiniteSet(R1), R \subseteq R1, Cardinality(G) <= Cardinality(R),
         \/ G1 \subseteq G
         \/ r \in G /\ G1 \subseteq (G \ {r}) \cup {y}
         \/ r \in R1 \ R /\ G1 \subseteq G \cup {y}
  PROVE  Cardinality(G1) <= Cardinality(R1)
<1>1. /\ IsFiniteSet(R) /\ Cardinality(R) <= Cardinality(R1)
      /\ Cardinality(G) \in Nat /\ Cardinality(R) \in Nat /\ Cardinality(R1) \in Nat
  BY FS_Subset, FS_CardinalityType
<1>2. CASE G1 \subseteq G
  <2>1. Cardinality(G1) <= Cardinality(G) /\ Cardinality(G1) \in Nat
    BY <1>2, FS_Subset, FS_CardinalityType
  <2> QED
    BY <1>1, <2>1
<1>3. CASE r \in G /\ G1 \subseteq (G \ {r}) \cup {y}
  <2>1. IsFiniteSet(G \ {r}) /\ Cardinality(G \ {r}) = Cardinality(G) - 1
    BY <1>3, FS_RemoveElement
  <2> DEFINE small == G \ {r}
  <2>2. /\ IsFiniteSet(small \cup {y}) /\ Cardinality(small) \in Nat
        /\ Cardinality(small \cup {y}) \in {Cardinality(small), Cardinality(small) + 1}
    BY <2>1, FS_AddElement, FS_CardinalityType
  <2>3. Cardinality(G1) <= Cardinality(small \cup {y}) /\ Cardinality(G1) \in Nat
    BY <1>3, <2>2, FS_Subset, FS_CardinalityType
  <2> QED
    BY <1>1, <2>1, <2>2, <2>3
<1>4. CASE r \in R1 \ R /\ G1 \subseteq G \cup {y}
  <2>1. /\ IsFiniteSet(G \cup {y})
        /\ Cardinality(G \cup {y}) \in {Cardinality(G), Cardinality(G) + 1}
    BY FS_AddElement
  <2>2. Cardinality(G1) <= Cardinality(G \cup {y}) /\ Cardinality(G1) \in Nat
    BY <1>4, <2>1, FS_Subset, FS_CardinalityType
  <2>3. Cardinality(R \cup {r}) = Cardinality(R) + 1 /\ R \cup {r} \subseteq R1
    BY <1>1, <1>4, FS_AddElement
  <2>4. Cardinality(R \cup {r}) <= Cardinality(R1)
    BY <2>3, FS_Subset
  <2> QED
    BY <1>1, <2>1, <2>2, <2>3, <2>4
<1> QED
  BY <1>2, <1>3, <1>4

LEMMA EventFields ==
  ASSUME NEW e \in Event
  PROVE  /\ e.at \in Nat \ {0} /\ e.jobs \subseteq DOMAIN DurableOn /\ e.had \subseteq DOMAIN DurableOn
         /\ e.lost \subseteq DOMAIN DurableOn /\ e.deferred \in Seq(DOMAIN DurableOn)
BY DEF Event

LEMMA OneForOne ==
  ASSUME NEW G, NEW R, NEW G1, NEW R1, NEW r, NEW y,
         IsFiniteSet(G), IsFiniteSet(R1), R \subseteq R1, Cardinality(G) <= Cardinality(R),
         r \in G, G1 \subseteq (G \ {r}) \cup {y}
  PROVE  Cardinality(G1) <= Cardinality(R1)
BY OneEach

LEMMA FewMade ==
  ASSUME BusTypeOK, NEW On, NEW b, NEW registered
  PROVE  IsFiniteSet(Missing(On, b, registered)) /\ IsFiniteSet(CalledAgain(On, b))
<1>1. /\ IsFiniteSet(Made) /\ Missing(On, b, registered) \subseteq Made /\ CalledAgain(On, b) \subseteq Made
  BY DEF BusTypeOK, Missing, CalledAgain
<1> QED
  BY <1>1, FS_Subset

LEMMA FewMadeLater ==
  ASSUME BusTypeOK', NEW On, NEW b
  PROVE  IsFiniteSet(CalledAgain(On, b)')
<1>1. IsFiniteSet(Made') /\ CalledAgain(On, b)' \subseteq Made'
  BY DEF BusTypeOK, CalledAgain
<1> QED
  BY <1>1, FS_Subset

\* Steps that leave the registrations alone.
LEMMA NobodyMoves ==
  ASSUME Listed, OthersStay, UNCHANGED <<local, durable, offs>>
  PROVE  Listed' /\ OthersStay'
<1>1. local' = local /\ durable' = durable /\ offs' = offs
  OBVIOUS
<1>2. Made' = Made /\ \A b : LiveDurable(b)' = LiveDurable(b)
  BY <1>1 DEF Made, LiveDurable
<1>3. Listed'
  BY <1>1, <1>2 DEF Listed
<1>5. \A On, b : CalledAgain(On, b)' = CalledAgain(On, b)
  BY <1>1, <1>2 DEF CalledAgain
<1>6. OthersStay'
  <2> SUFFICES ASSUME NEW b \in Buses
               PROVE  /\ Cardinality(Missing(LocalOn, b, ToSet(local[b]))') <= Cardinality(CalledAgain(LocalOn, b)')
                      /\ Cardinality(Missing(DurableOn, b, LiveDurable(b))') <= Cardinality(CalledAgain(DurableOn, b)')
    BY DEF OthersStay
  <2>1. /\ Missing(LocalOn, b, ToSet(local[b]))' = Missing(LocalOn, b, ToSet(local[b]))
        /\ Missing(DurableOn, b, LiveDurable(b))' = Missing(DurableOn, b, LiveDurable(b))
    BY <1>1, <1>2 DEF Missing
  <2> QED
    BY <1>5, <2>1 DEF OthersStay
<1> QED
  BY <1>3, <1>6

\* Who is registered later than a step found everyone stays where it was.
LEMMA OnLocalSound ==
  ASSUME BusInv, NEW r \in DOMAIN LocalOn, onLocal(r)
  PROVE  BusInv'
<1> DEFINE b == LocalOn[r]
<1>1. BusTypeOK /\ Listed /\ Told /\ OthersStay /\ Registers(r) /\ b \in Buses /\ r \notin DOMAIN DurableOn
  BY RegistrationsAssumption DEF BusInv, onLocal
<1>2. /\ DOMAIN offs' = Made \cup {r} /\ offs' \in [Made \cup {r} -> 0 .. MaxOffs]
      /\ r \notin Made /\ offs'[r] = 0 /\ \A x \in Made : offs'[x] = offs[x]
      /\ IsFiniteSet(DOMAIN offs')
  BY <1>1, Registers1
<1>3. /\ local[b] \in Seq(DOMAIN LocalOn) /\ UNCHANGED <<setup, durable, sent, delivery, listening, inbox, ran, deliveries>>
      /\ local' = [local EXCEPT ![b] = Append(@, r)]
  BY <1>1 DEF BusTypeOK, onLocal
<1>4. /\ Append(local[b], r) \in Seq(DOMAIN LocalOn) /\ Len(Append(local[b], r)) = Len(local[b]) + 1
      /\ \A n \in 1 .. Len(local[b]) : Append(local[b], r)[n] = local[b][n]
      /\ Append(local[b], r)[Len(local[b]) + 1] = r
      /\ ToSet(Append(local[b], r)) = ToSet(local[b]) \cup {r}
      /\ DOMAIN Append(local[b], r) = 1 .. (Len(local[b]) + 1)
      /\ DOMAIN local[b] = 1 .. Len(local[b]) /\ Len(local[b]) \in Nat
      /\ \A n \in 1 .. Len(local[b]) : local[b][n] \in ToSet(local[b])
  BY <1>3, Appended, EveryElement
<1> HIDE DEF b
<1>5. /\ local' \in [Buses -> Seq(DOMAIN LocalOn)] /\ local'[b] = Append(local[b], r)
      /\ \A c \in Buses : c # b => local'[c] = local[c]
  BY <1>1, <1>3, <1>4 DEF BusTypeOK
<1>6. BusTypeOK'
  BY <1>1, <1>2, <1>3, <1>5 DEF BusTypeOK, Made
<1>7. Listed'
  <2>2. /\ IsInjective(local'[b]) /\ ToSet(local'[b]) \subseteq Made \cup {r}
        /\ \A x \in ToSet(local'[b]) : LocalOn[x] = b /\ offs'[x] = 0
    <3>1. /\ IsInjective(local[b]) /\ ToSet(local[b]) \subseteq Made
          /\ \A x \in ToSet(local[b]) : LocalOn[x] = b /\ offs[x] = 0
      BY <1>1 DEF Listed
    <3>2. \A n \in 1 .. (Len(local[b]) + 1) : n \in 1 .. Len(local[b]) \/ n = Len(local[b]) + 1
      BY <1>4
    <3> QED
      BY <1>2, <1>4, <1>5, <3>1, <3>2 DEF IsInjective, b
  <2>3. Made' = Made \cup {r}
    BY <1>2 DEF Made
  <2>4. ASSUME NEW c \in Buses
        PROVE  /\ IsInjective(local'[c]) /\ ToSet(local'[c]) \cup LiveDurable(c)' \subseteq Made'
               /\ \A x, y \in LiveDurable(c)' : x = y
               /\ \A x \in ToSet(local'[c]) : LocalOn[x] = c /\ offs'[x] = 0
               /\ \A x \in LiveDurable(c)' : DurableOn[x] = c /\ offs'[x] = 0
    <3>1. /\ IsInjective(local[c]) /\ ToSet(local[c]) \cup LiveDurable(c) \subseteq Made
          /\ \A x, y \in LiveDurable(c) : x = y
          /\ \A x \in ToSet(local[c]) : LocalOn[x] = c /\ offs[x] = 0
          /\ \A x \in LiveDurable(c) : DurableOn[x] = c /\ offs[x] = 0
      BY <1>1 DEF Listed
    <3>2. LiveDurable(c)' = LiveDurable(c)
      BY <1>3 DEF LiveDurable
    <3>3. /\ IsInjective(local'[c]) /\ ToSet(local'[c]) \subseteq Made'
          /\ \A x \in ToSet(local'[c]) : LocalOn[x] = c /\ offs'[x] = 0
      BY <1>2, <1>5, <2>2, <2>3, <3>1
    <3> QED
      BY <1>2, <2>3, <3>1, <3>2, <3>3
  <2> QED
    BY <2>4 DEF Listed
<1>8. Told' /\ IsInjective(deliveries)'
  <2>1. Made \subseteq Made'
    BY <1>2 DEF Made
  <2> QED
    BY <1>1, <1>3, <2>1 DEF Told, BusInv
<1>9. OthersStay'
  <2> SUFFICES ASSUME NEW c \in Buses
               PROVE  /\ Cardinality(Missing(LocalOn, c, ToSet(local[c]))') <= Cardinality(CalledAgain(LocalOn, c)')
                      /\ Cardinality(Missing(DurableOn, c, LiveDurable(c))') <= Cardinality(CalledAgain(DurableOn, c)')
    BY DEF OthersStay
  <2>1. Made' = Made \cup {r} /\ BusTypeOK'
    BY <1>2, <1>6 DEF Made
  <2>2. /\ LiveDurable(c)' = LiveDurable(c) /\ ToSet(local[c]) \subseteq ToSet(local'[c])
        /\ c = b => r \in ToSet(local'[c])
    BY <1>3, <1>4, <1>5 DEF LiveDurable
  <2>3. Missing(LocalOn, c, ToSet(local[c]))' \subseteq Missing(LocalOn, c, ToSet(local[c]))
    BY <1>2, <2>1, <2>2 DEF Missing, b
  <2>4. Missing(DurableOn, c, LiveDurable(c))' \subseteq Missing(DurableOn, c, LiveDurable(c))
    BY <1>1, <1>2, <2>1, <2>2 DEF Missing
  <2>5. \A On : CalledAgain(On, c) \subseteq CalledAgain(On, c)'
    BY <1>2, <2>1 DEF CalledAgain
  <2>6. /\ Cardinality(Missing(LocalOn, c, ToSet(local[c]))) <= Cardinality(CalledAgain(LocalOn, c))
        /\ Cardinality(Missing(DurableOn, c, LiveDurable(c))) <= Cardinality(CalledAgain(DurableOn, c))
    BY <1>1 DEF OthersStay
  <2>7. /\ IsFiniteSet(Missing(LocalOn, c, ToSet(local[c]))) /\ IsFiniteSet(Missing(DurableOn, c, LiveDurable(c)))
        /\ IsFiniteSet(CalledAgain(LocalOn, c)') /\ IsFiniteSet(CalledAgain(DurableOn, c)')
    BY <1>1, <2>1, FewMade, FewMadeLater
  <2> QED
    BY <2>3, <2>4, <2>5, <2>6, <2>7, OneEach
<1>10. ASSUME NEW now \in ToSet(delivery')
       PROVE  Looping(now)'
  <2>1. /\ now \in Loop /\ Looping(now) /\ now.at > 1 /\ now.bus \in Buses /\ now.ear \in Ears /\ now.send \in Sends /\ now.at \in Nat
        /\ UNCHANGED <<setup, ran, sent, durable, deliveries>>
    <3>1. now \in ToSet(delivery) /\ delivery \in Seq(Loop)
      BY <1>1, <1>3 DEF BusTypeOK
    <3>2. now \in Loop
      BY <3>1, EveryElement
    <3> QED
      BY <1>1, <1>3, <3>1, <3>2 DEF BusInv, Registers, InCode, Loop
  <2>2. CASE now.bus # b
    BY <1>5, <2>1, <2>2 DEF Looping, LiveDurable, DealtWith
  <2>3. CASE now.bus = b
    <3> DEFINE at == now.at
               heard == ToSet(ran[<<now.ear, now.send>>])
               list == local[b]
               longer == local'[b]
    <3>0. /\ \A n \in at .. Len(list) : list[n] \notin heard
          /\ ~ now.shifted => at <= Len(list) + 1 /\ \A n \in 1 .. (at - 1) : list[n] \in heard
          /\ at \in Nat /\ at > 1 /\ Len(list) \in Nat
          /\ longer[Len(list) + 1] = r /\ Len(longer) = Len(list) + 1
          /\ \A n \in 1 .. Len(list) : longer[n] = list[n]
      BY <1>4, <1>5, <2>1, <2>3 DEF Looping
    <3>1. r \notin heard
      BY <1>1, <1>2, <2>1 DEF Told
    <3> HIDE DEF at, heard, list, longer
    <3>2. \A n \in at .. Len(longer) : longer[n] \notin heard
      <4> SUFFICES ASSUME NEW n \in at .. Len(longer)
                   PROVE  longer[n] \notin heard
        OBVIOUS
      <4>1. n \in at .. Len(list) \/ n = Len(list) + 1
        BY <3>0
      <4> QED
        BY <3>0, <3>1, <4>1
    <3>3. ~ now.shifted => at <= Len(longer) + 1 /\ \A n \in 1 .. (at - 1) : longer[n] \in heard
      BY <3>0
    <3>4. now.at # 1
      BY <2>1
    <3> QED
      BY <1>3, <2>1, <2>3, <3>2, <3>3, <3>4 DEF Looping, at, heard, longer
  <2> QED
    BY <2>2, <2>3
<1>11. \A s \in Sends : Dispatching(s)' /\ Fated(s)'
  <2>1. Made \subseteq Made'
    BY <1>2 DEF Made
  <2> QED
    BY <1>3, <2>1 DEF Dispatching, Fated, BusInv, LiveDurable
<1> QED
  BY <1>6, <1>7, <1>8, <1>9, <1>10, <1>11 DEF BusInv

\* The loops under way do not look at durable listeners once they have started one.
LEMMA LoopsGoOn ==
  ASSUME BusInv, InCode, UNCHANGED <<setup, local, sent, delivery, ran, deliveries>>
  PROVE  \A now \in ToSet(delivery') : Looping(now)'
<1> SUFFICES ASSUME NEW now \in ToSet(delivery') PROVE Looping(now)'
  OBVIOUS
<1>1. now \in ToSet(delivery) /\ delivery \in Seq(Loop)
  BY DEF BusInv, BusTypeOK
<1>2. now \in Loop /\ Looping(now) /\ now.at > 1
  BY <1>1, EveryElement DEF BusInv, InCode
<1>3. now.at # 1
  BY <1>2 DEF Loop
<1> QED
  BY <1>2, <1>3 DEF Looping

LEMMA OnDurableSound ==
  ASSUME BusInv, NEW r \in DOMAIN DurableOn, onDurable(r)
  PROVE  BusInv'
<1> DEFINE b == DurableOn[r]
           map == durable[b]
           longer == durable'[b]
<1>1. /\ BusTypeOK /\ Listed /\ Told /\ OthersStay /\ Registers(r) /\ InCode
      /\ b \in Buses /\ r \notin DOMAIN LocalOn /\ r # NoListener /\ LiveDurable(b) = {}
  BY RegistrationsAssumption DEF BusInv, onDurable, Registers
<1>2. /\ DOMAIN offs' = Made \cup {r} /\ offs' \in [Made \cup {r} -> 0 .. MaxOffs]
      /\ r \notin Made /\ offs'[r] = 0 /\ \A x \in Made : offs'[x] = offs[x]
      /\ IsFiniteSet(DOMAIN offs')
  BY <1>1, Registers1
<1>3. /\ map \in Seq(DOMAIN DurableOn \cup {NoListener}) /\ r \in DOMAIN DurableOn \cup {NoListener}
      /\ UNCHANGED <<setup, local, sent, delivery, listening, inbox, ran, deliveries>>
      /\ durable' = [durable EXCEPT ![b] = Append(map, r)]
  BY <1>1 DEF BusTypeOK, onDurable
<1> HIDE DEF b
<1>4. /\ Append(map, r) \in Seq(DOMAIN DurableOn \cup {NoListener})
      /\ Len(Append(map, r)) = Len(map) + 1 /\ Len(map) \in Nat
      /\ \A n \in 1 .. Len(map) : Append(map, r)[n] = map[n]
      /\ ToSet(Append(map, r)) = ToSet(map) \cup {r}
  BY <1>3, Appended, EveryElement
<1>5. /\ durable' \in [Buses -> Seq(DOMAIN DurableOn \cup {NoListener})] /\ longer = Append(map, r)
      /\ \A c \in Buses : c # b => durable'[c] = durable[c]
  BY <1>1, <1>3, <1>4 DEF BusTypeOK
<1>6. /\ LiveDurable(b)' = {r} /\ \A c \in Buses : c # b => LiveDurable(c)' = LiveDurable(c)
      /\ Made' = Made \cup {r}
  BY <1>1, <1>2, <1>4, <1>5 DEF LiveDurable, Made
<1>7. BusTypeOK'
  BY <1>1, <1>2, <1>3, <1>5 DEF BusTypeOK, Made
<1>8. Listed'
  <2>1. ASSUME NEW c \in Buses
        PROVE  /\ IsInjective(local'[c]) /\ ToSet(local'[c]) \cup LiveDurable(c)' \subseteq Made'
               /\ \A x, y \in LiveDurable(c)' : x = y
               /\ \A x \in ToSet(local'[c]) : LocalOn[x] = c /\ offs'[x] = 0
               /\ \A x \in LiveDurable(c)' : DurableOn[x] = c /\ offs'[x] = 0
    <3>1. /\ IsInjective(local[c]) /\ ToSet(local[c]) \cup LiveDurable(c) \subseteq Made
          /\ \A x, y \in LiveDurable(c) : x = y
          /\ \A x \in ToSet(local[c]) : LocalOn[x] = c /\ offs[x] = 0
          /\ \A x \in LiveDurable(c) : DurableOn[x] = c /\ offs[x] = 0
      BY <1>1 DEF Listed
    <3>2. \A x \in ToSet(local'[c]) : LocalOn[x] = c /\ offs'[x] = 0
      BY <1>2, <1>3, <3>1
    <3>3. \A x \in LiveDurable(c)' : DurableOn[x] = c /\ offs'[x] = 0
      BY <1>2, <1>6, <3>1 DEF b
    <3> QED
      BY <1>3, <1>6, <3>1, <3>2, <3>3
  <2> QED
    BY <2>1 DEF Listed
<1>9. Told' /\ IsInjective(deliveries)'
  BY <1>1, <1>3, <1>6 DEF Told, BusInv
<1>10. OthersStay'
  <2> SUFFICES ASSUME NEW c \in Buses
               PROVE  /\ Cardinality(Missing(LocalOn, c, ToSet(local[c]))') <= Cardinality(CalledAgain(LocalOn, c)')
                      /\ Cardinality(Missing(DurableOn, c, LiveDurable(c))') <= Cardinality(CalledAgain(DurableOn, c)')
    BY DEF OthersStay
  <2>1. LiveDurable(c) \subseteq LiveDurable(c)' /\ (c = b => r \in LiveDurable(c)')
    BY <1>1, <1>6
  <2>2. Missing(LocalOn, c, ToSet(local[c]))' \subseteq Missing(LocalOn, c, ToSet(local[c]))
    BY <1>1, <1>2, <1>3, <1>6 DEF Missing
  <2>3. Missing(DurableOn, c, LiveDurable(c))' \subseteq Missing(DurableOn, c, LiveDurable(c))
    BY <1>1, <1>2, <1>6, <2>1 DEF Missing, b
  <2>4. \A On : CalledAgain(On, c) \subseteq CalledAgain(On, c)'
    BY <1>2, <1>6 DEF CalledAgain
  <2>5. /\ Cardinality(Missing(LocalOn, c, ToSet(local[c]))) <= Cardinality(CalledAgain(LocalOn, c))
        /\ Cardinality(Missing(DurableOn, c, LiveDurable(c))) <= Cardinality(CalledAgain(DurableOn, c))
    BY <1>1 DEF OthersStay
  <2>6. /\ IsFiniteSet(Missing(LocalOn, c, ToSet(local[c]))) /\ IsFiniteSet(Missing(DurableOn, c, LiveDurable(c)))
        /\ IsFiniteSet(CalledAgain(LocalOn, c)') /\ IsFiniteSet(CalledAgain(DurableOn, c)')
    BY <1>1, <1>7, FewMade, FewMadeLater
  <2> QED
    BY <2>2, <2>3, <2>4, <2>5, <2>6, OneEach
<1>11. \A now \in ToSet(delivery') : Looping(now)'
  BY <1>1, <1>3, LoopsGoOn
<1>12. ASSUME NEW s \in Sends
       PROVE  Dispatching(s)' /\ Fated(s)'
  <2>1. Dispatching(s) /\ sent[s] \in Event /\ sent' = sent
    BY <1>1, <1>3 DEF BusInv, BusTypeOK
  <2>2. sent[s].pc \in {"dispatching", "waiting"} => sent[s].bus \in Buses /\ sent[s].had \subseteq Made
    BY <2>1 DEF Dispatching
  <2>3. sent[s].pc = "dispatching" =>
          /\ sent[s].at <= Len(durable'[sent[s].bus]) + 1
          /\ \A n \in 1 .. (sent[s].at - 1) : durable'[sent[s].bus][n] \in Done(sent[s]) \cup {NoListener}
    <3> SUFFICES ASSUME sent[s].pc = "dispatching"
                 PROVE  /\ sent[s].at <= Len(durable'[sent[s].bus]) + 1
                        /\ \A n \in 1 .. (sent[s].at - 1) : durable'[sent[s].bus][n] \in Done(sent[s]) \cup {NoListener}
      OBVIOUS
    <3> DEFINE at == sent[s].at
               jobs == Done(sent[s]) \cup {NoListener}
    <3>1. CASE sent[s].bus = b
      <4>1. /\ at \in Nat /\ Len(map) \in Nat /\ at <= Len(map) + 1
            /\ \A n \in 1 .. (at - 1) : map[n] \in jobs
            /\ Len(longer) = Len(map) + 1 /\ \A n \in 1 .. Len(map) : longer[n] = map[n]
        BY <1>4, <1>5, <2>1, <3>1 DEF Dispatching, Event
      <4> HIDE DEF at, jobs, map, longer
      <4>2. at <= Len(longer) + 1 /\ \A n \in 1 .. (at - 1) : longer[n] \in jobs
        <5>1. at <= Len(longer) + 1 /\ \A n \in 1 .. (at - 1) : n \in 1 .. Len(map)
          BY <4>1
        <5>2. \A n \in 1 .. (at - 1) : longer[n] = map[n] /\ map[n] \in jobs
          BY <4>1, <5>1
        <5> QED
          BY <5>1, <5>2
      <4> QED
        BY <3>1, <4>2 DEF at, jobs, longer
    <3>2. CASE sent[s].bus # b
      BY <1>5, <2>1, <2>2, <3>2 DEF Dispatching
    <3> QED
      BY <3>1, <3>2
  <2>4. sent[s].pc = "waiting" => sent[s].had \cap LiveDurable(sent[s].bus)' \subseteq Done(sent[s])
    BY <1>2, <1>6, <2>1, <2>2 DEF Dispatching
  <2>5. Fated(s)'
    BY <1>3 DEF BusInv, Fated
  <2> QED
    BY <1>6, <2>1, <2>2, <2>3, <2>4, <2>5 DEF Dispatching
<1> QED
  BY <1>7, <1>8, <1>9, <1>10, <1>11, <1>12 DEF BusInv

LEMMA OffDurableSound ==
  ASSUME BusInv, NEW r \in DOMAIN DurableOn, offDurable(r)
  PROVE  BusInv'
<1> DEFINE b == DurableOn[r]
           map == durable[b]
           emptied == [n \in DOMAIN map |-> NoListener]
<1>1. /\ BusTypeOK /\ Listed /\ Told /\ OthersStay /\ CallsOff(r) /\ InCode
      /\ b \in Buses /\ r \notin DOMAIN LocalOn /\ r # NoListener
  BY RegistrationsAssumption DEF BusInv, offDurable, CallsOff
<1>2. /\ DOMAIN offs' = Made /\ offs' \in [Made -> 0 .. MaxOffs] /\ r \in Made
      /\ offs'[r] = offs[r] + 1 /\ offs[r] \in {0, 1}
      /\ \A x \in Made \ {r} : offs'[x] = offs[x]
  BY <1>1, CallsOff1
<1>3. /\ map \in Seq(DOMAIN DurableOn \cup {NoListener})
      /\ UNCHANGED <<setup, local, sent, delivery, listening, inbox, ran, deliveries>>
      /\ durable' = [durable EXCEPT ![b] = emptied]
  BY <1>1 DEF BusTypeOK, offDurable
<1> HIDE DEF b
<1>4. /\ emptied \in Seq(DOMAIN DurableOn \cup {NoListener}) /\ Len(emptied) = Len(map)
      /\ \A n \in 1 .. Len(map) : emptied[n] = NoListener
      /\ ToSet(emptied) \subseteq {NoListener}
  <2>1. DOMAIN map = 1 .. Len(map) /\ Len(map) \in Nat
    BY <1>3
  <2>2. emptied \in [1 .. Len(map) -> {NoListener}]
    BY <2>1
  <2>3. DOMAIN emptied = 1 .. Len(map) /\ \A n \in 1 .. Len(map) : emptied[n] = NoListener
    BY <2>1
  <2>4. ToSet(emptied) \subseteq {NoListener}
    BY <2>3 DEF ToSet
  <2>5. emptied \in Seq({NoListener}) /\ Len(emptied) = Len(map)
    BY <2>1, <2>2
  <2> QED
    BY <2>3, <2>4, <2>5
<1> HIDE DEF emptied
<1>5. /\ durable' \in [Buses -> Seq(DOMAIN DurableOn \cup {NoListener})] /\ durable'[b] = emptied
      /\ \A c \in Buses : c # b => durable'[c] = durable[c]
  BY <1>1, <1>3, <1>4 DEF BusTypeOK
<1>6. /\ LiveDurable(b)' = {} /\ \A c \in Buses : c # b => LiveDurable(c)' = LiveDurable(c)
      /\ Made' = Made
  BY <1>2, <1>4, <1>5 DEF LiveDurable, Made
<1>7. BusTypeOK'
  BY <1>1, <1>2, <1>3, <1>5 DEF BusTypeOK, Made
<1>8. Listed'
  <2>1. ASSUME NEW c \in Buses
        PROVE  /\ IsInjective(local'[c]) /\ ToSet(local'[c]) \cup LiveDurable(c)' \subseteq Made'
               /\ \A x, y \in LiveDurable(c)' : x = y
               /\ \A x \in ToSet(local'[c]) : LocalOn[x] = c /\ offs'[x] = 0
               /\ \A x \in LiveDurable(c)' : DurableOn[x] = c /\ offs'[x] = 0
    <3>1. /\ IsInjective(local[c]) /\ ToSet(local[c]) \cup LiveDurable(c) \subseteq Made
          /\ \A x, y \in LiveDurable(c) : x = y
          /\ \A x \in ToSet(local[c]) : LocalOn[x] = c /\ offs[x] = 0
          /\ \A x \in LiveDurable(c) : DurableOn[x] = c /\ offs[x] = 0
      BY <1>1 DEF Listed
    <3>2. \A x \in ToSet(local'[c]) : LocalOn[x] = c /\ offs'[x] = 0
      <4>1. ToSet(local[c]) \subseteq DOMAIN LocalOn
        BY <1>1, EveryElement DEF BusTypeOK
      <4> QED
        BY <1>1, <1>2, <1>3, <3>1, <4>1
    <3>3. \A x \in LiveDurable(c)' : DurableOn[x] = c /\ offs'[x] = 0
      <4>1. c # b => r \notin LiveDurable(c)
        BY <3>1 DEF b
      <4> QED
        BY <1>2, <1>6, <3>1, <4>1
    <3> QED
      BY <1>3, <1>6, <3>1, <3>2, <3>3
  <2> QED
    BY <2>1 DEF Listed
<1>9. Told' /\ IsInjective(deliveries)'
  BY <1>1, <1>3, <1>6 DEF Told, BusInv
<1>10. OthersStay'
  <2> SUFFICES ASSUME NEW c \in Buses
               PROVE  /\ Cardinality(Missing(LocalOn, c, ToSet(local[c]))') <= Cardinality(CalledAgain(LocalOn, c)')
                      /\ Cardinality(Missing(DurableOn, c, LiveDurable(c))') <= Cardinality(CalledAgain(DurableOn, c)')
    BY DEF OthersStay
  <2> DEFINE lost == Missing(DurableOn, c, LiveDurable(c))
             again == CalledAgain(DurableOn, c)
  <2>1. \A On : CalledAgain(On, c) \subseteq CalledAgain(On, c)'
    BY <1>2, <1>6 DEF CalledAgain, MaxOffs
  <2>2. Missing(LocalOn, c, ToSet(local[c]))' \subseteq Missing(LocalOn, c, ToSet(local[c]))
    BY <1>1, <1>2, <1>3, <1>6 DEF Missing
  <2>3. /\ Cardinality(Missing(LocalOn, c, ToSet(local[c]))) <= Cardinality(CalledAgain(LocalOn, c))
        /\ Cardinality(lost) <= Cardinality(again)
    BY <1>1 DEF OthersStay
  <2>4. /\ IsFiniteSet(Missing(LocalOn, c, ToSet(local[c]))) /\ IsFiniteSet(lost)
        /\ IsFiniteSet(CalledAgain(LocalOn, c)') /\ IsFiniteSet(again')
    BY <1>1, <1>7, FewMade, FewMadeLater
  <2>7. Cardinality(Missing(LocalOn, c, ToSet(local[c]))') <= Cardinality(CalledAgain(LocalOn, c)')
    BY <2>1, <2>2, <2>3, <2>4, OneEach
  <2>8. again \subseteq again'
    BY <2>1
  <2>5. CASE c # b
    <3>1. lost' \subseteq lost
      BY <1>2, <1>6, <2>5 DEF Missing, b
    <3> HIDE DEF lost, again
    <3>2. Cardinality(lost') <= Cardinality(again')
      BY <2>3, <2>4, <2>8, <3>1, OneEach
    <3> QED
      BY <2>7, <3>2 DEF lost, again
  <2>6. CASE c = b
    <3>1. PICK y : LiveDurable(b) \subseteq {y} /\ (r \in LiveDurable(b) => y = r)
      <4>1. \A x, y \in LiveDurable(b) : x = y
        BY <1>1 DEF Listed
      <4> QED
        BY <4>1
    <3>2. lost' \subseteq lost \cup {y} /\ r \notin lost'
      BY <1>2, <1>6, <2>6, <3>1 DEF Missing
    <3>3. CASE r \in LiveDurable(b)
      <4>1. lost' \subseteq lost
        BY <3>1, <3>2, <3>3
      <4> HIDE DEF lost, again
      <4>2. Cardinality(lost') <= Cardinality(again')
        BY <2>3, <2>4, <2>8, <4>1, OneEach
      <4> QED
        BY <2>7, <4>2 DEF lost, again
    <3>4. CASE r \notin LiveDurable(b) /\ offs[r] = 0
      <4>1. r \in lost
        BY <1>2, <2>6, <3>4 DEF Missing, b
      <4>2. lost' \subseteq (lost \ {r}) \cup {y}
        BY <3>2
      <4> HIDE DEF lost, again
      <4>3. Cardinality(lost') <= Cardinality(again')
        BY <2>3, <2>4, <2>8, <4>1, <4>2, OneForOne
      <4> QED
        BY <2>7, <4>3 DEF lost, again
    <3>5. CASE offs[r] = 1
      <4>1. r \in again' /\ r \notin again
        BY <1>2, <1>6, <2>6, <3>5 DEF CalledAgain, MaxOffs, b
      <4>2. lost' \subseteq lost \cup {y} /\ r \in again' \ again
        BY <3>2, <4>1
      <4> HIDE DEF lost, again
      <4>3. Cardinality(lost') <= Cardinality(again')
        BY <2>3, <2>4, <2>8, <4>2, OneEach
      <4> QED
        BY <2>7, <4>3 DEF lost, again
    <3> QED
      BY <1>2, <3>3, <3>4, <3>5
  <2> QED
    BY <2>5, <2>6
<1>11. \A now \in ToSet(delivery') : Looping(now)'
  BY <1>1, <1>3, LoopsGoOn
<1>12. ASSUME NEW s \in Sends
       PROVE  Dispatching(s)' /\ Fated(s)'
  <2>1. Dispatching(s) /\ sent[s] \in Event /\ sent' = sent
    BY <1>1, <1>3 DEF BusInv, BusTypeOK
  <2>2. sent[s].pc \in {"dispatching", "waiting"} => sent[s].bus \in Buses /\ sent[s].had \subseteq Made
    BY <2>1 DEF Dispatching
  <2>3. sent[s].pc = "dispatching" =>
          /\ sent[s].at <= Len(durable'[sent[s].bus]) + 1
          /\ \A n \in 1 .. (sent[s].at - 1) : durable'[sent[s].bus][n] \in Done(sent[s]) \cup {NoListener}
    <3> SUFFICES ASSUME sent[s].pc = "dispatching"
                 PROVE  /\ sent[s].at <= Len(durable'[sent[s].bus]) + 1
                        /\ \A n \in 1 .. (sent[s].at - 1) : durable'[sent[s].bus][n] \in Done(sent[s]) \cup {NoListener}
      OBVIOUS
    <3> DEFINE at == sent[s].at
    <3>1. CASE sent[s].bus = b
      <4>1. /\ at \in Nat /\ Len(map) \in Nat /\ at <= Len(map) + 1
            /\ Len(emptied) = Len(map) /\ \A n \in 1 .. Len(map) : emptied[n] = NoListener
        <5>1. at \in Nat /\ Len(map) \in Nat
          BY <1>3, <2>1, EventFields
        <5>2. sent[s].at <= Len(durable[sent[s].bus]) + 1
          BY <2>1 DEF Dispatching
        <5> QED
          BY <1>4, <3>1, <5>1, <5>2
      <4> HIDE DEF at, map
      <4>2. at <= Len(emptied) + 1 /\ \A n \in 1 .. (at - 1) : emptied[n] = NoListener
        BY <4>1
      <4> QED
        BY <1>5, <3>1, <4>2 DEF at
    <3>2. CASE sent[s].bus # b
      BY <1>5, <2>1, <2>2, <3>2 DEF Dispatching
    <3> QED
      BY <3>1, <3>2
  <2>4. sent[s].pc = "waiting" => sent[s].had \cap LiveDurable(sent[s].bus)' \subseteq Done(sent[s])
    BY <1>6, <2>1, <2>2 DEF Dispatching
  <2>5. Fated(s)'
    BY <1>3 DEF BusInv, Fated
  <2> QED
    BY <1>6, <2>1, <2>2, <2>3, <2>4, <2>5 DEF Dispatching
<1> QED
  BY <1>7, <1>8, <1>9, <1>10, <1>11, <1>12 DEF BusInv

\* A removal in front of a loop shifts the array under it; one further on leaves what it passed.
LEMMA OffLocalSound ==
  ASSUME BusInv, NEW r \in DOMAIN LocalOn, offLocal(r)
  PROVE  BusInv'
<1> DEFINE b == LocalOn[r]
           list == local[b]
           at == Cut(list, r)
           left == local'[b]
<1>1. /\ BusTypeOK /\ Listed /\ Told /\ OthersStay /\ CallsOff(r) /\ InCode
      /\ b \in Buses /\ r \notin DOMAIN DurableOn
  BY RegistrationsAssumption DEF BusInv, offLocal, CallsOff
<1>2. /\ DOMAIN offs' = Made /\ offs' \in [Made -> 0 .. MaxOffs] /\ r \in Made
      /\ offs'[r] = offs[r] + 1 /\ offs[r] \in {0, 1}
      /\ \A x \in Made \ {r} : offs'[x] = offs[x]
  BY <1>1, CallsOff1
<1>3. /\ list \in Seq(DOMAIN LocalOn)
      /\ UNCHANGED <<setup, durable, sent, listening, inbox, ran, deliveries>>
      /\ local' = [local EXCEPT ![b] = IF list = <<>> THEN list ELSE Spliced(list, r)]
      /\ delivery' = [n \in DOMAIN delivery |->
                        IF delivery[n].bus = b /\ at < delivery[n].at THEN [delivery[n] EXCEPT !.shifted = TRUE]
                        ELSE delivery[n]]
  BY <1>1 DEF BusTypeOK, offLocal, Cut
<1>4. /\ list = <<>> => left = list
      /\ list # <<>> => left = Spliced(list, r)
      /\ \A c \in Buses : c # b => local'[c] = local[c]
  BY <1>1, <1>3 DEF BusTypeOK
<1>5. list # <<>> =>
        /\ Len(list) \in Nat \ {0} /\ at \in 1 .. Len(list)
        /\ left \in Seq(DOMAIN LocalOn) /\ Len(left) = Len(list) - 1
        /\ \A n \in 1 .. (Len(list) - 1) : left[n] = IF n < at THEN list[n] ELSE list[n + 1]
  BY <1>3, <1>4, SplicedOut
<1>6. /\ left \in Seq(DOMAIN LocalOn) /\ ToSet(left) \subseteq ToSet(list)
      /\ IsInjective(list) => IsInjective(left) /\ r \notin ToSet(left)
      /\ \E y : ToSet(list) \ {y} \subseteq ToSet(left) /\ (r \in ToSet(list) => y = r)
  <2>1. CASE list = <<>>
    <3>1. left = <<>> /\ ToSet(<<>>) = {}
      BY <1>4, <2>1 DEF ToSet
    <3> QED
      BY <1>3, <2>1, <3>1
  <2>2. CASE list # <<>>
    <3>1. /\ ToSet(left) \subseteq ToSet(list)
          /\ (IsInjective(list) => IsInjective(left) /\ r \notin ToSet(left))
          /\ ToSet(list) \ {list[at]} \subseteq ToSet(left) /\ (r \in ToSet(list) => list[at] = r)
      BY <1>3, <1>4, <2>2, SplicedSet
    <3> QED
      BY <1>5, <2>2, <3>1
  <2> QED
    BY <2>1, <2>2
<1> HIDE DEF b, at
<1>7. local' \in [Buses -> Seq(DOMAIN LocalOn)]
  <2>1. local' = [local EXCEPT ![b] = left]
    BY <1>1, <1>3, <1>4 DEF BusTypeOK
  <2> QED
    BY <1>1, <1>6, <2>1 DEF BusTypeOK
<1>8. Made' = Made
  BY <1>2 DEF Made
<1>9. /\ delivery' \in Seq(Loop) /\ Len(delivery') <= 1
      /\ \A new \in ToSet(delivery') : \E now \in ToSet(delivery) :
           new = IF now.bus = b /\ at < now.at THEN [now EXCEPT !.shifted = TRUE] ELSE now
  <2>1. /\ delivery \in Seq(Loop) /\ Len(delivery) <= 1 /\ Len(delivery) \in Nat
        /\ DOMAIN delivery = 1 .. Len(delivery) /\ \A n \in 1 .. Len(delivery) : delivery[n] \in Loop
    BY <1>1 DEF BusTypeOK
  <2>2. DOMAIN delivery' = 1 .. Len(delivery) /\ \A n \in 1 .. Len(delivery) : delivery'[n] \in Loop
    <3>1. \A now \in Loop : [now EXCEPT !.shifted = TRUE] \in Loop
      BY DEF Loop
    <3> QED
      BY <1>3, <2>1, <3>1
  <2>3. delivery' \in [1 .. Len(delivery) -> Loop]
    BY <1>3, <2>1, <2>2
  <2>4. delivery' \in Seq(Loop) /\ Len(delivery') = Len(delivery)
    BY <2>1, <2>3
  <2> QED
    BY <1>3, <2>1, <2>2, <2>4 DEF ToSet
<1>10. BusTypeOK'
  BY <1>1, <1>2, <1>3, <1>7, <1>8, <1>9 DEF BusTypeOK, Made
<1>11. Listed'
  <2>1. ASSUME NEW c \in Buses
        PROVE  /\ IsInjective(local'[c]) /\ ToSet(local'[c]) \cup LiveDurable(c)' \subseteq Made'
               /\ \A x, y \in LiveDurable(c)' : x = y
               /\ \A x \in ToSet(local'[c]) : LocalOn[x] = c /\ offs'[x] = 0
               /\ \A x \in LiveDurable(c)' : DurableOn[x] = c /\ offs'[x] = 0
    <3>1. /\ IsInjective(local[c]) /\ ToSet(local[c]) \cup LiveDurable(c) \subseteq Made
          /\ \A x, y \in LiveDurable(c) : x = y
          /\ \A x \in ToSet(local[c]) : LocalOn[x] = c /\ offs[x] = 0
          /\ \A x \in LiveDurable(c) : DurableOn[x] = c /\ offs[x] = 0
      BY <1>1 DEF Listed
    <3>2. LiveDurable(c)' = LiveDurable(c)
      BY <1>3 DEF LiveDurable
    <3>3. IsInjective(local'[c]) /\ ToSet(local'[c]) \subseteq ToSet(local[c])
      BY <1>4, <1>6, <3>1
    <3>4. r \notin ToSet(local'[c])
      <4>1. c # b => r \notin ToSet(local[c])
        BY <3>1 DEF b
      <4> QED
        BY <1>6, <3>1, <3>3, <4>1
    <3>5. LiveDurable(c) \subseteq DOMAIN DurableOn
      <4>1. ToSet(durable[c]) \subseteq DOMAIN DurableOn \cup {NoListener}
        BY <1>1, EveryElement DEF BusTypeOK
      <4> QED
        BY <4>1 DEF LiveDurable
    <3> QED
      BY <1>1, <1>2, <1>8, <3>1, <3>2, <3>3, <3>4, <3>5
  <2> QED
    BY <2>1 DEF Listed
<1>12. Told' /\ IsInjective(deliveries)'
  BY <1>1, <1>3, <1>8 DEF Told, BusInv
<1>13. OthersStay'
  <2> SUFFICES ASSUME NEW c \in Buses
               PROVE  /\ Cardinality(Missing(LocalOn, c, ToSet(local[c]))') <= Cardinality(CalledAgain(LocalOn, c)')
                      /\ Cardinality(Missing(DurableOn, c, LiveDurable(c))') <= Cardinality(CalledAgain(DurableOn, c)')
    BY DEF OthersStay
  <2> DEFINE lost == Missing(LocalOn, c, ToSet(local[c]))
             again == CalledAgain(LocalOn, c)
  <2>1. \A On : CalledAgain(On, c) \subseteq CalledAgain(On, c)'
    BY <1>2, <1>8 DEF CalledAgain, MaxOffs
  <2>2. Missing(DurableOn, c, LiveDurable(c))' \subseteq Missing(DurableOn, c, LiveDurable(c))
    BY <1>1, <1>2, <1>3, <1>8 DEF Missing, LiveDurable
  <2>3. /\ Cardinality(Missing(DurableOn, c, LiveDurable(c))) <= Cardinality(CalledAgain(DurableOn, c))
        /\ Cardinality(lost) <= Cardinality(again)
    BY <1>1 DEF OthersStay
  <2>4. /\ IsFiniteSet(Missing(DurableOn, c, LiveDurable(c))) /\ IsFiniteSet(lost)
        /\ IsFiniteSet(CalledAgain(DurableOn, c)') /\ IsFiniteSet(again')
    BY <1>1, <1>10, FewMade, FewMadeLater
  <2>7. Cardinality(Missing(DurableOn, c, LiveDurable(c))') <= Cardinality(CalledAgain(DurableOn, c)')
    BY <2>1, <2>2, <2>3, <2>4, OneEach
  <2>8. again \subseteq again'
    BY <2>1
  <2>5. CASE c # b
    <3>1. lost' \subseteq lost
      BY <1>2, <1>4, <1>8, <2>5 DEF Missing, b
    <3> HIDE DEF lost, again
    <3>2. Cardinality(lost') <= Cardinality(again')
      BY <2>3, <2>4, <2>8, <3>1, OneEach
    <3> QED
      BY <2>7, <3>2 DEF lost, again
  <2>6. CASE c = b
    <3>1. PICK y : ToSet(list) \ {y} \subseteq ToSet(left) /\ (r \in ToSet(list) => y = r)
      BY <1>6
    <3>2. lost' \subseteq lost \cup {y} /\ r \notin lost'
      BY <1>2, <1>8, <2>6, <3>1 DEF Missing
    <3>3. CASE r \in ToSet(list)
      <4>1. lost' \subseteq lost
        BY <3>1, <3>2, <3>3
      <4> HIDE DEF lost, again
      <4>2. Cardinality(lost') <= Cardinality(again')
        BY <2>3, <2>4, <2>8, <4>1, OneEach
      <4> QED
        BY <2>7, <4>2 DEF lost, again
    <3>4. CASE r \notin ToSet(list) /\ offs[r] = 0
      <4>1. r \in lost
        BY <1>2, <2>6, <3>4 DEF Missing, b
      <4>2. lost' \subseteq (lost \ {r}) \cup {y}
        BY <3>2
      <4> HIDE DEF lost, again
      <4>3. Cardinality(lost') <= Cardinality(again')
        BY <2>3, <2>4, <2>8, <4>1, <4>2, OneForOne
      <4> QED
        BY <2>7, <4>3 DEF lost, again
    <3>5. CASE offs[r] = 1
      <4>1. r \in again' /\ r \notin again
        BY <1>2, <1>8, <2>6, <3>5 DEF CalledAgain, MaxOffs, b
      <4>2. lost' \subseteq lost \cup {y} /\ r \in again' \ again
        BY <3>2, <4>1
      <4> HIDE DEF lost, again
      <4>3. Cardinality(lost') <= Cardinality(again')
        BY <2>3, <2>4, <2>8, <4>2, OneEach
      <4> QED
        BY <2>7, <4>3 DEF lost, again
    <3> QED
      BY <1>2, <3>3, <3>4, <3>5
  <2> QED
    BY <2>5, <2>6
<1>14. ASSUME NEW new \in ToSet(delivery')
       PROVE  Looping(new)'
  <2>1. PICK now \in ToSet(delivery) :
          new = IF now.bus = b /\ at < now.at THEN [now EXCEPT !.shifted = TRUE] ELSE now
    BY <1>9
  <2>2. /\ now \in Loop /\ Looping(now) /\ now.at > 1 /\ now.at # 1
    <3>1. delivery \in Seq(Loop)
      BY <1>1 DEF BusTypeOK
    <3>2. now \in Loop
      BY <3>1, EveryElement
    <3> QED
      BY <1>1, <3>2 DEF BusInv, InCode, Loop
  <2>3. /\ new.bus = now.bus /\ new.ear = now.ear /\ new.send = now.send /\ new.at = now.at
        /\ ~ new.shifted => ~ now.shifted /\ ~ (now.bus = b /\ at < now.at)
    BY <2>1, <2>2 DEF Loop
  <2>4. CASE now.bus # b \/ list = <<>>
    <3>1. local'[now.bus] = local[now.bus]
      BY <1>4, <2>2, <2>4 DEF Loop
    <3> QED
      BY <1>3, <2>2, <2>3, <3>1 DEF Looping
  <2>5. CASE now.bus = b /\ list # <<>>
    <3> DEFINE heard == ToSet(ran[<<now.ear, now.send>>])
               i == now.at
    <3>1. /\ \A n \in i .. Len(list) : list[n] \notin heard
          /\ ~ now.shifted => i <= Len(list) + 1 /\ \A n \in 1 .. (i - 1) : list[n] \in heard
          /\ i \in Nat /\ i > 1
      BY <2>2, <2>5 DEF Looping, Loop
    <3>2. /\ Len(list) \in Nat \ {0} /\ at \in 1 .. Len(list) /\ Len(left) = Len(list) - 1
          /\ \A n \in 1 .. (Len(list) - 1) : left[n] = IF n < at THEN list[n] ELSE list[n + 1]
      BY <1>5, <2>5
    <3>3. ~ new.shifted => ~ now.shifted /\ i <= at
      <4>1. ~ (at < i) => i <= at
        BY <3>1, <3>2
      <4> QED
        BY <2>3, <2>5, <4>1
    <3> HIDE DEF heard, i, list, left
    <3>4. \A n \in i .. Len(left) : left[n] \notin heard
      <4> SUFFICES ASSUME NEW n \in i .. Len(left)
                   PROVE  left[n] \notin heard
        OBVIOUS
      <4>1. n \in 1 .. (Len(list) - 1) /\ n \in i .. Len(list) /\ n + 1 \in i .. Len(list)
        BY <3>1, <3>2
      <4> QED
        BY <3>1, <3>2, <4>1
    <3>5. ~ new.shifted => i <= Len(left) + 1 /\ \A n \in 1 .. (i - 1) : left[n] \in heard
      <4> SUFFICES ASSUME ~ new.shifted
                   PROVE  i <= Len(left) + 1 /\ \A n \in 1 .. (i - 1) : left[n] \in heard
        OBVIOUS
      <4>1. i <= Len(left) + 1 /\ \A n \in 1 .. (i - 1) : n \in 1 .. (Len(list) - 1) /\ n < at
        BY <3>1, <3>2, <3>3
      <4> QED
        BY <3>1, <3>2, <3>3, <4>1
    <3>6. /\ \A n \in new.at .. Len(local'[new.bus]) : local'[new.bus][n] \notin ToSet(ran[<<new.ear, new.send>>])
          /\ ~ new.shifted => /\ new.at <= Len(local'[new.bus]) + 1
                              /\ \A n \in 1 .. (new.at - 1) :
                                   local'[new.bus][n] \in ToSet(ran[<<new.ear, new.send>>])
      BY <2>3, <2>5, <3>4, <3>5 DEF heard, i, left
    <3> QED
      BY <1>3, <2>2, <2>3, <3>6 DEF Looping
  <2> QED
    BY <2>4, <2>5
<1>15. \A s \in Sends : Dispatching(s)' /\ Fated(s)'
  BY <1>3, <1>8 DEF BusInv, Dispatching, Fated, LiveDurable
<1> QED
  BY <1>10, <1>11, <1>12, <1>13, <1>14, <1>15 DEF BusInv
-----------------------------------------------------------------------------
\* Events are sent, and their deliveries begin.

LEMMA EarsOfBuses ==
  /\ \A ear \in Ears : BusOf(ear) \in Buses
  /\ \A b \in Buses : b \in Ears /\ BusOf(b) = b
  /\ DOMAIN ListensOn \subseteq Ears
BY RegistrationsAssumption DEF Ears, BusOf

LEMMA SendBegins ==
  ASSUME BusInv, NEW b \in Ears, NEW s \in Sends, Deliver(b, s), <<b, s>> \notin ToSet(deliveries)
  PROVE  /\ delivery' \in Seq(Loop) /\ Len(delivery') <= 1
         /\ deliveries' \in Seq(Ears \X Sends) /\ IsInjective(deliveries')
         /\ ToSet(deliveries') = ToSet(deliveries) \cup {<<b, s>>}
         /\ \A now \in ToSet(delivery') :
              now = [bus |-> BusOf(b), ear |-> b, send |-> s, at |-> 1, had |-> ToSet(local[BusOf(b)]), shifted |-> FALSE]
<1> DEFINE new == [bus |-> BusOf(b), ear |-> b, send |-> s, at |-> 1, had |-> ToSet(local[BusOf(b)]), shifted |-> FALSE]
           pair == <<b, s>>
<1>1. deliveries \in Seq(Ears \X Sends) /\ IsInjective(deliveries) /\ BusOf(b) \in Buses /\ local[BusOf(b)] \in Seq(DOMAIN LocalOn)
  BY EarsOfBuses DEF BusInv, BusTypeOK
<1>2. new \in Loop /\ pair \in Ears \X Sends
  BY <1>1, EveryElement DEF Loop
<1>3. delivery' = <<new>> /\ deliveries' = Append(deliveries, pair) /\ pair \notin ToSet(deliveries)
  BY DEF Deliver
<1> HIDE DEF new, pair
<1>4. delivery' \in Seq(Loop) /\ Len(delivery') <= 1 /\ \A now \in ToSet(delivery') : now = new
  BY <1>2, <1>3 DEF ToSet
<1>5. /\ deliveries' \in Seq(Ears \X Sends) /\ ToSet(deliveries') = ToSet(deliveries) \cup {pair}
      /\ DOMAIN deliveries' = 1 .. (Len(deliveries) + 1) /\ deliveries'[Len(deliveries) + 1] = pair
      /\ \A n \in 1 .. Len(deliveries) : deliveries'[n] = deliveries[n] /\ deliveries[n] \in ToSet(deliveries)
      /\ DOMAIN deliveries = 1 .. Len(deliveries) /\ Len(deliveries) \in Nat
  <2>1. deliveries \in Seq(Ears \X Sends) /\ pair \in Ears \X Sends
    BY <1>1, <1>2
  <2>2. /\ Append(deliveries, pair) \in Seq(Ears \X Sends)
        /\ DOMAIN Append(deliveries, pair) = 1 .. (Len(deliveries) + 1)
        /\ \A n \in 1 .. Len(deliveries) : Append(deliveries, pair)[n] = deliveries[n]
        /\ Append(deliveries, pair)[Len(deliveries) + 1] = pair
        /\ ToSet(Append(deliveries, pair)) = ToSet(deliveries) \cup {pair}
    BY <2>1, Appended
  <2>3. /\ DOMAIN deliveries = 1 .. Len(deliveries) /\ Len(deliveries) \in Nat
        /\ \A n \in 1 .. Len(deliveries) : deliveries[n] \in ToSet(deliveries)
    BY <2>1, EveryElement
  <2> QED
    BY <1>3, <2>2, <2>3
<1>6. IsInjective(deliveries')
  <2>1. \A n \in 1 .. (Len(deliveries) + 1) : n \in 1 .. Len(deliveries) \/ n = Len(deliveries) + 1
    BY <1>5
  <2> QED
    BY <1>1, <1>3, <1>5, <2>1 DEF IsInjective
<1> QED
  BY <1>4, <1>5, <1>6 DEF new, pair

\* What an event may do next: nothing that was dropped is heard, messages are of what was
\* published just now, and a delivery that begins is the first of the event on its bus.
Advances(s, e) ==
  /\ AtRest /\ UNCHANGED <<setup, local, durable, offs, ran, listening>>
  /\ e \in Event /\ sent' = [sent EXCEPT ![s] = e]
  /\ e.pc \in Silent => sent[s].pc \in Silent
  /\ sent[s].pc = "published" => e.pc = "published"
  /\ inbox' \subseteq Ears \X Sends
  /\ \A b \in Ears, t \in Sends : <<b, t>> \in inbox' =>
       <<b, t>> \in inbox \/ (t = s /\ e.pc = "published" /\ sent[s].pc \in Silent)

Delivers(s, e) ==
  \/ UNCHANGED <<delivery, deliveries>>
  \/ \E b \in Ears : /\ Deliver(b, s) /\ <<b, s>> \notin ToSet(deliveries) /\ <<b, s>> \notin inbox'
                     /\ e.pc \notin Silent
                     /\ e.pc = "delivered" =>
                          e.had \cap LiveDurable(BusOf(b))
                            \subseteq e.jobs \cup e.lost \cup (IF setup.aware THEN {} ELSE ToSet(e.deferred))

LEMMA AdvancesSound ==
  ASSUME BusInv, NEW s \in Sends, NEW e, Advances(s, e), Delivers(s, e), Dispatching(s)', Fated(s)'
  PROVE  BusInv'
<1>1. /\ BusTypeOK /\ Listed /\ Told /\ OthersStay /\ IsInjective(deliveries)
      /\ UNCHANGED <<setup, local, durable, offs, ran, listening>> /\ ToSet(delivery) = {}
  BY DEF BusInv, Advances, AtRest, ToSet
<1>2. /\ e \in Event /\ sent' \in [Sends -> Event] /\ sent'[s] = e
      /\ \A t \in Sends : t # s => sent'[t] = sent[t]
  BY <1>1 DEF BusTypeOK, Advances
<1>3. Listed' /\ OthersStay'
  BY <1>1, NobodyMoves
<1>4. \A t \in Sends : Dispatching(t)' /\ Fated(t)'
  <2>1. ASSUME NEW t \in Sends, t # s
        PROVE  Dispatching(t)' /\ Fated(t)'
    <3>1. Dispatching(t) /\ Fated(t) /\ sent'[t] = sent[t]
      BY <1>2, <2>1 DEF BusInv
    <3> QED
      BY <1>1, <3>1 DEF Dispatching, Fated, LiveDurable, Made
  <2> QED
    BY <2>1
<1>5. /\ \A b \in Ears, t \in Sends :
           /\ ToSet(ran[<<b, t>>]) \subseteq Made /\ IsInjective(ran[<<b, t>>])
           /\ <<b, t>> \notin ToSet(deliveries) => ran[<<b, t>>] = <<>>
           /\ sent'[t].pc \in Silent => <<b, t>> \notin ToSet(deliveries)
           /\ <<b, t>> \in inbox' => sent'[t].pc = "published" /\ <<b, t>> \notin ToSet(deliveries)
      /\ inbox' \subseteq Ears \X Sends
  <2>1. inbox' \subseteq Ears \X Sends
    BY DEF Advances
  <2> SUFFICES ASSUME NEW b \in Ears, NEW t \in Sends
               PROVE  /\ ToSet(ran[<<b, t>>]) \subseteq Made /\ IsInjective(ran[<<b, t>>])
                      /\ <<b, t>> \notin ToSet(deliveries) => ran[<<b, t>>] = <<>>
                      /\ sent'[t].pc \in Silent => <<b, t>> \notin ToSet(deliveries)
                      /\ <<b, t>> \in inbox' => sent'[t].pc = "published" /\ <<b, t>> \notin ToSet(deliveries)
    BY <2>1
  <2>2. /\ ToSet(ran[<<b, t>>]) \subseteq Made /\ IsInjective(ran[<<b, t>>])
        /\ <<b, t>> \notin ToSet(deliveries) => ran[<<b, t>>] = <<>>
        /\ sent[t].pc \in Silent => <<b, t>> \notin ToSet(deliveries)
        /\ <<b, t>> \in inbox => sent[t].pc = "published" /\ <<b, t>> \notin ToSet(deliveries)
    BY <1>1 DEF Told
  <2>3. sent'[t].pc \in Silent => sent[t].pc \in Silent
    BY <1>2 DEF Advances
  <2>4. <<b, t>> \in inbox' => sent'[t].pc = "published" /\ <<b, t>> \notin ToSet(deliveries)
    <3>1. CASE t = s
      BY <1>2, <2>2, <3>1 DEF Advances
    <3>2. CASE t # s
      BY <1>2, <2>2, <3>2 DEF Advances
    <3> QED
      BY <3>1, <3>2
  <2> QED
    BY <2>2, <2>3, <2>4
<1>6. CASE UNCHANGED <<delivery, deliveries>>
  <2>1. BusTypeOK'
    BY <1>1, <1>2, <1>5, <1>6 DEF BusTypeOK, Made
  <2>2. Told' /\ IsInjective(deliveries)'
    BY <1>1, <1>5, <1>6 DEF Told, Made
  <2> QED
    BY <1>1, <1>3, <1>4, <1>6, <2>1, <2>2 DEF BusInv
<1>7. ASSUME NEW b \in Ears, Deliver(b, s), <<b, s>> \notin ToSet(deliveries), <<b, s>> \notin inbox',
             e.pc \notin Silent, e.pc = "delivered" =>
               e.had \cap LiveDurable(BusOf(b))
                 \subseteq e.jobs \cup e.lost \cup (IF setup.aware THEN {} ELSE ToSet(e.deferred))
      PROVE  BusInv'
  <2>1. /\ delivery' \in Seq(Loop) /\ Len(delivery') <= 1
        /\ deliveries' \in Seq(Ears \X Sends) /\ IsInjective(deliveries')
        /\ ToSet(deliveries') = ToSet(deliveries) \cup {<<b, s>>}
        /\ \A now \in ToSet(delivery') :
             now = [bus |-> BusOf(b), ear |-> b, send |-> s, at |-> 1, had |-> ToSet(local[BusOf(b)]), shifted |-> FALSE]
    BY <1>7, SendBegins
  <2>2. BusTypeOK'
    BY <1>1, <1>2, <1>5, <2>1 DEF BusTypeOK, Made
  <2>3. Told'
    <3> SUFFICES ASSUME NEW c \in Ears, NEW t \in Sends
                 PROVE  /\ <<c, t>> \notin ToSet(deliveries') => ran[<<c, t>>] = <<>>
                        /\ sent'[t].pc \in Silent => <<c, t>> \notin ToSet(deliveries')
                        /\ <<c, t>> \in inbox' => sent'[t].pc = "published" /\ <<c, t>> \notin ToSet(deliveries')
      BY <1>1, <1>5 DEF Told, Made
    <3>1. CASE <<c, t>> = <<b, s>>
      BY <1>2, <1>7, <2>1, <3>1
    <3>2. CASE <<c, t>> # <<b, s>>
      BY <1>5, <2>1, <3>2
    <3> QED
      BY <3>1, <3>2
  <2>4. ASSUME NEW now \in ToSet(delivery')
        PROVE  Looping(now)'
    <3>1. PICK c \in Buses : c = BusOf(b)
      BY EarsOfBuses
    <3>2. /\ now.bus = c /\ now.ear = b /\ now.send = s /\ now.at = 1 /\ <<b, s>> \in ToSet(deliveries')
          /\ local[c] \in Seq(DOMAIN LocalOn)
      BY <1>1, <2>1, <2>4, <3>1 DEF BusTypeOK
    <3>3. ran[<<b, s>>] = <<>> /\ ToSet(<<>>) = {}
      BY <1>5, <1>7 DEF ToSet
    <3>4. 1 <= Len(local[c]) + 1 /\ 1 .. (1 - 1) = {}
      BY <3>2
    <3>5. sent'[s].pc = "delivered" => sent'[s].had \cap LiveDurable(c)' \subseteq DealtWith(s)'
      BY <1>1, <1>2, <1>7, <3>1 DEF LiveDurable, DealtWith
    <3> QED
      BY <1>1, <3>2, <3>3, <3>4, <3>5 DEF Looping
  <2> QED
    BY <1>3, <1>4, <2>1, <2>2, <2>3, <2>4 DEF BusInv
<1> QED
  BY <1>6, <1>7 DEF Delivers

\* An event of which nothing is dispatched yet.
Opened(e, tx) == e.tx = tx /\ e.jobs = {} /\ e.deferred = <<>> /\ e.lost = {}

\* The call of emit() or broadcast(), refused or not.
LEMMA SendingSound ==
  ASSUME BusInv, NEW s \in Sends, NEW b \in Buses,
         NEW pc \in {"dispatching", "refused", "published", "home"}, NEW tx \in {"none", "open"},
         Sending(s, b, pc, tx), tx = "none" \/ pc = "dispatching",
         UNCHANGED <<setup, local, durable, offs, ran, listening>>,
         \/ UNCHANGED <<inbox, delivery, deliveries>>
         \/ pc = "published" /\ inbox' = inbox \cup (listening \X {s}) /\ UNCHANGED <<delivery, deliveries>>
         \/ pc = "home" /\ Deliver(b, s) /\ UNCHANGED inbox
  PROVE  BusInv'
<1> DEFINE e == [NotSent EXCEPT !.pc = pc, !.bus = b, !.had = LiveDurable(b), !.tx = tx]
<1>1. BusTypeOK /\ Listed /\ Told
  BY DEF BusInv
<1>2. LiveDurable(b) \subseteq DOMAIN DurableOn /\ LiveDurable(b) \subseteq Made
  <2>1. durable[b] \in Seq(DOMAIN DurableOn \cup {NoListener})
    BY <1>1 DEF BusTypeOK
  <2>2. ToSet(durable[b]) \subseteq DOMAIN DurableOn \cup {NoListener}
    BY <2>1, EveryElement
  <2> QED
    BY <1>1, <2>2 DEF LiveDurable, Listed
<1>3. /\ e \in Event /\ e.pc = pc /\ e.bus = b /\ e.at = 1 /\ e.had = LiveDurable(b) /\ Opened(e, tx)
      /\ sent' = [sent EXCEPT ![s] = e]
  <2>1. sent' = [sent EXCEPT ![s] = e]
    BY DEF Sending
  <2>2. NotSent \in Event /\ NotSent.at = 1 /\ Opened(NotSent, "none")
    BY DEF NotSent, Event, Opened
  <2>3. e \in Event /\ e.pc = pc /\ e.bus = b /\ e.at = 1 /\ e.had = LiveDurable(b) /\ Opened(e, tx)
    BY <1>2, <2>2 DEF Event, Opened
  <2> QED
    BY <2>1, <2>3
<1> HIDE DEF e
<1>4. e \in Event /\ e.pc = pc
  BY <1>3
<1>5. sent[s].pc = "new" /\ AtRest /\ sent'[s] = e
  BY <1>1, <1>3 DEF Sending, BusTypeOK
<1>6. /\ inbox' \subseteq Ears \X Sends
      /\ \A c \in Ears, t \in Sends : <<c, t>> \in inbox' => <<c, t>> \in inbox \/ (t = s /\ pc = "published")
  <2>1. inbox \subseteq Ears \X Sends /\ listening \subseteq DOMAIN ListensOn
    BY <1>1 DEF BusTypeOK
  <2> QED
    BY <2>1, EarsOfBuses
<1>7. Advances(s, e)
  BY <1>3, <1>4, <1>5, <1>6 DEF Advances, Silent
<1>8. Delivers(s, e)
  <2>1. <<b, s>> \notin ToSet(deliveries) /\ <<b, s>> \notin inbox
    BY <1>1, <1>5, EarsOfBuses DEF Told, Silent
  <2> QED
    BY <1>4, <2>1, EarsOfBuses DEF Delivers, Silent
<1>9. Dispatching(s)'
  <2>1. /\ e.pc \in {"dispatching", "waiting"} => e.bus \in Buses /\ e.had \subseteq Made
        /\ e.pc # "waiting" /\ e.at = 1 /\ e.bus = b
    BY <1>2, <1>3
  <2>2. Len(durable[b]) \in Nat /\ durable' = durable /\ Made' = Made
    BY <1>1 DEF BusTypeOK, Made
  <2>3. 1 <= Len(durable[b]) + 1 /\ 1 .. (1 - 1) = {}
    BY <2>2
  <2> QED
    BY <1>5, <2>1, <2>2, <2>3 DEF Dispatching
<1>10. Fated(s)'
  BY <1>3, <1>5 DEF Fated, Opened, Silent
<1> QED
  BY <1>7, <1>8, <1>9, <1>10, AdvancesSound

\* A dispatch leaves an event that has dealt with one more listener, at once or after the commit.
LEMMA DispatchSound ==
  ASSUME BusInv, NEW s \in Sends, Dispatch(s)
  PROVE  BusInv'
<1> DEFINE b == sent[s].bus
           map == durable[b]
<1>1. /\ BusTypeOK /\ Listed /\ Told /\ Dispatching(s) /\ Fated(s)
      /\ AtRest /\ sent[s].pc = "dispatching" /\ sent[s] \in Event
      /\ b \in Buses /\ UNCHANGED <<setup, local, durable, offs, delivery, listening, inbox, ran, deliveries>>
  BY DEF BusInv, BusTypeOK, Dispatch, Dispatching
<1>2. /\ map \in Seq(DOMAIN DurableOn \cup {NoListener}) /\ Len(map) \in Nat
      /\ sent[s].at \in Nat \ {0}
  BY <1>1, EventFields DEF BusTypeOK
<1>3. PICK n \in Remaining(s) :
        /\ \A m \in Remaining(s) : n <= m
        /\ \/ Defers(s) /\ sent' = [sent EXCEPT ![s].at = n + 1, ![s].deferred = Append(@, map[n])]
           \/ ~ Defers(s) /\ sent' = [sent EXCEPT ![s].at = n + 1, ![s].jobs = @ \cup {map[n]}]
           \/ To(s, "failed")
  <2>1. Remaining(s) # {} /\ Remaining(s) \subseteq Nat
    <3>1. Remaining(s) # {}
      BY DEF Dispatch
    <3>2. Remaining(s) = {m \in sent[s].at .. Len(map) : map[m] # NoListener}
      BY DEF Remaining
    <3>3. sent[s].at .. Len(map) \subseteq Nat
      BY <1>2
    <3> QED
      BY <3>1, <3>2, <3>3
  <2>2. \E n \in Remaining(s) : \A m \in Remaining(s) : n <= m
    BY <2>1, Smallest
  <2> QED
    BY <2>2 DEF Dispatch
<1>4. /\ n \in sent[s].at .. Len(map) /\ n \in Nat /\ map[n] \in DOMAIN DurableOn
      /\ \A m \in sent[s].at .. (n - 1) : map[m] = NoListener
  <2>1. n \in sent[s].at .. Len(map) /\ map[n] # NoListener /\ n \in 1 .. Len(map) /\ n \in Nat
    BY <1>2, <1>3 DEF Remaining
  <2>2. \A m \in sent[s].at .. (n - 1) : m \in sent[s].at .. Len(map) /\ ~ (n <= m)
    BY <1>2, <2>1
  <2> QED
    BY <1>2, <1>3, <2>1, <2>2 DEF Remaining
<1>5. CASE To(s, "failed")
  <2> DEFINE e == [sent[s] EXCEPT !.pc = "failed"]
  <2>1. e \in Event /\ e.pc = "failed" /\ sent' = [sent EXCEPT ![s] = e] /\ sent'[s] = e
    BY <1>1, <1>5 DEF To, Event, BusTypeOK
  <2>2. /\ e.tx = sent[s].tx /\ e.jobs = sent[s].jobs /\ e.lost = sent[s].lost
        /\ e.deferred = sent[s].deferred
    BY <1>1 DEF Event
  <2> HIDE DEF e
  <2>3. Advances(s, e) /\ Delivers(s, e) /\ Dispatching(s)'
    BY <1>1, <2>1 DEF Advances, Delivers, Dispatching, Silent, BusTypeOK
  <2>4. Fated(s)'
    BY <1>1, <2>1, <2>2 DEF Fated, Silent
  <2> QED
    BY <2>3, <2>4, AdvancesSound
<1>6. ASSUME NEW e \in Event, sent' = [sent EXCEPT ![s] = e], e.pc = "dispatching", e.bus = b, e.had = sent[s].had,
             e.at = n + 1, e.tx = sent[s].tx, e.lost = sent[s].lost,
             Done(e) = Done(sent[s]) \cup {map[n]},
             \/ Defers(s) /\ e.jobs = sent[s].jobs /\ e.deferred # <<>>
             \/ ~ Defers(s) /\ e.deferred = sent[s].deferred
      PROVE  BusInv'
  <2>1. sent'[s] = e
    BY <1>1, <1>6 DEF BusTypeOK
  <2>2. Advances(s, e) /\ Delivers(s, e)
    BY <1>1, <1>6 DEF Advances, Delivers, Silent, BusTypeOK
  <2>3. Dispatching(s)'
    <3>1. /\ b \in Buses /\ sent[s].had \subseteq Made
          /\ \A m \in 1 .. (sent[s].at - 1) : map[m] \in Done(sent[s]) \cup {NoListener}
      BY <1>1 DEF Dispatching
    <3>2. e.at <= Len(map) + 1
      BY <1>2, <1>4, <1>6
    <3>3. ASSUME NEW m \in 1 .. (e.at - 1)
          PROVE  map[m] \in Done(e) \cup {NoListener}
      <4>1. m \in 1 .. (sent[s].at - 1) \/ m \in sent[s].at .. (n - 1) \/ m = n
        BY <1>2, <1>4, <1>6, <3>3
      <4> QED
        BY <1>4, <1>6, <3>1, <4>1
    <3> QED
      BY <1>1, <1>6, <2>1, <3>1, <3>2, <3>3 DEF Dispatching, Made
  <2>4. Fated(s)'
    BY <1>1, <1>6, <2>1 DEF Fated, Defers, Silent
  <2> QED
    BY <2>2, <2>3, <2>4, AdvancesSound
<1>7. CASE Defers(s) /\ sent' = [sent EXCEPT ![s].at = n + 1, ![s].deferred = Append(@, map[n])]
  <2> DEFINE e == [sent[s] EXCEPT !.at = n + 1, !.deferred = Append(sent[s].deferred, map[n])]
  <2>1. /\ n + 1 \in Nat \ {0} /\ Append(sent[s].deferred, map[n]) \in Seq(DOMAIN DurableOn)
        /\ ToSet(Append(sent[s].deferred, map[n])) = ToSet(sent[s].deferred) \cup {map[n]}
        /\ Append(sent[s].deferred, map[n]) # <<>>
    BY <1>1, <1>4, EventFields, Appended
  <2>2. /\ e \in Event /\ e.at = n + 1 /\ e.deferred = Append(sent[s].deferred, map[n])
        /\ e.pc = sent[s].pc /\ e.bus = sent[s].bus /\ e.had = sent[s].had /\ e.tx = sent[s].tx
        /\ e.lost = sent[s].lost /\ e.jobs = sent[s].jobs
    BY <1>1, <2>1 DEF Event
  <2>3. sent' = [sent EXCEPT ![s] = e]
    BY <1>1, <1>7 DEF Event, BusTypeOK
  <2> HIDE DEF e
  <2>4. Done(e) = Done(sent[s]) \cup {map[n]}
    BY <2>1, <2>2 DEF Done
  <2> QED
    BY <1>1, <1>6, <1>7, <2>1, <2>2, <2>3, <2>4
<1>8. CASE ~ Defers(s) /\ sent' = [sent EXCEPT ![s].at = n + 1, ![s].jobs = @ \cup {map[n]}]
  <2> DEFINE e == [sent[s] EXCEPT !.at = n + 1, !.jobs = sent[s].jobs \cup {map[n]}]
  <2>1. n + 1 \in Nat \ {0} /\ sent[s].jobs \cup {map[n]} \subseteq DOMAIN DurableOn
    BY <1>1, <1>4, EventFields
  <2>2. /\ e \in Event /\ e.at = n + 1 /\ e.jobs = sent[s].jobs \cup {map[n]}
        /\ e.pc = sent[s].pc /\ e.bus = sent[s].bus /\ e.had = sent[s].had /\ e.tx = sent[s].tx
        /\ e.lost = sent[s].lost /\ e.deferred = sent[s].deferred
    BY <1>1, <2>1 DEF Event
  <2>3. sent' = [sent EXCEPT ![s] = e]
    BY <1>1, <1>8 DEF Event, BusTypeOK
  <2> HIDE DEF e
  <2>4. Done(e) = Done(sent[s]) \cup {map[n]}
    BY <2>2 DEF Done
  <2> QED
    BY <1>1, <1>6, <1>8, <2>2, <2>3, <2>4
<1> QED
  BY <1>3, <1>5, <1>7, <1>8

\* The emit is over: local listeners may hear, now or behind the callbacks of the commit.
LEMMA EmittedSound ==
  ASSUME BusInv, NEW s \in Sends, Dispatched(s) \/ DeliverLater(s)
  PROVE  BusInv'
<1>0. sent[s].pc \in {"dispatching", "waiting"} => sent[s].bus \in Buses
  BY DEF BusInv, Dispatching
<1> PICK b \in Buses : b = sent[s].bus
  BY <1>0 DEF Dispatched, DeliverLater
<1>1. /\ BusTypeOK /\ Told /\ Dispatching(s) /\ Fated(s) /\ sent[s] \in Event /\ AtRest
      /\ sent[s].pc \in {"dispatching", "waiting"} /\ sent[s].had \subseteq Made
      /\ UNCHANGED <<setup, local, durable, offs, listening, inbox, ran>>
  BY DEF BusInv, BusTypeOK, Dispatching, Dispatched, DeliverLater, Deliver
<1>2. sent[s].pc = "waiting" \/ Remaining(s) = {}
  BY DEF Dispatched, DeliverLater
<1>3. sent[s].had \cap LiveDurable(b) \subseteq Done(sent[s])
  <2>1. CASE sent[s].pc = "waiting"
    BY <1>1, <2>1 DEF Dispatching
  <2>2. CASE sent[s].pc # "waiting"
    <3>1. /\ sent[s].pc = "dispatching" /\ Remaining(s) = {} /\ sent[s].at \in Nat \ {0}
          /\ durable[b] \in Seq(DOMAIN DurableOn \cup {NoListener})
      BY <1>1, <1>2, <2>2, EventFields DEF BusTypeOK
    <3>2. DOMAIN durable[b] = 1 .. Len(durable[b]) /\ Len(durable[b]) \in Nat
      BY <3>1
    <3>3. ASSUME NEW n \in 1 .. Len(durable[b])
          PROVE  durable[b][n] \in Done(sent[s]) \cup {NoListener}
      <4>1. n \in 1 .. (sent[s].at - 1) \/ n \in sent[s].at .. Len(durable[b])
        BY <3>1, <3>2
      <4> QED
        BY <1>1, <3>1, <4>1 DEF Dispatching, Remaining
    <3> QED
      BY <3>2, <3>3 DEF LiveDurable, ToSet
  <2> QED
    BY <2>1, <2>2
<1>4. ASSUME NEW pc \in {"waiting", "delivered"}, To(s, pc),
             \/ pc = "waiting" /\ UNCHANGED <<delivery, deliveries>>
             \/ pc = "delivered" /\ Deliver(b, s) /\ (setup.aware => sent[s].tx \notin {"open", "rolled back"} /\ sent[s].deferred = <<>>)
      PROVE  BusInv'
  <2> DEFINE e == [sent[s] EXCEPT !.pc = pc]
  <2>1. /\ e \in Event /\ sent' = [sent EXCEPT ![s] = e] /\ sent'[s] = e
        /\ e.pc = pc /\ e.bus = b /\ e.had = sent[s].had
    BY <1>1, <1>4 DEF To, Event, BusTypeOK
  <2>2. e.jobs = sent[s].jobs /\ e.lost = sent[s].lost /\ e.deferred = sent[s].deferred /\ e.tx = sent[s].tx
    BY <1>1 DEF Event
  <2> HIDE DEF e
  <2>3. Advances(s, e)
    BY <1>1, <2>1 DEF Advances, Silent, BusTypeOK
  <2>4. Delivers(s, e)
    <3>1. CASE pc = "waiting"
      BY <1>4, <3>1 DEF Delivers
    <3>2. CASE pc = "delivered"
      <4>1. <<b, s>> \notin ToSet(deliveries) /\ <<b, s>> \notin inbox' /\ b \in Ears /\ BusOf(b) = b
        BY <1>1, EarsOfBuses DEF Told, Silent
      <4>2. e.had \cap LiveDurable(b)
              \subseteq e.jobs \cup e.lost \cup (IF setup.aware THEN {} ELSE ToSet(e.deferred))
        <5>1. setup.aware => sent[s].deferred = <<>>
          BY <1>4, <3>2
        <5>2. ToSet(<<>>) = {}
          BY DEF ToSet
        <5> QED
          BY <1>3, <2>1, <2>2, <5>1, <5>2 DEF Done
      <4> QED
        BY <1>4, <2>1, <3>2, <4>1, <4>2 DEF Delivers, Silent
    <3> QED
      BY <3>1, <3>2
  <2>5. Dispatching(s)'
    <3>1. LiveDurable(b)' = LiveDurable(b) /\ Made' = Made /\ Done(e) = Done(sent[s])
      BY <1>1, <2>2 DEF LiveDurable, Made, Done
    <3> QED
      BY <1>1, <1>3, <1>4, <2>1, <3>1 DEF Dispatching
  <2>6. Fated(s)'
    <3>1. sent[s].tx \in {"open", "rolled back"} /\ setup.aware => pc = "waiting"
      BY <1>4
    <3> QED
      BY <1>1, <1>4, <2>1, <2>2, <3>1 DEF Fated, Silent
  <2> QED
    BY <2>3, <2>4, <2>5, <2>6, AdvancesSound
<1>6. CASE Dispatched(s)
  <2>1. sent[s].tx # "rolled back" /\ (sent[s].tx # "open" => sent[s].deferred = <<>>)
    BY <1>1, <1>6 DEF Fated, Dispatched
  <2> QED
    BY <1>4, <1>6, <2>1 DEF Dispatched
<1>7. CASE DeliverLater(s)
  BY <1>4, <1>7 DEF DeliverLater
<1> QED
  BY <1>6, <1>7

\* The transaction around an emit ends, and its callbacks run.
LEMMA EndedSound ==
  ASSUME BusInv, NEW s \in Sends, Committed(s) \/ StoreDeferred(s) \/ RolledBack(s)
  PROVE  BusInv'
<1>1. /\ BusTypeOK /\ Told /\ Dispatching(s) /\ Fated(s) /\ sent[s] \in Event /\ AtRest
      /\ UNCHANGED <<setup, local, durable, offs, delivery, listening, inbox, ran, deliveries>>
  BY DEF BusInv, BusTypeOK, Committed, StoreDeferred, RolledBack, Ends
<1>2. ASSUME NEW e \in Event, sent' = [sent EXCEPT ![s] = e], e.bus = sent[s].bus, e.had = sent[s].had,
             sent[s].pc # "dispatching",
             \/ e.pc = sent[s].pc /\ Done(sent[s]) \subseteq Done(e)
             \/ e.pc \notin {"dispatching", "waiting"} /\ e.pc \in Silent /\ sent[s].pc \in Silent
             \/ e.pc \notin {"dispatching", "waiting"} /\ e.pc = sent[s].pc,
             Fated(s)'
      PROVE  BusInv'
  <2>1. sent'[s] = e
    BY <1>1, <1>2 DEF BusTypeOK
  <2>2. Advances(s, e)
    BY <1>1, <1>2 DEF Advances, Silent, BusTypeOK
  <2>3. Delivers(s, e)
    BY <1>1 DEF Delivers
  <2>4. Dispatching(s)'
    <3>1. \A b : LiveDurable(b)' = LiveDurable(b)
      BY <1>1 DEF LiveDurable
    <3> QED
      BY <1>1, <1>2, <2>1, <3>1 DEF Dispatching, Made
  <2> QED
    BY <1>2, <2>2, <2>3, <2>4, AdvancesSound
<1>3. CASE Committed(s)
  <2> DEFINE e == [sent[s] EXCEPT !.tx = "committed"]
  <2>1. /\ sent' = [sent EXCEPT ![s] = e] /\ sent[s].tx = "open" /\ sent[s].pc # "dispatching"
    BY <1>3 DEF Committed, Ends
  <2>2. /\ e \in Event /\ e.tx = "committed" /\ e.pc = sent[s].pc /\ e.bus = sent[s].bus /\ e.had = sent[s].had
        /\ e.jobs = sent[s].jobs /\ e.lost = sent[s].lost /\ e.deferred = sent[s].deferred
    BY <1>1 DEF Event
  <2> HIDE DEF e
  <2>3. sent'[s] = e /\ Done(e) = Done(sent[s])
    BY <1>1, <2>1, <2>2 DEF BusTypeOK, Done
  <2>4. Fated(s)'
    BY <1>1, <2>1, <2>2, <2>3 DEF Fated
  <2> QED
    BY <1>2, <2>1, <2>2, <2>3, <2>4
<1>4. CASE StoreDeferred(s)
  <2>1. /\ sent[s].tx = "committed" /\ sent[s].deferred # <<>> /\ sent[s].deferred \in Seq(DOMAIN DurableOn)
        /\ sent[s].jobs \subseteq DOMAIN DurableOn /\ sent[s].lost \subseteq DOMAIN DurableOn
    BY <1>1, <1>4, EventFields DEF StoreDeferred
  <2>2. PICK r : r = Head(sent[s].deferred)
    OBVIOUS
  <2>3. PICK rest : rest = Tail(sent[s].deferred)
    OBVIOUS
  <2>4. /\ rest \in Seq(DOMAIN DurableOn) /\ r \in DOMAIN DurableOn
        /\ ToSet(sent[s].deferred) \subseteq ToSet(rest) \cup {r}
    BY <2>1, <2>2, <2>3, Shortened
  <2>5. setup.queue = "deferring" /\ sent[s].pc # "dispatching"
    BY <1>1, <2>1 DEF Fated
  <2>6. CASE sent' = [sent EXCEPT ![s] = [sent[s] EXCEPT !.deferred = rest, !.jobs = sent[s].jobs \cup {r}]]
    <3> DEFINE e == [sent[s] EXCEPT !.deferred = rest, !.jobs = sent[s].jobs \cup {r}]
    <3>1. sent[s].jobs \cup {r} \in SUBSET DOMAIN DurableOn
      BY <2>1, <2>4
    <3>2. /\ e \in Event /\ e.tx = sent[s].tx /\ e.pc = sent[s].pc /\ e.bus = sent[s].bus /\ e.had = sent[s].had
          /\ e.jobs = sent[s].jobs \cup {r} /\ e.lost = sent[s].lost /\ e.deferred = rest
      BY <1>1, <2>4, <3>1 DEF Event
    <3>3. sent' = [sent EXCEPT ![s] = e]
      BY <2>6
    <3> HIDE DEF e
    <3>4. sent'[s] = e /\ Done(sent[s]) \subseteq Done(e)
      BY <1>1, <2>4, <3>2, <3>3 DEF BusTypeOK, Done
    <3>5. Fated(s)'
      BY <1>1, <2>1, <2>5, <3>2, <3>4 DEF Fated
    <3> QED
      BY <1>2, <2>5, <3>2, <3>3, <3>4, <3>5
  <2>7. CASE sent' = [sent EXCEPT ![s] = [sent[s] EXCEPT !.deferred = rest, !.lost = sent[s].lost \cup {r}]]
    <3> DEFINE e == [sent[s] EXCEPT !.deferred = rest, !.lost = sent[s].lost \cup {r}]
    <3>1. sent[s].lost \cup {r} \in SUBSET DOMAIN DurableOn
      BY <2>1, <2>4
    <3>2. /\ e \in Event /\ e.tx = sent[s].tx /\ e.pc = sent[s].pc /\ e.bus = sent[s].bus /\ e.had = sent[s].had
          /\ e.lost = sent[s].lost \cup {r} /\ e.jobs = sent[s].jobs /\ e.deferred = rest
      BY <1>1, <2>4, <3>1 DEF Event
    <3>3. sent' = [sent EXCEPT ![s] = e]
      BY <2>7
    <3> HIDE DEF e
    <3>4. sent'[s] = e /\ Done(sent[s]) \subseteq Done(e)
      BY <1>1, <2>4, <3>2, <3>3 DEF BusTypeOK, Done
    <3>5. Fated(s)'
      BY <1>1, <2>1, <2>5, <3>2, <3>4 DEF Fated
    <3> QED
      BY <1>2, <2>5, <3>2, <3>3, <3>4, <3>5
  <2>8. \/ sent' = [sent EXCEPT ![s] = [sent[s] EXCEPT !.deferred = rest, !.jobs = sent[s].jobs \cup {r}]]
        \/ sent' = [sent EXCEPT ![s] = [sent[s] EXCEPT !.deferred = rest, !.lost = sent[s].lost \cup {r}]]
    BY <1>1, <1>4, <2>2, <2>3 DEF StoreDeferred, Event
  <2> QED
    BY <2>6, <2>7, <2>8
<1>5. CASE RolledBack(s)
  <2> DEFINE pc == IF sent[s].pc = "waiting" THEN "dropped" ELSE sent[s].pc
             jobs == IF setup.queue = "transactional" THEN {} ELSE sent[s].jobs
             e == [sent[s] EXCEPT !.tx = "rolled back", !.deferred = <<>>, !.pc = pc, !.jobs = jobs]
  <2>1. /\ sent' = [sent EXCEPT ![s] = e] /\ sent[s].tx = "open" /\ sent[s].pc \in {"failed", "waiting", "delivered"}
    BY <1>1, <1>5 DEF RolledBack, Ends, Event, BusTypeOK
  <2>2. /\ pc \in {"failed", "dropped", "delivered"} /\ jobs \in SUBSET DOMAIN DurableOn /\ jobs \subseteq sent[s].jobs
        /\ (setup.queue = "transactional" => jobs = {})
        /\ (pc = sent[s].pc \/ (pc = "dropped" /\ sent[s].pc = "waiting"))
    BY <1>1, <2>1, EventFields
  <2> HIDE DEF pc, jobs
  <2>3. <<>> \in Seq(DOMAIN DurableOn)
    OBVIOUS
  <2>4. /\ e \in Event /\ e.tx = "rolled back" /\ e.pc = pc /\ e.bus = sent[s].bus /\ e.had = sent[s].had
        /\ e.jobs = jobs /\ e.lost = sent[s].lost /\ e.deferred = <<>>
    BY <1>1, <2>2, <2>3 DEF Event
  <2> HIDE DEF e
  <2>5. sent'[s] = e
    BY <1>1, <2>1 DEF BusTypeOK
  <2>6. Fated(s)'
    BY <1>1, <2>1, <2>2, <2>4, <2>5 DEF Fated, Silent
  <2>7. \/ e.pc \notin {"dispatching", "waiting"} /\ e.pc \in Silent /\ sent[s].pc \in Silent
        \/ e.pc \notin {"dispatching", "waiting"} /\ e.pc = sent[s].pc
    BY <2>1, <2>2, <2>4 DEF Silent
  <2> QED
    BY <1>2, <2>1, <2>4, <2>6, <2>7
<1> QED
  BY <1>3, <1>4, <1>5

LEMMA MessageSound ==
  ASSUME BusInv, NEW b \in DOMAIN ListensOn, NEW s \in Sends, receive(b, s)
  PROVE  BusInv'
<1> DEFINE e == sent[s]
<1>1. /\ BusTypeOK /\ Told /\ e \in Event /\ Dispatching(s) /\ Fated(s) /\ AtRest /\ b \in Ears /\ inbox' = inbox \ {<<b, s>>}
      /\ inbox \subseteq Ears \X Sends
      /\ UNCHANGED <<setup, local, durable, offs, listening, ran, sent>> /\ <<b, s>> \in inbox
  BY EarsOfBuses DEF BusInv, BusTypeOK, receive, Deliver
<1>2. sent' = [sent EXCEPT ![s] = e]
  BY <1>1 DEF BusTypeOK
<1>3. e.pc = "published" /\ <<b, s>> \notin ToSet(deliveries)
  BY <1>1 DEF Told
<1>4. Advances(s, e)
  BY <1>1, <1>2 DEF Advances
<1>5. Delivers(s, e)
  BY <1>1, <1>3 DEF Delivers, Silent, receive
<1>6. Dispatching(s)'
  BY <1>1 DEF Dispatching, LiveDurable, Made
<1>7. Fated(s)'
  BY <1>1 DEF Fated
<1> QED
  BY <1>4, <1>5, <1>6, <1>7, AdvancesSound

LEMMA ListeningSound ==
  ASSUME BusInv, NEW b \in DOMAIN ListensOn, listen(b) \/ StopListening(b)
  PROVE  BusInv'
<1>1. /\ UNCHANGED <<setup, local, durable, offs, sent, delivery, inbox, ran, deliveries>>
      /\ BusTypeOK /\ listening' \subseteq DOMAIN ListensOn
  BY DEF BusInv, BusTypeOK, listen, StopListening
<1>2. BusTypeOK'
  BY <1>1 DEF BusTypeOK, Made
<1>3. Listed' /\ OthersStay'
  BY <1>1, NobodyMoves DEF BusInv
<1>4. \A s \in Sends : Fated(s)'
  BY <1>1 DEF BusInv, Fated
<1>5. \A now \in ToSet(delivery) : Looping(now)'
  BY <1>1 DEF BusInv, Looping, LiveDurable, DealtWith
<1> QED
  BY <1>1, <1>2, <1>3, <1>4, <1>5 DEF BusInv, Told, Dispatching, LiveDurable, Made

-----------------------------------------------------------------------------
\* The loop starts a listener it has not started before.
LEMMA RunSound ==
  ASSUME BusInv, run
  PROVE  BusInv'
<1>1. BusTypeOK /\ Listed /\ Told /\ OthersStay /\ IsInjective(deliveries)
  BY DEF BusInv
<1>2. PICK now \in Loop : now = Head(delivery) /\ now \in ToSet(delivery)
  <2>1. delivery \in Seq(Loop) /\ delivery # <<>>
    BY <1>1 DEF BusTypeOK, run, AtRest
  <2>2. Head(delivery) \in Loop /\ Head(delivery) \in ToSet(delivery)
    BY <2>1, Shortened, EveryElement
  <2> QED
    BY <2>2
<1>3. PICK next \in Loop : next = [now EXCEPT !.at = @ + 1]
  <2>1. now.at + 1 \in Nat \ {0}
    BY <1>2 DEF Loop
  <2>2. [now EXCEPT !.at = @ + 1] \in Loop
    BY <1>2, <2>1 DEF Loop
  <2> QED
    BY <2>2
<1> DEFINE pair == <<now.ear, now.send>>
           list == local[now.bus]
           x == list[now.at]
<1>4. /\ now.bus \in Buses /\ now.ear \in Ears /\ now.send \in Sends /\ now.at \in Nat \ {0} /\ Looping(now)
      /\ list \in Seq(DOMAIN LocalOn) /\ Len(list) \in Nat /\ now.at <= Len(list)
      /\ UNCHANGED <<setup, local, durable, offs, sent, listening, inbox, deliveries>>
      /\ ran' = [ran EXCEPT ![pair] = Append(@, x)] /\ delivery' = <<next>>
  <2>1. now.bus \in Buses /\ now.ear \in Ears /\ now.send \in Sends /\ now.at \in Nat \ {0} /\ Looping(now)
    BY <1>2 DEF Loop, BusInv
  <2>2. /\ now.at <= Len(list)
        /\ UNCHANGED <<setup, local, durable, offs, sent, listening, inbox, deliveries>>
        /\ ran' = [ran EXCEPT ![pair] = Append(@, x)] /\ delivery' = <<next>>
    BY <1>2, <1>3 DEF run
  <2>3. list \in Seq(DOMAIN LocalOn) /\ Len(list) \in Nat
    BY <1>1, <2>1 DEF BusTypeOK
  <2> QED
    BY <2>1, <2>2, <2>3
<1>5. /\ next.bus = now.bus /\ next.ear = now.ear /\ next.send = now.send /\ next.at = now.at + 1
      /\ next.shifted = now.shifted /\ next.at # 1
  BY <1>2, <1>3, <1>4 DEF Loop
<1>6. pair \in Ears \X Sends /\ ran[pair] \in Seq(DOMAIN LocalOn) /\ x \in DOMAIN LocalOn /\ x \in ToSet(list)
  <2>1. pair \in Ears \X Sends /\ ran[pair] \in Seq(DOMAIN LocalOn)
    BY <1>1, <1>4 DEF BusTypeOK
  <2>2. now.at \in 1 .. Len(list)
    BY <1>4
  <2>3. x \in DOMAIN LocalOn /\ x \in ToSet(list)
    BY <1>4, <2>2, EveryElement
  <2> QED
    BY <2>1, <2>3
<1>7. x \notin ToSet(ran[pair]) /\ x \in Made /\ pair \in ToSet(deliveries)
  <2>1. now.at \in now.at .. Len(list)
    BY <1>4
  <2>2. x \notin ToSet(ran[pair]) /\ pair \in ToSet(deliveries)
    BY <1>4, <2>1 DEF Looping
  <2>3. x \in Made
    BY <1>1, <1>4, <1>6 DEF Listed
  <2> QED
    BY <2>2, <2>3
<1> DEFINE old == ran[pair]
           new == Append(old, x)
<1> HIDE DEF x
<1>8. /\ new \in Seq(DOMAIN LocalOn) /\ ToSet(new) = ToSet(old) \cup {x}
      /\ DOMAIN new = 1 .. (Len(old) + 1) /\ new[Len(old) + 1] = x
      /\ \A n \in 1 .. Len(old) : new[n] = old[n] /\ old[n] \in ToSet(old)
      /\ DOMAIN old = 1 .. Len(old) /\ Len(old) \in Nat
  <2>1. old \in Seq(DOMAIN LocalOn) /\ x \in DOMAIN LocalOn
    BY <1>6
  <2> HIDE DEF old
  <2> QED
    BY <2>1, Appended, EveryElement
<1>9. /\ ran' \in [Ears \X Sends -> Seq(DOMAIN LocalOn)] /\ ran'[pair] = new
      /\ \A p \in Ears \X Sends : p # pair => ran'[p] = ran[p]
  BY <1>1, <1>4, <1>6, <1>8 DEF BusTypeOK
<1>10. IsInjective(new)
  <2>1. IsInjective(old) /\ x \notin ToSet(old)
    BY <1>1, <1>4, <1>7 DEF Told
  <2> HIDE DEF new, old, x
  <2>2. \A n \in 1 .. (Len(old) + 1) : n \in 1 .. Len(old) \/ n = Len(old) + 1
    BY <1>8
  <2> QED
    BY <1>8, <2>1, <2>2 DEF IsInjective
<1> HIDE DEF new, old
<1>11. BusTypeOK'
  <2>1. delivery' \in Seq(Loop) /\ Len(delivery') <= 1
    BY <1>4, <1>5
  <2> QED
    BY <1>1, <1>4, <1>9, <2>1 DEF BusTypeOK, Made
<1>12. Listed' /\ OthersStay' /\ IsInjective(deliveries)'
  BY <1>1, <1>4, NobodyMoves
<1>13. Told'
  <2>1. ASSUME NEW b \in Ears, NEW s \in Sends
        PROVE  /\ ToSet(ran'[<<b, s>>]) \subseteq Made /\ IsInjective(ran'[<<b, s>>])
               /\ <<b, s>> \notin ToSet(deliveries) => ran'[<<b, s>>] = <<>>
    <3>1. /\ ToSet(ran[<<b, s>>]) \subseteq Made /\ IsInjective(ran[<<b, s>>])
          /\ <<b, s>> \notin ToSet(deliveries) => ran[<<b, s>>] = <<>>
      BY <1>1 DEF Told
    <3>2. CASE <<b, s>> = pair
      <4>1. ToSet(new) \subseteq Made
        BY <1>7, <1>8, <3>1, <3>2 DEF old
      <4> QED
        BY <1>7, <1>9, <1>10, <3>2, <4>1
    <3>3. CASE <<b, s>> # pair
      BY <1>9, <3>1, <3>3
    <3> QED
      BY <3>2, <3>3
  <2> QED
    BY <1>1, <1>4, <2>1 DEF Told, Made
<1>14. Looping(next)'
  <2> DEFINE i == now.at
             heard == ToSet(ran[pair])
  <2>1. /\ \A n \in i .. Len(list) : list[n] \notin heard
        /\ ~ now.shifted => i <= Len(list) + 1 /\ \A n \in 1 .. (i - 1) : list[n] \in heard
        /\ \A m, n \in 1 .. Len(list) : list[m] = list[n] => m = n
        /\ i \in Nat \ {0} /\ Len(list) \in Nat /\ i <= Len(list)
        /\ ToSet(ran'[pair]) = heard \cup {list[i]}
    <3>1. IsInjective(list) /\ DOMAIN list = 1 .. Len(list)
      BY <1>1, <1>4 DEF Listed
    <3>2. ToSet(ran'[pair]) = heard \cup {list[i]}
      BY <1>8, <1>9 DEF old, x
    <3> QED
      BY <1>4, <3>1, <3>2 DEF Looping, IsInjective
  <2> HIDE DEF i, heard, list, pair
  <2>2. \A n \in (i + 1) .. Len(list) : list[n] \notin heard \cup {list[i]}
    <3> SUFFICES ASSUME NEW n \in (i + 1) .. Len(list)
                 PROVE  list[n] \notin heard \cup {list[i]}
      OBVIOUS
    <3>1. n \in i .. Len(list) /\ n \in 1 .. Len(list) /\ i \in 1 .. Len(list) /\ n # i
      BY <2>1
    <3> QED
      BY <2>1, <3>1
  <2>3. ~ now.shifted => i + 1 <= Len(list) + 1 /\ \A n \in 1 .. ((i + 1) - 1) : list[n] \in heard \cup {list[i]}
    <3> SUFFICES ASSUME ~ now.shifted, NEW n \in 1 .. ((i + 1) - 1)
                 PROVE  list[n] \in heard \cup {list[i]}
      BY <2>1
    <3>1. n \in 1 .. (i - 1) \/ n = i
      BY <2>1
    <3> QED
      BY <2>1, <3>1
  <2>4. pair \in ToSet(deliveries)
    BY <1>7
  <2> QED
    BY <1>4, <1>5, <2>1, <2>2, <2>3, <2>4 DEF Looping, i, list, pair
<1>15. ToSet(delivery') \subseteq {next}
  BY <1>4 DEF ToSet
<1>16. \A s \in Sends : Dispatching(s)' /\ Fated(s)'
  BY <1>4 DEF BusInv, Dispatching, Fated, LiveDurable, Made
<1> QED
  BY <1>11, <1>12, <1>13, <1>14, <1>15, <1>16 DEF BusInv

LEMMA LoopEndsSound ==
  ASSUME BusInv, LoopEnds
  PROVE  BusInv'
<1>1. /\ BusTypeOK /\ delivery' = <<>> /\ ToSet(<<>>) = {}
      /\ UNCHANGED <<setup, local, durable, offs, sent, listening, inbox, ran, deliveries>>
  BY DEF BusInv, LoopEnds, ToSet
<1>2. BusTypeOK'
  BY <1>1 DEF BusTypeOK, Made
<1>3. Listed' /\ OthersStay'
  BY <1>1, NobodyMoves DEF BusInv
<1>4. \A s \in Sends : Fated(s)'
  BY <1>1 DEF BusInv, Fated
<1> QED
  BY <1>1, <1>2, <1>3, <1>4 DEF BusInv, Told, Dispatching, LiveDurable, Made

-----------------------------------------------------------------------------
LEMMA BusInitHolds == BusInit => BusInv
<1> SUFFICES ASSUME BusInit
             PROVE  BusInv
  OBVIOUS
<1>1. ToSet(<<>>) = {} /\ DOMAIN <<>> = {} /\ Len(<<>>) = 0 /\ IsInjective(<<>>)
  BY DEF ToSet, IsInjective
<1>2. DOMAIN offs = {} /\ Made = {}
  BY DEF BusInit, Made
<1>3. NotSent \in Event /\ NotSent.pc = "new" /\ Opened(NotSent, "none")
  BY DEF NotSent, Event, Opened
<1>4. sent \in [Sends -> Event] /\ \A s \in Sends : sent[s].pc = "new" /\ Opened(sent[s], "none")
  BY <1>3 DEF BusInit
<1>5. BusTypeOK
  <2>1. /\ local \in [Buses -> Seq(DOMAIN LocalOn)] /\ durable \in [Buses -> Seq(DOMAIN DurableOn \cup {NoListener})]
        /\ delivery \in Seq(Loop) /\ Len(delivery) <= 1
        /\ ran \in [Ears \X Sends -> Seq(DOMAIN LocalOn)] /\ deliveries \in Seq(Ears \X Sends)
    BY <1>1 DEF BusInit
  <2>2. offs \in [Made -> 0 .. MaxOffs] /\ listening \subseteq DOMAIN ListensOn /\ inbox \subseteq Ears \X Sends
        /\ setup \in [aware : BOOLEAN, queue : Queues] /\ IsFiniteSet(Made)
    BY <1>2, FS_EmptySet DEF BusInit
  <2> QED
    BY <1>2, <1>4, <2>1, <2>2 DEF BusTypeOK
<1>6. \A b \in Buses : local[b] = <<>> /\ LiveDurable(b) = {}
  BY <1>1 DEF BusInit, LiveDurable
<1>7. Listed
  BY <1>1, <1>6 DEF Listed
<1>8. Told
  <2>1. \A b \in Ears, s \in Sends : ran[<<b, s>>] = <<>>
    BY DEF BusInit
  <2> QED
    BY <1>1, <1>2, <2>1 DEF BusInit, Told
<1>9. OthersStay
  <2>1. \A On, b, registered : Missing(On, b, registered) = {} /\ CalledAgain(On, b) = {}
    BY <1>2 DEF Missing, CalledAgain
  <2>2. Cardinality({}) <= Cardinality({})
    BY FS_EmptySet
  <2> QED
    BY <2>1, <2>2 DEF OthersStay
<1>10. \A now \in ToSet(delivery) : Looping(now)
  BY <1>1 DEF BusInit
<1>11. \A s \in Sends : Dispatching(s) /\ Fated(s)
  BY <1>4 DEF Dispatching, Fated, Opened
<1> QED
  BY <1>1, <1>5, <1>7, <1>8, <1>9, <1>10, <1>11 DEF BusInv, BusInit

BusSpec == BusInit /\ [][BusNext]_busVars

LEMMA BusInvariance == BusSpec => []BusInv
<1>1. BusInv /\ [BusNext]_busVars => BusInv'
  <2> SUFFICES ASSUME BusInv, [BusNext]_busVars
               PROVE  BusInv'
    OBVIOUS
  <2>1. ASSUME NEW r \in DOMAIN LocalOn, onLocal(r) \/ offLocal(r)
        PROVE  BusInv'
    BY <2>1, OnLocalSound, OffLocalSound
  <2>2. ASSUME NEW r \in DOMAIN DurableOn, onDurable(r) \/ offDurable(r)
        PROVE  BusInv'
    BY <2>2, OnDurableSound, OffDurableSound
  <2>3. ASSUME NEW s \in Sends, NEW b \in Buses, emit(s, b) \/ broadcast(s, b) \/ BroadcastAtHome(s, b)
        PROVE  BusInv'
    <3>1. CASE emit(s, b)
      BY <3>1, SendingSound DEF emit
    <3>2. CASE broadcast(s, b)
      BY <3>2, SendingSound DEF broadcast
    <3>3. CASE BroadcastAtHome(s, b)
      BY <3>3, SendingSound DEF BroadcastAtHome, Deliver
    <3> QED
      BY <2>3, <3>1, <3>2, <3>3
  <2>4. ASSUME NEW s \in Sends, \/ Dispatch(s) \/ Dispatched(s) \/ Committed(s) \/ RolledBack(s)
                                \/ StoreDeferred(s) \/ DeliverLater(s)
        PROVE  BusInv'
    BY <2>4, DispatchSound, EmittedSound, EndedSound
  <2>5. ASSUME NEW c \in DOMAIN ListensOn, listen(c) \/ StopListening(c) \/ \E s \in Sends : receive(c, s)
        PROVE  BusInv'
    BY <2>5, ListeningSound, MessageSound
  <2>6. CASE run \/ LoopEnds
    BY <2>6, RunSound, LoopEndsSound
  <2>7. CASE UNCHANGED busVars
    <3>1. BusInv /\ UNCHANGED <<setup, local, durable, offs, sent, delivery, listening, inbox, ran, deliveries>>
      BY <2>7 DEF busVars
    <3>2. Listed' /\ OthersStay'
      BY <3>1, NobodyMoves DEF BusInv
    <3>3. \A s \in Sends : Fated(s)' /\ Dispatching(s)'
      BY <3>1 DEF BusInv, Fated, Dispatching, LiveDurable, Made
    <3>4. \A now \in ToSet(delivery) : Looping(now)'
      BY <3>1 DEF BusInv, Looping, LiveDurable, DealtWith
    <3> QED
      BY <3>1, <3>2, <3>3, <3>4 DEF BusInv, BusTypeOK, Told, Made
  <2> QED
    BY <2>1, <2>2, <2>3, <2>4, <2>5, <2>6, <2>7 DEF BusNext
<1> QED
  BY <1>1, BusInitHolds, PTL DEF BusSpec

\* Whatever is registered, removed and sent, by whom and while which loop runs, however the bus
\* and its queue are set up: an event starts a listener once for each deliver(), who was there
\* throughout hears it, durable listeners have their jobs first or their loss is reported, what
\* is deferred shares the fate of the transaction, and a removal costs another listener only
\* when a function is called again, one for each such call (events.ts, on, emit, deliver; queue.ts,
\* dispatch).
THEOREM EventsCorrect == BusSpec => []BusHolds
<1>1. BusInv => BusHolds
  <2> SUFFICES ASSUME BusInv
               PROVE  BusHolds
    OBVIOUS
  <2>1. BusTypeOK /\ Told /\ OthersStay /\ IsInjective(deliveries)
    BY DEF BusInv
  <2>2. OnceEach
    BY <2>1 DEF OnceEach, BusTypeOK, Told
  <2>3. \A now \in ToSet(delivery) : now \in Loop /\ Looping(now)
    BY <2>1, EveryElement DEF BusTypeOK, BusInv
  <2>4. EveryoneHears
    <3> SUFFICES ASSUME NEW now \in ToSet(delivery), now.at > Len(local[now.bus]), ~ now.shifted,
                        NEW x \in ToSet(local[now.bus])
                 PROVE  x \in ToSet(ran[<<now.ear, now.send>>])
      BY DEF EveryoneHears
    <3>1. local[now.bus] \in Seq(DOMAIN LocalOn) /\ now.at \in Nat
      BY <2>1, <2>3 DEF BusTypeOK, Loop
    <3>2. PICK n \in 1 .. Len(local[now.bus]) : local[now.bus][n] = x
      BY <3>1 DEF ToSet
    <3>3. n \in 1 .. (now.at - 1)
      BY <3>1
    <3> QED
      BY <2>3, <3>2, <3>3 DEF Looping
  <2>5. JobsComeFirst
    <3>1. \A now \in ToSet(delivery) :
            now.at = 1 /\ sent[now.send].pc = "delivered"
            => sent[now.send].had \cap LiveDurable(now.bus) \subseteq DealtWith(now.send)
      BY <2>3 DEF Looping
    <3>2. \A s \in Sends : sent[s].pc \in {"dispatching", "waiting", "failed", "dropped", "refused"} =>
            \A ear \in Ears : ran[<<ear, s>>] = <<>> /\ <<ear, s>> \notin ToSet(deliveries)
      BY <2>1 DEF Told, Silent
    <3> QED
      BY <3>1, <3>2 DEF JobsComeFirst
  <2>6. FateOfTheTransaction
    <3> SUFFICES ASSUME NEW s \in Sends
                 PROVE  /\ sent[s].tx \in {"open", "rolled back"} =>
                             /\ (setup.queue = "deferring" => sent[s].jobs = {})
                             /\ sent[s].lost = {}
                             /\ (setup.aware => \A ear \in Ears : <<ear, s>> \notin ToSet(deliveries))
                        /\ sent[s].tx = "rolled back" =>
                             sent[s].deferred = <<>> /\ (setup.queue = "transactional" => sent[s].jobs = {})
                        /\ (sent[s].lost # {} => setup.queue = "deferring")
      BY DEF FateOfTheTransaction
    <3>1. Fated(s)
      BY DEF BusInv
    <3>2. sent[s].pc \in Silent => \A ear \in Ears : <<ear, s>> \notin ToSet(deliveries)
      BY <2>1 DEF Told
    <3> QED
      BY <3>1, <3>2 DEF Fated
  <2> QED
    BY <2>1, <2>2, <2>4, <2>5, <2>6 DEF BusHolds
<1> QED
  BY <1>1, BusInvariance, PTL

-----------------------------------------------------------------------------
\* RateLimit.  First: counting in a log of readings.

LEMMA WithinFinite ==
  ASSUME NEW log \in Seq(Int), NEW from \in Int, NEW to \in Int
  PROVE  /\ IsFiniteSet(Within(log, from, to))
         /\ Cardinality(Within(log, from, to)) \in Nat
<1>1. IsFiniteSet(1 .. Len(log))
  BY FS_Interval
<1>2. DOMAIN log = 1 .. Len(log)
  OBVIOUS
<1>3. Within(log, from, to) \in SUBSET (1 .. Len(log))
  BY <1>2 DEF Within
<1> QED
  BY <1>1, <1>3, FS_Subset, FS_CardinalityType

\* A longer stretch holds no less.
LEMMA WithinMore ==
  ASSUME NEW log \in Seq(Int), NEW from \in Int, NEW to \in Int,
         NEW a \in Int, NEW b \in Int, a <= from, to <= b
  PROVE  Cardinality(Within(log, from, to)) <= Cardinality(Within(log, a, b))
<1>1. \A n \in DOMAIN log : log[n] \in Int
  OBVIOUS
<1>2. Within(log, from, to) \in SUBSET Within(log, a, b)
  BY <1>1 DEF Within
<1> QED
  BY <1>2, WithinFinite, FS_Subset

\* Two stretches hold no less than what they cover.
LEMMA WithinSplit ==
  ASSUME NEW log \in Seq(Int), NEW from \in Int, NEW at \in Int, NEW to \in Int
  PROVE  Cardinality(Within(log, from, to))
           <= Cardinality(Within(log, from, at - 1)) + Cardinality(Within(log, at, to))
<1> DEFINE Low == Within(log, from, at - 1)
           High == Within(log, at, to)
<1>1. \A n \in DOMAIN log : log[n] \in Int
  OBVIOUS
<1>2. Within(log, from, to) \in SUBSET (Low \cup High)
  BY <1>1 DEF Within
<1>3. IsFiniteSet(Low) /\ IsFiniteSet(High)
  BY WithinFinite
<1>4. IsFiniteSet(Low \cup High) /\ Cardinality(Low \cup High) = Cardinality(Low) + Cardinality(High) - Cardinality(Low \cap High)
  BY <1>3, FS_Union
<1>5. Cardinality(Low) \in Nat /\ Cardinality(High) \in Nat
  BY <1>3, FS_CardinalityType
<1>6. Cardinality(Low \cap High) \in Nat
  <2>1. Low \cap High \in SUBSET Low
    OBVIOUS
  <2> QED
    BY <1>3, <2>1, FS_Subset, FS_CardinalityType
<1>7. Cardinality(Within(log, from, to)) <= Cardinality(Low \cup High)
  BY <1>2, <1>4, FS_Subset
<1>8. Cardinality(Within(log, from, to)) \in Nat
  BY WithinFinite
<1> HIDE DEF Low, High
<1>9. Cardinality(Within(log, from, to)) <= Cardinality(Low) + Cardinality(High)
  BY <1>4, <1>5, <1>6, <1>7, <1>8
<1> QED
  BY <1>9 DEF Low, High

LEMMA WithinNone ==
  ASSUME NEW log \in Seq(Int), NEW from \in Int, NEW to \in Int,
         \A n \in DOMAIN log : log[n] \notin from .. to
  PROVE  Cardinality(Within(log, from, to)) = 0
<1>1. Within(log, from, to) = {}
  BY DEF Within
<1> QED
  BY <1>1, FS_EmptySet

\* One more reading counts where it lies.
LEMMA WithinAppend ==
  ASSUME NEW log \in Seq(Int), NEW x \in Int, NEW from \in Int, NEW to \in Int
  PROVE  /\ Append(log, x) \in Seq(Int)
         /\ Cardinality(Within(Append(log, x), from, to)) =
              Cardinality(Within(log, from, to)) + (IF x \in from .. to THEN 1 ELSE 0)
<1> DEFINE n == Len(log) + 1
           W == Within(log, from, to)
<1>1. /\ Append(log, x) \in Seq(Int) /\ DOMAIN Append(log, x) = DOMAIN log \cup {n}
      /\ n \notin DOMAIN log /\ Append(log, x)[n] = x
      /\ \A m \in DOMAIN log : Append(log, x)[m] = log[m]
  OBVIOUS
<1>2. IsFiniteSet(W) /\ Cardinality(W) \in Nat
  BY WithinFinite
<1>3. n \notin W
  BY <1>1 DEF Within
<1>4. CASE x \in from .. to
  <2>1. Within(Append(log, x), from, to) = W \cup {n}
    BY <1>1, <1>4 DEF Within
  <2>2. Cardinality(W \cup {n}) = Cardinality(W) + 1
    BY <1>2, <1>3, FS_AddElement
  <2> QED
    BY <1>1, <1>4, <2>1, <2>2
<1>5. CASE x \notin from .. to
  <2>1. Within(Append(log, x), from, to) = W
    BY <1>1, <1>5 DEF Within
  <2> HIDE DEF W
  <2>2. Cardinality(Within(Append(log, x), from, to)) = Cardinality(W)
    BY <2>1
  <2>3. Cardinality(Within(Append(log, x), from, to)) = Cardinality(W) + (IF x \in from .. to THEN 1 ELSE 0)
    BY <1>2, <1>5, <2>2
  <2> QED
    BY <1>1, <2>3 DEF W
<1> QED
  BY <1>4, <1>5

-----------------------------------------------------------------------------
\* Windows.

\* The stretch of a window, and what of it lies up to a reading.
First(w) == w * WindowMs
Counted(log, from, to) == Cardinality(Within(log, from, to))
Hits(log, w) == Counted(log, First(w), First(w) + WindowMs - 1)
UpTo(log, t) == Counted(log, First(windowOf(t)), t)

LEMMA WindowOf ==
  ASSUME NEW t \in Int
  PROVE  /\ windowOf(t) \in Int /\ First(windowOf(t)) \in Int
         /\ t % WindowMs \in 0 .. WindowMs - 1
         /\ t = First(windowOf(t)) + (t % WindowMs)
         /\ \A w \in Int : First(w) \in Int /\ First(w + 1) = First(w) + WindowMs
         /\ \A w \in Int : t \in First(w) .. (First(w) + WindowMs - 1) <=> w = windowOf(t)
<1> USE RateAssumption
<1>1. /\ windowOf(t) \in Int /\ t % WindowMs \in 0 .. WindowMs - 1
      /\ t = WindowMs * windowOf(t) + (t % WindowMs)
  BY DEF windowOf
<1>2. First(windowOf(t)) \in Int /\ t = First(windowOf(t)) + (t % WindowMs)
  BY <1>1 DEF First
<1>3. ASSUME NEW w \in Int
      PROVE  First(w) \in Int /\ First(w + 1) = First(w) + WindowMs
  BY DEF First
<1>4. ASSUME NEW w \in Int
      PROVE  t \in First(w) .. (First(w) + WindowMs - 1) <=> w = windowOf(t)
  <2>1. CASE w = windowOf(t)
    BY <1>1, <1>2, <2>1
  <2>2. CASE w < windowOf(t)
    <3>1. windowOf(t) - w >= 1 /\ windowOf(t) - w \in Nat
      BY <1>1, <2>2
    <3>2. First(windowOf(t)) = First(w) + (windowOf(t) - w) * WindowMs
      BY <1>1 DEF First
    <3>3. (windowOf(t) - w) * WindowMs >= WindowMs
      BY <3>1
    <3> QED
      BY <1>1, <1>2, <1>3, <2>2, <3>2, <3>3
  <2>3. CASE w > windowOf(t)
    <3>1. w - windowOf(t) >= 1 /\ w - windowOf(t) \in Nat
      BY <1>1, <2>3
    <3>2. First(w) = First(windowOf(t)) + (w - windowOf(t)) * WindowMs
      BY <1>1 DEF First
    <3>3. (w - windowOf(t)) * WindowMs >= WindowMs
      BY <3>1
    <3> QED
      BY <1>1, <1>2, <1>3, <2>3, <3>2, <3>3
  <2> QED
    BY <1>1, <2>1, <2>2, <2>3
<1> QED
  BY <1>1, <1>2, <1>3, <1>4

LEMMA WindowNat == ASSUME NEW t \in Nat PROVE windowOf(t) \in Nat
<1>1. WindowMs \in Nat /\ WindowMs > 0
  BY RateAssumption
<1> QED
  BY <1>1 DEF windowOf

LEMMA Spans ==
  ASSUME NEW t \in Int, NEW w \in Int, w = windowOf(t)
  PROVE  /\ First(w) \in Int /\ First(w) <= t /\ t < First(w) + WindowMs
         /\ First(w + 1) = First(w) + WindowMs
         /\ First(w - 1) \in Int /\ First(w) = First(w - 1) + WindowMs
<1> USE RateAssumption
<1>1. /\ First(w) \in Int /\ t \in First(w) .. (First(w) + WindowMs - 1)
      /\ First(w + 1) = First(w) + WindowMs
  BY WindowOf
<1>2. w - 1 \in Int /\ (w - 1) + 1 = w
  OBVIOUS
<1>3. First(w - 1) \in Int /\ First((w - 1) + 1) = First(w - 1) + WindowMs
  BY <1>2, WindowOf
<1> QED
  BY <1>1, <1>2, <1>3

LEMMA NoLess ==
  ASSUME NEW a \in Nat, NEW x \in Int, NEW y \in Int, x <= y
  PROVE  a * x <= a * y /\ x * a <= y * a
<1>1. a * x \in Int /\ a * y \in Int /\ a * x = x * a /\ a * y = y * a
  OBVIOUS
<1>2. a * y = a * x + a * (y - x) /\ a * (y - x) >= 0
  OBVIOUS
<1> QED
  BY <1>1, <1>2

\* What is left is at least one if and only if it is so before rounding down.
LEMMA AtLeastOne ==
  ASSUME NEW x \in Int
  PROVE  Max({0, x \div WindowMs}) >= 1 <=> x >= WindowMs
<1> USE RateAssumption
<1> DEFINE q == x \div WindowMs
<1>1. q \in Int /\ x % WindowMs \in 0 .. WindowMs - 1 /\ x = WindowMs * q + (x % WindowMs)
  OBVIOUS
<1>2. q >= 1 => x >= WindowMs
  <2>1. q >= 1 => WindowMs * q >= WindowMs * 1
    BY <1>1, NoLess
  <2> QED
    BY <1>1, <2>1
<1>3. q <= 0 => x < WindowMs
  <2>1. q <= 0 => WindowMs * q <= WindowMs * 0
    BY <1>1, NoLess
  <2> QED
    BY <1>1, <2>1
<1> HIDE DEF q
<1>4. Max({0, q}) >= 1 <=> q >= 1
  <2>1. \E m \in {0, q} : \A y \in {0, q} : m >= y
    BY <1>1
  <2>2. Max({0, q}) \in {0, q} /\ \A y \in {0, q} : Max({0, q}) >= y
    BY <2>1 DEF Max
  <2> QED
    BY <1>1, <2>2
<1>5. Max({0, q}) >= 1 <=> x >= WindowMs
  BY <1>1, <1>2, <1>3, <1>4
<1> QED
  BY <1>5 DEF q

-----------------------------------------------------------------------------
\* The inductive invariant.

Counter == [index : Nat \cup {Unset}, current : Nat, previous : Nat]

RateTypeOK ==
  /\ shop \in {"memory", "shared", "redis"}
  /\ counters \in [Visitors -> Counter]
  /\ redisCount \in [Visitors -> [Windows -> Nat]]
  /\ redisUntil \in [Visitors -> [Windows -> Nat]]
  /\ skew \in [Instances -> 0 .. MaxSkew]
  /\ moment \in 0 .. RateEnd /\ furthest \in Nat /\ stepped \in BOOLEAN
  /\ admitted \in [Visitors -> Seq(Int)]
  /\ forgotten \in [Visitors -> [Windows -> Nat]]
  /\ last.now \in Readings \cup {Unset}
  /\ last.now # Unset => last.visitor \in Visitors

\* No request was let through before the first reading, nor, with one clock, after this one.
Logged ==
  \A v \in Visitors : \A n \in DOMAIN admitted[v] :
    admitted[v][n] >= 0 /\ (OneClock => admitted[v][n] <= moment)

\* How many sweeps in window w dropped a live counter of v.
Drops(v, w) == IF w \in Windows THEN forgotten[v][w] ELSE 0

\* Two counters tell no less than what was let through in a window and in the one before:
\* each its own window, or one of them, of readings before the clock stepped back, both.
Covers(hits, before, current, previous) ==
  \/ hits <= current /\ before <= previous
  \/ hits + before <= current

\* The memory store's counters are no less than what was let through in this window and
\* the last; a sweep takes away a limit's worth at most.
MemoryCounts ==
  shop # "redis" =>
    /\ OneClock
    /\ \A v \in Visitors :
         LET at == windowOf(moment)
             c == shift(counters[v], at)
         IN  /\ counters[v].current <= Limit
             /\ Hits(admitted[v], at) <= c.current + Limit * Drops(v, at)
             /\ Unswept(v, at) /\ Unswept(v, at - 1) => Covers(Hits(admitted[v], at), Hits(admitted[v], at - 1), c.current, c.previous)
             /\ Unswept(v, at) /\ Unswept(v, at - 1) /\ c.index > at
                => Hits(admitted[v], at) + Hits(admitted[v], at - 1) <= c.current

\* A clock that never stepped back shows the latest reading.
Steady ==
  /\ ~stepped => furthest = moment
  /\ shop = "redis" => ~stepped
  /\ SweepsSpare

\* The Redis store's are exact, and last as long as close clocks may ask for them.
RedisExact ==
  shop = "redis" /\ ClocksClose =>
    \A v \in Visitors, w \in Windows :
      /\ redisCount[v][w] = Hits(admitted[v], w)
      /\ redisCount[v][w] > 0 =>
           \E j \in Instances : redisUntil[v][w] >= First(w) + 2 * WindowMs - skew[j]

Limited ==
  ClocksClose => \A v \in Visitors, w \in Int : Hits(admitted[v], w) <= Limit * (1 + Drops(v, w))

\* At any reading, what the window has let through was within the estimate.
Sliding ==
  OneClock => \A v \in Visitors, t \in Int :
    Unswept(v, windowOf(t)) /\ Unswept(v, windowOf(t) - 1) =>
      \/ UpTo(admitted[v], t) = 0
      \/ Hits(admitted[v], windowOf(t) - 1) * previousWeight(t) + UpTo(admitted[v], t) * WindowMs <= Limit * WindowMs

RateInv ==
  RateTypeOK /\ Logged /\ MemoryCounts /\ RedisExact /\ Limited /\ Sliding /\ Steady /\ RemainingIsTrue

-----------------------------------------------------------------------------
\* What follows from it at once.

LEMMA OneIsClose == ASSUME RateTypeOK, OneClock PROVE ClocksClose
  BY RateAssumption DEF RateTypeOK, OneClock, ClocksClose

LEMMA DropsTyped ==
  ASSUME RateTypeOK, NEW v \in Visitors, NEW w \in Int
  PROVE  /\ Drops(v, w) \in Nat /\ Limit * Drops(v, w) \in Nat
         /\ Limit * (1 + Drops(v, w)) = Limit + Limit * Drops(v, w)
         /\ Unswept(v, w) <=> Drops(v, w) = 0
         /\ Unswept(v, w) => Limit * Drops(v, w) = 0
<1> USE RateAssumption
<1>1. Drops(v, w) \in Nat
  BY DEF Drops, RateTypeOK
<1>2. PICK d \in Nat : d = Drops(v, w)
  BY <1>1
<1>3. Limit * d \in Nat /\ Limit * (1 + d) = Limit + Limit * d /\ (d = 0 => Limit * d = 0)
  OBVIOUS
<1>4. Unswept(v, w) <=> Drops(v, w) = 0
  BY DEF Drops, Unswept
<1> QED
  BY <1>2, <1>3, <1>4

LEMMA HitsTyped ==
  ASSUME RateTypeOK, NEW v \in Visitors
  PROVE  /\ admitted[v] \in Seq(Int)
         /\ \A w \in Int : Hits(admitted[v], w) \in Nat
         /\ \A t \in Int : UpTo(admitted[v], t) \in Nat /\ UpTo(admitted[v], t) <= Hits(admitted[v], windowOf(t))
<1> USE RateAssumption
<1>1. admitted[v] \in Seq(Int)
  BY DEF RateTypeOK
<1>2. ASSUME NEW w \in Int PROVE Hits(admitted[v], w) \in Nat
  <2>1. First(w) \in Int /\ First(w) + WindowMs - 1 \in Int
    BY DEF First
  <2> QED
    BY <1>1, <2>1, WithinFinite DEF Hits, Counted
<1>3. ASSUME NEW t \in Int PROVE UpTo(admitted[v], t) \in Nat /\ UpTo(admitted[v], t) <= Hits(admitted[v], windowOf(t))
  <2>1. First(windowOf(t)) \in Int /\ t <= First(windowOf(t)) + WindowMs - 1
    BY WindowOf
  <2>2. First(windowOf(t)) + WindowMs - 1 \in Int
    BY <2>1
  <2>3. UpTo(admitted[v], t) \in Nat
    BY <1>1, <2>1, WithinFinite DEF UpTo, Counted
  <2>4. UpTo(admitted[v], t) <= Hits(admitted[v], windowOf(t))
    BY <1>1, <2>1, <2>2, WithinMore DEF UpTo, Hits, Counted
  <2> QED
    BY <2>3, <2>4
<1> QED
  BY <1>1, <1>2, <1>3

\* The stretch that slides covers at most the window before and this one so far.
LEMMA Slides ==
  ASSUME RateTypeOK, Limited, Sliding, OneClock, NEW v \in Visitors, NEW t \in Int,
         Unswept(v, windowOf(t)), Unswept(v, windowOf(t) - 1)
  PROVE  WindowMs * Admitted(v, t - WindowMs + 1, t) <= Limit * (WindowMs + (t % WindowMs))
<1> USE RateAssumption
<1> DEFINE w == windowOf(t)
           P == Hits(admitted[v], w - 1)
           C == UpTo(admitted[v], t)
           A == Admitted(v, t - WindowMs + 1, t)
           r == t % WindowMs
<1>1. w \in Int /\ First(w) \in Int /\ r \in 0 .. WindowMs - 1 /\ t = First(w) + r
  BY WindowOf
<1>2. w - 1 \in Int /\ First(w - 1) \in Int /\ First(w) = First(w - 1) + WindowMs
  <2>1. w - 1 \in Int /\ (w - 1) + 1 = w
    BY <1>1
  <2>2. First(w - 1) \in Int /\ First((w - 1) + 1) = First(w - 1) + WindowMs
    BY <2>1, WindowOf
  <2> QED
    BY <2>1, <2>2
<1>3. admitted[v] \in Seq(Int) /\ P \in Nat /\ C \in Nat
  BY <1>2, HitsTyped
<1>4. A <= P + C /\ A \in Nat
  <2> DEFINE B == Admitted(v, t - WindowMs + 1, First(w) - 1)
  <2>1. A <= B + C
    BY <1>1, <1>3, WithinSplit DEF Admitted, UpTo, Counted
  <2>2. B <= P
    <3>1. t - WindowMs + 1 \in Int /\ First(w) - 1 \in Int /\ First(w - 1) + WindowMs - 1 \in Int
          /\ First(w - 1) <= t - WindowMs + 1 /\ First(w) - 1 <= First(w - 1) + WindowMs - 1
      BY <1>1, <1>2
    <3> QED
      BY <1>2, <1>3, <3>1, WithinMore DEF Admitted, Hits, Counted
  <2>3. A \in Nat /\ B \in Nat
    BY <1>1, <1>3, WithinFinite DEF Admitted
  <2> HIDE DEF A, B, C, P
  <2> QED
    BY <1>3, <2>1, <2>2, <2>3
<1>5. P <= Limit
  <2>1. P <= Limit * (1 + Drops(v, w - 1))
    BY <1>2, OneIsClose DEF Limited
  <2>2. Limit * (1 + Drops(v, w - 1)) = Limit + Limit * Drops(v, w - 1) /\ Limit * Drops(v, w - 1) = 0
    BY <1>2, DropsTyped
  <2> HIDE DEF P
  <2> QED
    BY <2>1, <2>2
<1>6. C = 0 \/ P * (WindowMs - r) + C * WindowMs <= Limit * WindowMs
  BY DEF Sliding, previousWeight
<1> HIDE DEF A, P, C, r, w
<1>7. WindowMs * A <= WindowMs * (P + C)
  BY <1>3, <1>4, NoLess
<1>8. P * r <= Limit * r /\ P * WindowMs <= Limit * WindowMs /\ Limit * r >= 0
  BY <1>1, <1>3, <1>5, NoLess
<1>9. CASE C = 0
  <2>1. WindowMs * (P + C) = P * WindowMs
    BY <1>3, <1>9
  <2>2. Limit * (WindowMs + r) = Limit * WindowMs + Limit * r
    BY <1>1
  <2>3. P * WindowMs \in Int /\ Limit * r \in Int /\ Limit * WindowMs \in Int /\ WindowMs * A \in Int
    BY <1>1, <1>3, <1>4
  <2>4. WindowMs * A <= Limit * (WindowMs + r)
    BY <1>7, <1>8, <2>1, <2>2, <2>3
  <2> QED
    BY <2>4 DEF A, r
<1>10. CASE P * (WindowMs - r) + C * WindowMs <= Limit * WindowMs
  <2>1. WindowMs * (P + C) = (P * (WindowMs - r) + C * WindowMs) + P * r
    BY <1>1, <1>3
  <2>2. Limit * (WindowMs + r) = Limit * WindowMs + Limit * r
    BY <1>1
  <2>3. P * r \in Int /\ Limit * r \in Int /\ Limit * WindowMs \in Int /\ P * (WindowMs - r) + C * WindowMs \in Int
        /\ WindowMs * (P + C) \in Int /\ WindowMs * A \in Int
    BY <1>1, <1>3, <1>4
  <2>4. WindowMs * A <= Limit * (WindowMs + r)
    BY <1>7, <1>8, <1>10, <2>1, <2>2, <2>3
  <2> QED
    BY <2>4 DEF A, r
<1> QED
  BY <1>6, <1>9, <1>10

LEMMA RateInvHolds ==
  ASSUME RateInv
  PROVE  LimitsHold
<1> USE RateAssumption
<1>1. WindowLimit
  <2> SUFFICES ASSUME ClocksClose, NEW v \in Visitors, NEW w \in Windows
               PROVE  Admitted(v, w * WindowMs, (w + 1) * WindowMs - 1) <= Limit * (1 + forgotten[v][w])
    BY DEF WindowLimit
  <2>1. w \in Int
    BY DEF Windows
  <2>2. (w + 1) * WindowMs - 1 = w * WindowMs + WindowMs - 1
    BY <2>1
  <2>3. Hits(admitted[v], w) <= Limit * (1 + forgotten[v][w])
    BY <2>1 DEF RateInv, Limited, Drops
  <2> QED
    BY <2>2, <2>3 DEF Hits, Counted, Admitted, First
<1>2. SlidingLimit
  BY Slides DEF RateInv, SlidingLimit, Readings
<1> QED
  BY <1>1, <1>2 DEF RateInv, Steady, LimitsHold

-----------------------------------------------------------------------------
\* One request let through.

\* Nothing was let through in a window that the one clock has not reached.
LEMMA Ahead ==
  ASSUME RateTypeOK, Logged, OneClock, NEW v \in Visitors, NEW a \in Int, NEW b \in Int, moment < a
  PROVE  Counted(admitted[v], a, b) = 0
<1>1. admitted[v] \in Seq(Int) /\ moment \in Int
  BY RateAssumption DEF RateTypeOK
<1>2. \A n \in DOMAIN admitted[v] : admitted[v][n] \in Int /\ admitted[v][n] <= moment
  BY <1>1 DEF Logged
<1>3. \A n \in DOMAIN admitted[v] : admitted[v][n] \notin a .. b
  BY <1>1, <1>2
<1> QED
  BY <1>1, <1>3, WithinNone DEF Counted

\* Nor before the first reading.
LEMMA Before ==
  ASSUME RateTypeOK, Logged, NEW v \in Visitors
  PROVE  Hits(admitted[v], -1) = 0
<1> USE RateAssumption
<1>1. admitted[v] \in Seq(Int) /\ First(-1) = -WindowMs
  BY DEF RateTypeOK, First
<1>2. \A n \in DOMAIN admitted[v] : admitted[v][n] \in Int /\ admitted[v][n] >= 0
  BY <1>1 DEF Logged
<1>3. \A n \in DOMAIN admitted[v] : admitted[v][n] \notin First(-1) .. (First(-1) + WindowMs - 1)
  BY <1>1, <1>2
<1>4. First(-1) \in Int /\ First(-1) + WindowMs - 1 \in Int
  BY <1>1
<1> QED
  BY <1>1, <1>3, <1>4, WithinNone DEF Counted, Hits

Admits(v, now) == admitted' = [admitted EXCEPT ![v] = Append(admitted[v], now)]

\* What one more at `now` adds.
LEMMA OneMore ==
  ASSUME RateTypeOK, NEW v \in Visitors, NEW now \in Int, Admits(v, now)
  PROVE  /\ admitted' \in [Visitors -> Seq(Int)]
         /\ \A u \in Visitors : u # v => admitted'[u] = admitted[u]
         /\ \A a, b \in Int : Counted(admitted'[v], a, b) = Counted(admitted[v], a, b) + (IF now \in a .. b THEN 1 ELSE 0)
         /\ \A w \in Int : Hits(admitted'[v], w) = Hits(admitted[v], w) + (IF w = windowOf(now) THEN 1 ELSE 0)
<1>1. admitted[v] \in Seq(Int) /\ admitted'[v] = Append(admitted[v], now)
  BY DEF RateTypeOK, Admits
<1>2. Append(admitted[v], now) \in Seq(Int)
  BY <1>1, WithinAppend
<1>3. admitted' \in [Visitors -> Seq(Int)]
  BY <1>2 DEF RateTypeOK, Admits
<1>4. \A u \in Visitors : u # v => admitted'[u] = admitted[u]
  BY DEF RateTypeOK, Admits
<1>5. ASSUME NEW a \in Int, NEW b \in Int
      PROVE  Counted(admitted'[v], a, b) = Counted(admitted[v], a, b) + (IF now \in a .. b THEN 1 ELSE 0)
  BY <1>1, WithinAppend DEF Counted
<1>6. ASSUME NEW w \in Int
      PROVE  Hits(admitted'[v], w) = Hits(admitted[v], w) + (IF w = windowOf(now) THEN 1 ELSE 0)
  <2>1. First(w) \in Int /\ First(w) + WindowMs - 1 \in Int
    BY RateAssumption DEF First
  <2>2. now \in First(w) .. (First(w) + WindowMs - 1) <=> w = windowOf(now)
    BY WindowOf
  <2>3. Hits(admitted'[v], w) = Hits(admitted[v], w) + (IF now \in First(w) .. (First(w) + WindowMs - 1) THEN 1 ELSE 0)
    BY <1>5, <2>1 DEF Hits
  <2> QED
    BY <2>2, <2>3
<1> QED
  BY <1>3, <1>4, <1>5, <1>6

\* A request that fits beside the estimate keeps the limits, if the counters were no
\* less than what was let through.
LEMMA StaysLimited ==
  ASSUME RateInv, NEW v \in Visitors, NEW now \in Nat, NEW current \in Nat, NEW previous \in Nat,
         allowed(current, previous, now),
         ClocksClose => Hits(admitted[v], windowOf(now)) <= current + Limit * Drops(v, windowOf(now)),
         OneClock => now = moment,
         OneClock /\ Unswept(v, windowOf(now)) /\ Unswept(v, windowOf(now) - 1)
           => Covers(Hits(admitted[v], windowOf(now)), Hits(admitted[v], windowOf(now) - 1), current, previous),
         Admits(v, now), UNCHANGED <<skew, moment, forgotten>>
  PROVE  Logged' /\ Limited' /\ Sliding'
<1> USE RateAssumption
<1> DEFINE w == windowOf(now)
           r == now % WindowMs
<1>1. RateTypeOK /\ moment \in Nat /\ OneClock' = OneClock /\ ClocksClose' = ClocksClose
  BY DEF RateInv, RateTypeOK, OneClock, ClocksClose
<1>2. /\ admitted' \in [Visitors -> Seq(Int)]
      /\ \A u \in Visitors : u # v => admitted'[u] = admitted[u]
      /\ \A a, b \in Int : Counted(admitted'[v], a, b) = Counted(admitted[v], a, b) + (IF now \in a .. b THEN 1 ELSE 0)
      /\ \A x \in Int : Hits(admitted'[v], x) = Hits(admitted[v], x) + (IF x = w THEN 1 ELSE 0)
  BY <1>1, OneMore
<1>3. /\ w \in Int /\ First(w) \in Int /\ r \in 0 .. WindowMs - 1 /\ now = First(w) + r
  BY WindowOf
<1>4. previous * (WindowMs - r) + current * WindowMs + WindowMs <= Limit * WindowMs
  BY DEF allowed, estimate, previousWeight
<1>5. Logged'
  <2> SUFFICES ASSUME NEW u \in Visitors, NEW n \in DOMAIN admitted'[u]
               PROVE  admitted'[u][n] >= 0 /\ (OneClock => admitted'[u][n] <= moment)
    BY <1>1 DEF Logged
  <2>1. CASE u # v
    BY <1>2, <2>1 DEF RateInv, Logged
  <2>2. CASE u = v
    <3>1. admitted[v] \in Seq(Int) /\ admitted'[v] = Append(admitted[v], now)
      BY <1>1 DEF RateTypeOK, Admits
    <3>2. (n \in DOMAIN admitted[v] /\ admitted'[v][n] = admitted[v][n]) \/ admitted'[v][n] = now
      BY <2>2, <3>1
    <3>3. OneClock => now <= moment
      BY <1>1
    <3> QED
      BY <1>1, <2>2, <3>2, <3>3 DEF RateInv, Logged
  <2> QED
    BY <2>1, <2>2
<1>6. Limited'
  <2> SUFFICES ASSUME ClocksClose, NEW u \in Visitors, NEW x \in Int
               PROVE  Hits(admitted'[u], x) <= Limit * (1 + Drops(u, x))
    BY <1>1 DEF Limited, Drops
  <2>1. Hits(admitted[u], x) <= Limit * (1 + Drops(u, x))
    BY DEF RateInv, Limited
  <2>2. CASE u # v
    BY <1>2, <2>1, <2>2 DEF Hits, Counted
  <2>3. CASE u = v /\ x # w
    <3>1. Hits(admitted[v], x) \in Nat
      BY <1>1, HitsTyped
    <3> QED
      BY <1>2, <2>1, <2>3, <3>1
  <2>4. CASE u = v /\ x = w
    <3>1. Hits(admitted'[v], x) = Hits(admitted[v], x) + 1 /\ Hits(admitted[v], x) \in Nat
          /\ Hits(admitted[v], x) <= current + Limit * Drops(v, x)
      BY <1>1, <1>2, <2>4, HitsTyped
    <3>2. previous * (WindowMs - r) >= 0 /\ previous * (WindowMs - r) \in Int
      BY <1>3
    <3>3. (current + 1) * WindowMs <= Limit * WindowMs
      BY <1>3, <1>4, <3>2
    <3>4. current + 1 <= Limit
      <4>1. CASE current + 1 > Limit
        <5>1. (Limit + 1) * WindowMs <= (current + 1) * WindowMs
          BY <4>1, NoLess
        <5> QED
          BY <3>3, <5>1
      <4> QED
        BY <4>1
    <3>5. Limit * Drops(v, x) \in Nat /\ Limit * (1 + Drops(v, x)) = Limit + Limit * Drops(v, x)
      BY <1>1, DropsTyped
    <3>. PICK d \in Nat : d = Limit * Drops(v, x)
      BY <3>5
    <3>6. Hits(admitted'[v], x) <= Limit + d
      BY <3>1, <3>4
    <3> QED
      BY <2>4, <3>5, <3>6
  <2> QED
    BY <2>2, <2>3, <2>4
<1>7. Sliding'
  <2> SUFFICES ASSUME OneClock, NEW u \in Visitors, NEW t \in Int,
                      Unswept(u, windowOf(t)), Unswept(u, windowOf(t) - 1)
               PROVE  \/ UpTo(admitted'[u], t) = 0
                      \/ Hits(admitted'[u], windowOf(t) - 1) * previousWeight(t) + UpTo(admitted'[u], t) * WindowMs <= Limit * WindowMs
    BY <1>1 DEF Sliding, Unswept
  <2> DEFINE wt == windowOf(t)
             rt == t % WindowMs
  <2>1. /\ wt \in Int /\ First(wt) \in Int /\ rt \in 0 .. WindowMs - 1 /\ t = First(wt) + rt
        /\ wt - 1 \in Int /\ First(wt) = First(wt - 1) + WindowMs
    <3>1. wt \in Int /\ First(wt) \in Int /\ rt \in 0 .. WindowMs - 1 /\ t = First(wt) + rt
      BY WindowOf
    <3> HIDE DEF wt
    <3>2. wt - 1 \in Int /\ (wt - 1) + 1 = wt
      BY <3>1
    <3>3. First((wt - 1) + 1) = First(wt - 1) + WindowMs
      BY <3>2, WindowOf
    <3> QED
      BY <3>1, <3>2, <3>3 DEF wt
  <2>2. \/ UpTo(admitted[u], t) = 0
        \/ Hits(admitted[u], wt - 1) * (WindowMs - rt) + UpTo(admitted[u], t) * WindowMs <= Limit * WindowMs
    BY DEF RateInv, Sliding, previousWeight
  <2>3. CASE u # v
    BY <1>2, <2>2, <2>3 DEF UpTo, Hits, Counted, previousWeight
  <2>4. CASE u = v /\ now \in First(wt) .. t
    <3>1. wt = w
      <4>1. now \in First(wt) .. (First(wt) + WindowMs - 1)
        BY <2>1, <2>4
      <4> QED
        BY <2>1, <4>1, WindowOf
    <3>2. Hits(admitted'[u], wt - 1) = Hits(admitted[v], wt - 1) /\ UpTo(admitted'[u], t) = UpTo(admitted[v], t) + 1
      <4>1. wt - 1 # w
        BY <2>1, <3>1
      <4>2. Hits(admitted[v], wt - 1) \in Nat
        BY <1>1, <2>1, HitsTyped
      <4>3. Hits(admitted'[v], wt - 1) = Hits(admitted[v], wt - 1)
        BY <1>2, <2>1, <4>1, <4>2
      <4>4. UpTo(admitted'[v], t) = UpTo(admitted[v], t) + 1
        BY <1>2, <2>1, <2>4 DEF UpTo
      <4> QED
        BY <2>4, <4>3, <4>4
    <3>. PICK P \in Nat, U \in Nat, H \in Nat :
           P = Hits(admitted[v], wt - 1) /\ U = UpTo(admitted[v], t) /\ H = Hits(admitted[v], wt)
      BY <1>1, <2>1, HitsTyped
    <3>3. (H <= current /\ P <= previous) \/ H + P <= current
      BY <2>4, <3>1 DEF Covers
    <3>4. U <= H
      BY <1>1, HitsTyped
    <3>5. r <= rt
      BY <1>3, <2>1, <2>4, <3>1
    <3>6. /\ previous * (WindowMs - r) \in Nat /\ current * WindowMs \in Nat /\ Limit * WindowMs \in Nat
          /\ P * (WindowMs - rt) \in Nat /\ (U + 1) * WindowMs \in Nat
      BY <1>3, <2>1
    <3>7. P * (WindowMs - rt) + (U + 1) * WindowMs <= Limit * WindowMs
      <4>1. CASE H <= current /\ P <= previous
        <5>1. P * (WindowMs - rt) <= P * (WindowMs - r) /\ P * (WindowMs - r) <= previous * (WindowMs - r)
              /\ P * (WindowMs - r) \in Nat
          BY <1>3, <2>1, <3>5, <4>1, NoLess
        <5>2. (U + 1) * WindowMs <= (current + 1) * WindowMs
          BY <3>4, <4>1, NoLess
        <5>3. (current + 1) * WindowMs = current * WindowMs + WindowMs
          OBVIOUS
        <5> QED
          BY <1>4, <3>6, <5>1, <5>2, <5>3
      <4>2. CASE H + P <= current
        <5>1. P * (WindowMs - rt) <= P * WindowMs /\ P * WindowMs \in Nat
          BY <2>1, NoLess
        <5>2. (U + P + 1) * WindowMs <= (current + 1) * WindowMs
          BY <3>4, <4>2, NoLess
        <5>3. /\ (current + 1) * WindowMs = current * WindowMs + WindowMs
              /\ (U + P + 1) * WindowMs = (U + 1) * WindowMs + P * WindowMs
          OBVIOUS
        <5> QED
          BY <1>4, <3>6, <5>1, <5>2, <5>3
      <4> QED
        BY <3>3, <4>1, <4>2
    <3> QED
      BY <2>4, <3>2, <3>7 DEF previousWeight
  <2>5. CASE u = v /\ now \notin First(wt) .. t
    <3>1. UpTo(admitted'[u], t) = UpTo(admitted[v], t)
      <4>1. UpTo(admitted[v], t) \in Nat
        BY <1>1, HitsTyped
      <4>2. UpTo(admitted'[v], t) = UpTo(admitted[v], t) + 0
        BY <1>2, <2>1, <2>5 DEF UpTo
      <4> QED
        BY <2>5, <4>1, <4>2
    <3>2. CASE w # wt - 1
      <4>1. Hits(admitted[v], wt - 1) \in Nat
        BY <1>1, <2>1, HitsTyped
      <4>2. Hits(admitted'[u], wt - 1) = Hits(admitted[v], wt - 1)
        BY <1>2, <2>1, <2>5, <3>2, <4>1
      <4> QED
        BY <2>2, <2>5, <3>1, <4>2 DEF previousWeight
    <3>3. CASE w = wt - 1
      <4>1. moment < First(wt)
        BY <1>1, <1>3, <2>1, <3>3
      <4>2. UpTo(admitted[v], t) = 0
        BY <1>1, <2>1, <4>1, Ahead DEF UpTo, RateInv
      <4> QED
        BY <3>1, <4>2
    <3> QED
      BY <3>2, <3>3
  <2> QED
    BY <2>3, <2>4, <2>5
<1> QED
  BY <1>5, <1>6, <1>7

-----------------------------------------------------------------------------
\* One lemma per step.

\* Both stores: a decision keeps the logs and the limits, if the counters it read were no
\* less than what was let through.
LEMMA Decided ==
  ASSUME RateInv, NEW v \in Visitors, NEW now \in Nat, NEW current \in Nat, NEW previous \in Nat,
         ClocksClose => Hits(admitted[v], windowOf(now)) <= current + Limit * Drops(v, windowOf(now)),
         OneClock => now = moment,
         OneClock /\ Unswept(v, windowOf(now)) /\ Unswept(v, windowOf(now) - 1)
           => Covers(Hits(admitted[v], windowOf(now)), Hits(admitted[v], windowOf(now) - 1), current, previous),
         IF allowed(current, previous, now) THEN Admits(v, now) ELSE admitted' = admitted,
         UNCHANGED <<skew, moment, forgotten>>
  PROVE  /\ Logged' /\ Limited' /\ Sliding'
         /\ admitted' \in [Visitors -> Seq(Int)]
         /\ \A u \in Visitors, w \in Int :
              Hits(admitted'[u], w) = Hits(admitted[u], w) + (IF allowed(current, previous, now) /\ u = v /\ w = windowOf(now) THEN 1 ELSE 0)
<1>0. RateTypeOK
  BY DEF RateInv
<1>1. CASE allowed(current, previous, now)
  <2>1. Admits(v, now)
    BY <1>1
  <2>2. Logged' /\ Limited' /\ Sliding'
    BY <1>1, <2>1, StaysLimited
  <2>3. /\ admitted' \in [Visitors -> Seq(Int)]
        /\ \A u \in Visitors : u # v => admitted'[u] = admitted[u]
        /\ \A w \in Int : Hits(admitted'[v], w) = Hits(admitted[v], w) + (IF w = windowOf(now) THEN 1 ELSE 0)
    BY <1>0, <2>1, OneMore
  <2>4. ASSUME NEW u \in Visitors, NEW w \in Int
        PROVE  Hits(admitted'[u], w) = Hits(admitted[u], w) + (IF allowed(current, previous, now) /\ u = v /\ w = windowOf(now) THEN 1 ELSE 0)
    <3>1. CASE u = v
      BY <1>1, <2>3, <3>1
    <3>2. CASE u # v
      <4>1. Hits(admitted'[u], w) = Hits(admitted[u], w)
        BY <2>3, <3>2 DEF Hits, Counted
      <4>2. Hits(admitted[u], w) \in Nat
        BY <1>0, HitsTyped
      <4> QED
        BY <3>2, <4>1, <4>2
    <3> QED
      BY <3>1, <3>2
  <2> QED
    BY <2>2, <2>3, <2>4
<1>2. CASE ~ allowed(current, previous, now)
  <2>1. admitted' = admitted
    BY <1>2
  <2>2. Logged' /\ Limited' /\ Sliding'
    BY <2>1 DEF RateInv, Logged, Limited, Sliding, OneClock, ClocksClose, Hits, UpTo, Counted, Drops, Unswept
  <2>3. ASSUME NEW u \in Visitors, NEW w \in Int
        PROVE  Hits(admitted'[u], w) = Hits(admitted[u], w) + (IF allowed(current, previous, now) /\ u = v /\ w = windowOf(now) THEN 1 ELSE 0)
    <3>1. Hits(admitted'[u], w) = Hits(admitted[u], w) /\ Hits(admitted[u], w) \in Nat
      BY <1>0, <2>1, HitsTyped DEF Hits, Counted
    <3> QED
      BY <1>2, <3>1
  <2> QED
    BY <1>0, <2>1, <2>2, <2>3 DEF RateTypeOK
<1> QED
  BY <1>1, <1>2

LEMMA ShiftTyped ==
  ASSUME NEW c \in Counter, NEW at \in Nat
  PROVE  /\ shift(c, at) \in Counter /\ shift(c, at).index \in Nat /\ shift(c, at).index >= at
         /\ c.index >= at => shift(c, at) = c
         /\ shift(c, at).current \in Nat /\ shift(c, at).previous \in Nat
         /\ c.current <= Limit => shift(c, at).current <= Limit
<1>1. c.index \in Nat \cup {Unset} /\ c.current \in Nat /\ c.previous \in Nat
  BY DEF Counter
<1>2. shift(c, at) \in Counter /\ shift(c, at).index \in Nat /\ shift(c, at).index >= at
  BY <1>1 DEF shift, Counter, Unset
<1>3. c.index >= at => shift(c, at) = c
  BY <1>1 DEF shift, Unset
<1>4. shift(c, at).current \in {0, c.current} /\ Limit >= 0
  BY RateAssumption DEF shift
<1> QED
  BY <1>1, <1>2, <1>3, <1>4 DEF Counter

\* What fits leaves the counter within the limit.
LEMMA AllowedFits ==
  ASSUME NEW current \in Nat, NEW previous \in Nat, NEW now \in Int, allowed(current, previous, now)
  PROVE  current + 1 <= Limit
<1> USE RateAssumption
<1>1. previous * previousWeight(now) \in Nat
  <2>1. now % WindowMs \in 0 .. WindowMs - 1
    BY WindowOf
  <2>2. previousWeight(now) \in Nat
    BY <2>1 DEF previousWeight
  <2> QED
    BY <2>2
<1>2. previous * previousWeight(now) + current * WindowMs + WindowMs <= Limit * WindowMs
  BY DEF allowed, estimate
<1>. PICK share \in Nat : share = previous * previousWeight(now)
  BY <1>1
<1>3. (current + 1) * WindowMs <= Limit * WindowMs
  BY <1>2
<1>4. ASSUME current + 1 > Limit PROVE FALSE
  <2>1. (Limit + 1) * WindowMs <= (current + 1) * WindowMs
    BY <1>4, NoLess
  <2> QED
    BY <1>3, <2>1
<1> QED
  BY <1>4

LEMMA MomentTyped ==
  ASSUME RateTypeOK
  PROVE  /\ moment \in Nat /\ windowOf(moment) \in Nat
         /\ \A i \in Instances : skew[i] \in Nat /\ moment + skew[i] \in Readings /\ moment + skew[i] \in Nat
<1> USE RateAssumption
<1>1. moment \in Nat
  BY DEF RateTypeOK
<1>2. ASSUME NEW i \in Instances
      PROVE  skew[i] \in Nat /\ moment + skew[i] \in Readings /\ moment + skew[i] \in Nat
  BY DEF RateTypeOK, Readings
<1>3. windowOf(moment) \in Nat
  BY <1>1 DEF windowOf
<1> QED
  BY <1>1, <1>2, <1>3

\* The readings of instances lie in the windows that are counted.
LEMMA ReadingsInWindows ==
  ASSUME NEW t \in Readings
  PROVE  windowOf(t) \in Windows /\ t \in Nat
<1> USE RateAssumption
<1>1. t \in Nat /\ RateEnd + MaxSkew \in Nat /\ t <= RateEnd + MaxSkew
  BY DEF Readings
<1>2. windowOf(t) \in Nat /\ windowOf(RateEnd + MaxSkew) \in Nat
  BY <1>1 DEF windowOf
<1>3. First(windowOf(t)) <= t /\ First(windowOf(t)) \in Int
  BY <1>1, <1>2, Spans
<1>4. RateEnd + MaxSkew < First(windowOf(RateEnd + MaxSkew)) + WindowMs /\ First(windowOf(RateEnd + MaxSkew)) \in Int
  BY <1>1, <1>2, Spans
<1>5. CASE windowOf(t) > windowOf(RateEnd + MaxSkew)
  <2> DEFINE a == windowOf(t)
             b == windowOf(RateEnd + MaxSkew)
  <2>1. a \in Nat /\ b \in Nat /\ b + 1 <= a
    BY <1>2, <1>5
  <2> HIDE DEF a, b
  <2>2. WindowMs * (b + 1) <= WindowMs * a
    BY <2>1, NoLess
  <2>3. First(b) + WindowMs <= First(a)
    BY <2>1, <2>2 DEF First
  <2> QED
    BY <1>1, <1>3, <1>4, <2>3 DEF a, b
<1>6. CASE windowOf(t) <= windowOf(RateEnd + MaxSkew)
  BY <1>1, <1>2, <1>6 DEF Windows, windowOf
<1> QED
  BY <1>1, <1>2, <1>5, <1>6

\* One more fits if and only if something is left.
LEMMA Remains ==
  ASSUME NEW current \in Nat, NEW previous \in Nat, NEW now \in Nat
  PROVE  /\ estimate(current, previous, now) \in Int
         /\ allowed(current, previous, now)
              <=> Max({0, (Limit * WindowMs - estimate(current, previous, now)) \div WindowMs}) >= 1
<1> USE RateAssumption
<1>1. estimate(current, previous, now) \in Int
  <2>1. now % WindowMs \in Int
    BY WindowOf
  <2> QED
    BY <2>1 DEF estimate, previousWeight
<1> DEFINE e == estimate(current, previous, now)
<1>2. Limit * WindowMs \in Int
  OBVIOUS
<1> HIDE DEF e
<1>3. e \in Int
  BY <1>1 DEF e
<1>4. Limit * WindowMs - e \in Int
  BY <1>2, <1>3
<1>5. Max({0, (Limit * WindowMs - e) \div WindowMs}) >= 1 <=> Limit * WindowMs - e >= WindowMs
  BY <1>4, AtLeastOne
<1>6. e + WindowMs <= Limit * WindowMs <=> Limit * WindowMs - e >= WindowMs
  BY <1>2, <1>3
<1> QED
  BY <1>1, <1>5, <1>6 DEF e, allowed

LEMMA MemoryVisits ==
  ASSUME RateInv, shop # "redis", NEW i \in Instances, NEW v \in Visitors,
         consumeMemory(v, moment + skew[i]), UNCHANGED <<shop, skew, moment, furthest, stepped, forgotten>>
  PROVE  RateInv'
<1> USE RateAssumption
<1>. PICK at \in Nat : at = windowOf(moment)
  BY MomentTyped DEF RateInv
<1> DEFINE c == shift(counters[v], at)
           fits == allowed(c.current, c.previous, moment)
           d == IF fits THEN [c EXCEPT !.current = @ + 1] ELSE c
<1>1. RateTypeOK /\ OneClock /\ ClocksClose /\ moment \in Nat /\ at \in Nat /\ moment \in Readings
  BY MomentTyped, OneIsClose DEF RateInv, MemoryCounts, Readings, RateTypeOK
<1>2. skew[i] = 0 /\ moment + skew[i] = moment
  BY <1>1 DEF OneClock
<1>3. /\ counters[v] \in Counter /\ counters[v].current <= Limit
      /\ Hits(admitted[v], at) <= c.current + Limit * Drops(v, at)
      /\ Unswept(v, at) /\ Unswept(v, at - 1)
         => Covers(Hits(admitted[v], at), Hits(admitted[v], at - 1), c.current, c.previous)
      /\ Unswept(v, at) /\ Unswept(v, at - 1) /\ c.index > at
         => Hits(admitted[v], at) + Hits(admitted[v], at - 1) <= c.current
  BY <1>1 DEF RateInv, MemoryCounts, RateTypeOK
<1>4. /\ c \in Counter /\ c.index \in Nat /\ c.index >= at /\ c.current \in Nat /\ c.previous \in Nat
      /\ d \in Counter /\ d.index = c.index /\ d.previous = c.previous
      /\ d.current = c.current + (IF fits THEN 1 ELSE 0) /\ d.current \in Nat
  <2>1. c \in Counter /\ c.index \in Nat /\ c.index >= at /\ c.current \in Nat /\ c.previous \in Nat
    BY <1>1, <1>3, ShiftTyped
  <2> HIDE DEF c, fits
  <2> QED
    BY <2>1 DEF Counter
<1>5. shift(d, at) = d
  <2> HIDE DEF d, c
  <2> QED
    BY <1>1, <1>4, ShiftTyped
<1>6. /\ counters' = [counters EXCEPT ![v] = d]
      /\ last' = [visitor |-> v, now |-> moment, remaining |-> remaining(c.current, c.previous, moment)]
      /\ admitted' = IF fits THEN [admitted EXCEPT ![v] = Append(@, moment)] ELSE admitted
      /\ UNCHANGED <<redisCount, redisUntil>>
  BY <1>2 DEF consumeMemory
<1>a. d.current <= Limit
  <2>1. c.current <= Limit
    BY <1>3, ShiftTyped
  <2> HIDE DEF c, d
  <2> QED
    BY <1>1, <1>4, <2>1, AllowedFits DEF fits
<1> HIDE DEF d, c, fits
<1>7. /\ Logged' /\ Limited' /\ Sliding' /\ admitted' \in [Visitors -> Seq(Int)]
      /\ \A u \in Visitors, w \in Int : Hits(admitted'[u], w) = Hits(admitted[u], w) + (IF fits /\ u = v /\ w = at THEN 1 ELSE 0)
  <2>1. fits = allowed(c.current, c.previous, moment)
    BY DEF fits
  <2>2. IF allowed(c.current, c.previous, moment) THEN Admits(v, moment) ELSE admitted' = admitted
    BY <1>6, <2>1 DEF Admits
  <2>3. /\ Logged' /\ Limited' /\ Sliding' /\ admitted' \in [Visitors -> Seq(Int)]
        /\ \A u \in Visitors, w \in Int :
             Hits(admitted'[u], w) = Hits(admitted[u], w) + (IF allowed(c.current, c.previous, moment) /\ u = v /\ w = windowOf(moment) THEN 1 ELSE 0)
    BY <1>1, <1>3, <1>4, <2>2, Decided
  <2> QED
    BY <2>1, <2>3
<1>8. counters' \in [Visitors -> Counter] /\ counters'[v] = d /\ \A u \in Visitors : u # v => counters'[u] = counters[u]
  BY <1>1, <1>4, <1>6 DEF RateTypeOK
<1>9. RateTypeOK'
  <2>1. last'.now = moment /\ last'.visitor = v
    BY <1>6
  <2> QED
    BY <1>1, <1>6, <1>7, <1>8, <2>1 DEF RateTypeOK
<1>10. MemoryCounts'
  <2>1. OneClock'
    BY <1>1 DEF OneClock
  <2>2. \A u \in Visitors, w \in Int : Drops(u, w)' = Drops(u, w) /\ Unswept(u, w)' = Unswept(u, w)
    BY DEF Drops, Unswept
  <2> SUFFICES ASSUME NEW u \in Visitors
               PROVE  LET e == shift(counters'[u], at)
                      IN  /\ counters'[u].current <= Limit
                          /\ Hits(admitted'[u], at) <= e.current + Limit * Drops(u, at)
                          /\ Unswept(u, at) /\ Unswept(u, at - 1)
                             => Covers(Hits(admitted'[u], at), Hits(admitted'[u], at - 1), e.current, e.previous)
                          /\ Unswept(u, at) /\ Unswept(u, at - 1) /\ e.index > at
                             => Hits(admitted'[u], at) + Hits(admitted'[u], at - 1) <= e.current
    BY <1>1, <2>1, <2>2 DEF MemoryCounts, Covers
  <2>3. at \in Int /\ at - 1 \in Int /\ at - 1 # at
    BY <1>1
  <2>. PICK H \in Nat, P \in Nat : H = Hits(admitted[u], at) /\ P = Hits(admitted[u], at - 1)
    BY <1>1, <2>3, HitsTyped
  <2>. PICK swept \in Nat : swept = Limit * Drops(u, at)
    BY <1>1, <2>3, DropsTyped
  <2>4. Hits(admitted'[u], at) = H + (IF fits /\ u = v THEN 1 ELSE 0) /\ Hits(admitted'[u], at - 1) = P
    BY <1>7, <2>3
  <2>5. CASE u = v
    <3>1. H <= c.current + swept
      BY <1>3, <2>5
    <3>2. Unswept(u, at) /\ Unswept(u, at - 1) => (H <= c.current /\ P <= c.previous) \/ H + P <= c.current
      BY <1>3, <2>5 DEF Covers
    <3>3. Unswept(u, at) /\ Unswept(u, at - 1) /\ d.index > at => H + P <= c.current
      BY <1>3, <1>4, <2>5
    <3>4. shift(counters'[u], at) = d /\ counters'[u] = d
      BY <1>5, <1>8, <2>5
    <3> HIDE <1>3
    <3> QED
      BY <1>a, <1>4, <2>4, <2>5, <3>1, <3>2, <3>3, <3>4 DEF Covers
  <2>6. CASE u # v
    <3>1. counters'[u] = counters[u] /\ Hits(admitted'[u], at) = H /\ Hits(admitted'[u], at - 1) = P
      BY <1>8, <2>4, <2>6
    <3> QED
      BY <1>1, <3>1 DEF RateInv, MemoryCounts, Covers
  <2> QED
    BY <2>5, <2>6
<1>11. RedisExact'
  BY DEF RedisExact
<1>12. RemainingIsTrue'
  <2>1. last'.now = moment /\ last'.visitor = v
    BY <1>6
  <2>2. last'.remaining >= 1 <=> allowed(d.current, d.previous, moment)
    <3>1. (IF fits THEN c.current + 1 ELSE c.current) = d.current
      BY <1>4
    <3>2. last'.remaining = Max({0, (Limit * WindowMs - estimate(d.current, d.previous, moment)) \div WindowMs})
      BY <1>4, <1>6, <3>1 DEF remaining, fits
    <3>3. allowed(d.current, d.previous, moment)
            <=> Max({0, (Limit * WindowMs - estimate(d.current, d.previous, moment)) \div WindowMs}) >= 1
      BY <1>1, <1>4, Remains
    <3> QED
      BY <3>2, <3>3
  <2> QED
    BY <1>5, <1>8, <2>1, <2>2 DEF RemainingIsTrue
<1>13. Steady'
  BY DEF RateInv, Steady, SweepsSpare
<1> QED
  BY <1>7, <1>9, <1>10, <1>11, <1>12, <1>13 DEF RateInv

\* While clocks are close, a script finds the counter of its window; with one clock,
\* that of the window before as well.
LEMMA RedisReads ==
  ASSUME RateInv, shop = "redis", NEW i \in Instances, NEW v \in Visitors, NEW now, now = moment + skew[i]
  PROVE  /\ read(v, windowOf(now)) \in Nat /\ read(v, windowOf(now) - 1) \in Nat
         /\ ClocksClose => read(v, windowOf(now)) = Hits(admitted[v], windowOf(now))
         /\ OneClock => read(v, windowOf(now) - 1) = Hits(admitted[v], windowOf(now) - 1)
<1> USE RateAssumption
<1>1. RateTypeOK /\ moment \in Nat /\ now \in Readings /\ now \in Nat /\ skew[i] \in Nat
  BY MomentTyped DEF RateInv
<1>. PICK at \in Nat : at = windowOf(now)
  BY <1>1, ReadingsInWindows DEF Windows
<1>2. at \in Windows /\ First(at) \in Int /\ now < First(at) + WindowMs /\ First(at) = First(at - 1) + WindowMs
      /\ First(at - 1) \in Int
  BY <1>1, ReadingsInWindows, Spans
<1>3. ASSUME NEW w \in Int PROVE read(v, w) \in Nat
  BY <1>1 DEF read, RateTypeOK
<1>4. ASSUME ClocksClose PROVE read(v, at) = Hits(admitted[v], at)
  <2>1. /\ redisCount[v][at] = Hits(admitted[v], at) /\ redisCount[v][at] \in Nat /\ redisUntil[v][at] \in Nat
        /\ redisCount[v][at] > 0 => \E j \in Instances : redisUntil[v][at] >= First(at) + 2 * WindowMs - skew[j]
    BY <1>1, <1>2, <1>4 DEF RateInv, RateTypeOK, RedisExact
  <2>2. CASE redisCount[v][at] = 0
    BY <2>1, <2>2 DEF read
  <2>3. CASE redisCount[v][at] > 0
    <3>1. PICK j \in Instances : redisUntil[v][at] >= First(at) + 2 * WindowMs - skew[j]
      BY <2>1, <2>3
    <3>2. skew[j] \in Nat /\ skew[j] <= skew[i] + WindowMs
      BY <1>1, <1>4, MomentTyped DEF ClocksClose
    <3>3. moment < redisUntil[v][at]
      BY <1>1, <1>2, <2>1, <3>1, <3>2
    <3> QED
      BY <1>2, <2>1, <3>3 DEF read
  <2> QED
    BY <2>1, <2>2, <2>3
<1>5. ASSUME OneClock PROVE read(v, at - 1) = Hits(admitted[v], at - 1)
  <2>1. CASE at = 0
    <3>1. at - 1 = -1 /\ at - 1 \notin Windows
      BY <2>1 DEF Windows
    <3> QED
      BY <1>1, <3>1, Before DEF read, RateInv
  <2>2. CASE at > 0
    <3>1. at - 1 \in Windows
      BY <1>2, <2>2 DEF Windows
    <3>2. /\ redisCount[v][at - 1] = Hits(admitted[v], at - 1) /\ redisCount[v][at - 1] \in Nat /\ redisUntil[v][at - 1] \in Nat
          /\ redisCount[v][at - 1] > 0 => \E j \in Instances : redisUntil[v][at - 1] >= First(at - 1) + 2 * WindowMs - skew[j]
      BY <1>1, <1>5, <3>1, OneIsClose DEF RateInv, RateTypeOK, RedisExact
    <3>3. CASE redisCount[v][at - 1] = 0
      BY <3>2, <3>3 DEF read
    <3>4. CASE redisCount[v][at - 1] > 0
      <4>1. PICK j \in Instances : redisUntil[v][at - 1] >= First(at - 1) + 2 * WindowMs - skew[j]
        BY <3>2, <3>4
      <4>2. skew[j] = 0 /\ skew[i] = 0
        BY <1>5 DEF OneClock
      <4>3. moment < redisUntil[v][at - 1]
        BY <1>1, <1>2, <3>2, <4>1, <4>2
      <4> QED
        BY <3>1, <3>2, <4>3 DEF read
    <3> QED
      BY <3>2, <3>3, <3>4
  <2> QED
    BY <2>1, <2>2
<1> QED
  BY <1>3, <1>4, <1>5

LEMMA RedisVisits ==
  ASSUME RateInv, shop = "redis", NEW i \in Instances, NEW v \in Visitors,
         consumeRedis(v, moment + skew[i]), UNCHANGED <<shop, skew, moment, furthest, stepped, forgotten>>
  PROVE  RateInv'
<1> USE RateAssumption
<1>. PICK now \in Nat : now = moment + skew[i] /\ now \in Readings
  BY MomentTyped DEF RateInv
<1>. PICK at \in Windows : at = windowOf(now)
  BY ReadingsInWindows
<1>. PICK current \in Nat, previous \in Nat : current = read(v, at) /\ previous = read(v, at - 1)
  BY RedisReads
<1> DEFINE fits == allowed(current, previous, now)
           counted == IF fits THEN current + 1 ELSE current
<1>1. RateTypeOK /\ moment \in Nat /\ at \in Nat /\ skew[i] \in Nat
  BY MomentTyped DEF RateInv, Windows
<1>2. /\ ClocksClose => current = Hits(admitted[v], windowOf(now))
      /\ OneClock => now = moment /\ previous = Hits(admitted[v], windowOf(now) - 1)
  BY <1>1, RedisReads DEF OneClock
<1>a. /\ ClocksClose => Hits(admitted[v], windowOf(now)) <= current + Limit * Drops(v, windowOf(now))
      /\ OneClock => Covers(Hits(admitted[v], windowOf(now)), Hits(admitted[v], windowOf(now) - 1), current, previous)
  <2>1. Limit * Drops(v, at) \in Nat
    BY <1>1, DropsTyped
  <2>2. OneClock => ClocksClose
    BY <1>1, OneIsClose
  <2> QED
    BY <1>2, <2>1, <2>2 DEF Covers
<1>3. /\ redisCount' = IF fits THEN [redisCount EXCEPT ![v] = [@ EXCEPT ![at] = counted]] ELSE redisCount
      /\ redisUntil' = IF fits THEN [redisUntil EXCEPT ![v] = [@ EXCEPT ![at] = moment + 2 * WindowMs]] ELSE redisUntil
      /\ last' = [visitor |-> v, now |-> now,
                  remaining |-> Max({0, (Limit * WindowMs - estimate(counted, previous, now)) \div WindowMs})]
      /\ admitted' = IF fits THEN [admitted EXCEPT ![v] = Append(@, now)] ELSE admitted
      /\ UNCHANGED counters
  BY DEF consumeRedis
<1>4. counted \in Nat
  OBVIOUS
<1>5. /\ Logged' /\ Limited' /\ Sliding' /\ admitted' \in [Visitors -> Seq(Int)]
      /\ \A u \in Visitors, w \in Int : Hits(admitted'[u], w) = Hits(admitted[u], w) + (IF fits /\ u = v /\ w = at THEN 1 ELSE 0)
  <2>1. IF allowed(current, previous, now) THEN Admits(v, now) ELSE admitted' = admitted
    BY <1>3 DEF Admits
  <2> QED
    BY <1>2, <1>a, <2>1, Decided
<1>6. /\ redisCount' \in [Visitors -> [Windows -> Nat]] /\ redisUntil' \in [Visitors -> [Windows -> Nat]]
      /\ \A u \in Visitors, w \in Windows : ~ (fits /\ u = v /\ w = at) =>
           redisCount'[u][w] = redisCount[u][w] /\ redisUntil'[u][w] = redisUntil[u][w]
      /\ fits => redisCount'[v][at] = counted /\ redisUntil'[v][at] = moment + 2 * WindowMs
  <2>1. moment + 2 * WindowMs \in Nat
    BY <1>1
  <2>2. redisCount \in [Visitors -> [Windows -> Nat]] /\ redisUntil \in [Visitors -> [Windows -> Nat]]
    BY <1>1 DEF RateTypeOK
  <2> HIDE DEF counted
  <2>3. CASE fits
    <3>1. /\ redisCount' = [redisCount EXCEPT ![v] = [redisCount[v] EXCEPT ![at] = counted]]
          /\ redisUntil' = [redisUntil EXCEPT ![v] = [redisUntil[v] EXCEPT ![at] = moment + 2 * WindowMs]]
      BY <1>3, <2>3
    <3> HIDE DEF fits
    <3> QED
      BY <1>4, <2>1, <2>2, <2>3, <3>1
  <2>4. CASE ~ fits
    BY <1>3, <2>2, <2>4
  <2> QED
    BY <2>3, <2>4
<1>7. RateTypeOK'
  <2>1. last'.now = now /\ last'.visitor = v
    BY <1>3
  <2> QED
    BY <1>1, <1>3, <1>5, <1>6, <2>1 DEF RateTypeOK
<1>8. RedisExact'
  <2> SUFFICES ASSUME ClocksClose', NEW u \in Visitors, NEW w \in Windows
               PROVE  /\ redisCount'[u][w] = Hits(admitted'[u], w)
                      /\ redisCount'[u][w] > 0 =>
                           \E j \in Instances : redisUntil'[u][w] >= First(w) + 2 * WindowMs - skew[j]
    BY DEF RedisExact
  <2>1. ClocksClose
    BY DEF ClocksClose
  <2>2. w \in Int
    BY DEF Windows
  <2>3. /\ redisCount[u][w] = Hits(admitted[u], w)
        /\ redisCount[u][w] > 0 =>
             \E j \in Instances : redisUntil[u][w] >= First(w) + 2 * WindowMs - skew[j]
    BY <2>1 DEF RateInv, RedisExact
  <2>4. Hits(admitted'[u], w) = Hits(admitted[u], w) + (IF fits /\ u = v /\ w = at THEN 1 ELSE 0) /\ Hits(admitted[u], w) \in Nat
    BY <1>1, <1>5, <2>2, HitsTyped
  <2>5. CASE fits /\ u = v /\ w = at
    <3>1. redisCount'[u][w] = current + 1 /\ Hits(admitted'[u], w) = current + 1 /\ redisUntil'[u][w] = moment + 2 * WindowMs
      BY <1>2, <1>6, <2>1, <2>4, <2>5
    <3>2. First(at) <= now /\ First(at) \in Int
      BY <1>1, Spans
    <3>3. redisUntil'[u][w] >= First(w) + 2 * WindowMs - skew[i]
      BY <1>1, <2>5, <3>1, <3>2
    <3> QED
      BY <3>1, <3>3
  <2>6. CASE ~ (fits /\ u = v /\ w = at)
    BY <1>6, <2>3, <2>4, <2>6
  <2> QED
    BY <2>5, <2>6
<1>9. MemoryCounts' /\ Steady'
  BY DEF RateInv, MemoryCounts, Steady, SweepsSpare
<1>10. RemainingIsTrue'
  <2>1. last'.now = now /\ last'.visitor = v
    BY <1>3
  <2>2. last'.remaining >= 1 <=> allowed(counted, previous, now)
    <3>1. last'.remaining = Max({0, (Limit * WindowMs - estimate(counted, previous, now)) \div WindowMs})
      BY <1>3
    <3> HIDE DEF counted
    <3>2. /\ estimate(counted, previous, now) \in Int
          /\ allowed(counted, previous, now)
               <=> Max({0, (Limit * WindowMs - estimate(counted, previous, now)) \div WindowMs}) >= 1
      BY <1>4, Remains
    <3> QED
      BY <3>1, <3>2
  <2>3. read(v, at)' = counted
    <3>1. CASE fits
      <4>1. redisCount'[v][at] = counted /\ redisUntil'[v][at] = moment + 2 * WindowMs /\ moment' < moment + 2 * WindowMs
        BY <1>1, <1>6, <3>1
      <4> QED
        BY <4>1 DEF read
    <3>2. CASE ~ fits
      BY <1>3, <3>2 DEF read
    <3> QED
      BY <3>1, <3>2
  <2>4. read(v, at - 1)' = previous
    <3>1. at - 1 # at
      BY <1>1
    <3>2. at - 1 \in Windows => redisCount'[v][at - 1] = redisCount[v][at - 1] /\ redisUntil'[v][at - 1] = redisUntil[v][at - 1]
      BY <1>6, <3>1
    <3> QED
      BY <3>2 DEF read
  <2> HIDE DEF counted
  <2> QED
    BY <2>1, <2>2, <2>3, <2>4 DEF RemainingIsTrue
<1> QED
  BY <1>5, <1>7, <1>8, <1>9, <1>10 DEF RateInv

\* A sweep takes what a visit would have dropped, or the live counter that it counts.
LEMMA Sweeps ==
  ASSUME RateInv, RateSweep
  PROVE  RateInv'
<1> USE RateAssumption
<1>1. RateTypeOK /\ moment \in Nat /\ windowOf(moment) \in Windows /\ windowOf(moment) \in Nat
  BY MomentTyped, ReadingsInWindows DEF RateInv, RateTypeOK, Readings
<1>. PICK at \in Nat : at = windowOf(moment)
  BY <1>1
<1>. PICK newest \in Newest :
        /\ counters' = [v \in Visitors |-> IF outdated(counters[v], newest) THEN Fresh ELSE counters[v]]
        /\ forgotten' = [v \in Visitors |->
             IF outdated(counters[v], newest) /\ live(v) THEN [forgotten[v] EXCEPT ![at] = @ + 1] ELSE forgotten[v]]
  BY DEF RateSweep
<1>2. /\ shop # "redis" /\ last'.now = Unset
      /\ UNCHANGED <<shop, redisCount, redisUntil, skew, moment, furthest, stepped, admitted>>
  BY DEF RateSweep, Untold
<1>3. counters' \in [Visitors -> Counter] /\ forgotten' \in [Visitors -> [Windows -> Nat]]
  <2>1. Fresh \in Counter
    BY DEF Counter, Fresh
  <2>2. counters \in [Visitors -> Counter] /\ forgotten \in [Visitors -> [Windows -> Nat]]
    BY <1>1 DEF RateTypeOK
  <2>3. \A v \in Visitors : [forgotten[v] EXCEPT ![at] = @ + 1] \in [Windows -> Nat]
    BY <1>1, <2>2
  <2> QED
    BY <2>1, <2>2, <2>3
<1>4. RateTypeOK'
  BY <1>1, <1>2, <1>3 DEF RateTypeOK
\* No count of sweeps falls.
<1>5. ASSUME NEW v \in Visitors, NEW w \in Int
      PROVE  /\ Drops(v, w)' \in Nat /\ Drops(v, w) <= Drops(v, w)' /\ (Unswept(v, w)' => Unswept(v, w))
             /\ Limit * (1 + Drops(v, w)) <= Limit * (1 + Drops(v, w)')
  <2>1. \A x \in Windows : forgotten[v][x] \in Nat /\ forgotten'[v][x] \in Nat /\ forgotten[v][x] <= forgotten'[v][x]
    BY <1>1, <1>3 DEF RateTypeOK
  <2>2. /\ Drops(v, w) \in Nat /\ Drops(v, w)' \in Nat /\ Drops(v, w) <= Drops(v, w)'
        /\ (Unswept(v, w)' => Unswept(v, w))
    BY <2>1 DEF Drops, Unswept
  <2>. PICK a \in Nat, b \in Nat : a = Drops(v, w) /\ b = Drops(v, w)' /\ a <= b
    BY <2>2
  <2>3. Limit * (1 + a) <= Limit * (1 + b)
    BY RateAssumption, NoLess
  <2> QED
    BY <2>2, <2>3
<1>6. Logged' /\ Sliding'
  <2>1. Logged'
    BY <1>2 DEF RateInv, Logged, OneClock
  <2>2. Sliding'
    <3> SUFFICES ASSUME OneClock, NEW v \in Visitors, NEW t \in Int,
                        Unswept(v, windowOf(t))', Unswept(v, windowOf(t) - 1)'
                 PROVE  \/ UpTo(admitted[v], t) = 0
                        \/ Hits(admitted[v], windowOf(t) - 1) * previousWeight(t) + UpTo(admitted[v], t) * WindowMs <= Limit * WindowMs
      BY <1>2 DEF Sliding, OneClock, Unswept
    <3>1. windowOf(t) \in Int /\ windowOf(t) - 1 \in Int
      BY WindowOf
    <3>2. Unswept(v, windowOf(t)) /\ Unswept(v, windowOf(t) - 1)
      BY <1>5, <3>1
    <3> QED
      BY <3>2 DEF RateInv, Sliding
  <2> QED
    BY <2>1, <2>2
<1>7. Limited'
  <2> SUFFICES ASSUME ClocksClose, NEW v \in Visitors, NEW w \in Int
               PROVE  Hits(admitted[v], w) <= Limit * (1 + Drops(v, w)')
    BY <1>2 DEF Limited, ClocksClose, Hits, Counted
  <2>1. Hits(admitted[v], w) <= Limit * (1 + Drops(v, w)) /\ Hits(admitted[v], w) \in Nat
    BY <1>1, HitsTyped DEF RateInv, Limited
  <2>2. Limit * (1 + Drops(v, w)) \in Int
    BY <1>1, DropsTyped
  <2>3. Limit * (1 + Drops(v, w)) <= Limit * (1 + Drops(v, w)') /\ Drops(v, w)' \in Nat
    BY <1>5
  <2>4. Limit * (1 + Drops(v, w)') \in Int
    BY <2>3
  <2> QED
    BY <2>1, <2>2, <2>3, <2>4
<1>8. MemoryCounts'
  <2> DEFINE Fine(v, c, drops, clean) ==
        /\ Hits(admitted[v], at) <= c.current + Limit * drops
        /\ clean => Covers(Hits(admitted[v], at), Hits(admitted[v], at - 1), c.current, c.previous)
        /\ clean /\ c.index > at => Hits(admitted[v], at) + Hits(admitted[v], at - 1) <= c.current
  <2> SUFFICES ASSUME NEW v \in Visitors
               PROVE  /\ counters'[v].current <= Limit
                      /\ Fine(v, shift(counters'[v], at), Drops(v, at)', Unswept(v, at)' /\ Unswept(v, at - 1)')
    BY <1>2 DEF RateInv, MemoryCounts, OneClock, Hits, Counted
  <2>1. /\ counters[v].current <= Limit
        /\ Fine(v, shift(counters[v], at), Drops(v, at), Unswept(v, at) /\ Unswept(v, at - 1))
    BY <1>2 DEF RateInv, MemoryCounts
  <2>2. /\ counters[v] \in Counter
        /\ shift(counters[v], at).current \in Nat /\ shift(counters[v], at).current <= Limit
        /\ Fresh.current <= Limit
    <3>1. counters[v] \in Counter
      BY <1>1 DEF RateTypeOK
    <3>2. shift(counters[v], at).current \in Nat /\ shift(counters[v], at).current <= Limit
      BY <2>1, <3>1, ShiftTyped
    <3>3. Fresh.current <= Limit
      BY DEF Fresh
    <3> QED
      BY <3>1, <3>2, <3>3
  <2>. PICK H \in Nat : H = Hits(admitted[v], at)
    BY <1>1, HitsTyped
  <2>3. CASE outdated(counters[v], newest) /\ live(v)
    <3>1. counters'[v] = Fresh /\ forgotten'[v] = [forgotten[v] EXCEPT ![at] = @ + 1]
      BY <2>3
    <3>2. shift(counters'[v], at) = [index |-> at, current |-> 0, previous |-> 0]
      BY <3>1 DEF shift, Fresh
    <3>3. Drops(v, at) \in Nat /\ Drops(v, at)' = Drops(v, at) + 1 /\ ~ Unswept(v, at)'
      BY <1>1, <1>3, <3>1 DEF Drops, Unswept, RateTypeOK
    <3>. PICK n \in Nat : n = Drops(v, at)
      BY <3>3
    <3>. PICK swept \in Nat : swept = Limit * n
      OBVIOUS
    <3>4. Limit * Drops(v, at)' = Limit + swept
      BY <3>3
    <3>5. H <= shift(counters[v], at).current + swept
      BY <2>1
    <3> QED
      BY <2>2, <3>1, <3>2, <3>3, <3>4, <3>5
  <2>4. CASE outdated(counters[v], newest) /\ ~ live(v)
    <3>1. counters'[v] = Fresh /\ forgotten'[v] = forgotten[v]
      BY <2>4
    <3>2. counters[v].index = Unset \/ counters[v].index < at - 1
      BY <2>2, <2>4 DEF live, Counter, Unset
    <3>3. shift(counters'[v], at) = shift(counters[v], at)
      BY <3>1, <3>2 DEF shift, Fresh
    <3>4. Drops(v, at)' = Drops(v, at) /\ Unswept(v, at)' = Unswept(v, at) /\ Unswept(v, at - 1)' = Unswept(v, at - 1)
      BY <3>1 DEF Drops, Unswept
    <3> QED
      BY <2>1, <2>2, <3>1, <3>3, <3>4
  <2>5. CASE ~ outdated(counters[v], newest)
    <3>1. counters'[v] = counters[v] /\ forgotten'[v] = forgotten[v]
      BY <2>5
    <3>2. Drops(v, at)' = Drops(v, at) /\ Unswept(v, at)' = Unswept(v, at) /\ Unswept(v, at - 1)' = Unswept(v, at - 1)
      BY <3>1 DEF Drops, Unswept
    <3> QED
      BY <2>1, <3>1, <3>2
  <2> QED
    BY <2>3, <2>4, <2>5
<1>9. RedisExact'
  BY <1>2 DEF RedisExact
<1>10. Steady'
  <2>1. SweepsSpare'
    <3> SUFFICES ASSUME shop # "shared", ~stepped, NEW v \in Visitors
                 PROVE  forgotten'[v] = forgotten[v]
      BY <1>2 DEF RateInv, Steady, SweepsSpare
    <3>1. newest <= at /\ newest \in Nat
      BY <1>2 DEF RateInv, Steady, Newest
    <3>2. counters[v].index \in Nat \cup {Unset}
      BY <1>1 DEF RateTypeOK, Counter
    <3>3. ~ (outdated(counters[v], newest) /\ live(v))
      BY <3>1, <3>2 DEF outdated, live, Unset
    <3> QED
      BY <3>3
  <2> QED
    BY <1>2, <2>1 DEF RateInv, Steady
<1>11. RemainingIsTrue'
  BY <1>2 DEF RemainingIsTrue
<1> QED
  BY <1>4, <1>6, <1>7, <1>8, <1>9, <1>10, <1>11 DEF RateInv

\* A window begins with nothing counted, and the one before becomes the previous.
LEMMA Ticks ==
  ASSUME RateInv, RateTick
  PROVE  RateInv'
<1> USE RateAssumption
<1>. PICK at \in Nat : at = windowOf(moment)
  BY MomentTyped DEF RateInv
<1>1. RateTypeOK /\ moment \in Nat /\ moment < RateEnd /\ moment' = moment + 1 /\ last' = Untold
      /\ furthest' = Max({furthest, moment'})
      /\ UNCHANGED <<shop, counters, redisCount, redisUntil, skew, stepped, admitted, forgotten>>
  BY MomentTyped DEF RateInv, RateTick
<1>a. furthest' \in Nat /\ (furthest = moment => furthest' = moment')
  <2>1. furthest \in Nat
    BY <1>1 DEF RateTypeOK
  <2>2. \E m \in {furthest, moment'} : \A y \in {furthest, moment'} : m >= y
    BY <1>1, <2>1
  <2>3. furthest' \in {furthest, moment'} /\ \A y \in {furthest, moment'} : furthest' >= y
    BY <1>1, <2>2 DEF Max
  <2> QED
    BY <1>1, <2>1, <2>3
<1>. PICK next \in Nat : next = windowOf(moment')
  BY <1>1 DEF windowOf
<1>2. next = at \/ next = at + 1
  <2>1. /\ First(at) \in Int /\ moment < First(at) + WindowMs /\ First(at) <= moment
        /\ First(at + 1) = First(at) + WindowMs /\ First(at + 1) \in Int
        /\ First(at) <= moment + 1
    <3>1. /\ First(at) \in Int /\ moment < First(at) + WindowMs /\ First(at) <= moment
          /\ First(at + 1) = First(at) + WindowMs
      BY <1>1, Spans
    <3> QED
      BY <1>1, <3>1
  <2>2. CASE moment + 1 < First(at) + WindowMs
    <3>1. moment' \in First(at) .. (First(at) + WindowMs - 1)
      BY <1>1, <2>1, <2>2
    <3> QED
      BY <1>1, <3>1, WindowOf
  <2>3. CASE moment + 1 = First(at) + WindowMs
    <3>1. moment' \in First(at + 1) .. (First(at + 1) + WindowMs - 1)
      BY <1>1, <2>1, <2>3
    <3> QED
      BY <1>1, <3>1, WindowOf
  <2> QED
    BY <1>1, <2>1, <2>2, <2>3
<1>3. last'.now = Unset
  BY <1>1 DEF Untold
<1>4. RateTypeOK'
  BY <1>1, <1>a, <1>3 DEF RateTypeOK
<1>5. Logged'
  <2>1. \A v \in Visitors : \A n \in DOMAIN admitted[v] : admitted[v][n] \in Int
    BY <1>1 DEF RateTypeOK
  <2> QED
    BY <1>1, <2>1 DEF RateInv, Logged, OneClock
<1>6. Limited' /\ Sliding' /\ RedisExact'
  BY <1>1 DEF RateInv, Limited, Sliding, RedisExact, OneClock, ClocksClose, Hits, UpTo, Counted, Drops, Unswept
<1>7. MemoryCounts'
  <2> DEFINE Fine(v, w, c) ==
        /\ counters[v].current <= Limit
        /\ Hits(admitted[v], w) <= c.current + Limit * Drops(v, w)
        /\ Unswept(v, w) /\ Unswept(v, w - 1) => Covers(Hits(admitted[v], w), Hits(admitted[v], w - 1), c.current, c.previous)
        /\ Unswept(v, w) /\ Unswept(v, w - 1) /\ c.index > w
           => Hits(admitted[v], w) + Hits(admitted[v], w - 1) <= c.current
  <2>0. shop # "redis" => OneClock
    BY DEF RateInv, MemoryCounts
  <2> SUFFICES ASSUME shop # "redis", NEW v \in Visitors
               PROVE  OneClock /\ Fine(v, next, shift(counters[v], next))
    <3>1. \A v \in Visitors, w \in Int : Drops(v, w)' = Drops(v, w) /\ Unswept(v, w)' = Unswept(v, w)
      BY <1>1 DEF Drops, Unswept
    <3>2. OneClock' = OneClock /\ shop' = shop /\ counters' = counters /\ admitted' = admitted
      BY <1>1 DEF OneClock
    <3>3. next \in Int /\ next - 1 \in Int /\ windowOf(moment') = next
      OBVIOUS
    <3>4. MemoryCounts' <=>
            (shop # "redis" =>
               /\ OneClock
               /\ \A u \in Visitors : Fine(u, next, shift(counters[u], next)))
      <4> HIDE <1>1
      <4> QED
        BY <3>1, <3>2, <3>3 DEF MemoryCounts
    <3> HIDE DEF Fine
    <3> QED
      BY <2>0, <3>4
  <2>1. OneClock /\ counters[v] \in Counter /\ Fine(v, at, shift(counters[v], at))
    BY <1>1 DEF RateInv, MemoryCounts, RateTypeOK
  <2>2. CASE next = at
    BY <2>1, <2>2
  <2>3. CASE next = at + 1
    <3>1. Hits(admitted[v], next) = 0
      <4>1. moment < First(next) /\ First(next) \in Int
        <5>1. moment < First(at) + WindowMs /\ First(at + 1) = First(at) + WindowMs /\ First(at) \in Int
          BY <1>1, Spans
        <5> QED
          BY <2>3, <5>1
      <4> QED
        BY <1>1, <2>1, <4>1, Ahead DEF Hits, RateInv
    <3>2. next - 1 = at
      BY <2>3
    <3>. PICK H \in Nat : H = Hits(admitted[v], at)
      BY <1>1, HitsTyped
    <3>. PICK swept \in Nat : swept = Limit * Drops(v, next)
      BY <1>1, DropsTyped
    <3>3. Unswept(v, at) => H <= shift(counters[v], at).current
      <4>1. Unswept(v, at) => Limit * Drops(v, at) = 0
        BY <1>1, DropsTyped
      <4>2. shift(counters[v], at).current \in Nat
        BY <2>1, ShiftTyped
      <4>. PICK x \in Nat : x = shift(counters[v], at).current
        BY <4>2
      <4>3. H <= x + Limit * Drops(v, at)
        BY <2>1
      <4> QED
        BY <4>1, <4>3
    <3>4. counters[v].index \in Nat \cup {Unset} /\ counters[v].current \in Nat /\ counters[v].previous \in Nat
      BY <2>1 DEF Counter
    <3>5. CASE counters[v].index = at
      <4>1. shift(counters[v], at) = counters[v]
        BY <3>5 DEF shift, Unset
      <4>2. shift(counters[v], next) = [index |-> next, current |-> 0, previous |-> counters[v].current]
        BY <2>3, <3>5 DEF shift, Unset
      <4> QED
        BY <2>1, <3>1, <3>2, <3>3, <3>4, <4>1, <4>2 DEF Covers
    <3>6. CASE counters[v].index < at
      <4>1. shift(counters[v], at).current = 0
        BY <3>4, <3>6 DEF shift, Unset
      <4>2. shift(counters[v], next) = [index |-> next, current |-> 0, previous |-> 0]
        BY <2>3, <3>4, <3>6 DEF shift, Unset
      <4>3. Unswept(v, at) => H = 0
        BY <3>3, <4>1
      <4>4. OneClock /\ counters[v].current <= Limit
        BY <2>1
      <4> HIDE <2>1
      <4> QED
        BY <3>1, <3>2, <4>2, <4>3, <4>4 DEF Covers
    <3>7. CASE counters[v].index > at
      <4>1. shift(counters[v], at) = counters[v] /\ shift(counters[v], next) = counters[v]
        <5>1. counters[v].index >= at /\ counters[v].index >= next
          BY <2>3, <3>4, <3>7 DEF Unset
        <5>2. counters[v] \in Counter
          BY <2>1
        <5> QED
          BY <5>1, <5>2, ShiftTyped
      <4> QED
        BY <2>1, <3>1, <3>2, <3>3, <3>4, <4>1 DEF Covers
    <3> QED
      BY <3>4, <3>5, <3>6, <3>7 DEF Unset
  <2> QED
    BY <1>2, <2>2, <2>3
<1>8. RemainingIsTrue'
  BY <1>3 DEF RemainingIsTrue
<1>9. Steady'
  BY <1>1, <1>a DEF RateInv, Steady, SweepsSpare
<1> QED
  BY <1>4, <1>5, <1>6, <1>7, <1>8, <1>9 DEF RateInv

\* Nothing has been let through.
NoneAdmitted == \A v \in Visitors : admitted[v] = <<>>
NoHits == \A v \in Visitors, w \in Int : Hits(admitted[v], w) = 0

LEMMA NothingYet == RateTypeOK /\ NoneAdmitted => Logged /\ Limited /\ Sliding /\ NoHits
<1> SUFFICES ASSUME RateTypeOK, NoneAdmitted
             PROVE  Logged /\ Limited /\ Sliding /\ NoHits
  OBVIOUS
<1> USE RateAssumption DEF NoneAdmitted
<1>1. Logged
  BY DEF Logged
<1>2. ASSUME NEW v \in Visitors, NEW a \in Int, NEW b \in Int PROVE Counted(admitted[v], a, b) = 0
  <2>1. admitted[v] = <<>> /\ <<>> \in Seq(Int)
    OBVIOUS
  <2>2. \A n \in DOMAIN admitted[v] : admitted[v][n] \notin a .. b
    BY <2>1
  <2> QED
    BY <2>1, <2>2, WithinNone DEF Counted
<1>3. ASSUME NEW v \in Visitors, NEW w \in Int PROVE Hits(admitted[v], w) = 0
  <2>1. First(w) \in Int /\ First(w) + WindowMs - 1 \in Int
    BY DEF First
  <2> QED
    BY <1>2, <2>1 DEF Hits
<1>4. ASSUME NEW v \in Visitors, NEW t \in Int PROVE UpTo(admitted[v], t) = 0
  BY <1>2, WindowOf DEF UpTo
<1>5. Limited
  <2> SUFFICES ASSUME NEW v \in Visitors, NEW w \in Int
               PROVE  Hits(admitted[v], w) <= Limit * (1 + Drops(v, w))
    BY DEF Limited
  <2>1. Limit * Drops(v, w) \in Nat /\ Limit * (1 + Drops(v, w)) = Limit + Limit * Drops(v, w)
    BY DropsTyped
  <2>. PICK swept \in Nat : swept = Limit * Drops(v, w)
    BY <2>1
  <2> QED
    BY <1>3, <2>1
<1>6. Sliding
  BY <1>4 DEF Sliding
<1> QED
  BY <1>1, <1>3, <1>5, <1>6 DEF NoHits

\* The clock steps back: what is counted can only be too much for what is let through.
LEMMA StepsBack ==
  ASSUME RateInv, StepBack
  PROVE  RateInv'
<1> USE RateAssumption
<1>1. /\ RateTypeOK /\ shop # "redis" /\ moment' \in 0 .. moment - 1 /\ stepped' = TRUE /\ last'.now = Unset
      /\ admitted' = [v \in Visitors |-> <<>>]
      /\ forgotten' = [v \in Visitors |-> [w \in Windows |-> 0]]
      /\ UNCHANGED <<shop, counters, redisCount, redisUntil, skew, furthest>>
  BY DEF RateInv, StepBack, Untold
<1>2. RateTypeOK' /\ NoneAdmitted'
  <2>1. moment' \in 0 .. RateEnd
    BY <1>1 DEF RateTypeOK
  <2>2. <<>> \in Seq(Int)
    OBVIOUS
  <2> QED
    BY <1>1, <2>1, <2>2 DEF RateTypeOK, NoneAdmitted
<1>3. Logged' /\ Limited' /\ Sliding' /\ NoHits'
  <2>1. (RateTypeOK /\ NoneAdmitted => Logged /\ Limited /\ Sliding /\ NoHits)'
    BY NothingYet, PTL
  <2> QED
    BY <1>2, <2>1
<1>4. MemoryCounts'
  <2>0. moment' \in Nat
    BY <1>1, MomentTyped
  <2>a. windowOf(moment') \in Nat
    BY <2>0, WindowNat
  <2>. PICK at \in Nat : at = windowOf(moment')
    BY <2>a
  <2>1. OneClock' /\ at - 1 \in Int
    BY <1>1 DEF RateInv, MemoryCounts, OneClock
  <2>2. ASSUME NEW v \in Visitors
        PROVE  /\ Hits(admitted'[v], at) = 0 /\ Hits(admitted'[v], at - 1) = 0
               /\ counters[v].current <= Limit
               /\ shift(counters[v], at).current \in Nat /\ shift(counters[v], at).previous \in Nat
               /\ Limit * Drops(v, at)' \in Nat
    <3>1. counters[v] \in Counter
      BY <1>1 DEF RateTypeOK
    <3>2. Limit * Drops(v, at)' \in Nat
      <4>1. Drops(v, at)' = 0
        BY <1>1 DEF Drops
      <4> QED
        BY <4>1
    <3>3. counters[v].current <= Limit
      BY <1>1 DEF RateInv, MemoryCounts
    <3>4. shift(counters[v], at).current \in Nat /\ shift(counters[v], at).previous \in Nat
      BY <3>1, ShiftTyped
    <3>5. Hits(admitted'[v], at) = 0 /\ Hits(admitted'[v], at - 1) = 0
      BY <1>3, <2>1 DEF NoHits
    <3> QED
      BY <3>2, <3>3, <3>4, <3>5
  <2> QED
    BY <1>1, <2>1, <2>2 DEF MemoryCounts, Covers
<1>5. Steady' /\ RedisExact' /\ RemainingIsTrue'
  BY <1>1 DEF Steady, SweepsSpare, RedisExact, RemainingIsTrue
<1> QED
  BY <1>2, <1>3, <1>4, <1>5 DEF RateInv

LEMMA Errors ==
  ASSUME RateInv, StoreError
  PROVE  RateInv'
<1>1. /\ UNCHANGED <<shop, counters, redisCount, redisUntil, skew, moment, furthest, stepped, admitted, forgotten>>
      /\ last'.now = Unset
  BY DEF StoreError, Untold
<1>2. RateTypeOK'
  BY <1>1 DEF RateInv, RateTypeOK
<1>3. Logged' /\ Limited' /\ Sliding' /\ RedisExact' /\ MemoryCounts' /\ Steady'
  BY <1>1 DEF RateInv, Logged, Limited, Sliding, RedisExact, MemoryCounts, Steady, SweepsSpare, Covers, Drops,
              Unswept, OneClock, ClocksClose, Hits, UpTo, Counted
<1>4. RemainingIsTrue'
  BY <1>1 DEF RemainingIsTrue
<1> QED
  BY <1>2, <1>3, <1>4 DEF RateInv

LEMMA RateInitHolds == RateInit => RateInv
<1> USE RateAssumption
<1> SUFFICES ASSUME RateInit PROVE RateInv
  OBVIOUS
<1>1. /\ shop \in {"memory", "shared", "redis"} /\ last.now = Unset
      /\ moment = 0 /\ furthest = 0 /\ stepped = FALSE
      /\ counters = [v \in Visitors |-> Fresh]
      /\ redisCount = [v \in Visitors |-> [w \in Windows |-> 0]]
      /\ redisUntil = [v \in Visitors |-> [w \in Windows |-> 0]]
      /\ skew \in [Instances -> 0 .. MaxSkew]
      /\ admitted = [v \in Visitors |-> <<>>]
      /\ forgotten = [v \in Visitors |-> [w \in Windows |-> 0]]
      /\ shop # "redis" => OneClock
  BY DEF RateInit, Untold, OneClock
<1>2. RateTypeOK
  <2>1. counters \in [Visitors -> Counter]
    <3>1. Fresh \in Counter
      BY DEF Counter, Fresh
    <3> QED
      BY <1>1, <3>1
  <2>2. admitted \in [Visitors -> Seq(Int)]
    <3>1. <<>> \in Seq(Int)
      OBVIOUS
    <3>2. admitted = [v \in Visitors |-> <<>>]
      BY <1>1
    <3> QED
      BY <3>1, <3>2
  <2>3. moment \in 0 .. RateEnd /\ furthest \in Nat
    BY <1>1
  <2>4. /\ redisCount \in [Visitors -> [Windows -> Nat]] /\ redisUntil \in [Visitors -> [Windows -> Nat]]
        /\ forgotten \in [Visitors -> [Windows -> Nat]]
    BY <1>1
  <2> QED
    BY <1>1, <2>1, <2>2, <2>3, <2>4 DEF RateTypeOK
<1>3. Logged /\ Limited /\ Sliding /\ \A v \in Visitors, w \in Int : Hits(admitted[v], w) = 0
  BY <1>1, <1>2, NothingYet DEF NoneAdmitted, NoHits
<1>4. MemoryCounts
  <2>. PICK at \in Nat : at = windowOf(moment)
    BY <1>2, MomentTyped
  <2>1. ASSUME NEW v \in Visitors
        PROVE  /\ counters[v].current <= Limit
               /\ shift(counters[v], at) = [index |-> at, current |-> 0, previous |-> 0]
    BY <1>1 DEF shift, Fresh
  <2>2. ASSUME NEW v \in Visitors
        PROVE  /\ Hits(admitted[v], at) = 0 /\ Hits(admitted[v], at - 1) = 0 /\ Limit * Drops(v, at) \in Nat
    <3>1. at \in Int /\ at - 1 \in Int
      OBVIOUS
    <3> QED
      BY <1>2, <1>3, <3>1, DropsTyped
  <2> QED
    BY <1>1, <2>1, <2>2 DEF MemoryCounts, Covers
<1>5. RedisExact
  <2>1. \A w \in Windows : w \in Int
    BY DEF Windows
  <2> QED
    BY <1>1, <1>3, <2>1 DEF RedisExact
<1>6. RemainingIsTrue /\ Steady
  BY <1>1 DEF RemainingIsTrue, Steady, SweepsSpare
<1> QED
  BY <1>2, <1>3, <1>4, <1>5, <1>6 DEF RateInv

LEMMA RateSteps == RateInv /\ [RateNext]_rateVars => RateInv'
<1> SUFFICES ASSUME RateInv, [RateNext]_rateVars PROVE RateInv'
  OBVIOUS
<1>1. ASSUME NEW i \in Instances, NEW v \in Visitors, Visit(i, v) PROVE RateInv'
  <2>1. CASE shop # "redis"
    BY <1>1, <2>1, MemoryVisits DEF Visit
  <2>2. CASE shop = "redis"
    BY <1>1, <2>2, RedisVisits DEF Visit
  <2> QED
    BY <2>1, <2>2
<1>2. CASE UNCHANGED rateVars
  BY <1>2 DEF rateVars, RateInv, RateTypeOK, Logged, MemoryCounts, RedisExact, Limited, Sliding, Steady, SweepsSpare,
              Covers, Drops, Unswept, RemainingIsTrue, OneClock, ClocksClose, Hits, UpTo, Counted, read
<1> QED
  BY <1>1, <1>2, Errors, Sweeps, Ticks, StepsBack DEF RateNext

\* Whatever visitors, instances, limits and windows, however the requests fall and the clock
\* of a memory store steps back: no window lets more than the limit through while clocks are
\* close, and once more for each live counter that a sweep dropped in it, which happens in a
\* shared store or after a step back only; the sliding window holds with one clock where none
\* was dropped; and a client is told what the store would decide (stores.ts, window.ts).
THEOREM LimitsCorrect == RateSpec => []LimitsHold
<1>1. RateSpec => []RateInv
  BY RateInitHolds, RateSteps, PTL DEF RateSpec
<1>2. RateInv => LimitsHold
  BY RateInvHolds
<1> QED
  BY <1>1, <1>2, PTL

-----------------------------------------------------------------------------
\* Storage.

Contents == Bodies \cup {Nothing}
StorageSteps == {"idle", "write", "sidecar", "rename", "stat", "read sidecar", "read",
                 "unlink", "unlink sidecar", "walk", "stat page", "done"}
Operation ==
  [pc : StorageSteps, op : {"none", "put", "get", "delete", "list"}, key : StorageKeys \cup {Unkeyed},
   body : Contents, info : Contents, dirty : BOOLEAN, keys : Seq(StorageKeys), page : Seq(StorageKeys),
   more : BOOLEAN, listed : Seq(StorageKeys), steady : SUBSET StorageKeys]

StorageTypeOK ==
  /\ adapter \in {"local", "memory"}
  /\ content \in [StorageKeys -> Contents] /\ sidecar \in [StorageKeys -> Contents]
  /\ temps \subseteq Clients
  /\ client \in [Clients -> Operation]
  /\ ops \in Nat /\ errors \in Nat /\ tangled \subseteq StorageKeys

\* Each step belongs to its operation.
InItsPlace(q) ==
  /\ q.pc \in {"write", "sidecar", "rename"} => q.op = "put"
  /\ q.pc \in {"stat", "read sidecar"} => q.op \in {"put", "get"}
  /\ q.pc = "read" => q.op = "get"
  /\ q.pc \in {"unlink", "unlink sidecar"} => q.op = "delete"
  /\ q.pc \in {"walk", "stat page"} => q.op = "list"
  /\ q.pc = "idle" => q.op = "none"
  /\ IF q.op \in {"none", "list"} THEN q.key = Unkeyed ELSE q.key \in StorageKeys
  /\ q.op = "put" => q.body \in Bodies
  /\ q.op = "get" /\ q.pc \in {"stat", "read sidecar"} => q.body = Nothing /\ q.info = Nothing
  /\ q.op # "list" => q.steady = {}

\* What an operation that nobody disturbed may rely on.
Relies(q, files, types) ==
  ~ q.dirty =>
    /\ q.pc = "rename" => types[q.key] = q.body
    /\ q.pc = "unlink sidecar" => files[q.key] = Nothing
    /\ q.pc \in {"stat", "read sidecar"} => files[q.key] = types[q.key]
    /\ q.op = "put" /\ q.pc \in {"stat", "read sidecar"} => files[q.key] = q.body
    /\ q.pc = "read" => files[q.key] = q.info
    /\ q.pc = "done" /\ q.op \in {"put", "get"} => q.info = q.body

\* How far a list has come: what it has listed, is looking at, and has before it follow each
\* other, and a key that was there all the time is among them or comes later.
Below(s, t) == \A m \in DOMAIN s, n \in DOMAIN t : s[m] < t[n]
After(k, s) == \A n \in DOMAIN s : s[n] < k
Lists(q, files) ==
  /\ Ascending(q.listed)
  /\ \A k \in q.steady : files[k] # Nothing
  /\ q.pc = "walk" => \A k \in q.steady : k \in ToSet(q.listed) \/ After(k, q.listed)
  /\ q.op = "list" /\ q.pc = "done" => q.steady \subseteq ToSet(q.listed)
  /\ q.pc = "stat page" =>
       /\ Ascending(q.page) /\ Ascending(q.keys)
       /\ Below(q.listed, q.page) /\ Below(q.listed, q.keys) /\ Below(q.page, q.keys)
       /\ \A k \in q.steady :
            \/ k \in ToSet(q.listed) \/ k \in ToSet(q.page) \/ k \in ToSet(q.keys)
            \/ q.more /\ After(k, q.listed) /\ After(k, q.page) /\ After(k, q.keys)

Sound(q, files, types) == InItsPlace(q) /\ Relies(q, files, types) /\ Lists(q, files)

StorageInv ==
  /\ StorageTypeOK
  /\ \A c \in Clients : Sound(client[c], content, sidecar)
  /\ adapter = "memory" => sidecar = content
  /\ Paired /\ TempsGo

\* Sequences of keys.
LEMMA KeysAreNumbers ==
  /\ \A k \in StorageKeys : k \in Nat \ {0}
  /\ Unkeyed \notin StorageKeys /\ Nothing \notin Bodies
BY StorageAssumption DEF Unkeyed

LEMMA JoinedKeys ==
  ASSUME NEW s \in Seq(StorageKeys), NEW t \in Seq(StorageKeys)
  PROVE  /\ s \o t \in Seq(StorageKeys)
         /\ ToSet(s \o t) = ToSet(s) \cup ToSet(t)
         /\ Ascending(s) /\ Ascending(t) /\ Below(s, t) => Ascending(s \o t)
         /\ \A k : After(k, s) /\ After(k, t) => After(k, s \o t)
<1> DEFINE u == s \o t
<1>1. /\ u \in Seq(StorageKeys) /\ Len(u) = Len(s) + Len(t) /\ Len(s) \in Nat /\ Len(t) \in Nat
      /\ \A n \in 1 .. Len(s) : u[n] = s[n]
      /\ \A n \in 1 .. Len(t) : u[n + Len(s)] = t[n]
  OBVIOUS
<1>2. DOMAIN u = 1 .. (Len(s) + Len(t)) /\ DOMAIN s = 1 .. Len(s) /\ DOMAIN t = 1 .. Len(t)
  BY <1>1
<1> HIDE DEF u
<1>3. ASSUME NEW n \in DOMAIN u
      PROVE  \/ n \in DOMAIN s /\ u[n] = s[n]
             \/ n > Len(s) /\ n - Len(s) \in DOMAIN t /\ u[n] = t[n - Len(s)]
  <2>1. CASE n <= Len(s)
    BY <1>1, <1>2, <2>1
  <2>2. CASE n > Len(s)
    <3>1. n - Len(s) \in DOMAIN t /\ (n - Len(s)) + Len(s) = n
      BY <1>1, <1>2, <2>2
    <3> QED
      BY <1>1, <1>2, <2>2, <3>1
  <2> QED
    BY <1>1, <1>2, <2>1, <2>2
<1>4. ToSet(u) = ToSet(s) \cup ToSet(t)
  <2>1. ToSet(u) \subseteq ToSet(s) \cup ToSet(t)
    BY <1>3 DEF ToSet
  <2>2. \A n \in DOMAIN s : n \in DOMAIN u /\ u[n] = s[n]
    BY <1>1, <1>2
  <2>3. \A n \in DOMAIN t : n + Len(s) \in DOMAIN u /\ u[n + Len(s)] = t[n]
    BY <1>1, <1>2
  <2>4. ToSet(s) \subseteq ToSet(u)
    BY <2>2 DEF ToSet
  <2>5. ToSet(t) \subseteq ToSet(u)
    BY <2>3 DEF ToSet
  <2> QED
    BY <2>1, <2>4, <2>5
<1>5. ASSUME Ascending(s), Ascending(t), Below(s, t), NEW m \in DOMAIN u, NEW n \in DOMAIN u, m < n
      PROVE  u[m] < u[n]
  <2>1. CASE n \in DOMAIN s
    <3>1. m \in DOMAIN s
      BY <1>1, <1>2, <1>5, <2>1
    <3> QED
      BY <1>1, <1>2, <1>5, <2>1, <3>1 DEF Ascending
  <2>2. CASE n \notin DOMAIN s
    <3>1. n > Len(s) /\ n - Len(s) \in DOMAIN t /\ u[n] = t[n - Len(s)]
      BY <1>3, <2>2
    <3>2. CASE m \in DOMAIN s
      BY <1>1, <1>2, <1>5, <3>1, <3>2 DEF Below
    <3>3. CASE m \notin DOMAIN s
      <4>1. m - Len(s) \in DOMAIN t /\ u[m] = t[m - Len(s)] /\ m - Len(s) < n - Len(s)
        BY <1>1, <1>2, <1>3, <1>5, <3>3
      <4> QED
        BY <1>5, <3>1, <4>1 DEF Ascending
    <3> QED
      BY <3>2, <3>3
  <2> QED
    BY <2>1, <2>2
<1>6. \A k : After(k, s) /\ After(k, t) => After(k, u)
  BY <1>3 DEF After
<1> QED
  BY <1>1, <1>4, <1>5, <1>6 DEF u, Ascending

LEMMA AppendedKey ==
  ASSUME NEW s \in Seq(StorageKeys), NEW k \in StorageKeys, Ascending(s), After(k, s)
  PROVE  /\ Ascending(Append(s, k))
         /\ \A j : After(j, s) /\ k < j => After(j, Append(s, k))
         /\ \A t : Below(s, t) /\ (\A n \in DOMAIN t : k < t[n]) => Below(Append(s, k), t)
         /\ \A t : Below(t, s) /\ (\A n \in DOMAIN t : t[n] < k) => Below(t, Append(s, k))
<1>1. /\ DOMAIN s = 1 .. Len(s) /\ Len(s) \in Nat /\ DOMAIN Append(s, k) = 1 .. (Len(s) + 1)
      /\ \A n \in 1 .. Len(s) : Append(s, k)[n] = s[n]
      /\ Append(s, k)[Len(s) + 1] = k
  BY EveryElement, Appended
<1> DEFINE u == Append(s, k)
<1>2. /\ DOMAIN u = 1 .. (Len(s) + 1) /\ u[Len(s) + 1] = k
      /\ \A n \in DOMAIN s : u[n] = s[n]
      /\ \A n \in DOMAIN u : n \in DOMAIN s \/ n = Len(s) + 1
  BY <1>1
<1> HIDE DEF u
<1>3. Ascending(u)
  <2> SUFFICES ASSUME NEW m \in DOMAIN u, NEW n \in DOMAIN u, m < n PROVE u[m] < u[n]
    BY DEF Ascending
  <2>1. m \in DOMAIN s
    BY <1>1, <1>2
  <2> QED
    BY <1>2, <2>1 DEF Ascending, After
<1>4. \A j : After(j, s) /\ k < j => After(j, u)
  BY <1>2 DEF After
<1>5. \A t : Below(s, t) /\ (\A n \in DOMAIN t : k < t[n]) => Below(u, t)
  BY <1>2 DEF Below
<1>6. \A t : Below(t, s) /\ (\A n \in DOMAIN t : t[n] < k) => Below(t, u)
  BY <1>2 DEF Below
<1> QED
  BY <1>3, <1>4, <1>5, <1>6 DEF u

LEMMA ShortenedKeys ==
  ASSUME NEW s \in Seq(StorageKeys), s # <<>>, Ascending(s)
  PROVE  /\ Ascending(Tail(s)) /\ \A n \in DOMAIN Tail(s) : Head(s) < Tail(s)[n]
         /\ \A t : Below(t, s) => Below(t, Tail(s)) /\ \A n \in DOMAIN t : t[n] < Head(s)
         /\ \A k : After(k, s) => After(k, Tail(s)) /\ Head(s) < k
<1>1. /\ Len(s) \in Nat \ {0} /\ Head(s) = s[1] /\ DOMAIN s = 1 .. Len(s)
      /\ DOMAIN Tail(s) = 1 .. (Len(s) - 1)
      /\ \A n \in 1 .. (Len(s) - 1) : Tail(s)[n] = s[n + 1]
  BY Shortened, EveryElement
<1> DEFINE u == Tail(s)
<1>2. /\ 1 \in DOMAIN s /\ \A n \in DOMAIN u : n \in Nat /\ 1 < n + 1 /\ n + 1 \in DOMAIN s /\ u[n] = s[n + 1]
  BY <1>1
<1> HIDE DEF u
<1>3. Ascending(u) /\ \A n \in DOMAIN u : Head(s) < u[n]
  BY <1>1, <1>2 DEF Ascending
<1>4. \A t : Below(t, s) => Below(t, u) /\ \A n \in DOMAIN t : t[n] < Head(s)
  BY <1>1, <1>2 DEF Below
<1>5. \A k : After(k, s) => After(k, u) /\ Head(s) < k
  BY <1>1, <1>2 DEF After
<1> QED
  BY <1>3, <1>4, <1>5 DEF u

\* The sequence of a set of keys in ascending order has all of them.
LEMMA SortedKeys ==
  ASSUME NEW S \in SUBSET StorageKeys, NEW s \in [1 .. Cardinality(S) -> S], Ascending(s)
  PROVE  s \in Seq(StorageKeys) /\ ToSet(s) = S
<1>1. IsFiniteSet(S) /\ Cardinality(S) \in Nat
  BY StorageAssumption, FS_Subset, FS_CardinalityType
<1> DEFINE n == Cardinality(S)
<1>2. s \in Seq(StorageKeys)
  BY <1>1
<1>3. s \in Injection(1 .. n, S)
  <2> SUFFICES ASSUME NEW i \in 1 .. n, NEW j \in 1 .. n, s[i] = s[j] PROVE i = j
    BY DEF Injection, IsInjective
  <2>1. s[i] \in Nat /\ s[j] \in Nat /\ i \in DOMAIN s /\ j \in DOMAIN s
    BY KeysAreNumbers
  <2>2. ~ (i < j) /\ ~ (j < i)
    BY <2>1 DEF Ascending
  <2> QED
    BY <1>1, <2>2
<1>4. Cardinality(1 .. n) = n
  BY <1>1, FS_Interval
<1>5. s \in Surjection(1 .. n, S)
  BY <1>1, <1>3, <1>4, FS_Injection
<1>6. ToSet(s) = S
  BY <1>5 DEF Surjection, ToSet
<1> QED
  BY <1>2, <1>6

\* A page has the smallest keys of those that were found, and all of them unless there are more.
LEMMA FirstFacts ==
  ASSUME NEW S \in SUBSET StorageKeys
  PROVE  /\ FirstOf(S) \subseteq S
         /\ \A k \in S \ FirstOf(S) : \A j \in FirstOf(S) : j < k
<1>1. FirstOf(S) \subseteq S
  BY DEF FirstOf
<1>2. ASSUME NEW k \in S \ FirstOf(S), NEW j \in FirstOf(S) PROVE j < k
  <2>1. j \in Nat /\ k \in Nat /\ j # k
    BY <1>1, <1>2, KeysAreNumbers
  <2> SUFFICES ASSUME k < j PROVE FALSE
    BY <2>1
  <2> DEFINE L == {i \in S : i < k}
             H == {i \in S : i < j}
  <2>2. L \in SUBSET H /\ IsFiniteSet(H)
    <3>1. \A i \in S : i < k => i < j
      BY <2>1, KeysAreNumbers
    <3>2. H \in SUBSET StorageKeys /\ IsFiniteSet(StorageKeys)
      BY StorageAssumption
    <3> QED
      BY <3>1, <3>2, FS_Subset
  <2>3. Cardinality(L) <= Cardinality(H) /\ Cardinality(L) \in Nat /\ Cardinality(H) \in Nat
    BY <2>2, FS_Subset, FS_CardinalityType
  <2>4. Cardinality(H) < PageSize /\ ~ (Cardinality(L) < PageSize)
    BY <1>2 DEF FirstOf
  <2> QED
    BY <2>3, <2>4, StorageAssumption
<1> QED
  BY <1>1, <1>2

\* Signed URLs: the second in which one expires.
LEMMA Expiry ==
  ASSUME NEW t \in Nat
  PROVE  /\ t \div Second \in Nat
         /\ (t \div Second) * Second \in Nat
         /\ (t \div Second) * Second <= t /\ t < (t \div Second) * Second + Second
<1>1. Second \in Nat \ {0}
  BY StorageAssumption
<1>2. /\ t \div Second \in Int /\ t % Second \in 0 .. Second - 1
      /\ t = Second * (t \div Second) + (t % Second)
  BY <1>1
<1> DEFINE e == t \div Second
<1> HIDE DEF e
<1>3. e \in Int /\ t % Second \in 0 .. Second - 1 /\ t = Second * e + (t % Second)
  BY <1>2 DEF e
<1>4. e * Second \in Int /\ e * Second = Second * e
  BY <1>1, <1>3
<1>5. e * Second <= t /\ t < e * Second + Second
  BY <1>1, <1>3, <1>4
<1>6. e >= 0
  <2> SUFFICES ASSUME e <= -1 PROVE FALSE
    BY <1>3
  <2>1. Second * e <= Second * (-1)
    BY <1>1, <1>3, NoLess
  <2> QED
    BY <1>1, <1>3, <1>4, <1>5, <2>1
<1>7. e * Second \in Nat
  BY <1>1, <1>3, <1>6
<1> QED
  BY <1>3, <1>5, <1>6, <1>7 DEF e

LEMMA UrlsHold == UrlsExpire
<1> SUFFICES ASSUME NEW now \in 0 .. 3 * Second, NEW expiresIn \in 0 .. 3 * Second, NEW later \in 0 .. 3 * Second
             PROVE  LET url == sign(1, now, expiresIn, "none")
                        valid == verify(url, later) = "valid"
                    IN /\ valid => later <= now + expiresIn
                       /\ later + Second <= now + expiresIn => valid
                       /\ verify([url EXCEPT !.key = 2], later) = "invalid"
                       /\ verify([url EXCEPT !.expires = @ + 1], later) = "invalid"
  BY DEF UrlsExpire
<1> DEFINE e == (now + expiresIn) \div Second
           url == sign(1, now, expiresIn, "none")
<1>1. Second \in Nat \ {0} /\ now \in Nat /\ expiresIn \in Nat /\ later \in Nat
  BY StorageAssumption
<1>2. /\ e \in Nat /\ e * Second \in Nat
      /\ e * Second <= now + expiresIn /\ now + expiresIn < e * Second + Second
  BY <1>1, Expiry
<1>3. url = [key |-> 1, expires |-> e, download |-> "none", sig |-> <<1, e, "none">>]
  BY DEF sign
<1> HIDE DEF e, url
<1>4. verify(url, later) = IF e * Second < later THEN "expired" ELSE "valid"
  BY <1>3 DEF verify
<1>5. verify([url EXCEPT !.key = 2], later) = "invalid"
  BY <1>3 DEF verify
<1>6. verify([url EXCEPT !.expires = @ + 1], later) = "invalid"
  <2>1. [url EXCEPT !.expires = @ + 1] = [key |-> 1, expires |-> e + 1, download |-> "none", sig |-> <<1, e, "none">>]
    BY <1>3
  <2>2. <<1, e, "none">> # <<1, e + 1, "none">>
    BY <1>2
  <2> QED
    BY <2>1, <2>2 DEF verify
<1>7. /\ verify(url, later) = "valid" => later <= now + expiresIn
      /\ later + Second <= now + expiresIn => verify(url, later) = "valid"
  BY <1>1, <1>2, <1>4
<1> QED
  BY <1>5, <1>6, <1>7 DEF url

LEMMA Larger ==
  ASSUME NEW a \in Int, NEW b \in Int
  PROVE  /\ Max({a, b}) = IF a >= b THEN a ELSE b
         /\ Min({a, b}) = IF a <= b THEN a ELSE b
<1>1. /\ \E m \in {a, b} : \A y \in {a, b} : m >= y
      /\ \E m \in {a, b} : \A y \in {a, b} : m <= y
  OBVIOUS
<1>2. /\ Max({a, b}) \in {a, b} /\ \A y \in {a, b} : Max({a, b}) >= y
      /\ Min({a, b}) \in {a, b} /\ \A y \in {a, b} : Min({a, b}) <= y
  BY <1>1 DEF Max, Min
<1> QED
  BY <1>2

LEMMA RangesHold == RangesFit
<1> SUFFICES ASSUME NEW size \in 0 .. 4, NEW from \in -1 .. 5, NEW to \in -1 .. 5
             PROVE  LET range == parseRange(from, to, size)
                        named == {n \in 0 .. size - 1 : IF from = -1 THEN n >= size - to /\ to # -1
                                                        ELSE n >= from /\ (to = -1 \/ n <= to)}
                    IN named = IF range = <<>> THEN {} ELSE range[1] .. range[2]
  BY DEF RangesFit
<1> DEFINE named == {n \in 0 .. size - 1 : IF from = -1 THEN n >= size - to /\ to # -1
                                           ELSE n >= from /\ (to = -1 \/ n <= to)}
<1>1. size \in Nat /\ from \in Int /\ to \in Int /\ from >= -1 /\ to >= -1
  OBVIOUS
<1>2. CASE from = -1 /\ to = -1
  <2>1. parseRange(from, to, size) = <<>>
    BY <1>2 DEF parseRange
  <2> QED
    BY <1>2, <2>1
<1>3. CASE from = -1 /\ to # -1
  <2> DEFINE start == Max({0, size - to})
  <2>1. start = IF 0 >= size - to THEN 0 ELSE size - to
    BY <1>1, Larger
  <2> HIDE DEF start
  <2>2. parseRange(from, to, size) = IF start > size - 1 \/ start >= size THEN <<>> ELSE <<start, size - 1>>
    BY <1>3 DEF parseRange, start
  <2>3. named = {n \in 0 .. size - 1 : n >= size - to}
    BY <1>3
  <2>4. CASE start >= size
    <3>1. parseRange(from, to, size) = <<>>
      BY <2>2, <2>4
    <3>2. named = {}
      BY <1>1, <2>1, <2>3, <2>4
    <3> QED
      BY <3>1, <3>2
  <2>5. CASE start < size
    <3>1. parseRange(from, to, size) = <<start, size - 1>>
      BY <1>1, <2>1, <2>2, <2>5
    <3>2. named = start .. size - 1
      BY <1>1, <2>1, <2>3, <2>5
    <3> QED
      BY <3>1, <3>2
  <2> QED
    BY <1>1, <2>1, <2>4, <2>5
<1>4. CASE from # -1
  <2> DEFINE end == IF to = -1 THEN size - 1 ELSE IF to <= size - 1 THEN to ELSE size - 1
  <2>1. to # -1 => Min({to, size - 1}) = IF to <= size - 1 THEN to ELSE size - 1
    <3>1. size - 1 \in Int /\ to \in Int
      BY <1>1
    <3>2. Min({to, size - 1}) = IF to <= size - 1 THEN to ELSE size - 1
      BY <3>1, Larger
    <3> QED
      BY <3>2
  <2>2. parseRange(from, to, size) = IF from > end \/ from >= size THEN <<>> ELSE <<from, end>>
    BY <1>4, <2>1 DEF parseRange
  <2>3. named = {n \in 0 .. size - 1 : n >= from /\ (to = -1 \/ n <= to)}
    BY <1>4
  <2>4. named = from .. end
    BY <1>1, <1>4, <2>3
  <2>5. from > end \/ from >= size => from .. end = {}
    BY <1>1, <1>4
  <2>6. <<from, end>> # <<>> /\ <<from, end>>[1] = from /\ <<from, end>>[2] = end
    OBVIOUS
  <2> HIDE DEF end, named
  <2> QED
    BY <2>2, <2>4, <2>5, <2>6 DEF named
<1> QED
  BY <1>2, <1>3, <1>4

\* Steps: what a client's step does to the operations of the others.
Follows(q, p, changed, files) ==
  /\ p.pc = q.pc /\ p.op = q.op /\ p.key = q.key /\ p.body = q.body /\ p.info = q.info
  /\ p.keys = q.keys /\ p.page = q.page /\ p.more = q.more /\ p.listed = q.listed
  /\ q.dirty \/ (changed # Unkeyed /\ q.key = changed) => p.dirty
  /\ p.steady \subseteq q.steady /\ \A k \in p.steady : files[k] # Nothing

LEMMA SoundOn ==
  ASSUME NEW q \in Operation, NEW p \in Operation, NEW files, NEW types, NEW files2, NEW types2,
         NEW changed \in StorageKeys \cup {Unkeyed},
         Sound(q, files, types), Follows(q, p, changed, files2),
         \A k \in StorageKeys : k # changed => files2[k] = files[k] /\ types2[k] = types[k]
  PROVE  Sound(p, files2, types2)
<1>1. InItsPlace(p)
  BY DEF Sound, InItsPlace, Follows
<1>2. Relies(p, files2, types2)
  <2> SUFFICES ASSUME ~ p.dirty PROVE Relies(p, files2, types2)
    BY DEF Relies
  <2>1. ~ q.dirty /\ (p.key \in StorageKeys => files2[p.key] = files[p.key] /\ types2[p.key] = types[p.key])
    BY KeysAreNumbers DEF Follows
  <2>2. p.pc \in {"rename", "unlink sidecar", "stat", "read sidecar", "read"} => p.key \in StorageKeys
    BY <1>1 DEF InItsPlace
  <2>3. Relies(q, files, types)
    BY DEF Sound
  <2>4. p.pc = q.pc /\ p.op = q.op /\ p.key = q.key /\ p.body = q.body /\ p.info = q.info
    BY DEF Follows
  <2>5. CASE p.pc \in {"rename", "unlink sidecar", "stat", "read sidecar", "read"}
    <3>1. files2[p.key] = files[p.key] /\ types2[p.key] = types[p.key]
      BY <2>1, <2>2, <2>5
    <3> QED
      BY <2>1, <2>3, <2>4, <3>1 DEF Relies
  <2>6. CASE p.pc \notin {"rename", "unlink sidecar", "stat", "read sidecar", "read"}
    BY <2>1, <2>3, <2>4, <2>6 DEF Relies
  <2> QED
    BY <2>5, <2>6
<1>3. Lists(p, files2)
  BY DEF Sound, Lists, Follows
<1> QED
  BY <1>1, <1>2, <1>3 DEF Sound

\* Client c goes on with q and changes at most the key named.
Steps(c, q, changed) ==
  /\ client' \in [Clients -> Operation] /\ client'[c] = q
  /\ \A o \in Clients \ {c} : Follows(client[o], client'[o], changed, content')

LEMMA ProceedSteps ==
  ASSUME StorageInv, NEW c \in Clients, NEW q \in Operation, NEW changed \in StorageKeys \cup {Unkeyed},
         Proceed(c, q, changed)
  PROVE  Steps(c, q, changed)
<1>1. \A o \in Clients : client[o] \in Operation
  BY DEF StorageInv, StorageTypeOK
<1>2. ASSUME NEW o \in Clients, o # c
      PROVE  client'[o] \in Operation /\ Follows(client[o], client'[o], changed, content')
  <2>0. client[o] \in Operation
    BY <1>1
  <2>1. CASE o \in Others(c, changed)
    <3>1. client'[o] = [client[o] EXCEPT !.dirty = TRUE]
      BY <1>2, <2>1 DEF Proceed
    <3>2. client[o].key = changed /\ changed # Unkeyed
      BY <2>1 DEF Others, Key
    <3>3. client[o].steady = {}
      BY <3>2 DEF StorageInv, Sound, InItsPlace
    <3> QED
      BY <2>0, <3>1, <3>3 DEF Follows, Operation
  <2>2. CASE o \notin Others(c, changed)
    <3> DEFINE left == {k \in client[o].steady : content'[k] # Nothing}
    <3>1. client'[o] = [client[o] EXCEPT !.steady = left]
      BY <1>2, <2>2 DEF Proceed
    <3>2. ~ (changed # Unkeyed /\ client[o].key = changed)
      BY <1>2, <2>2 DEF Others, Key
    <3>3. left \subseteq client[o].steady /\ left \in SUBSET StorageKeys /\ \A k \in left : content'[k] # Nothing
      BY <2>0 DEF Operation
    <3> HIDE DEF left
    <3> QED
      BY <2>0, <3>1, <3>2, <3>3 DEF Follows, Operation
  <2> QED
    BY <2>1, <2>2
<1>3. client'[c] = q
  BY DEF Proceed
<1>4. client' \in [Clients -> Operation]
  <2>1. client' = [o \in Clients |-> client'[o]]
    BY DEF Proceed
  <2>2. \A o \in Clients : client'[o] \in Operation
    BY <1>2, <1>3
  <2> QED
    BY <2>1, <2>2
<1> QED
  BY <1>2, <1>3, <1>4 DEF Steps

InBetween(q) == q.pc \in {"rename", "unlink sidecar"}

LEMMA StorageStepSound ==
  ASSUME StorageInv, NEW c \in Clients, NEW q \in Operation, NEW changed \in StorageKeys \cup {Unkeyed},
         Steps(c, q, changed), Sound(q, content', sidecar'),
         adapter' = adapter,
         content' \in [StorageKeys -> Contents], sidecar' \in [StorageKeys -> Contents],
         temps' \subseteq temps \cup {c}, ops' \in Nat, errors' \in Nat, errors <= errors', tangled' \subseteq StorageKeys,
         \A k \in StorageKeys : k # changed => content'[k] = content[k] /\ sidecar'[k] = sidecar[k],
         adapter = "memory" => sidecar' = content',
         \A k \in StorageKeys : k \notin tangled' /\ ~ (q.key = k /\ InBetween(q)) =>
           \/ sidecar'[k] = content'[k]
           \/ /\ k \notin tangled /\ content'[k] = content[k] /\ sidecar'[k] = sidecar[k]
              /\ ~ (client[c].key = k /\ InBetween(client[c])),
         errors' = 0 /\ c \in temps' => q.pc \in {"sidecar", "rename"}
  PROVE  StorageInv'
<1>1. StorageTypeOK'
  BY DEF Steps, StorageInv, StorageTypeOK
<1>2. ASSUME NEW o \in Clients PROVE Sound(client'[o], content', sidecar')
  <2>1. CASE o = c
    BY <2>1 DEF Steps
  <2>2. CASE o # c
    <3>1. client[o] \in Operation /\ client'[o] \in Operation /\ Sound(client[o], content, sidecar)
      BY DEF Steps, StorageInv, StorageTypeOK
    <3>2. Follows(client[o], client'[o], changed, content')
      BY <2>2 DEF Steps
    <3> QED
      BY <3>1, <3>2, SoundOn
  <2> QED
    BY <2>1, <2>2
<1>3. Paired'
  <2> SUFFICES ASSUME NEW k \in StorageKeys, k \notin tangled',
                      \A o \in Clients : client'[o].key = k => ~ InBetween(client'[o])
               PROVE  sidecar'[k] = content'[k]
    BY DEF Paired, Between, At, Key, InBetween
  <2>1. ~ (q.key = k /\ InBetween(q))
    BY DEF Steps
  <2>2. CASE /\ k \notin tangled /\ content'[k] = content[k] /\ sidecar'[k] = sidecar[k]
             /\ ~ (client[c].key = k /\ InBetween(client[c]))
    <3>1. \A o \in Clients : client[o].key = k => ~ InBetween(client[o])
      BY <2>2, ZenonT(40) DEF Steps, Follows, InBetween
    <3>2. sidecar[k] = content[k]
      BY <2>2, <3>1 DEF StorageInv, Paired, Between, At, Key, InBetween
    <3> QED
      BY <2>2, <3>2
  <2> QED
    BY <2>1, <2>2
<1>4. TempsGo'
  <2> SUFFICES ASSUME errors' = 0, NEW o \in temps' PROVE client'[o].pc \in {"sidecar", "rename"}
    BY DEF TempsGo
  <2>1. CASE o = c
    BY <2>1 DEF Steps
  <2>2. CASE o # c
    <3>1. errors = 0 /\ o \in temps /\ o \in Clients
      BY <2>2 DEF StorageInv, StorageTypeOK
    <3> QED
      BY <2>2, <3>1 DEF StorageInv, TempsGo, Steps, Follows
  <2> QED
    BY <2>1, <2>2
<1>5. adapter' = "memory" => sidecar' = content'
  OBVIOUS
<1> QED
  BY <1>1, <1>2, <1>3, <1>4, <1>5 DEF StorageInv

\* A step that changes no file, sidecar or key's history.
LEMMA QuietSound ==
  ASSUME StorageInv, NEW c \in Clients, NEW q \in Operation, Steps(c, q, Unkeyed), Sound(q, content, sidecar),
         UNCHANGED <<adapter, content, sidecar, tangled>>, ops' \in Nat, errors' \in Nat, errors <= errors',
         temps' \subseteq temps \cup {c},
         ~ InBetween(client[c]),
         errors' = 0 /\ c \in temps' => q.pc \in {"sidecar", "rename"}
  PROVE  StorageInv'
<1>1. Unkeyed \in StorageKeys \cup {Unkeyed} /\ Sound(q, content', sidecar')
  OBVIOUS
<1>2. /\ content' \in [StorageKeys -> Contents] /\ sidecar' \in [StorageKeys -> Contents]
      /\ tangled' \subseteq StorageKeys /\ adapter' = adapter
      /\ adapter = "memory" => sidecar' = content'
  BY DEF StorageInv, StorageTypeOK
<1>3. \A k \in StorageKeys : content'[k] = content[k] /\ sidecar'[k] = sidecar[k]
  OBVIOUS
<1> QED
  BY <1>1, <1>2, <1>3, StorageStepSound

LEMMA NoOpSound ==
  /\ NoOp \in Operation /\ NoOp.pc = "idle" /\ NoOp.op = "none" /\ NoOp.key = Unkeyed
  /\ \A files, types : Sound(NoOp, files, types)
<1>1. NoOp \in Operation
  <2>1. <<>> \in Seq(StorageKeys) /\ {} \in SUBSET StorageKeys
    OBVIOUS
  <2> QED
    BY <2>1 DEF NoOp, Operation, StorageSteps, Contents
<1>2. /\ NoOp.pc = "idle" /\ NoOp.op = "none" /\ NoOp.key = Unkeyed /\ NoOp.dirty = FALSE
      /\ NoOp.listed = <<>> /\ NoOp.steady = {} 
  BY DEF NoOp
<1>3. Ascending(<<>>)
  BY DEF Ascending
<1> QED
  BY <1>1, <1>2, <1>3 DEF Sound, InItsPlace, Relies, Lists

LEMMA ClientSound ==
  ASSUME StorageInv, NEW c \in Clients
  PROVE  /\ client[c] \in Operation /\ Sound(client[c], content, sidecar)
         /\ temps \subseteq temps \cup {c} /\ ops \in Nat /\ errors \in Nat /\ errors <= errors
BY DEF StorageInv, StorageTypeOK

\* The steps of a put.
LEMMA WriteFileSound ==
  ASSUME StorageInv, NEW c \in Clients, WriteFile(c)
  PROVE  StorageInv'
<1> DEFINE old == client[c]
           q == [old EXCEPT !.pc = "sidecar"]
<1>1. old \in Operation /\ Sound(old, content, sidecar) /\ ops \in Nat /\ errors \in Nat
  BY ClientSound
<1>2. old.pc = "write" /\ Proceed(c, q, Unkeyed)
  BY DEF WriteFile, At, Onward
<1>3. q \in Operation
  BY <1>1 DEF Operation, StorageSteps
<1>4. /\ q.pc = "sidecar" /\ q.op = old.op /\ q.key = old.key /\ q.body = old.body /\ q.info = old.info
      /\ q.dirty = old.dirty /\ q.steady = old.steady /\ q.listed = old.listed
  BY <1>1 DEF Operation
<1>5. Steps(c, q, Unkeyed)
  BY <1>2, <1>3, ProceedSteps
<1> HIDE DEF q, old
<1>6. Sound(q, content, sidecar)
  BY <1>1, <1>2, <1>4 DEF Sound, InItsPlace, Relies, Lists
<1>7. ~ InBetween(client[c])
  BY <1>2 DEF old, InBetween
<1> QED
  BY <1>1, <1>3, <1>4, <1>5, <1>6, <1>7, QuietSound DEF WriteFile

LEMMA WriteSidecarSound ==
  ASSUME StorageInv, NEW c \in Clients, WriteSidecar(c), adapter = "local"
  PROVE  StorageInv'
<1> DEFINE old == client[c]
           q == [[old EXCEPT !.pc = "rename"] EXCEPT !.dirty = FALSE]
<1>1. old \in Operation /\ Sound(old, content, sidecar) /\ ops \in Nat /\ errors \in Nat
  BY ClientSound
<1>2. old.pc = "sidecar" /\ Proceed(c, q, old.key) /\ sidecar' = [sidecar EXCEPT ![old.key] = old.body]
  BY DEF WriteSidecar, At, Onward, Key
<1>3. q \in Operation
  BY <1>1 DEF Operation, StorageSteps
<1>4. /\ q.pc = "rename" /\ q.op = old.op /\ q.key = old.key /\ q.body = old.body /\ q.info = old.info
      /\ q.dirty = FALSE /\ q.steady = old.steady /\ q.listed = old.listed
  BY <1>1 DEF Operation
<1>5. old.key \in StorageKeys /\ old.body \in Contents /\ old.op = "put"
  BY <1>1, <1>2 DEF Sound, InItsPlace, Operation
<1>6. Steps(c, q, old.key)
  BY <1>2, <1>3, <1>5, ProceedSteps
<1> HIDE DEF q, old
<1>7. /\ content \in [StorageKeys -> Contents] /\ sidecar \in [StorageKeys -> Contents] /\ tangled \subseteq StorageKeys
      /\ UNCHANGED <<adapter, content, temps, ops, errors, tangled>>
  BY DEF StorageInv, StorageTypeOK, WriteSidecar
<1>8. /\ sidecar' \in [StorageKeys -> Contents] /\ sidecar'[old.key] = old.body
      /\ \A k \in StorageKeys : k # old.key => content'[k] = content[k] /\ sidecar'[k] = sidecar[k]
  BY <1>2, <1>5, <1>7
<1>9. Sound(q, content', sidecar')
  BY <1>1, <1>2, <1>4, <1>5, <1>7, <1>8 DEF Sound, InItsPlace, Relies, Lists
<1>10. \A k \in StorageKeys : k \notin tangled' /\ ~ (q.key = k /\ InBetween(q)) =>
         /\ k \notin tangled /\ content'[k] = content[k] /\ sidecar'[k] = sidecar[k]
         /\ ~ (client[c].key = k /\ InBetween(client[c]))
  BY <1>4, <1>7, <1>8 DEF InBetween, old
<1>11. errors <= errors' /\ temps' \subseteq temps \cup {c} /\ ops' \in Nat /\ errors' \in Nat
  BY <1>1, <1>7
<1> QED
  BY <1>3, <1>4, <1>5, <1>6, <1>7, <1>8, <1>9, <1>10, <1>11, StorageStepSound

LEMMA RenameSound ==
  ASSUME StorageInv, NEW c \in Clients, Rename(c), adapter = "local"
  PROVE  StorageInv'
<1> DEFINE old == client[c]
           q == [old EXCEPT !.pc = "stat"]
<1>1. old \in Operation /\ Sound(old, content, sidecar) /\ ops \in Nat /\ errors \in Nat
  BY ClientSound
<1>2. /\ old.pc = "rename" /\ Proceed(c, q, old.key) /\ content' = [content EXCEPT ![old.key] = old.body]
      /\ tangled' = IF old.dirty THEN tangled \cup {old.key} ELSE tangled \ {old.key}
      /\ temps' = temps \ {c}
  BY DEF Rename, At, Onward, Key, Settled
<1>3. q \in Operation
  BY <1>1 DEF Operation, StorageSteps
<1>4. /\ q.pc = "stat" /\ q.op = old.op /\ q.key = old.key /\ q.body = old.body /\ q.info = old.info
      /\ q.dirty = old.dirty /\ q.steady = old.steady /\ q.listed = old.listed
  BY <1>1 DEF Operation
<1>5. old.key \in StorageKeys /\ old.body \in Contents /\ old.op = "put"
  BY <1>1, <1>2 DEF Sound, InItsPlace, Operation
<1>6. Steps(c, q, old.key)
  BY <1>2, <1>3, <1>5, ProceedSteps
<1> HIDE DEF q, old
<1>7. /\ content \in [StorageKeys -> Contents] /\ sidecar \in [StorageKeys -> Contents] /\ tangled \subseteq StorageKeys
      /\ UNCHANGED <<adapter, sidecar, ops, errors>>
  BY DEF StorageInv, StorageTypeOK, Rename
<1>8. /\ content' \in [StorageKeys -> Contents] /\ content'[old.key] = old.body
      /\ \A k \in StorageKeys : k # old.key => content'[k] = content[k] /\ sidecar'[k] = sidecar[k]
  BY <1>2, <1>5, <1>7
<1>9. ~ old.dirty => sidecar'[old.key] = old.body
  BY <1>1, <1>2, <1>7 DEF Sound, Relies
<1>10. Sound(q, content', sidecar')
  <2>1. InItsPlace(q)
    BY <1>1, <1>2, <1>4, <1>5 DEF Sound, InItsPlace
  <2>2. Relies(q, content', sidecar')
    BY <1>4, <1>5, <1>8, <1>9 DEF Relies
  <2>3. Lists(q, content')
    BY <1>1, <1>2, <1>4, <1>5 DEF Sound, Lists, InItsPlace
  <2> QED
    BY <2>1, <2>2, <2>3 DEF Sound
<1>11. ASSUME NEW k \in StorageKeys, k \notin tangled'
       PROVE  \/ sidecar'[k] = content'[k]
              \/ /\ k \notin tangled /\ content'[k] = content[k] /\ sidecar'[k] = sidecar[k]
                 /\ ~ (client[c].key = k /\ InBetween(client[c]))
  <2>1. CASE k = old.key
    BY <1>2, <1>8, <1>9, <1>11, <2>1
  <2>2. CASE k # old.key
    BY <1>2, <1>8, <1>11, <2>2 DEF old
  <2> QED
    BY <2>1, <2>2
<1>12. errors <= errors' /\ temps' \subseteq temps \cup {c} /\ ops' \in Nat /\ errors' \in Nat /\ c \notin temps' /\ tangled' \subseteq StorageKeys
  BY <1>1, <1>2, <1>5, <1>7
<1> QED
  BY <1>3, <1>5, <1>6, <1>7, <1>8, <1>10, <1>11, <1>12, StorageStepSound

LEMMA PutFailsSound ==
  ASSUME StorageInv, NEW c \in Clients, PutFails(c), adapter = "local"
  PROVE  StorageInv'
<1> DEFINE old == client[c]
<1>1. old \in Operation /\ Sound(old, content, sidecar) /\ ops \in Nat /\ errors \in Nat
  BY ClientSound
<1>2. /\ old.pc \in {"write", "sidecar", "rename"} /\ Proceed(c, NoOp, Unkeyed)
      /\ tangled' = IF old.pc = "rename" THEN tangled \cup {old.key} ELSE tangled
      /\ temps' = temps \ {c} /\ errors' = errors + 1
  BY DEF PutFails, At, Key
<1>3. old.key \in StorageKeys
  BY <1>1, <1>2 DEF Sound, InItsPlace
<1>4. Steps(c, NoOp, Unkeyed)
  BY <1>2, NoOpSound, ProceedSteps
<1> HIDE DEF old
<1>5. /\ content' \in [StorageKeys -> Contents] /\ sidecar' \in [StorageKeys -> Contents] /\ tangled' \subseteq StorageKeys
      /\ UNCHANGED <<adapter, content, sidecar, ops>>
  BY <1>2, <1>3 DEF StorageInv, StorageTypeOK, PutFails
<1>6. Sound(NoOp, content', sidecar') /\ NoOp \in Operation
  BY NoOpSound
<1>7. ASSUME NEW k \in StorageKeys, k \notin tangled'
      PROVE  k \notin tangled /\ ~ (client[c].key = k /\ InBetween(client[c]))
  BY <1>2, <1>7 DEF old, InBetween
<1>8. errors <= errors' /\ temps' \subseteq temps \cup {c} /\ ops' \in Nat /\ errors' \in Nat /\ errors' # 0
  BY <1>1, <1>2, <1>5
<1> QED
  BY <1>4, <1>5, <1>6, <1>7, <1>8, StorageStepSound

\* The steps of a get and of a delete.
LEMMA StatSound ==
  ASSUME StorageInv, NEW c \in Clients, Stat(c), adapter = "local"
  PROVE  StorageInv'
<1> DEFINE old == client[c]
           next == IF content[old.key] = Nothing THEN "done" ELSE "read sidecar"
           q == [old EXCEPT !.pc = next]
<1>1. old \in Operation /\ Sound(old, content, sidecar) /\ ops \in Nat /\ errors \in Nat
  BY ClientSound
<1>2. old.pc = "stat" /\ Proceed(c, q, Unkeyed)
  BY DEF Stat, At, Onward, Key
<1> HIDE DEF next
<1>3. q \in Operation
  BY <1>1 DEF Operation, StorageSteps, next
<1>4. /\ q.pc = next /\ q.op = old.op /\ q.key = old.key /\ q.body = old.body /\ q.info = old.info
      /\ q.dirty = old.dirty /\ q.steady = old.steady /\ q.listed = old.listed
  BY <1>1 DEF Operation
<1>5. Steps(c, q, Unkeyed)
  BY <1>2, <1>3, ProceedSteps
<1> HIDE DEF q, old
<1>6. old.op \in {"put", "get"} /\ old.op # "list"
  BY <1>1, <1>2 DEF Sound, InItsPlace
<1>7. old.op = "put" => old.body # Nothing
  BY <1>1, KeysAreNumbers DEF Sound, InItsPlace
<1>8. InItsPlace(q)
  BY <1>1, <1>2, <1>4, <1>6 DEF Sound, InItsPlace, next
<1>9. Relies(q, content, sidecar)
  <2>1. CASE next = "read sidecar"
    BY <1>1, <1>2, <1>4, <2>1 DEF Sound, Relies
  <2>2. CASE next = "done"
    <3>1. content[old.key] = Nothing
      BY <2>2 DEF next
    <3>2. old.op = "put" => old.dirty
      BY <1>1, <1>2, <1>7, <3>1 DEF Sound, Relies
    <3>3. old.op = "get" => old.body = old.info
      BY <1>1, <1>2 DEF Sound, InItsPlace
    <3> QED
      BY <1>4, <1>6, <2>2, <3>2, <3>3 DEF Relies
  <2> QED
    BY <2>1, <2>2 DEF next
<1>10. Lists(q, content)
  BY <1>1, <1>4, <1>6 DEF Sound, Lists, InItsPlace, next
<1>11. Sound(q, content, sidecar)
  BY <1>8, <1>9, <1>10 DEF Sound
<1>12. ~ InBetween(client[c]) /\ (errors = 0 => c \notin temps)
  BY <1>2 DEF old, InBetween, StorageInv, TempsGo
<1>13. /\ UNCHANGED <<adapter, content, sidecar, tangled>> /\ temps' = temps
       /\ ops' \in Nat /\ errors' \in Nat /\ errors <= errors' /\ errors' = errors
  <2>1. UNCHANGED <<adapter, content, sidecar, temps, ops, errors, tangled>>
    BY Zenon DEF Stat
  <2> QED
    BY <1>1, <2>1
<1> QED
  BY <1>1, <1>3, <1>5, <1>11, <1>12, <1>13, QuietSound

LEMMA ReadSidecarSound ==
  ASSUME StorageInv, NEW c \in Clients, ReadSidecar(c), adapter = "local"
  PROVE  StorageInv'
<1> DEFINE old == client[c]
           next == IF old.op = "get" THEN "read" ELSE "done"
           found == sidecar[old.key]
           q == [[old EXCEPT !.pc = next] EXCEPT !.info = found]
<1>1. old \in Operation /\ Sound(old, content, sidecar) /\ ops \in Nat /\ errors \in Nat
  BY ClientSound
<1>2. old.pc = "read sidecar" /\ Proceed(c, q, Unkeyed)
  BY DEF ReadSidecar, At, Onward, Key
<1>3. old.op \in {"put", "get"} /\ old.key \in StorageKeys
  BY <1>1, <1>2 DEF Sound, InItsPlace
<1>4. found \in Contents /\ next \in StorageSteps
  BY <1>3 DEF StorageInv, StorageTypeOK, StorageSteps
<1> HIDE DEF next, found
<1>5. q \in Operation
  BY <1>1, <1>4 DEF Operation
<1>6. /\ q.pc = next /\ q.op = old.op /\ q.key = old.key /\ q.body = old.body /\ q.info = found
      /\ q.dirty = old.dirty /\ q.steady = old.steady /\ q.listed = old.listed
  BY <1>1 DEF Operation
<1>7. Steps(c, q, Unkeyed)
  BY <1>2, <1>5, ProceedSteps
<1> HIDE DEF q, old
<1>8. InItsPlace(q)
  BY <1>1, <1>2, <1>3, <1>6 DEF Sound, InItsPlace, next
<1>9. Relies(q, content, sidecar)
  BY <1>1, <1>2, <1>3, <1>6 DEF Sound, Relies, next, found
<1>10. Lists(q, content)
  BY <1>1, <1>3, <1>6 DEF Sound, Lists, InItsPlace, next
<1>11. Sound(q, content, sidecar)
  BY <1>8, <1>9, <1>10 DEF Sound
<1>12. ~ InBetween(client[c]) /\ (errors = 0 => c \notin temps)
  BY <1>2 DEF old, InBetween, StorageInv, TempsGo
<1>13. /\ UNCHANGED <<adapter, content, sidecar, tangled>> /\ temps' = temps
       /\ ops' \in Nat /\ errors' \in Nat /\ errors <= errors' /\ errors' = errors
  <2>1. UNCHANGED <<adapter, content, sidecar, temps, ops, errors, tangled>>
    BY Zenon DEF ReadSidecar
  <2> QED
    BY <1>1, <2>1
<1> QED
  BY <1>1, <1>5, <1>7, <1>11, <1>12, <1>13, QuietSound

LEMMA ReadBodySound ==
  ASSUME StorageInv, NEW c \in Clients, ReadBody(c), adapter = "local"
  PROVE  StorageInv'
<1> DEFINE old == client[c]
           found == content[old.key]
           q == [[old EXCEPT !.pc = "done"] EXCEPT !.body = found]
<1>1. old \in Operation /\ Sound(old, content, sidecar) /\ ops \in Nat /\ errors \in Nat
  BY ClientSound
<1>2. old.pc = "read" /\ Proceed(c, q, Unkeyed)
  BY DEF ReadBody, At, Onward, Key
<1>3. old.op = "get" /\ old.key \in StorageKeys
  BY <1>1, <1>2 DEF Sound, InItsPlace
<1>4. found \in Contents
  BY <1>3 DEF StorageInv, StorageTypeOK
<1> HIDE DEF found
<1>5. q \in Operation
  BY <1>1, <1>4 DEF Operation, StorageSteps
<1>6. /\ q.pc = "done" /\ q.op = old.op /\ q.key = old.key /\ q.body = found /\ q.info = old.info
      /\ q.dirty = old.dirty /\ q.steady = old.steady /\ q.listed = old.listed
  BY <1>1 DEF Operation
<1>7. Steps(c, q, Unkeyed)
  BY <1>2, <1>5, ProceedSteps
<1> HIDE DEF q, old
<1>8. InItsPlace(q)
  BY <1>1, <1>2, <1>3, <1>6 DEF Sound, InItsPlace
<1>9. Relies(q, content, sidecar)
  BY <1>1, <1>2, <1>3, <1>6 DEF Sound, Relies, found
<1>10. Lists(q, content)
  BY <1>1, <1>3, <1>6 DEF Sound, Lists, InItsPlace
<1>11. Sound(q, content, sidecar)
  BY <1>8, <1>9, <1>10 DEF Sound
<1>12. ~ InBetween(client[c]) /\ (errors = 0 => c \notin temps)
  BY <1>2 DEF old, InBetween, StorageInv, TempsGo
<1>13. /\ UNCHANGED <<adapter, content, sidecar, tangled>> /\ temps' = temps
       /\ ops' \in Nat /\ errors' \in Nat /\ errors <= errors' /\ errors' = errors
  <2>1. UNCHANGED <<adapter, content, sidecar, temps, ops, errors, tangled>>
    BY Zenon DEF ReadBody
  <2> QED
    BY <1>1, <2>1
<1> QED
  BY <1>1, <1>5, <1>7, <1>11, <1>12, <1>13, QuietSound

LEMMA RemoveFileSound ==
  ASSUME StorageInv, NEW c \in Clients, RemoveFile(c), adapter = "local"
  PROVE  StorageInv'
<1> DEFINE old == client[c]
           q == [[old EXCEPT !.pc = "unlink sidecar"] EXCEPT !.dirty = FALSE]
<1>1. old \in Operation /\ Sound(old, content, sidecar) /\ ops \in Nat /\ errors \in Nat
  BY ClientSound
<1>2. old.pc = "unlink" /\ Proceed(c, q, old.key) /\ content' = [content EXCEPT ![old.key] = Nothing]
  BY DEF RemoveFile, At, Onward, Key
<1>3. q \in Operation
  BY <1>1 DEF Operation, StorageSteps
<1>4. /\ q.pc = "unlink sidecar" /\ q.op = old.op /\ q.key = old.key /\ q.dirty = FALSE
      /\ q.steady = old.steady /\ q.listed = old.listed
  BY <1>1 DEF Operation
<1>5. old.key \in StorageKeys /\ old.op = "delete"
  BY <1>1, <1>2 DEF Sound, InItsPlace
<1>6. Steps(c, q, old.key)
  BY <1>2, <1>3, <1>5, ProceedSteps
<1> HIDE DEF q, old
<1>7. /\ content \in [StorageKeys -> Contents] /\ sidecar \in [StorageKeys -> Contents] /\ tangled \subseteq StorageKeys
      /\ UNCHANGED <<adapter, sidecar, temps, ops, errors, tangled>>
  BY DEF StorageInv, StorageTypeOK, RemoveFile
<1>8. /\ content' \in [StorageKeys -> Contents] /\ content'[old.key] = Nothing
      /\ \A k \in StorageKeys : k # old.key => content'[k] = content[k] /\ sidecar'[k] = sidecar[k]
  BY <1>2, <1>5, <1>7 DEF Contents
<1>9. Sound(q, content', sidecar')
  <2>1. InItsPlace(q)
    BY <1>1, <1>4, <1>5 DEF Sound, InItsPlace
  <2>2. Relies(q, content', sidecar')
    BY <1>4, <1>5, <1>8 DEF Relies
  <2>3. Lists(q, content')
    BY <1>1, <1>4, <1>5 DEF Sound, Lists, InItsPlace
  <2> QED
    BY <2>1, <2>2, <2>3 DEF Sound
<1>10. \A k \in StorageKeys : k \notin tangled' /\ ~ (q.key = k /\ InBetween(q)) =>
         /\ k \notin tangled /\ content'[k] = content[k] /\ sidecar'[k] = sidecar[k]
         /\ ~ (client[c].key = k /\ InBetween(client[c]))
  BY <1>4, <1>7, <1>8 DEF InBetween, old
<1>11. errors <= errors' /\ temps' \subseteq temps \cup {c} /\ ops' \in Nat /\ errors' \in Nat
  BY <1>1, <1>7
<1>12. errors' = 0 => c \notin temps'
  BY <1>2, <1>7 DEF old, StorageInv, TempsGo
<1>13. adapter' = adapter /\ adapter # "memory" /\ sidecar' \in [StorageKeys -> Contents] /\ tangled' \subseteq StorageKeys
  BY <1>7
<1> QED
  BY <1>3, <1>5, <1>6, <1>8, <1>9, <1>10, <1>11, <1>12, <1>13, StorageStepSound

LEMMA RemoveSidecarSound ==
  ASSUME StorageInv, NEW c \in Clients, RemoveSidecar(c), adapter = "local"
  PROVE  StorageInv'
<1> DEFINE old == client[c]
           q == [old EXCEPT !.pc = "done"]
<1>1. old \in Operation /\ Sound(old, content, sidecar) /\ ops \in Nat /\ errors \in Nat
  BY ClientSound
<1>2. /\ old.pc = "unlink sidecar" /\ Proceed(c, q, old.key) /\ sidecar' = [sidecar EXCEPT ![old.key] = Nothing]
      /\ tangled' = IF old.dirty THEN tangled \cup {old.key} ELSE tangled \ {old.key}
  BY DEF RemoveSidecar, At, Onward, Key, Settled
<1>3. q \in Operation
  BY <1>1 DEF Operation, StorageSteps
<1>4. /\ q.pc = "done" /\ q.op = old.op /\ q.key = old.key /\ q.dirty = old.dirty
      /\ q.steady = old.steady /\ q.listed = old.listed
  BY <1>1 DEF Operation
<1>5. old.key \in StorageKeys /\ old.op = "delete"
  BY <1>1, <1>2 DEF Sound, InItsPlace
<1>6. Steps(c, q, old.key)
  BY <1>2, <1>3, <1>5, ProceedSteps
<1> HIDE DEF q, old
<1>7. /\ content \in [StorageKeys -> Contents] /\ sidecar \in [StorageKeys -> Contents] /\ tangled \subseteq StorageKeys
      /\ UNCHANGED <<adapter, content, temps, ops, errors>>
  BY DEF StorageInv, StorageTypeOK, RemoveSidecar
<1>8. /\ sidecar' \in [StorageKeys -> Contents] /\ sidecar'[old.key] = Nothing /\ content' = content
      /\ \A k \in StorageKeys : k # old.key => content'[k] = content[k] /\ sidecar'[k] = sidecar[k]
  BY <1>2, <1>5, <1>7 DEF Contents
<1>9. ~ old.dirty => content[old.key] = Nothing
  BY <1>1, <1>2 DEF Sound, Relies
<1>10. Sound(q, content', sidecar')
  <2>1. InItsPlace(q)
    BY <1>1, <1>4, <1>5 DEF Sound, InItsPlace
  <2>2. Relies(q, content', sidecar')
    BY <1>4, <1>5 DEF Relies
  <2>3. Lists(q, content')
    BY <1>1, <1>4, <1>5 DEF Sound, Lists, InItsPlace
  <2> QED
    BY <2>1, <2>2, <2>3 DEF Sound
<1>11. ASSUME NEW k \in StorageKeys, k \notin tangled'
       PROVE  \/ sidecar'[k] = content'[k]
              \/ /\ k \notin tangled /\ content'[k] = content[k] /\ sidecar'[k] = sidecar[k]
                 /\ ~ (client[c].key = k /\ InBetween(client[c]))
  <2>1. CASE k = old.key
    BY <1>2, <1>8, <1>9, <1>11, <2>1
  <2>2. CASE k # old.key
    BY <1>2, <1>8, <1>11, <2>2 DEF old
  <2> QED
    BY <2>1, <2>2
<1>12. errors <= errors' /\ temps' \subseteq temps \cup {c} /\ ops' \in Nat /\ errors' \in Nat
  BY <1>1, <1>7
<1>13. errors' = 0 => c \notin temps'
  BY <1>2, <1>7 DEF old, StorageInv, TempsGo
<1>14. adapter' = adapter /\ adapter # "memory" /\ content' \in [StorageKeys -> Contents] /\ tangled' \subseteq StorageKeys
  BY <1>2, <1>5, <1>7
<1> QED
  BY <1>3, <1>5, <1>6, <1>8, <1>10, <1>11, <1>12, <1>13, <1>14, StorageStepSound

LEMMA MemorySound ==
  ASSUME StorageInv, NEW c \in Clients, Memory(c)
  PROVE  StorageInv'
<1> DEFINE old == client[c]
           now == content'[old.key]
           changed == IF old.op = "get" THEN Unkeyed ELSE old.key
           q == [[old EXCEPT !.pc = "done"] EXCEPT !.info = now, !.body = now]
<1>1. old \in Operation /\ Sound(old, content, sidecar) /\ ops \in Nat /\ errors \in Nat
  BY ClientSound
<1>2. /\ adapter = "memory" /\ old.pc \in {"write", "stat", "unlink"} /\ Proceed(c, q, changed)
      /\ content' = IF old.op = "get" THEN content ELSE [content EXCEPT ![old.key] = old.body]
      /\ sidecar' = content' /\ UNCHANGED <<adapter, temps, ops, errors, tangled>>
  BY DEF Memory, Onward
<1>3. old.key \in StorageKeys /\ old.op \in {"put", "get", "delete"} /\ old.body \in Contents
  BY <1>1, <1>2 DEF Sound, InItsPlace, Operation
<1>4. /\ content \in [StorageKeys -> Contents] /\ tangled \subseteq StorageKeys /\ sidecar = content
  BY <1>2 DEF StorageInv, StorageTypeOK
<1>5. /\ content' \in [StorageKeys -> Contents] /\ now \in Contents
      /\ \A k \in StorageKeys : k # changed => content'[k] = content[k] /\ sidecar'[k] = sidecar[k]
      /\ old.op = "put" => now = old.body
  <2>1. CASE old.op = "get"
    BY <1>2, <1>3, <1>4, <2>1
  <2>2. CASE old.op # "get"
    BY <1>2, <1>3, <1>4, <2>2
  <2> QED
    BY <2>1, <2>2
<1>6. changed \in StorageKeys \cup {Unkeyed}
  BY <1>3
<1> HIDE DEF now, changed
<1>7. q \in Operation
  BY <1>1, <1>5 DEF Operation, StorageSteps
<1>8. /\ q.pc = "done" /\ q.op = old.op /\ q.key = old.key /\ q.body = now /\ q.info = now
      /\ q.steady = old.steady /\ q.listed = old.listed
  BY <1>1 DEF Operation
<1>9. Steps(c, q, changed)
  BY <1>2, <1>6, <1>7, ProceedSteps
<1> HIDE DEF q, old
<1>10. Sound(q, content', sidecar')
  <2>1. InItsPlace(q)
    BY <1>1, <1>3, <1>5, <1>8 DEF Sound, InItsPlace
  <2>2. Relies(q, content', sidecar')
    BY <1>8 DEF Relies
  <2>3. Lists(q, content')
    BY <1>1, <1>3, <1>8 DEF Sound, Lists, InItsPlace
  <2> QED
    BY <2>1, <2>2, <2>3 DEF Sound
<1>11. /\ errors <= errors' /\ temps' \subseteq temps \cup {c} /\ ops' \in Nat /\ errors' \in Nat
       /\ errors' = 0 => c \notin temps'
  <2>1. errors' = errors /\ temps' = temps /\ ops' = ops /\ errors \in Nat /\ ops \in Nat
    BY <1>1, <1>2
  <2>2. errors = 0 => c \notin temps
    BY <1>2 DEF old, StorageInv, TempsGo
  <2> QED
    BY <2>1, <2>2
<1>12. adapter' = adapter /\ sidecar' \in [StorageKeys -> Contents] /\ tangled' \subseteq StorageKeys
  BY <1>2, <1>4, <1>5
<1>13. \A k \in StorageKeys : sidecar'[k] = content'[k]
  BY <1>2
<1> QED
  BY <1>2, <1>5, <1>6, <1>7, <1>9, <1>10, <1>11, <1>12, <1>13, StorageStepSound

LEMMA AnswersSound ==
  ASSUME StorageInv, NEW c \in Clients, Answers(c)
  PROVE  StorageInv'
<1>1. client[c].pc = "done" /\ Proceed(c, NoOp, Unkeyed)
  BY DEF Answers, At
<1>2. Steps(c, NoOp, Unkeyed)
  BY <1>1, NoOpSound, ProceedSteps
<1>3. ~ InBetween(client[c]) /\ (errors = 0 => c \notin temps)
  BY <1>1 DEF InBetween, StorageInv, TempsGo
<1>4. Sound(NoOp, content, sidecar) /\ NoOp \in Operation
  BY NoOpSound
<1>5. /\ UNCHANGED <<adapter, content, sidecar, tangled>> /\ temps' = temps
       /\ ops' \in Nat /\ errors' \in Nat /\ errors <= errors' /\ errors' = errors
  BY ClientSound DEF Answers
<1> QED
  BY <1>2, <1>3, <1>4, ClientSound, <1>5, QuietSound

\* The steps of a list.
LEMMA ListingStep ==
  ASSUME StorageInv, NEW c \in Clients, NEW q \in Operation,
         client[c].pc \in {"walk", "stat page"},
         Proceed(c, q, Unkeyed), UNCHANGED <<adapter, content, sidecar, temps, ops, errors, tangled>>,
         InItsPlace(q), q.op \in {"none", "list"}, q.pc \in {"idle", "walk", "stat page", "done"}, Lists(q, content)
  PROVE  StorageInv'
<1>1. Steps(c, q, Unkeyed)
  BY ProceedSteps
<1>2. Sound(q, content, sidecar)
  BY DEF Sound, Relies, InItsPlace
<1>3. ~ InBetween(client[c]) /\ (errors = 0 => c \notin temps)
  BY DEF InBetween, StorageInv, TempsGo
<1>4. ops' \in Nat /\ errors' \in Nat /\ errors <= errors' /\ errors' = errors /\ temps' = temps
  <2>1. ops \in Nat /\ errors \in Nat /\ errors <= errors
    BY ClientSound, Zenon
  <2>2. ops' = ops /\ errors' = errors /\ temps' = temps
    OBVIOUS
  <2> QED
    BY <2>1, <2>2, Zenon
<1> QED
  BY <1>1, <1>2, <1>3, <1>4, QuietSound

\* What the walk finds comes after what is listed.
LEMMA FoundLater ==
  ASSUME StorageInv, NEW c \in Clients, client[c].pc = "walk"
  PROVE  /\ Found(c) \in SUBSET StorageKeys
         /\ \A k \in Found(c) : After(k, client[c].listed)
         /\ \A k \in client[c].steady : k \in ToSet(client[c].listed) \/ k \in Found(c)
<1> DEFINE old == client[c]
           listed == old.listed
<1>1. old \in Operation /\ Lists(old, content) /\ old.pc = "walk"
  BY ClientSound DEF Sound
<1>2. listed \in Seq(StorageKeys) /\ old.steady \subseteq StorageKeys
  BY <1>1 DEF Operation
<1>3. Cursor(c) = IF listed = <<>> THEN 0 ELSE Last(listed)
  BY DEF Cursor
<1>4. Found(c) = {k \in StorageKeys : content[k] # Nothing /\ k > Cursor(c)}
  BY DEF Found
<1> HIDE DEF old
<1>5. /\ Ascending(listed)
      /\ \A k \in old.steady : content[k] # Nothing /\ (k \in ToSet(listed) \/ After(k, listed))
  BY <1>1 DEF Lists
<1> HIDE DEF listed
<1>6. CASE listed = <<>>
  <2>1. DOMAIN listed = {} /\ Cursor(c) = 0
    BY <1>3, <1>6
  <2>2. \A k \in StorageKeys : k > Cursor(c)
    BY <2>1, KeysAreNumbers
  <2>3. \A k : After(k, listed)
    BY <2>1 DEF After
  <2>4. \A k \in Found(c) : After(k, listed)
    BY <2>3
  <2>5. \A k \in old.steady : k \in StorageKeys /\ content[k] # Nothing /\ k > Cursor(c)
    BY <1>2, <1>5, <2>2
  <2>6. \A k \in old.steady : k \in Found(c)
    BY <1>4, <2>5
  <2> QED
    BY <1>4, <2>4, <2>6 DEF old, listed
<1>7. CASE listed # <<>>
  <2> DEFINE n == Len(listed)
  <2>1. n \in Nat \ {0} /\ DOMAIN listed = 1 .. n /\ n \in DOMAIN listed /\ listed[n] = Cursor(c)
        /\ \A m \in DOMAIN listed : listed[m] \in StorageKeys
    BY <1>2, <1>3, <1>7 DEF Last
  <2> HIDE DEF n
  <2>2. \A m \in DOMAIN listed : listed[m] <= Cursor(c) /\ listed[m] \in Nat /\ Cursor(c) \in Nat
    BY <1>5, <2>1, KeysAreNumbers DEF Ascending
  <2>3. \A k \in StorageKeys : k > Cursor(c) => After(k, listed)
    BY <2>2, KeysAreNumbers DEF After
  <2>4. \A k \in StorageKeys : After(k, listed) => k > Cursor(c)
    BY <2>1, <2>2, KeysAreNumbers DEF After
  <2>5. \A k \in Found(c) : After(k, listed)
    BY <1>4, <2>3
  <2>6. ASSUME NEW k \in old.steady, k \notin ToSet(listed) PROVE k \in Found(c)
    <3>1. k \in StorageKeys /\ content[k] # Nothing /\ After(k, listed)
      BY <1>2, <1>5, <2>6
    <3> QED
      BY <1>4, <2>4, <3>1
  <2> QED
    BY <1>4, <2>5, <2>6 DEF old, listed
<1> QED
  BY <1>6, <1>7

LEMMA WalkSound ==
  ASSUME StorageInv, NEW c \in Clients, Walk(c)
  PROVE  StorageInv'
<1> DEFINE old == client[c]
           found == Found(c)
           first == FirstOf(found)
           more == found # first
<1>1. old \in Operation /\ Sound(old, content, sidecar)
  BY ClientSound
<1>2. /\ old.pc = "walk" /\ UNCHANGED <<adapter, content, sidecar, temps, ops, errors, tangled>>
      /\ \E sorted \in [1 .. Cardinality(first) -> first] :
           /\ Ascending(sorted)
           /\ Proceed(c, [[old EXCEPT !.pc = "stat page"] EXCEPT
                !.keys = IF adapter = "memory" THEN <<>> ELSE sorted,
                !.page = IF adapter = "memory" THEN sorted ELSE <<>>,
                !.more = more], Unkeyed)
  BY DEF Walk, At, Onward
<1>3. /\ found \in SUBSET StorageKeys
      /\ \A k \in found : After(k, old.listed)
      /\ \A k \in old.steady : k \in ToSet(old.listed) \/ k \in found
  BY <1>2, FoundLater
<1>4. first \in SUBSET StorageKeys /\ first \subseteq found /\ \A k \in found \ first : \A j \in first : j < k
  BY <1>3, FirstFacts
<1>5. more \in BOOLEAN /\ (~ more => found = first)
  OBVIOUS
<1> HIDE DEF found, first, more
<1>6. PICK sorted \in [1 .. Cardinality(first) -> first] :
        /\ Ascending(sorted)
        /\ Proceed(c, [[old EXCEPT !.pc = "stat page"] EXCEPT
             !.keys = IF adapter = "memory" THEN <<>> ELSE sorted,
             !.page = IF adapter = "memory" THEN sorted ELSE <<>>,
             !.more = more], Unkeyed)
  BY <1>2
<1>7. sorted \in Seq(StorageKeys) /\ ToSet(sorted) = first
  BY <1>4, <1>6, SortedKeys
<1> DEFINE keys == IF adapter = "memory" THEN <<>> ELSE sorted
           page == IF adapter = "memory" THEN sorted ELSE <<>>
           q == [[old EXCEPT !.pc = "stat page"] EXCEPT !.keys = keys, !.page = page, !.more = more]
<1>8. keys \in Seq(StorageKeys) /\ page \in Seq(StorageKeys)
  BY <1>7
<1>9. \A k : After(k, sorted) => After(k, keys) /\ After(k, page)
  BY DEF After
<1>10. /\ Ascending(page) /\ Ascending(keys) /\ Below(page, keys)
       /\ Below(old.listed, sorted) => Below(old.listed, page) /\ Below(old.listed, keys)
  BY <1>6 DEF Ascending, Below
<1>11. \A k \in first : k \in ToSet(page) \/ k \in ToSet(keys)
  BY <1>7
<1>12. Proceed(c, q, Unkeyed)
  BY <1>6
<1> HIDE DEF keys, page
<1>13. q \in Operation
  BY <1>1, <1>5, <1>8 DEF Operation, StorageSteps
<1>14. /\ q.pc = "stat page" /\ q.op = old.op /\ q.key = old.key /\ q.body = old.body /\ q.info = old.info
       /\ q.steady = old.steady /\ q.listed = old.listed /\ q.keys = keys /\ q.page = page /\ q.more = more
  BY <1>1 DEF Operation
<1> HIDE DEF q
<1>15. Below(old.listed, sorted)
  <2>1. \A n \in DOMAIN sorted : sorted[n] \in found
    BY <1>4, <1>6
  <2> QED
    BY <1>3, <2>1 DEF After, Below
<1>16. ASSUME NEW k \in old.steady
       PROVE  \/ k \in ToSet(old.listed) \/ k \in ToSet(page) \/ k \in ToSet(keys)
              \/ more /\ After(k, old.listed) /\ After(k, page) /\ After(k, keys)
  <2>1. CASE k \in ToSet(old.listed) \/ k \in first
    BY <1>11, <2>1
  <2>2. CASE k \notin ToSet(old.listed) /\ k \notin first
    <3>1. k \in found \ first /\ more
      BY <1>3, <1>5, <2>2
    <3>2. After(k, sorted)
      BY <1>4, <1>6, <3>1 DEF After
    <3> QED
      BY <1>3, <1>9, <3>1, <3>2
  <2> QED
    BY <2>1, <2>2
<1>17. Lists(q, content)
  <2>1. Ascending(old.listed) /\ \A k \in old.steady : content[k] # Nothing
    BY <1>1 DEF Sound, Lists
  <2>2. Below(old.listed, page) /\ Below(old.listed, keys)
    BY <1>10, <1>15
  <2> QED
    BY <1>10, <1>14, <1>16, <2>1, <2>2 DEF Lists
<1>18. InItsPlace(q) /\ q.op = "list"
  BY <1>1, <1>2, <1>14 DEF Sound, InItsPlace
<1> QED
  BY <1>2, <1>12, <1>13, <1>14, <1>17, <1>18, ListingStep

LEMMA StatListedSound ==
  ASSUME StorageInv, NEW c \in Clients, StatListed(c)
  PROVE  StorageInv'
<1> DEFINE old == client[c]
           k0 == Head(old.keys)
           left == Tail(old.keys)
           page == IF content[k0] = Nothing THEN old.page ELSE Append(old.page, k0)
           q == [old EXCEPT !.keys = left, !.page = page]
<1>1. old \in Operation /\ Sound(old, content, sidecar)
  BY ClientSound
<1>2. /\ old.pc = "stat page" /\ old.keys # <<>> /\ UNCHANGED <<adapter, content, sidecar, temps, ops, errors, tangled>>
      /\ Proceed(c, q, Unkeyed)
  BY DEF StatListed, At, PageOf
<1>3. /\ old.keys \in Seq(StorageKeys) /\ old.page \in Seq(StorageKeys) /\ old.steady \subseteq StorageKeys
      /\ old.listed \in Seq(StorageKeys)
  BY <1>1 DEF Operation
<1>4. k0 \in StorageKeys /\ left \in Seq(StorageKeys) /\ ToSet(old.keys) = ToSet(left) \cup {k0}
  BY <1>2, <1>3, Shortened
<1>5. /\ Ascending(old.listed) /\ Ascending(old.page) /\ Ascending(old.keys)
      /\ Below(old.listed, old.page) /\ Below(old.listed, old.keys) /\ Below(old.page, old.keys)
      /\ \A k \in old.steady :
           /\ content[k] # Nothing
           /\ \/ k \in ToSet(old.listed) \/ k \in ToSet(old.page) \/ k \in ToSet(old.keys)
              \/ old.more /\ After(k, old.listed) /\ After(k, old.page) /\ After(k, old.keys)
  BY <1>1, <1>2 DEF Sound, Lists
<1> HIDE DEF old
<1>6. /\ Ascending(left) /\ \A n \in DOMAIN left : k0 < left[n]
      /\ \A t : Below(t, old.keys) => Below(t, left) /\ \A n \in DOMAIN t : t[n] < k0
      /\ \A k : After(k, old.keys) => After(k, left) /\ k0 < k
  BY <1>2, <1>3, <1>5, ShortenedKeys
<1>7. After(k0, old.page) /\ \A n \in DOMAIN old.listed : old.listed[n] < k0
  BY <1>5, <1>6 DEF After
<1> HIDE DEF k0, left
<1> DEFINE longer == Append(old.page, k0)
<1>8. /\ Ascending(longer)
      /\ \A j : After(j, old.page) /\ k0 < j => After(j, longer)
      /\ \A t : Below(old.page, t) /\ (\A n \in DOMAIN t : k0 < t[n]) => Below(longer, t)
      /\ \A t : Below(t, old.page) /\ (\A n \in DOMAIN t : t[n] < k0) => Below(t, longer)
  BY <1>3, <1>4, <1>5, <1>7, AppendedKey
<1>9. longer \in Seq(StorageKeys) /\ ToSet(longer) = ToSet(old.page) \cup {k0}
  BY <1>3, <1>4, Appended
<1> HIDE DEF longer
<1>10. page = IF content[k0] = Nothing THEN old.page ELSE longer
  BY DEF longer
<1> HIDE DEF page
<1>11. page \in Seq(StorageKeys)
  BY <1>3, <1>9, <1>10
<1>12. /\ Ascending(page) /\ Below(old.listed, page) /\ Below(page, left)
       /\ \A k : After(k, old.page) /\ k0 < k => After(k, page)
  BY <1>5, <1>6, <1>7, <1>8, <1>10
<1>13. \A k \in old.steady : k \in ToSet(old.page) \/ k = k0 => k \in ToSet(page)
  BY <1>5, <1>9, <1>10
<1>14. q \in Operation
  BY <1>1, <1>4, <1>11 DEF Operation
<1>15. /\ q.pc = "stat page" /\ q.op = old.op /\ q.key = old.key /\ q.body = old.body /\ q.info = old.info
       /\ q.steady = old.steady /\ q.listed = old.listed /\ q.keys = left /\ q.page = page /\ q.more = old.more
  BY <1>1, <1>2 DEF Operation
<1> HIDE DEF q
<1>16. ASSUME NEW k \in q.steady
       PROVE  \/ k \in ToSet(q.listed) \/ k \in ToSet(q.page) \/ k \in ToSet(q.keys)
              \/ q.more /\ After(k, q.listed) /\ After(k, q.page) /\ After(k, q.keys)
  <2>1. k \in old.steady
    BY <1>15
  <2>2. CASE k \in ToSet(old.listed) \/ k \in ToSet(old.page) \/ k \in ToSet(old.keys)
    BY <1>4, <1>13, <1>15, <2>1, <2>2
  <2>3. CASE old.more /\ After(k, old.listed) /\ After(k, old.page) /\ After(k, old.keys)
    BY <1>6, <1>12, <1>15, <2>3
  <2> QED
    BY <1>5, <2>1, <2>2, <2>3
<1>17. Lists(q, content)
  <2>1. Below(old.listed, left) /\ Below(page, left) /\ Ascending(left)
    BY <1>5, <1>6, <1>12
  <2> QED
    BY <1>5, <1>12, <1>15, <1>16, <2>1 DEF Lists
<1>18. InItsPlace(q) /\ q.op = "list"
  BY <1>1, <1>2, <1>15 DEF Sound, InItsPlace
<1>19. client[c].pc = "stat page"
  BY <1>2 DEF old
<1> QED
  BY <1>2, <1>14, <1>15, <1>17, <1>18, <1>19, ListingStep

LEMMA PageEndsSound ==
  ASSUME StorageInv, NEW c \in Clients, PageEnds(c)
  PROVE  StorageInv'
<1> DEFINE old == client[c]
           next == IF old.more THEN "walk" ELSE "done"
           longer == old.listed \o old.page
           q == [[old EXCEPT !.pc = next] EXCEPT !.listed = longer]
<1>1. old \in Operation /\ Sound(old, content, sidecar)
  BY ClientSound
<1>2. /\ old.pc = "stat page" /\ old.keys = <<>> /\ UNCHANGED <<adapter, content, sidecar, temps, ops, errors, tangled>>
      /\ IF old.more /\ old.page = <<>> THEN Proceed(c, NoOp, Unkeyed) ELSE Proceed(c, q, Unkeyed)
  BY DEF PageEnds, At, Onward
<1>3. CASE old.more /\ old.page = <<>>
  <2>1. /\ NoOp \in Operation /\ InItsPlace(NoOp) /\ Lists(NoOp, content)
        /\ NoOp.op = "none" /\ NoOp.pc = "idle"
    BY NoOpSound DEF Sound
  <2> QED
    BY <1>2, <1>3, <2>1, ListingStep
<1>4. CASE ~ (old.more /\ old.page = <<>>)
  <2>1. /\ old.page \in Seq(StorageKeys) /\ old.steady \subseteq StorageKeys /\ old.listed \in Seq(StorageKeys)
        /\ old.more \in BOOLEAN
    BY <1>1 DEF Operation
  <2>2. /\ Ascending(old.listed) /\ Ascending(old.page) /\ Below(old.listed, old.page)
        /\ \A k \in old.steady :
             /\ content[k] # Nothing
             /\ \/ k \in ToSet(old.listed) \/ k \in ToSet(old.page) \/ k \in ToSet(old.keys)
                \/ old.more /\ After(k, old.listed) /\ After(k, old.page)
    BY <1>1, <1>2 DEF Sound, Lists
  <2>3. ToSet(old.keys) = {}
    <3>1. old.keys = <<>>
      BY <1>2, Zenon
    <3>2. DOMAIN <<>> = {}
      OBVIOUS
    <3> QED
      BY <3>1, <3>2, Zenon DEF ToSet
  <2>4. Proceed(c, q, Unkeyed)
    BY <1>2, <1>4
  <2> HIDE DEF old
  <2>5. /\ longer \in Seq(StorageKeys) /\ ToSet(longer) = ToSet(old.listed) \cup ToSet(old.page)
        /\ Ascending(longer)
        /\ \A k : After(k, old.listed) /\ After(k, old.page) => After(k, longer)
    BY <2>1, <2>2, JoinedKeys
  <2> HIDE DEF longer, next
  <2>6. q \in Operation
    BY <1>1, <2>5 DEF Operation, StorageSteps, next
  <2>7. /\ q.pc = next /\ q.op = old.op /\ q.key = old.key /\ q.body = old.body /\ q.info = old.info
        /\ q.steady = old.steady /\ q.listed = longer
    BY <1>1 DEF Operation
  <2> HIDE DEF q
  <2>8. \A k \in old.steady : k \in ToSet(longer) \/ (old.more /\ After(k, longer))
    BY <2>2, <2>3, <2>5
  <2>9. Lists(q, content)
    BY <2>2, <2>5, <2>7, <2>8 DEF Lists, next
  <2>10. InItsPlace(q) /\ q.op = "list" /\ q.pc \in {"walk", "done"}
    BY <1>1, <1>2, <2>7 DEF Sound, InItsPlace, next
  <2>11. client[c].pc = "stat page"
    BY <1>2 DEF old
  <2> QED
    BY <1>2, <2>4, <2>6, <2>9, <2>10, <2>11, ListingStep
<1> QED
  BY <1>3, <1>4

\* The beginnings of operations, and the end of the process.
BegunWith(c, q) == client' = [client EXCEPT ![c] = q]

LEMMA BeginSound ==
  ASSUME StorageInv, NEW c \in Clients, NEW q \in Operation, BegunWith(c, q),
         client[c].pc = "idle", q.pc \in {"write", "stat", "unlink", "walk"},
         UNCHANGED <<adapter, content, sidecar, temps, errors, tangled>>, ops' = ops + 1,
         Sound(q, content, sidecar)
  PROVE  StorageInv'
<1>1. client \in [Clients -> Operation] /\ ops \in Nat /\ errors \in Nat
  BY DEF StorageInv, StorageTypeOK
<1>2. client' \in [Clients -> Operation] /\ client'[c] = q /\ \A o \in Clients \ {c} : client'[o] = client[o]
  BY <1>1 DEF BegunWith
<1>3. ASSUME NEW o \in Clients \ {c} PROVE Follows(client[o], client'[o], Unkeyed, content')
  <2>1. client'[o] = client[o] /\ Lists(client[o], content)
    BY <1>2 DEF StorageInv, Sound
  <2> QED
    BY <2>1 DEF Follows, Lists
<1>4. Steps(c, q, Unkeyed)
  BY <1>2, <1>3 DEF Steps
<1>5. ~ InBetween(client[c]) /\ (errors = 0 => c \notin temps)
  BY DEF InBetween, StorageInv, TempsGo
<1>6. ops' \in Nat /\ errors' \in Nat /\ errors <= errors' /\ errors' = errors /\ temps' = temps
  BY <1>1
<1> QED
  BY <1>4, <1>5, <1>6, QuietSound

\* A get begins undisturbed only when its key's file and sidecar belong together.
LEMMA BeginsSound ==
  ASSUME StorageInv, NEW c \in Clients, Begins(c)
  PROVE  StorageInv'
<1>0. UNCHANGED <<adapter, content, sidecar, temps, errors, tangled>>
  BY Zenon DEF Begins
<1>1. ASSUME NEW op \in {"put", "get", "delete", "list"}, NEW k \in StorageKeys \cup {Unkeyed},
             NEW b \in Contents, NEW pc \in {"write", "stat", "unlink", "walk"}, Begin(c, op, k, b, pc),
             op = "put" <=> pc = "write", op = "get" <=> pc = "stat",
             op = "delete" <=> pc = "unlink", op = "list" <=> pc = "walk",
             k = Unkeyed <=> op = "list",
             op = "put" => b \in Bodies, op # "put" => b = Nothing
      PROVE  StorageInv'
  <2> DEFINE disturbed == op = "get" /\ (k \in tangled \/ \E o \in Others(c, k) : Between(o))
             there == IF op = "list" THEN {x \in StorageKeys : content[x] # Nothing} ELSE {}
             q == [NoOp EXCEPT !.pc = pc, !.op = op, !.key = k, !.body = b, !.dirty = disturbed, !.steady = there]
  <2>1. client[c].pc = "idle" /\ ops' = ops + 1 /\ BegunWith(c, q)
    BY <1>1 DEF Begin, At, BegunWith
  <2>2. client[c].key = Unkeyed
    BY <2>1, ClientSound DEF Sound, InItsPlace
  <2>3. ~ disturbed /\ op = "get" => content[k] = sidecar[k]
    <3> SUFFICES ASSUME ~ disturbed, op = "get" PROVE content[k] = sidecar[k]
      OBVIOUS
    <3>1. k \in StorageKeys /\ k # Unkeyed /\ k \notin tangled
      BY <1>1, KeysAreNumbers
    <3>2. \A o \in Clients : Key(o) = k => ~ Between(o)
      BY <2>2, <3>1 DEF Others, Key
    <3> QED
      BY <3>1, <3>2 DEF StorageInv, Paired
  <2>4. disturbed \in BOOLEAN /\ there \subseteq StorageKeys /\ \A x \in there : content[x] # Nothing
    OBVIOUS
  <2>5. op # "list" => there = {}
    OBVIOUS
  <2> HIDE DEF disturbed, there
  <2>6. q \in Operation
    BY <1>1, <2>4, NoOpSound DEF Operation, StorageSteps, Contents
  <2>7. /\ q.pc = pc /\ q.op = op /\ q.key = k /\ q.body = b /\ q.info = Nothing
        /\ q.dirty = disturbed /\ q.steady = there /\ q.listed = <<>>
    BY DEF NoOp
  <2> HIDE DEF q
  <2>8. InItsPlace(q)
    BY <1>1, <2>5, <2>7 DEF InItsPlace
  <2>9. Relies(q, content, sidecar)
    BY <1>1, <2>3, <2>7 DEF Relies
  <2>10. Lists(q, content)
    <3>1. Ascending(<<>>) /\ \A k2 : After(k2, <<>>)
      BY DEF Ascending, After
    <3> QED
      BY <1>1, <2>4, <2>7, <3>1 DEF Lists
  <2>11. Sound(q, content, sidecar)
    BY <2>8, <2>9, <2>10 DEF Sound
  <2>12. q.pc \in {"write", "stat", "unlink", "walk"}
    BY <2>7
  <2> QED
    BY <1>0, <2>1, <2>6, <2>11, <2>12, BeginSound
<1>2. ASSUME NEW k \in StorageKeys, NEW b \in Bodies, Begin(c, "put", k, b, "write") PROVE StorageInv'
  BY <1>1, <1>2, KeysAreNumbers DEF Contents
<1>3. ASSUME NEW k \in StorageKeys, Begin(c, "get", k, Nothing, "stat") PROVE StorageInv'
  BY <1>1, <1>3, KeysAreNumbers DEF Contents
<1>4. ASSUME NEW k \in StorageKeys, Begin(c, "delete", k, Nothing, "unlink") PROVE StorageInv'
  BY <1>1, <1>4, KeysAreNumbers DEF Contents
<1>5. ASSUME Begin(c, "list", Unkeyed, Nothing, "walk") PROVE StorageInv'
  BY <1>1, <1>5, KeysAreNumbers DEF Contents
<1> QED
  BY <1>2, <1>3, <1>4, <1>5, Zenon DEF Begins

LEMMA StorageDiesSound ==
  ASSUME StorageInv, StorageDies
  PROVE  StorageInv'
<1>1. /\ errors' = errors + 1 /\ client' = [c \in Clients |-> NoOp] /\ UNCHANGED <<adapter, temps, ops>>
      /\ tangled' = tangled \cup {Key(c) : c \in {c \in Clients : Between(c)}}
  BY DEF StorageDies
<1>2. /\ adapter \in {"local", "memory"} /\ content \in [StorageKeys -> Contents] /\ sidecar \in [StorageKeys -> Contents]
      /\ temps \subseteq Clients /\ ops \in Nat /\ errors \in Nat /\ tangled \subseteq StorageKeys
  BY DEF StorageInv, StorageTypeOK
<1>3. \A c \in Clients : Between(c) => Key(c) \in StorageKeys
  BY DEF StorageInv, Sound, InItsPlace, Between, At, Key
<1>4. CASE adapter = "memory"
  <2>1. content' = [k \in StorageKeys |-> Nothing] /\ sidecar' = content'
    BY <1>4 DEF StorageDies
  <2> QED
    <3>1. content' \in [StorageKeys -> Contents] /\ sidecar' \in [StorageKeys -> Contents]
      BY <2>1 DEF Contents
    <3>2. tangled' \subseteq StorageKeys
      BY <1>1, <1>2, <1>3
    <3>3. StorageTypeOK'
      BY <1>1, <1>2, <3>1, <3>2, NoOpSound DEF StorageTypeOK
    <3>4. \A c \in Clients : Sound(client'[c], content', sidecar')
      BY <1>1, NoOpSound
    <3>5. Paired' /\ TempsGo'
      BY <1>1, <1>2, <2>1 DEF Paired, TempsGo
    <3> QED
      BY <2>1, <3>3, <3>4, <3>5 DEF StorageInv
<1>5. CASE adapter # "memory"
  <2>1. content' = content /\ sidecar' = sidecar
    BY <1>5 DEF StorageDies
  <2>2. tangled' \subseteq StorageKeys
    BY <1>1, <1>2, <1>3
  <2>3. StorageTypeOK'
    BY <1>1, <1>2, <2>1, <2>2, NoOpSound DEF StorageTypeOK
  <2>4. \A c \in Clients : Sound(client'[c], content', sidecar')
    BY <1>1, NoOpSound
  <2>5. TempsGo'
    BY <1>1, <1>2 DEF TempsGo
  <2>6. Paired'
    <3> SUFFICES ASSUME NEW k \in StorageKeys, k \notin tangled' PROVE sidecar'[k] = content'[k]
      BY DEF Paired
    <3>1. k \notin tangled /\ \A c \in Clients : Key(c) = k => ~ Between(c)
      BY <1>1
    <3> QED
      BY <2>1, <3>1 DEF StorageInv, Paired
  <2> QED
    BY <1>1, <1>5, <2>3, <2>4, <2>5, <2>6 DEF StorageInv
<1> QED
  BY <1>4, <1>5

LEMMA StorageInitHolds == StorageInit => StorageInv
<1> SUFFICES ASSUME StorageInit PROVE StorageInv
  OBVIOUS
<1>1. /\ adapter \in {"local", "memory"} /\ sidecar = content
      /\ \E b \in Bodies : content \in {[k \in StorageKeys |-> b], [k \in StorageKeys |-> Nothing]}
      /\ temps = {} /\ client = [c \in Clients |-> NoOp] /\ ops = 0 /\ errors = 0 /\ tangled = {}
  BY DEF StorageInit
<1>2. content \in [StorageKeys -> Contents]
  BY <1>1 DEF Contents
<1>3. StorageTypeOK
  BY <1>1, <1>2, NoOpSound DEF StorageTypeOK
<1>4. \A c \in Clients : Sound(client[c], content, sidecar)
  BY <1>1, NoOpSound
<1>5. Paired /\ TempsGo
  BY <1>1 DEF Paired, TempsGo
<1> QED
  BY <1>1, <1>3, <1>4, <1>5 DEF StorageInv

StorageSpec == StorageInit /\ [][StorageNext]_storageVars

LEMMA StorageStutters == StorageInv /\ UNCHANGED storageVars => StorageInv'
BY DEF storageVars, StorageInv, StorageTypeOK, Paired, TempsGo, Between, At, Key

LEMMA StorageStepsHold == StorageInv /\ [StorageNext]_storageVars => StorageInv'
<1> SUFFICES ASSUME StorageInv, [StorageNext]_storageVars PROVE StorageInv'
  OBVIOUS
<1>1. ASSUME NEW c \in Clients, Local(c) PROVE StorageInv'
  BY <1>1, WriteFileSound, WriteSidecarSound, RenameSound, PutFailsSound, StatSound, ReadSidecarSound,
     ReadBodySound, RemoveFileSound, RemoveSidecarSound DEF Local
<1> QED
  BY <1>1, BeginsSound, MemorySound, AnswersSound, WalkSound, StatListedSound, PageEndsSound, StorageDiesSound,
     StorageStutters DEF StorageNext

LEMMA StorageInvHolds == StorageInv => StorageHolds
<1> SUFFICES ASSUME StorageInv PROVE StorageHolds
  OBVIOUS
<1>1. Described
  BY DEF StorageInv, Sound, Relies, Described, At
<1>2. ListsAll
  BY DEF StorageInv, Sound, Lists, ListsAll, At
<1> QED
  BY <1>1, <1>2, UrlsHold, RangesHold DEF StorageHolds, StorageInv

\* Whatever keys, clients and page size, however puts, gets, deletes and lists overlap, fail
\* or die: a file and its sidecar belong together and an answer tells what was stored unless
\* operations on that key overlapped, and a list's pages leave no key out (local.ts, memory.ts).
THEOREM StorageCorrect == StorageSpec => []StorageHolds
<1>1. StorageSpec => []StorageInv
  BY StorageInitHolds, StorageStepsHold, PTL DEF StorageSpec
<1> QED
  BY <1>1, StorageInvHolds, PTL
=============================================================================

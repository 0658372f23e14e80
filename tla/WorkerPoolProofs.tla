--------------------------- MODULE WorkerPoolProofs ---------------------------
(***************************************************************************)
(* Proofs about WorkerPool, for any jobs, workers, durations and faults:   *)
(* type correctness, the refinement of JobLifecycle, what the map of jobs  *)
(* in flight knows, how long a stop takes and when a key is free again;    *)
(* and, when the lease is long enough, that an execution holds its job     *)
(* until its outcome is stored, that no job is tried too often and none is *)
(* lost, but for the jobs whose entry in the map was replaced.             *)
(***************************************************************************)
EXTENDS WorkerPool, JobTableLemmas, FiniteSetTheorems

-----------------------------------------------------------------------------
\* Types, and what they need.

Live(w) == phase[w] \in {"up", "draining", "releasing"}

\* Only finitely many jobs have been dispatched, so what is counted can be.
Dispatched(js) == {j \in Ids : js[j].state # "unborn"}
FewJobs == IsFiniteSet(Dispatched(jobs))

\* No execution, map entry, awaited pair or replaced entry is ahead of the claims.
Counted ==
  /\ \A j \in Ids : claims[j] > 0 => jobs[j].state # "unborn"
  /\ \A w \in Workers, j \in Ids : inFlight[w][j] <= claims[j]
  /\ \A r \in runs : r.n \in 1 .. claims[r.j]
  /\ \A w \in Workers : \A p \in awaited[w] : p[2] <= claims[p[1]]
  /\ \A w \in Workers : \A j \in replaced[w] : claims[j] > 0

\* A process that does not run has nothing under way.
Resting ==
  \A w \in Workers :
    /\ ~Live(w) => RunsOf(w) = {} /\ loop[w].pc = "exited" /\ renewal[w].ids = {} /\ inFlight[w] = NoEntries
    /\ Live(w) => renewal[w].next >= RenewEvery

Agreeing == \A j \in Ids : Agrees(jobs[j])

TypeInv == TypeOK /\ Agreeing /\ FewJobs /\ Counted /\ Resting

-----------------------------------------------------------------------------
\* What the map of jobs in flight knows.

\* Executions are told apart by job and claim; an entry belongs to one of them, and one
\* whose entry is missing shares its job with an execution whose entry was replaced.
Entries ==
  /\ \A w \in Workers, j \in Ids :
       inFlight[w][j] # 0 => \E r \in runs : r.w = w /\ r.j = j /\ r.n = inFlight[w][j]
  /\ \A r \in runs : inFlight[r.w][r.j] = r.n \/ r.j \in replaced[r.w]
  /\ \A r, s \in runs : r.j = s.j /\ r.n = s.n => r = s

\* A worker with room for one claims when it has nothing in flight.
Alone(w) ==
  Concurrency[w] = 1 => /\ replaced[w] = {}
                        /\ loop[w].pc = "claiming" => \A j \in Ids : inFlight[w][j] = 0

\* A full worker waits for as many executions as it has room for, of different jobs.
Crowd(w) ==
  loop[w].pc = "full" => /\ IsFiniteSet(loop[w].racing)
                         /\ Cardinality(loop[w].racing) = Concurrency[w]
                         /\ \A p, q \in loop[w].racing : p[1] = q[1] => p = q

MapInv == Entries /\ \A w \in Workers : Alone(w) /\ Crowd(w)

-----------------------------------------------------------------------------
\* Where the clock can be.

RenewalTime(w) ==
  Live(w) =>
    /\ renewal[w].next <= now + RenewEvery
    /\ phase[w] = "up" => now <= renewal[w].next
    /\ renewal[w].ids # {} => now <= RenewedAt(w) + RoundTrip

ClaimTime(w) ==
  loop[w].pc = "claiming" =>
    /\ Live(w)
    /\ loop[w].at <= now /\ now <= loop[w].at + RoundTrip
    /\ Stopping(w) => loop[w].at + Grace <= deadline[w]

\* An awaited execution was settled within the grace, or is about to be: it was aborted.
Ends(r, d) == IF r.outcome = "none" THEN r.aborted /\ now <= d ELSE r.at <= d

\* What is left of a stop that takes longer: the loop waits for executions that lost their
\* entries, and every execution that has one was awaited, and ended.
Left(w) ==
  /\ Cardinality(replaced[w]) >= Concurrency[w]
  /\ Tracked(w) \subseteq awaited[w]
  /\ loop[w].pc \notin {"claiming", "asleep"}

Window(w) ==
  Stopping(w) => /\ deadline[w] <= now + Grace /\ deadline[w] <= renewal[w].next + Grace
                 /\ phase[w] = "draining" => now <= deadline[w]

Winding(w) ==
  phase[w] = "releasing" =>
    /\ Prompt(w) \/ Left(w)
    /\ \A r \in RunsOf(w) : <<r.j, r.n>> \in awaited[w] => Ends(r, deadline[w])

\* A sleep of a stopping worker began with the answer to a claim made before the stop.
Nap(w) ==
  Stopping(w) /\ loop[w].pc = "asleep" => /\ loop[w].at <= now /\ now <= loop[w].at + PollMax
                                          /\ loop[w].at + Grace <= deadline[w] + RoundTrip

Waits(w) == Stopping(w) /\ loop[w].pc = "full" => Tracked(w) \subseteq awaited[w]

StopTime(w) == Window(w) /\ Winding(w) /\ Nap(w) /\ Waits(w)

RunTime(r) ==
  /\ r.until <= now + Timeout
  /\ r.outcome = "none" => now <= r.until
  /\ r.outcome # "none" => r.at <= now /\ now <= r.at + RoundTrip /\ r.at <= r.until

Times == /\ \A w \in Workers : RenewalTime(w) /\ ClaimTime(w) /\ StopTime(w)
         /\ \A r \in runs : RunTime(r)

-----------------------------------------------------------------------------
\* The lease is long enough for a handler without any renewal; or for every renewal that
\* may fail, one that succeeds, and what a job may still run when stop() has cleared the
\* timer.
Failing == IF "renew" \in Faults THEN MaxFaults ELSE 0

LeaseSuffices ==
  \/ Timeout + 2 * RoundTrip <= Lease
  \/ /\ (Failing + 1) * RenewEvery + 2 * RoundTrip + Grace <= Lease
     /\ (Failing + 1) * RenewEvery + 2 * RoundTrip + PollMax <= Lease

\* An execution that has its job to itself: its outcome is not stored yet, and no entry of
\* the job was replaced in its worker's map.
Owns(r) == r.outcome # "stored" /\ r.j \notin replaced[r.w]

\* Such an execution holds its job, for the last claim of it.
Exact ==
  \A r \in runs : Owns(r) => /\ Holds(jobs, r.w, r.j) /\ jobs[r.j].attempt = r.attempt
                             /\ claims[r.j] = r.n

\* The renewals lost so far.
Lost == IF "renew" \in Faults THEN faults * RenewEvery ELSE 0

\* A lock was set when its job was claimed, and with every renewal since.
Locked(r) ==
  /\ r.until + Lease <= jobs[r.j].lockedUntil + Timeout + RoundTrip
  /\ renewal[r.w].next + Lease <=
       jobs[r.j].lockedUntil + RenewEvery + RoundTrip + Lost
         + (IF r.j \in renewal[r.w].ids THEN RenewEvery ELSE 0)

AllLocked == \A r \in runs : Owns(r) => Locked(r)

Retriable == \A r \in runs : r.outcome = "retry" => r.attempt < MaxAttempts[r.j]

LeaseInv == Exact /\ AllLocked /\ TriesLeft /\ Retriable

-----------------------------------------------------------------------------
\* A key stays taken for its window.
Windows ==
  \A j \in Ids : Keep(j) /\ ended[j] # NoTime =>
    \/ jobs[j].state = "completed" /\ jobs[j].finishedAt = ended[j]
    \/ jobs[j].state = "gone" /\ now > ended[j] + IdemWindow

-----------------------------------------------------------------------------
\* What the worker's calls do to the table: it stays good, rows move along the
\* lifecycle, and no job is born.

Turns(js, ks) ==
  /\ GoodTable(ks) /\ Moves(js, ks)
  /\ \A j \in Ids : js[j].state = "unborn" => ks[j] = js[j]

LEMMA ClaimedTurns ==
  ASSUME NEW js, GoodTable(js), NEW w \in Workers, NEW until \in Nat, NEW now0, NEW limit
  PROVE  LET S == Claimable(js, w, now0, limit) IN Turns(js, Claimed(js, w, S, until))
<1> DEFINE S == Claimable(js, w, now0, limit)
<1>1. \A j \in S : js[j].state = "pending"
  BY ClaimableDue
<1>2. \A j \in Ids : js[j].state = "unborn" => Claimed(js, w, S, until)[j] = js[j]
  BY <1>1 DEF Claimed
<1> HIDE DEF S
<1>3. Turns(js, Claimed(js, w, S, until))
  BY <1>1, <1>2, ClaimedGood, ClaimedMoves DEF Turns
<1> QED
  BY <1>3 DEF S

LEMMA RenewedTurns ==
  ASSUME NEW js, GoodTable(js), NEW w, NEW S, NEW until \in Nat
  PROVE  Turns(js, Renewed(js, w, S, until))
<1>1. \A j \in Ids : js[j].state = "unborn" => Renewed(js, w, S, until)[j] = js[j]
  BY DEF Renewed, Holds
<1> QED
  BY <1>1, RenewedGood, RenewedMoves DEF Turns

LEMMA CompletedTurns ==
  ASSUME NEW js, GoodTable(js), NEW w, NEW j \in Ids, NEW keep \in BOOLEAN,
         NEW outcome \in Outcomes, NEW at \in Nat, NEW runAt \in Nat
  PROVE  Turns(js, Completed(js, w, j, keep, outcome, at, runAt))
<1>1. \A i \in Ids : js[i].state = "unborn" => Completed(js, w, j, keep, outcome, at, runAt)[i] = js[i]
  BY DEF Completed, Holds, GoodTable
<1> QED
  BY <1>1, CompletedGood, CompletedMoves DEF Turns

LEMMA RetriedTurns ==
  ASSUME NEW js, GoodTable(js), NEW S, NEW t \in Nat
  PROVE  Turns(js, Retried(js, S, t))
<1>1. \A i \in Ids : js[i].state = "unborn" => Retried(js, S, t)[i] = js[i]
  BY DEF Retried
<1> QED
  BY <1>1, RetriedGood, RetriedMoves DEF Turns

\* Maintenance finds each job for one of its reasons only: what it requeues is not yet
\* old enough to be purged.
Outdated(js, t) ==
  {j \in Ids : \/ js[j].state = "completed" /\ js[j].finishedAt < t - IdemWindow
               \/ js[j].state = "dead" /\ js[j].finishedAt < t - DeadRetention}

LEMMA MaintainedRows ==
  ASSUME NEW js, GoodTable(js), NEW t \in Nat, NEW j \in Ids
  PROVE  Maintained(js, t)[j] = IF j \in Expired(js, t) THEN Requeued(js, t)[j]
                                ELSE IF j \in Outdated(js, t) THEN NoRow("gone")
                                ELSE js[j]
<1> DEFINE q == Requeued(js, t)
           p == Purged(q, "completed", t - IdemWindow)
           m == Purged(p, "dead", t - DeadRetention)
<1>n. IdemWindow \in Nat /\ DeadRetention \in Nat
  BY DurationsAssumption DEF Durations
<1>1. js[j] \in Row /\ (js[j].state \in Finished => js[j].finishedAt # NoTime)
  BY DEF GoodTable, Agrees
<1>2. CASE j \in Expired(js, t)
  <2>1. q[j].state = "pending" \/ (q[j].state = "dead" /\ q[j].finishedAt = t)
    BY <1>1, <1>2 DEF Requeued, Row, Unlocked
  <2>2. p[j] = q[j] /\ m[j] = p[j]
    BY <1>n, <2>1 DEF Purged
  <2> QED
    BY <1>2, <2>2 DEF Maintained
<1>3. CASE j \notin Expired(js, t)
  <2>1. q[j] = js[j]
    BY <1>3 DEF Requeued
  <2>2. p[j] = IF js[j].state = "completed" /\ js[j].finishedAt < t - IdemWindow THEN NoRow("gone") ELSE js[j]
    BY <1>1, <2>1 DEF Purged, Finished
  <2>3. NoRow("gone").state = "gone"
    BY DEF NoRow
  <2>4. m[j] = IF j \in Outdated(js, t) THEN NoRow("gone") ELSE js[j]
    BY <1>1, <2>2, <2>3 DEF Purged, Finished, Outdated
  <2> QED
    BY <1>3, <2>4 DEF Maintained
<1> QED
  BY <1>2, <1>3

LEMMA MaintainedTurns ==
  ASSUME NEW js, GoodTable(js), NEW t \in Nat
  PROVE  Turns(js, Maintained(js, t))
<1>1. GoodTable(Maintained(js, t))
  BY RequeuedGood, PurgedGood DEF Maintained
<1>2. \A j \in Ids : js[j].state = "unborn" => Maintained(js, t)[j] = js[j]
  BY MaintainedRows DEF Expired, Outdated
<1>3. ASSUME NEW j \in Ids, LifeOf(Maintained(js, t)[j]) # LifeOf(js[j])
      PROVE  Life!Edge(LifeOf(js[j]), LifeOf(Maintained(js, t)[j]))
  <2>1. CASE j \in Expired(js, t)
    BY <1>3, <2>1, MaintainedRows, RequeuedMoves DEF Moves
  <2>2. CASE j \notin Expired(js, t)
    <3>1. j \in Outdated(js, t) /\ Maintained(js, t)[j] = NoRow("gone")
      BY <1>3, <2>2, MaintainedRows
    <3> QED
      BY <3>1 DEF Outdated, LifeOf, NoRow, Life!Edge, Life!Forget
  <2> QED
    BY <2>1, <2>2
<1> QED
  BY <1>1, <1>2, <1>3 DEF Turns, Moves

\* Turning does not bring a job back to where it was not born, nor make it one that is.
LEMMA TurnsDispatched ==
  ASSUME NEW js, NEW ks, Turns(js, ks)
  PROVE  Dispatched(ks) = Dispatched(js)
<1>1. \A j \in Ids : js[j].state # "unborn" => ks[j].state # "unborn"
  BY DEF Turns, Moves, LifeOf, Life!Edge, Life!Create, Life!Begin, Life!Again, Life!PutBack, Life!Finish,
         Life!Revive, Life!Forget, Life!Life
<1> QED
  BY <1>1 DEF Turns, Dispatched

-----------------------------------------------------------------------------
\* Every step leaves a good table, of finitely many jobs, none of which is unborn again.

TableFine ==
  /\ jobs' \in [Ids -> Row] /\ Agreeing' /\ FewJobs' /\ Moves(jobs, jobs')
  /\ \A j \in Ids : jobs[j].state # "unborn" => jobs'[j].state # "unborn"

LEMMA DurationTypes ==
  /\ Lease \in Nat /\ RenewEvery \in Nat /\ RoundTrip \in Nat /\ Timeout \in Nat /\ Backoff \in Nat
  /\ Grace \in Nat /\ PollMax \in Nat /\ IdemWindow \in Nat /\ DeadRetention \in Nat
  /\ RoundTrip <= RenewEvery /\ RenewEvery > 0 /\ Delays \subseteq Nat
  BY DurationsAssumption DEF Durations

LEMMA TurnIsFine ==
  ASSUME TypeInv, Turns(jobs, jobs')
  PROVE  TableFine
<1>1. Dispatched(jobs') = Dispatched(jobs)
  BY TurnsDispatched
<1> QED
  BY <1>1 DEF Turns, TypeInv, FewJobs, Agreeing, GoodTable, Dispatched, TableFine

LEMMA SameTableIsFine ==
  ASSUME TypeInv, UNCHANGED jobs
  PROVE  TableFine
  BY DEF TypeInv, TypeOK, FewJobs, Agreeing, Dispatched, TableFine, Moves

LEMMA DispatchIsFine ==
  ASSUME TypeInv, NEW j \in Ids, NEW delay \in Delays, Dispatch(j, delay)
  PROVE  TableFine
<1>1. now + delay \in Nat /\ GoodTable(jobs)
  BY DurationTypes DEF TypeInv, TypeOK, GoodTable, Agreeing
<1>2. GoodTable(jobs') /\ Moves(jobs, jobs')
  BY <1>1, EnqueuedGood, EnqueuedMoves DEF Dispatch
<1>3. jobs' = Enqueued(jobs, {j}, now + delay) /\ jobs[j].state = "unborn"
  BY DEF Dispatch
<1>4. \A i \in Ids : i # j => jobs'[i] = jobs[i]
  BY <1>3 DEF Enqueued
<1>5. jobs'[j].state # "unborn"
  BY <1>3 DEF Enqueued, NoRow, NewRow
<1>6. Dispatched(jobs') \subseteq Dispatched(jobs) \cup {j}
  BY <1>4 DEF Dispatched
<1>7. IsFiniteSet(Dispatched(jobs) \cup {j})
  BY FS_AddElement DEF TypeInv, FewJobs
<1>8. FewJobs'
  BY <1>6, <1>7, FS_Subset DEF FewJobs, Dispatched
<1> QED
  BY <1>2, <1>4, <1>5, <1>8 DEF GoodTable, Agreeing, TableFine

LEMMA ClaimArguments ==
  ASSUME TypeInv, NEW w \in Workers
  PROVE  loop[w].at \in Nat /\ loop[w].at + Lease \in Nat /\ loop[w].limit \in Nat
<1>1. loop[w] \in Loop
  BY DEF TypeInv, TypeOK
<1>2. loop[w].at \in Nat /\ loop[w].limit \in Nat
  BY <1>1 DEF Loop
<1> QED
  BY <1>2, DurationTypes

LEMMA StoreClaimsIsFine ==
  ASSUME TypeInv, NEW w \in Workers, StoreClaims(w)
  PROVE  TableFine
<1>1. GoodTable(jobs) /\ loop[w].at + Lease \in Nat
  BY ClaimArguments DEF TypeInv, TypeOK, GoodTable, Agreeing
<1>2. Turns(jobs, jobs')
  BY <1>1, ClaimedTurns DEF StoreClaims, ClaimedTable, Selected
<1> QED
  BY <1>2, TurnIsFine

LEMMA RunArguments ==
  ASSUME TypeInv, NEW r \in runs
  PROVE  /\ r \in Run /\ r.w \in Workers /\ r.j \in Ids /\ r.n \in Nat /\ r.attempt \in Nat \ {0} /\ r.until \in Nat
         /\ r.aborted \in BOOLEAN /\ r.at \in Nat /\ r.at + Backoff \in Nat /\ Keep(r.j) \in BOOLEAN
         /\ r.outcome \in Outcomes \cup {"none", "stored"}
<1>1. r \in Run
  BY DEF TypeInv, TypeOK
<1>2. r.at \in Nat
  BY <1>1 DEF Run
<1> QED
  BY <1>1, <1>2, DurationTypes DEF Run, Keep

LEMMA StoreCompletesIsFine ==
  ASSUME TypeInv, NEW r \in runs, r.outcome \in Outcomes, StoreCompletes(r)
  PROVE  TableFine
<1>1. GoodTable(jobs)
  BY DEF TypeInv, TypeOK, GoodTable, Agreeing
<1>2. Turns(jobs, jobs')
  BY <1>1, RunArguments, CompletedTurns DEF StoreCompletes
<1> QED
  BY <1>2, TurnIsFine

LEMMA MaintenanceIsFine ==
  ASSUME TypeInv, jobs' = Maintained(jobs, now)
  PROVE  TableFine
<1>1. GoodTable(jobs) /\ now \in Nat
  BY DEF TypeInv, TypeOK, GoodTable, Agreeing
<1> QED
  BY <1>1, MaintainedTurns, TurnIsFine

LEMMA RenewReturnIsFine ==
  ASSUME TypeInv, NEW w \in Workers, RenewReturn(w)
  PROVE  TableFine
<1>1. GoodTable(jobs)
  BY DEF TypeInv, TypeOK, GoodTable, Agreeing
<1>2. RenewedAt(w) + Lease \in Nat
  <2>1. renewal[w] \in Renewal /\ Live(w)
    BY DEF TypeInv, TypeOK, Resting, RenewReturn
  <2>2. renewal[w].next \in Nat /\ renewal[w].next >= RenewEvery
    BY <2>1 DEF Renewal, TypeInv, Resting
  <2> QED
    BY <2>2, DurationTypes DEF RenewedAt
<1>3. Turns(jobs, jobs')
  BY <1>1, <1>2, RenewedTurns DEF RenewReturn
<1> QED
  BY <1>3, TurnIsFine

\* Which steps touch the table.
LEMMA TableSteps ==
  ASSUME [Next]_vars
  PROVE  \/ \E j \in Ids, delay \in Delays : Dispatch(j, delay)
         \/ \E j \in Ids : Revive(j)
         \/ \E w \in Workers : Start(w) \/ Maintain(w)
         \/ \E w \in Workers : (ClaimReturn(w) \/ ClaimFails(w)) /\ StoreClaims(w)
         \/ \E w \in Workers : RenewReturn(w)
         \/ \E r \in runs : Record(r)
         \/ UNCHANGED <<jobs, ended>>
<1>1. ASSUME NEW w \in Workers, ClaimReturn(w) \/ ClaimFails(w)
      PROVE  StoreClaims(w) \/ UNCHANGED <<jobs, ended>>
  BY <1>1 DEF ClaimReturn, ClaimFails
<1>2. ASSUME NEW w \in Workers, ClaimCall(w) \/ Full(w) \/ RoomAgain(w) \/ LoopExit(w) \/ Wake(w)
                                \/ RenewCall(w) \/ RenewFails(w) \/ Stop(w) \/ Abort(w) \/ Stopped(w) \/ Crash(w)
      PROVE  UNCHANGED <<jobs, ended>>
  BY <1>2 DEF ClaimCall, Full, RoomAgain, LoopExit, Wake, RenewCall, RenewFails, Stop, Abort, Stopped, Crash, Exit
<1>3. ASSUME NEW r \in runs, Return(r) \/ RecordFails(r)
      PROVE  UNCHANGED <<jobs, ended>>
  BY <1>3 DEF Return, RecordFails
<1>4. ASSUME NEW r \in runs, Succeed(r) \/ Retry(r) \/ GiveUp(r) \/ Release(r)
      PROVE  UNCHANGED <<jobs, ended>>
  BY <1>4 DEF Succeed, Retry, GiveUp, Release, Settle
<1>5. Tick \/ UNCHANGED vars => UNCHANGED <<jobs, ended>>
  BY DEF Tick, vars
<1> QED
  BY <1>1, <1>2, <1>3, <1>4, <1>5 DEF Next, ClaimStep, RenewStep, StopStep, RunStep

\* Only a dispatch brings a job into being.
LEMMA BornByDispatch ==
  ASSUME TypeInv, [Next]_vars, NEW j \in Ids, jobs[j].state = "unborn", jobs'[j].state # "unborn"
  PROVE  \E delay \in Delays : Dispatch(j, delay)
<1>1. \A i \in Ids, delay \in Delays : Dispatch(i, delay) => i = j
  BY DEF Dispatch, Enqueued
<1>2. ~(\E i \in Ids : Revive(i))
  BY DEF Revive, Retried
<1>3. ~(\E w \in Workers : Start(w) \/ Maintain(w))
  <2>1. GoodTable(jobs) /\ now \in Nat
    BY DEF TypeInv, TypeOK, GoodTable, Agreeing
  <2> QED
    BY <2>1, MaintainedTurns DEF Start, Maintain, Turns
<1>4. ~(\E w \in Workers : StoreClaims(w))
  BY ClaimableDue DEF StoreClaims, ClaimedTable, Claimed, Selected
<1>5. ~(\E w \in Workers : RenewReturn(w))
  BY DEF RenewReturn, Renewed, Holds
<1>6. ~(\E r \in runs : Record(r))
  BY DEF Record, StoreCompletes, Completed, Holds, TypeInv, TypeOK
<1> QED
  BY <1>1, <1>2, <1>3, <1>4, <1>5, <1>6, TableSteps

LEMMA StepIsFine ==
  ASSUME TypeInv, [Next]_vars
  PROVE  TableFine
<1>1. ASSUME NEW j \in Ids, Revive(j)
      PROVE  TableFine
  <2>1. GoodTable(jobs) /\ now \in Nat
    BY DEF TypeInv, TypeOK, GoodTable, Agreeing
  <2> QED
    BY <1>1, <2>1, RetriedTurns, TurnIsFine DEF Revive
<1>2. ASSUME NEW w \in Workers, Start(w) \/ Maintain(w)
      PROVE  TableFine
  BY <1>2, MaintenanceIsFine DEF Start, Maintain
<1>3. ASSUME NEW r \in runs, Record(r)
      PROVE  TableFine
  BY <1>3, StoreCompletesIsFine DEF Record
<1> QED
  BY <1>1, <1>2, <1>3, TableSteps, DispatchIsFine, StoreClaimsIsFine, RenewReturnIsFine, SameTableIsFine

-----------------------------------------------------------------------------
\* Every step keeps types and counts.

Shape ==
  /\ now \in Nat
  /\ phase \in [Workers -> Phases]
  /\ loop \in [Workers -> Loop]
  /\ renewal \in [Workers -> Renewal]
  /\ inFlight \in [Workers -> [Ids -> Nat]]
  /\ runs \subseteq Run
  /\ awaited \in [Workers -> SUBSET (Ids \X Nat)]
  /\ deadline \in [Workers -> Nat]
  /\ replaced \in [Workers -> SUBSET Ids]
  /\ claims \in [Ids -> Nat]
  /\ ended \in [Ids -> Int]
  /\ faults \in 0 .. MaxFaults
  /\ revivals \in 0 .. MaxRevivals

LEMMA ShapeSuffices ==
  ASSUME TypeInv, TableFine, Shape', Counted', Resting'
  PROVE  TypeInv'
  BY DEF TypeInv, TableFine, TypeOK, Shape

LEMMA TypeGives == TypeInv => Shape /\ Counted /\ Resting
  BY DEF TypeInv, TypeOK, Shape

LEMMA AtTyped ==
  \A pc \in {"top", "claiming", "asleep", "full", "exited"} : At(pc) \in Loop /\ At(pc).pc = pc
  BY DEF At, Loop

LEMMA AsleepTyped ==
  ASSUME TypeInv, NEW w \in Workers
  PROVE  Asleep(w) \in Loop /\ Asleep(w).pc = "asleep" /\ (Stopping(w) => Asleep(w).at = now)
  BY DEF TypeInv, TypeOK, Asleep, At, Loop

LEMMA FaultTyped ==
  ASSUME Shape, NEW kind, Fault(kind)
  PROVE  faults' \in 0 .. MaxFaults
  BY BoundsAssumption DEF Shape, Fault

LEMMA NoEntriesTyped == NoEntries \in [Ids -> Nat] /\ \A j \in Ids : NoEntries[j] = 0
  BY DEF NoEntries

\* What a worker has in flight can be counted.
LEMMA RoomTyped ==
  ASSUME TypeInv, NEW w \in Workers
  PROVE  IsFiniteSet(Tracked(w)) /\ Cardinality(Tracked(w)) \in Nat /\ Free(w) \in Int
<1> DEFINE D == {i \in Ids : inFlight[w][i] # 0}
           f == [j \in D |-> <<j, inFlight[w][j]>>]
<1>1. IsFiniteSet(D)
  <2>1. D \subseteq Dispatched(jobs)
    BY DEF TypeInv, TypeOK, Counted, Dispatched
  <2> QED
    BY <2>1, FS_Subset DEF TypeInv, FewJobs
<1>2. f \in Surjection(D, Tracked(w))
  <2>1. f \in [D -> Tracked(w)] /\ \A p \in Tracked(w) : \E j \in D : f[j] = p
    BY DEF Tracked
  <2> QED
    BY <2>1, Zenon DEF Surjection
<1>3. IsFiniteSet(Tracked(w)) /\ Cardinality(Tracked(w)) \in Nat
  BY <1>1, <1>2, FS_Surjection, FS_CardinalityType, Zenon
<1>4. Concurrency[w] \in Nat
  BY PoolAssumption
<1> QED
  BY <1>3, <1>4 DEF Free

\* The jobs and revivals only.
LEMMA TableStepTyped ==
  ASSUME TypeInv, TableFine, UNCHANGED <<now, phase, loop, renewal, inFlight, runs, awaited, deadline, replaced, claims, faults>>,
         revivals' \in 0 .. MaxRevivals, ended' \in [Ids -> Int]
  PROVE  TypeInv'
<1>1. Shape'
  BY TypeGives DEF Shape
<1>2. Counted'
  BY TypeGives DEF Counted, TableFine
<1>3. Resting'
  BY TypeGives DEF Resting, Live, RunsOf
<1> QED
  BY <1>1, <1>2, <1>3, ShapeSuffices

LEMMA LoopStepTyped ==
  ASSUME TypeInv, TableFine, NEW w \in Workers,
         ClaimCall(w) \/ Full(w) \/ RoomAgain(w) \/ Wake(w) \/ LoopExit(w)
  PROVE  TypeInv'
<1> USE DEF ClaimCall, Full, RoomAgain, RaceEnds, Wake, LoopExit
<1>1. Shape'
  <2>1. ASSUME NEW at \in Nat, NEW limit \in Nat
        PROVE  [At("claiming") EXCEPT !.at = at, !.limit = limit] \in Loop
    BY DEF At, Loop
  <2>2. ASSUME NEW racing \in SUBSET (Ids \X Nat)
        PROVE  [At("full") EXCEPT !.racing = racing] \in Loop
    BY DEF At, Loop
  <2>a. ClaimCall(w) => Free(w) \in Nat
    BY RoomTyped
  <2>b. Tracked(w) \in SUBSET (Ids \X Nat) /\ now \in Nat
    BY TypeGives DEF Tracked, Shape
  <2>3. \E x \in Loop : loop' = [loop EXCEPT ![w] = x]
    <3>1. CASE ClaimCall(w)
      BY <2>1, <2>a, <2>b, <3>1
    <3>2. CASE Full(w)
      BY <2>2, <2>b, <3>2
    <3>3. CASE RoomAgain(w) \/ Wake(w) \/ LoopExit(w)
      BY <3>3, AtTyped
    <3> QED
      BY <3>1, <3>2, <3>3
  <2>4. loop' \in [Workers -> Loop]
    BY <2>3, TypeGives DEF Shape
  <2> QED
    BY <2>4, TypeGives DEF Shape
<1>2. Counted'
  BY TypeGives DEF Counted, TableFine
<1>3. Resting'
  <2>1. loop[w].pc # "exited"
    OBVIOUS
  <2>2. Live(w)
    BY <2>1, TypeGives DEF Resting
  <2>3. \A v \in Workers : v # w => loop'[v] = loop[v]
    BY TypeGives DEF Shape
  <2> QED
    BY <2>2, <2>3, TypeGives DEF Resting, Live, RunsOf
<1> QED
  BY <1>1, <1>2, <1>3, ShapeSuffices

\* The claim's part of the history.
LEMMA ClaimsTyped ==
  ASSUME TypeInv, NEW w \in Workers, StoreClaims(w)
  PROVE  /\ claims' \in [Ids -> Nat] /\ \A j \in Ids : claims[j] <= claims'[j]
         /\ Selected(w) \subseteq Ids
         /\ \A j \in Selected(w) : jobs[j].state = "pending" /\ claims'[j] = claims[j] + 1
         /\ \A j \in Ids \ Selected(w) : claims'[j] = claims[j]
         /\ \A j \in Ids : claims'[j] > 0 => jobs[j].state # "unborn"
<1>1. Selected(w) \subseteq Ids /\ \A j \in Selected(w) : jobs[j].state = "pending"
  BY ClaimableDue DEF Selected
<1>2. \A j \in Ids : claims[j] \in Nat
  BY DEF TypeInv, TypeOK
<1>3. \A j \in Ids : claims'[j] = IF j \in Selected(w) THEN claims[j] + 1 ELSE claims[j]
  BY <1>2 DEF StoreClaims
<1> QED
  BY <1>1, <1>2, <1>3 DEF StoreClaims, TypeInv, Counted

LEMMA NewRunTyped ==
  ASSUME TypeInv, NEW w \in Workers, NEW j \in Selected(w)
  PROVE  NewRun(w, j) \in Run /\ j \in Ids
<1>1. j \in Ids /\ jobs[j].state = "pending"
  BY ClaimableDue DEF Selected
<1>2. ClaimedTable(w)[j].attempt = jobs[j].attempt + 1 /\ jobs[j].attempt \in Nat
  BY <1>1 DEF ClaimedTable, Claimed, TypeInv, TypeOK, Row
<1>3. now + Timeout \in Nat /\ claims[j] + 1 \in Nat
  BY <1>1, DurationTypes DEF TypeInv, TypeOK
<1> QED
  BY <1>1, <1>2, <1>3 DEF NewRun, Run

LEMMA ClaimReturnTyped ==
  ASSUME TypeInv, TableFine, NEW w \in Workers, ClaimReturn(w)
  PROVE  TypeInv'
<1> USE DEF ClaimReturn
<1>0. Live(w)
  BY TypeGives DEF Resting
<1>1. Shape'
  <2>1. runs' \subseteq Run
    BY NewRunTyped, TypeGives DEF Shape
  <2>2. inFlight' \in [Workers -> [Ids -> Nat]]
    BY TypeGives DEF Shape
  <2>3. loop' \in [Workers -> Loop]
    BY AtTyped, AsleepTyped, TypeGives DEF Shape
  <2>4. replaced' \in [Workers -> SUBSET Ids]
    BY ClaimsTyped, TypeGives DEF Shape
  <2> QED
    BY <2>1, <2>2, <2>3, <2>4, ClaimsTyped, TypeGives DEF Shape
<1>2. Counted'
  <2>1. \A j \in Ids : claims'[j] > 0 => jobs'[j].state # "unborn"
    BY ClaimsTyped DEF TableFine
  <2>2. \A v \in Workers, j \in Ids :
          inFlight'[v][j] = IF v = w /\ j \in Selected(w) THEN claims[j] + 1 ELSE inFlight[v][j]
    BY TypeGives DEF Shape
  <2>3. \A v \in Workers, j \in Ids : inFlight'[v][j] <= claims'[j]
    BY <2>2, ClaimsTyped, TypeGives DEF Shape, Counted
  <2>4. \A r \in runs' : r.n \in 1 .. claims'[r.j]
    <3>1. ASSUME NEW r \in runs PROVE r.n \in 1 .. claims'[r.j]
      <4>1. r.j \in Ids /\ r.n \in 1 .. claims[r.j]
        BY RunArguments, TypeGives DEF Counted
      <4>2. claims[r.j] \in Nat /\ claims'[r.j] \in Nat /\ claims[r.j] <= claims'[r.j]
        BY <4>1, ClaimsTyped, TypeGives DEF Shape
      <4> QED
        BY <4>1, <4>2
    <3>2. ASSUME NEW j \in Selected(w) PROVE NewRun(w, j).n \in 1 .. claims'[NewRun(w, j).j]
      <4>1. NewRun(w, j).n = claims[j] + 1 /\ NewRun(w, j).j = j
        BY DEF NewRun
      <4>2. claims'[j] = claims[j] + 1 /\ claims[j] \in Nat
        BY ClaimsTyped, TypeGives DEF Shape
      <4> QED
        BY <4>1, <4>2
    <3> QED
      BY <3>1, <3>2
  <2>5. \A v \in Workers : \A p \in awaited'[v] : p[2] <= claims'[p[1]]
    <3> SUFFICES ASSUME NEW v \in Workers, NEW p \in awaited[v] PROVE p[2] <= claims'[p[1]]
      OBVIOUS
    <3>1. p[1] \in Ids /\ p[2] \in Nat /\ p[2] <= claims[p[1]]
      BY TypeGives DEF Shape, Counted
    <3> QED
      BY <3>1, ClaimsTyped, TypeGives DEF Shape
  <2>6. \A v \in Workers : \A j \in replaced'[v] : claims'[j] > 0
    <3> SUFFICES ASSUME NEW v \in Workers, NEW j \in replaced'[v] PROVE claims'[j] > 0
      OBVIOUS
    <3>1. CASE j \in replaced[v]
      BY <3>1, ClaimsTyped, TypeGives DEF Shape, Counted
    <3>2. CASE j \in Selected(w)
      BY <3>2, ClaimsTyped, TypeGives DEF Shape
    <3> QED
      BY <3>1, <3>2, TypeGives DEF Shape
  <2> QED
    BY <2>1, <2>3, <2>4, <2>5, <2>6 DEF Counted
<1>3. Resting'
  <2>1. \A v \in Workers : v # w => loop'[v] = loop[v] /\ inFlight'[v] = inFlight[v] /\ RunsOf(v)' = RunsOf(v)
    BY TypeGives DEF Shape, RunsOf, NewRun
  <2> QED
    BY <1>0, <2>1, TypeGives DEF Resting, Live
<1> QED
  BY <1>1, <1>2, <1>3, ShapeSuffices

LEMMA ClaimFailsTyped ==
  ASSUME TypeInv, TableFine, NEW w \in Workers, ClaimFails(w)
  PROVE  TypeInv'
<1> USE DEF ClaimFails
<1>0. Live(w)
  BY TypeGives DEF Resting
<1>1. claims' \in [Ids -> Nat] /\ (\A j \in Ids : claims[j] <= claims'[j])
      /\ \A j \in Ids : claims'[j] > 0 => jobs[j].state # "unborn"
  BY ClaimsTyped, TypeGives DEF Shape, Counted
<1>2. Shape'
  BY <1>1, AsleepTyped, FaultTyped, TypeGives DEF Shape
<1>3. Counted'
  <2>1. ASSUME NEW r \in runs PROVE r.n \in 1 .. claims'[r.j]
    <3>1. r.j \in Ids /\ r.n \in 1 .. claims[r.j]
      BY RunArguments, TypeGives DEF Counted
    <3> QED
      BY <1>1, <3>1, TypeGives DEF Shape
  <2>2. ASSUME NEW v \in Workers, NEW p \in awaited[v] PROVE p[2] <= claims'[p[1]]
    <3>1. p[1] \in Ids /\ p[2] \in Nat /\ p[2] <= claims[p[1]]
      BY <2>2, TypeGives DEF Shape, Counted
    <3> QED
      BY <1>1, <3>1, TypeGives DEF Shape
  <2>3. \A v \in Workers, j \in Ids : inFlight[v][j] <= claims'[j]
    BY <1>1, TypeGives DEF Shape, Counted
  <2>4. \A v \in Workers : \A j \in replaced[v] : claims'[j] > 0
    BY <1>1, TypeGives DEF Shape, Counted
  <2> QED
    BY <1>1, <2>1, <2>2, <2>3, <2>4 DEF Counted, TableFine
<1>4. Resting'
  <2>1. \A v \in Workers : v # w => loop'[v] = loop[v]
    BY TypeGives DEF Shape
  <2> QED
    BY <1>0, <2>1, TypeGives DEF Resting, Live, RunsOf
<1> QED
  BY <1>2, <1>3, <1>4, ShapeSuffices

\* One execution moves on: its outcome is known, or stored.
LEMMA MovedTyped ==
  ASSUME TypeInv, TableFine, NEW r \in runs, NEW s \in Run, s.w = r.w, s.j = r.j, s.n = r.n,
         runs' = (runs \ {r}) \cup {s}, ended' \in [Ids -> Int],
         UNCHANGED <<now, phase, loop, renewal, inFlight, awaited, deadline, replaced, claims, faults, revivals>>
  PROVE  TypeInv'
<1>1. Shape'
  BY TypeGives DEF Shape
<1>2. Counted'
  BY TypeGives DEF Counted, TableFine
<1>3. Resting'
  BY TypeGives DEF Resting, Live, RunsOf
<1> QED
  BY <1>1, <1>2, <1>3, ShapeSuffices

LEMMA SettleTyped ==
  ASSUME TypeInv, TableFine, NEW r \in runs, NEW outcome \in Outcomes, Settle(r, outcome)
  PROVE  TypeInv'
<1> DEFINE s == [r EXCEPT !.outcome = outcome, !.at = now]
<1>1. s \in Run /\ s.w = r.w /\ s.j = r.j /\ s.n = r.n
  BY RunArguments, TypeGives DEF Run, Shape
<1>2. runs' = (runs \ {r}) \cup {s} /\ ended' \in [Ids -> Int]
  BY TypeGives DEF Settle, Shape
<1> HIDE DEF s
<1> QED
  BY <1>1, <1>2, MovedTyped DEF Settle

LEMMA RecordTyped ==
  ASSUME TypeInv, TableFine, NEW r \in runs, Record(r)
  PROVE  TypeInv'
<1> DEFINE s == [r EXCEPT !.outcome = "stored"]
<1>1. s \in Run /\ s.w = r.w /\ s.j = r.j /\ s.n = r.n
  BY RunArguments DEF Run
<1>2. runs' = (runs \ {r}) \cup {s}
  BY DEF Record
<1>3. ended' \in [Ids -> Int]
  BY RunArguments, TypeGives DEF Record, StoreCompletes, Shape
<1> HIDE DEF s
<1> QED
  BY <1>1, <1>2, <1>3, MovedTyped DEF Record

LEMMA UntrackTyped ==
  ASSUME TypeInv, TableFine, NEW r \in runs, Untrack(r), ended' \in [Ids -> Int], faults' \in 0 .. MaxFaults,
         UNCHANGED <<now, phase, renewal, awaited, deadline, replaced, claims, revivals>>
  PROVE  TypeInv'
<1>0. r.w \in Workers /\ r.j \in Ids
  BY RunArguments
<1>1. runs' = runs \ {r} /\ inFlight' = [inFlight EXCEPT ![r.w][r.j] = 0]
  BY DEF Untrack
<1>2. loop' \in [Workers -> Loop]
  BY <1>0, AtTyped, TypeGives DEF Untrack, Shape
<1>3. inFlight' \in [Workers -> [Ids -> Nat]] /\ \A v \in Workers, j \in Ids : inFlight'[v][j] \in {inFlight[v][j], 0}
  BY <1>0, <1>1, TypeGives DEF Shape
<1>4. Shape'
  BY <1>1, <1>2, <1>3, TypeGives DEF Shape
<1>5. Counted'
  BY <1>1, <1>3, TypeGives DEF Counted, TableFine, Shape
<1>6. Resting'
  <2>1. Live(r.w)
    BY <1>0, TypeGives DEF Resting, RunsOf
  <2>2. \A v \in Workers : v # r.w => loop'[v] = loop[v] /\ inFlight'[v] = inFlight[v]
    BY <1>0, <1>1, TypeGives DEF Untrack, Shape
  <2> QED
    BY <1>1, <2>1, <2>2, TypeGives DEF Resting, Live, RunsOf
<1> QED
  BY <1>4, <1>5, <1>6, ShapeSuffices

LEMMA ReturnTyped ==
  ASSUME TypeInv, TableFine, NEW r \in runs, Return(r) \/ RecordFails(r)
  PROVE  TypeInv'
<1>1. ended' \in [Ids -> Int]
  BY TypeGives DEF Return, RecordFails, Shape
<1>2. faults' \in 0 .. MaxFaults
  BY FaultTyped, TypeGives DEF Return, RecordFails, Shape
<1>3. Untrack(r) /\ UNCHANGED <<now, phase, renewal, awaited, deadline, replaced, claims, revivals>>
  BY DEF Return, RecordFails
<1> QED
  BY <1>1, <1>2, <1>3, UntrackTyped

LEMMA RenewalStepTyped ==
  ASSUME TypeInv, TableFine, NEW w \in Workers, RenewCall(w) \/ RenewReturn(w) \/ RenewFails(w)
  PROVE  TypeInv'
<1>1. Live(w)
  BY TypeGives DEF Resting, RenewCall, RenewReturn, RenewFails, Live
<1>2. /\ renewal'[w] \in Renewal /\ renewal'[w].next >= RenewEvery
      /\ renewal' \in [Workers -> Renewal] /\ \A v \in Workers : v # w => renewal'[v] = renewal[v]
  <2>1. CASE RenewCall(w)
    <3>1. now + RenewEvery \in Nat /\ now + RenewEvery >= RenewEvery
      BY DurationTypes, TypeGives DEF Shape
    <3>2. Renewing(now + RenewEvery, {j \in Ids : inFlight[w][j] # 0}) \in Renewal
      BY <3>1 DEF Renewing, Renewal
    <3> QED
      BY <2>1, <3>1, <3>2, TypeGives DEF RenewCall, Shape, Renewing
  <2>2. CASE RenewReturn(w) \/ RenewFails(w)
    <3>1. renewal' = [renewal EXCEPT ![w] = Renewing(renewal[w].next, {})]
      BY <2>2 DEF RenewReturn, RenewFails, RenewEnds
    <3>2. renewal[w].next \in Nat /\ renewal[w].next >= RenewEvery
      BY <1>1, TypeGives DEF Shape, Renewal, Resting
    <3>3. Renewing(renewal[w].next, {}) \in Renewal /\ Renewing(renewal[w].next, {}).next = renewal[w].next
      BY <3>2 DEF Renewing, Renewal
    <3> QED
      BY <3>1, <3>2, <3>3, TypeGives DEF Shape
  <2> QED
    BY <2>1, <2>2
<1>3. UNCHANGED <<now, phase, loop, inFlight, runs, awaited, deadline, replaced, claims, ended, revivals>>
  BY DEF RenewCall, RenewReturn, RenewFails
<1>4. faults' \in 0 .. MaxFaults
  BY FaultTyped, TypeGives DEF RenewCall, RenewReturn, RenewFails, Shape
<1>5. Shape'
  BY <1>2, <1>3, <1>4, TypeGives DEF Shape
<1>6. Counted'
  BY <1>3, TypeGives DEF Counted, TableFine
<1>7. Resting'
  BY <1>1, <1>2, <1>3, TypeGives DEF Resting, Live, RunsOf
<1> QED
  BY <1>5, <1>6, <1>7, ShapeSuffices

LEMMA TrackedCounted ==
  ASSUME TypeInv, NEW w \in Workers
  PROVE  Tracked(w) \in SUBSET (Ids \X Nat) /\ \A p \in Tracked(w) : p[2] <= claims[p[1]]
  BY TypeGives DEF Tracked, Shape, Counted

LEMMA StartTyped ==
  ASSUME TypeInv, TableFine, NEW w \in Workers, Start(w)
  PROVE  TypeInv'
<1>1. now + RenewEvery \in Nat /\ now + RenewEvery >= RenewEvery
  BY DurationTypes, TypeGives DEF Shape
<1>2. Renewing(now + RenewEvery, {}) \in Renewal /\ Renewing(now + RenewEvery, {}).next = now + RenewEvery
  BY <1>1 DEF Renewing, Renewal
<1>3. Shape'
  BY <1>2, AtTyped, TypeGives DEF Start, Shape, Phases
<1>4. Counted'
  BY TypeGives DEF Start, Counted, TableFine
<1>5. Resting'
  <2>1. \A v \in Workers : v # w => phase'[v] = phase[v] /\ loop'[v] = loop[v] /\ renewal'[v] = renewal[v]
    BY TypeGives DEF Start, Shape
  <2>2. phase'[w] = "up" /\ renewal'[w].next >= RenewEvery
    BY <1>1, <1>2, TypeGives DEF Start, Shape
  <2> QED
    BY <2>1, <2>2, TypeGives DEF Start, Resting, Live, RunsOf
<1> QED
  BY <1>3, <1>4, <1>5, ShapeSuffices

\* What the abort leaves of an execution.
SameRun(r, s) ==
  /\ r.w = s.w /\ r.j = s.j /\ r.n = s.n /\ r.attempt = s.attempt
  /\ r.until = s.until /\ r.outcome = s.outcome /\ r.at = s.at

Signalled(w, r) == r.w = w /\ r.outcome = "none" /\ <<r.j, r.n>> \in Tracked(w)

AbortedBy(w, r) == [r EXCEPT !.aborted = @ \/ Signalled(w, r)]

LEMMA AbortedRuns ==
  ASSUME NEW w, Abort(w)
  PROVE  runs' = {AbortedBy(w, r) : r \in runs}
  BY DEF Abort, AbortedBy, Signalled

LEMMA AbortedRun ==
  ASSUME NEW w, NEW r \in Run
  PROVE  /\ AbortedBy(w, r) \in Run /\ SameRun(AbortedBy(w, r), r)
         /\ r.aborted \/ Signalled(w, r) => AbortedBy(w, r).aborted
<1> DEFINE b == r.aborted \/ Signalled(w, r)
<1>1. b \in BOOLEAN
  OBVIOUS
<1>2. AbortedBy(w, r) = [r EXCEPT !.aborted = b]
  BY DEF AbortedBy
<1>3. AbortedBy(w, r).aborted = b
  BY <1>2 DEF Run
<1>4. b => AbortedBy(w, r).aborted
  BY <1>3, Zenon
<1> HIDE DEF b
<1>5. AbortedBy(w, r) \in Run /\ SameRun(AbortedBy(w, r), r)
  BY <1>1, <1>2 DEF Run, SameRun
<1> QED
  BY <1>4, <1>5 DEF b

LEMMA StopTyped ==
  ASSUME TypeInv, TableFine, NEW w \in Workers, Stop(w) \/ Abort(w)
  PROVE  TypeInv'
<1>1. Live(w)
  BY DEF Stop, Abort, GraceOver, Live
<1>2. phase' \in [Workers -> Phases] /\ phase'[w] \in {"draining", "releasing"} /\ \A v \in Workers : v # w => phase'[v] = phase[v]
  BY TypeGives DEF Stop, Abort, Shape, Phases
<1>3. loop' \in [Workers -> Loop] /\ \A v \in Workers : v # w => loop'[v] = loop[v]
  BY AtTyped, TypeGives DEF Stop, Abort, Shape
<1>4. awaited' = [awaited EXCEPT ![w] = Tracked(w)]
  BY DEF Stop, Abort
<1>5. \A r \in runs' : r \in Run /\ \E s \in runs : r.w = s.w /\ r.j = s.j /\ r.n = s.n
  <2>1. CASE Stop(w)
    BY <2>1, TypeGives DEF Stop, Shape
  <2>2. CASE Abort(w)
    <3>1. runs \subseteq Run /\ runs' = {AbortedBy(w, r) : r \in runs}
      BY <2>2, TypeGives, AbortedRuns DEF Shape
    <3> QED
      BY <3>1, AbortedRun DEF SameRun
  <2> QED
    BY <2>1, <2>2
<1>6. UNCHANGED <<now, renewal, inFlight, replaced, claims, ended, faults, revivals>>
  BY DEF Stop, Abort
<1>7. deadline' \in [Workers -> Nat]
  <2>1. now + Grace \in Nat
    BY DurationTypes, TypeGives DEF Shape
  <2>2. deadline' = [deadline EXCEPT ![w] = now + Grace] \/ deadline' = deadline
    BY DEF Stop, Abort
  <2> QED
    BY <2>1, <2>2, TypeGives DEF Shape
<1>8. Shape'
  BY <1>2, <1>3, <1>4, <1>5, <1>6, <1>7, TrackedCounted, TypeGives DEF Shape
<1>9. Counted'
  <2>1. \A v \in Workers : \A p \in awaited'[v] : p[2] <= claims[p[1]]
    BY <1>4, TrackedCounted, TypeGives DEF Counted, Shape
  <2>2. \A r \in runs' : r.n \in 1 .. claims[r.j]
    BY <1>5, TypeGives DEF Counted
  <2> QED
    BY <1>6, <2>1, <2>2, TypeGives DEF Counted, TableFine
<1>10. Resting'
  <2>1. Live(w)' /\ \A v \in Workers : v # w => Live(v)' = Live(v)
    BY <1>2 DEF Live
  <2>2. \A v \in Workers : RunsOf(v) = {} => RunsOf(v)' = {}
    BY <1>5 DEF RunsOf
  <2> QED
    BY <1>1, <1>3, <1>6, <2>1, <2>2, TypeGives DEF Resting
<1> QED
  BY <1>8, <1>9, <1>10, ShapeSuffices

LEMMA ExitTyped ==
  ASSUME TypeInv, TableFine, NEW w \in Workers, Exit(w), faults' \in 0 .. MaxFaults
  PROVE  TypeInv'
<1>1. Renewing(0, {}) \in Renewal /\ Renewing(0, {}).ids = {} /\ {} \in SUBSET (Ids \X Nat)
  BY DEF Renewing, Renewal
<1>2. runs' = runs \ RunsOf(w) /\ runs' \subseteq runs
  BY DEF Exit
<1>3. Shape'
  <2>1. phase' \in [Workers -> Phases] /\ loop' \in [Workers -> Loop] /\ renewal' \in [Workers -> Renewal]
    BY <1>1, AtTyped, TypeGives DEF Exit, Shape, Phases
  <2>2. inFlight' \in [Workers -> [Ids -> Nat]] /\ awaited' \in [Workers -> SUBSET (Ids \X Nat)]
        /\ deadline' \in [Workers -> Nat]
    BY <1>1, NoEntriesTyped, TypeGives DEF Exit, Shape
  <2> QED
    BY <1>2, <2>1, <2>2, TypeGives DEF Exit, Shape
<1>4. Counted'
  <2>1. \A v \in Workers, j \in Ids : inFlight'[v][j] \in {inFlight[v][j], 0}
    BY NoEntriesTyped, TypeGives DEF Exit, Shape
  <2>2. \A v \in Workers : awaited'[v] \subseteq awaited[v]
    BY TypeGives DEF Exit, Shape
  <2>3. UNCHANGED <<replaced, claims>>
    BY DEF Exit
  <2>4. \A v \in Workers, j \in Ids : inFlight'[v][j] <= claims'[j]
    <3> SUFFICES ASSUME NEW v \in Workers, NEW j \in Ids PROVE inFlight'[v][j] <= claims[j]
      BY <2>3
    <3>1. inFlight[v][j] <= claims[j] /\ claims[j] \in Nat
      BY TypeGives DEF Counted, Shape
    <3> QED
      BY <2>1, <3>1
  <2>5. \A r \in runs' : r.n \in 1 .. claims'[r.j]
    BY <1>2, <2>3, TypeGives DEF Counted
  <2>6. \A v \in Workers : \A p \in awaited'[v] : p[2] <= claims'[p[1]]
    BY <2>2, <2>3, TypeGives DEF Counted
  <2>7. \A j \in Ids : claims'[j] > 0 => jobs'[j].state # "unborn"
    BY <2>3, TypeGives DEF Counted, TableFine
  <2>8. \A v \in Workers : \A j \in replaced'[v] : claims'[j] > 0
    BY <2>3, TypeGives DEF Counted
  <2> QED
    BY <2>4, <2>5, <2>6, <2>7, <2>8 DEF Counted
<1>5. Resting'
  <2>1. /\ phase'[w] = "stopped" /\ loop'[w].pc = "exited" /\ renewal'[w].ids = {} /\ inFlight'[w] = NoEntries
        /\ RunsOf(w)' = {}
    BY <1>1, <1>2, AtTyped, TypeGives DEF Exit, Shape, RunsOf
  <2>2. \A v \in Workers : v # w => /\ phase'[v] = phase[v] /\ loop'[v] = loop[v] /\ renewal'[v] = renewal[v]
                                     /\ inFlight'[v] = inFlight[v]
    BY TypeGives DEF Exit, Shape
  <2>3. \A v \in Workers : v # w /\ RunsOf(v) = {} => RunsOf(v)' = {}
    BY <1>2 DEF RunsOf
  <2> QED
    BY <2>1, <2>2, <2>3, TypeGives DEF Resting, Live
<1> QED
  BY <1>3, <1>4, <1>5, ShapeSuffices

LEMMA TickTyped ==
  ASSUME TypeInv, TableFine, Tick \/ UNCHANGED vars
  PROVE  TypeInv'
<1>1. now' \in Nat /\ UNCHANGED <<phase, loop, renewal, inFlight, runs, awaited, deadline, replaced, claims, ended, faults, revivals>>
  BY TypeGives DEF Tick, vars, Shape
<1>2. Shape'
  BY <1>1, TypeGives DEF Shape
<1>3. Counted'
  BY <1>1, TypeGives DEF Counted, TableFine
<1>4. Resting'
  BY <1>1, TypeGives DEF Resting, Live, RunsOf
<1> QED
  BY <1>2, <1>3, <1>4, ShapeSuffices

LEMMA TypeStep ==
  ASSUME TypeInv, [Next]_vars
  PROVE  TypeInv'
<1>0. TableFine
  BY StepIsFine
<1>1. ASSUME NEW j \in Ids, Revive(j) \/ \E delay \in Delays : Dispatch(j, delay)
      PROVE  TypeInv'
  <2>1. revivals' \in 0 .. MaxRevivals /\ ended' \in [Ids -> Int]
    BY <1>1, BoundsAssumption, TypeGives DEF Revive, Dispatch, Shape
  <2> QED
    BY <1>0, <1>1, <2>1, TableStepTyped DEF Revive, Dispatch
<1>2. ASSUME NEW w \in Workers, Maintain(w)
      PROVE  TypeInv'
  <2>1. revivals' \in 0 .. MaxRevivals /\ ended' \in [Ids -> Int]
    BY <1>2, TypeGives DEF Maintain, Shape
  <2> QED
    BY <1>0, <1>2, <2>1, TableStepTyped DEF Maintain
<1>3. ASSUME NEW w \in Workers, Start(w) \/ ClaimStep(w) \/ ClaimFails(w) \/ Wake(w)
      PROVE  TypeInv'
  BY <1>0, <1>3, StartTyped, LoopStepTyped, ClaimReturnTyped, ClaimFailsTyped DEF ClaimStep
<1>4. ASSUME NEW w \in Workers, RenewStep(w) \/ RenewFails(w) \/ Stop(w) \/ Abort(w)
      PROVE  TypeInv'
  BY <1>0, <1>4, RenewalStepTyped, StopTyped DEF RenewStep
<1>5. ASSUME NEW w \in Workers, Stopped(w) \/ Crash(w)
      PROVE  TypeInv'
  <2>1. Exit(w) /\ faults' \in 0 .. MaxFaults
    BY <1>5, FaultTyped, TypeGives DEF Stopped, Crash, Shape
  <2> QED
    BY <1>0, <2>1, ExitTyped
<1>6. ASSUME NEW r \in runs, RunStep(r) \/ RecordFails(r)
      PROVE  TypeInv'
  <2>1. CASE Record(r) \/ Return(r) \/ RecordFails(r)
    BY <1>0, <2>1, RecordTyped, ReturnTyped
  <2>2. CASE Succeed(r) \/ Retry(r) \/ GiveUp(r) \/ Release(r)
    <3>1. \E outcome \in Outcomes : Settle(r, outcome)
      BY <2>2 DEF Succeed, Retry, GiveUp, Release, Outcomes
    <3> QED
      BY <1>0, <3>1, SettleTyped
  <2> QED
    BY <1>6, <2>1, <2>2 DEF RunStep
<1>7. CASE Tick \/ UNCHANGED vars
  BY <1>0, <1>7, TickTyped
<1> QED
  BY <1>1, <1>2, <1>3, <1>4, <1>5, <1>6, <1>7 DEF Next, StopStep

LEMMA InitTyped == Init => TypeInv
<1> SUFFICES ASSUME Init PROVE TypeInv
  OBVIOUS
<1>1. GoodTable(jobs)
  BY InitGood DEF Init
<1>2. Dispatched(jobs) = {}
  BY DEF Init, Dispatched, NoRow
<1>3. FewJobs
  BY <1>2, FS_EmptySet DEF FewJobs
<1>4. \A t \in Nat : Renewing(t, {}) \in Renewal /\ Renewing(t, {}).next = t /\ Renewing(t, {}).ids = {}
  BY DEF Renewing, Renewal
<1>5. Shape
  BY <1>4, AtTyped, NoEntriesTyped, DurationTypes, BoundsAssumption DEF Init, Shape, Phases, NoTime
<1>6. Counted
  BY NoEntriesTyped DEF Init, Counted
<1>7. Resting
  BY <1>4, AtTyped, DurationTypes DEF Init, Resting, Live, RunsOf
<1> QED
  BY <1>1, <1>3, <1>5, <1>6, <1>7 DEF GoodTable, Agreeing, TypeInv, TypeOK, Shape

LEMMA TypeInvariance == Spec => []TypeInv
<1> QED
  BY InitTyped, TypeStep, PTL DEF Spec

\* Every variable keeps its type whatever workers, callers, timers and faults do
\* (worker.ts).
THEOREM TypeCorrect == Spec => []TypeOK
<1>1. TypeInv => TypeOK
  BY DEF TypeInv
<1> QED
  BY <1>1, TypeInvariance, PTL

\* The jobs' rows move along the lifecycle whatever the workers do (spec-6 3.2;
\* worker.ts).
THEOREM LifecycleCorrect == Spec => ImplementsLifecycle
<1>1. Init => Lifecycle!Init
  BY DEF Init, Lifecycle!Init, Lifecycle!Life, LifeOf, NoRow
<1>2. TypeInv /\ [Next]_vars => [Lifecycle!Next]_([j \in Ids |-> LifeOf(jobs[j])])
  <2> SUFFICES ASSUME TypeInv, [Next]_vars
               PROVE  Lifecycle!Next
    OBVIOUS
  <2>1. Moves(jobs, jobs')
    BY StepIsFine DEF TableFine
  <2> DEFINE S == {j \in Ids : LifeOf(jobs'[j]) # LifeOf(jobs[j])}
  <2>2. \A j \in S : Lifecycle!Edge(LifeOf(jobs[j]), LifeOf(jobs'[j]))
    BY <2>1 DEF Moves, Life!Edge, Life!Create, Life!Begin, Life!Again, Life!PutBack,
                Life!Finish, Life!Revive, Life!Forget, Life!Life,
                Lifecycle!Edge, Lifecycle!Create, Lifecycle!Begin, Lifecycle!Again,
                Lifecycle!PutBack, Lifecycle!Finish, Lifecycle!Revive,
                Lifecycle!Forget, Lifecycle!Life
  <2>3. S \in SUBSET Ids /\ \A j \in Ids \ S : LifeOf(jobs'[j]) = LifeOf(jobs[j])
    OBVIOUS
  <2> HIDE DEF S
  <2> QED
    BY <2>2, <2>3 DEF Lifecycle!Next
<1> QED
  BY TypeInvariance, <1>1, <1>2, PTL DEF Spec, ImplementsLifecycle, Lifecycle!Spec

-----------------------------------------------------------------------------
\* Every step keeps the map in order.

SameClaim(r, s) == r.w = s.w /\ r.j = s.j /\ r.n = s.n

\* The executions stay, whatever becomes of their outcomes.
LEMMA EntriesKept ==
  ASSUME MapInv, UNCHANGED <<inFlight, replaced>>,
         \A r \in runs' : \E s \in runs : SameClaim(r, s),
         \A s \in runs : \E r \in runs' : SameClaim(r, s),
         \A r, q \in runs', s \in runs : SameClaim(r, s) /\ SameClaim(q, s) => r = q
  PROVE  Entries'
<1>1. \A w \in Workers, j \in Ids :
        inFlight'[w][j] # 0 => \E r \in runs' : r.w = w /\ r.j = j /\ r.n = inFlight'[w][j]
  BY DEF MapInv, Entries, SameClaim
<1>2. \A r \in runs' : inFlight'[r.w][r.j] = r.n \/ r.j \in replaced'[r.w]
  BY DEF MapInv, Entries, SameClaim
<1>3. ASSUME NEW r \in runs', NEW q \in runs', r.j = q.j, r.n = q.n
      PROVE  r = q
  <2>1. PICK s \in runs : SameClaim(r, s)
    OBVIOUS
  <2>2. PICK p \in runs : SameClaim(q, p)
    OBVIOUS
  <2>3. \A a, b \in runs : a.j = b.j /\ a.n = b.n => a = b
    BY DEF MapInv, Entries
  <2>4. s.j = p.j /\ s.n = p.n
    BY <1>3, <2>1, <2>2, Zenon DEF SameClaim
  <2>5. s = p
    BY <2>3, <2>4
  <2> QED
    BY <2>1, <2>2, <2>5
<1> QED
  BY <1>1, <1>2, <1>3 DEF Entries

LEMMA SameEntries ==
  ASSUME TypeInv, MapInv, UNCHANGED <<inFlight, replaced, runs>>
  PROVE  Entries'
  BY DEF MapInv, Entries

\* A loop that stays, or goes on to neither a claim nor a full house.
LEMMA LoopKept ==
  ASSUME MapInv, NEW w \in Workers, loop'[w] = loop[w] \/ loop'[w].pc \notin {"claiming", "full"},
         replaced'[w] = replaced[w], \A j \in Ids : inFlight'[w][j] \in {inFlight[w][j], 0}
  PROVE  Alone(w)' /\ Crowd(w)'
<1>1. Alone(w) /\ Crowd(w)
  BY DEF MapInv
<1> QED
  BY <1>1 DEF Alone, Crowd

LEMMA QuietMap ==
  ASSUME TypeInv, MapInv, UNCHANGED <<inFlight, replaced, runs>>,
         \A w \in Workers : loop'[w] = loop[w] \/ loop'[w].pc \notin {"claiming", "full"}
  PROVE  MapInv'
<1>1. Entries'
  BY SameEntries
<1>2. \A w \in Workers : Alone(w)' /\ Crowd(w)'
  BY LoopKept
<1> QED
  BY <1>1, <1>2 DEF MapInv

\* With room for one and room left, nothing is in flight.
LEMMA RoomForOne ==
  ASSUME TypeInv, NEW w \in Workers, Concurrency[w] = 1, Free(w) > 0
  PROVE  \A j \in Ids : inFlight[w][j] = 0
<1>1. IsFiniteSet(Tracked(w)) /\ Cardinality(Tracked(w)) \in Nat
  BY RoomTyped
<1>2. Cardinality(Tracked(w)) = 0
  BY <1>1 DEF Free
<1>3. Tracked(w) = {}
  BY <1>1, <1>2, FS_EmptySet
<1> QED
  BY <1>3 DEF Tracked

LEMMA LoopStepMap ==
  ASSUME TypeInv, MapInv, NEW w \in Workers,
         ClaimCall(w) \/ Full(w) \/ RoomAgain(w) \/ Wake(w) \/ LoopExit(w)
  PROVE  MapInv'
<1> USE DEF ClaimCall, Full, RoomAgain, Wake, LoopExit
<1>1. Entries'
  BY SameEntries
<1>2. \A v \in Workers : v # w => loop'[v] = loop[v]
  BY TypeGives DEF Shape
<1>3. \A v \in Workers : v # w => Alone(v)' /\ Crowd(v)'
  BY <1>2, LoopKept
<1>4. Alone(w)' /\ Crowd(w)'
  <2>1. CASE ClaimCall(w)
    <3>1. loop'[w].pc = "claiming"
      BY <2>1, TypeGives DEF Shape, At
    <3>2. Alone(w)
      BY DEF MapInv
    <3> QED
      BY <2>1, <3>1, <3>2, RoomForOne DEF Alone, Crowd
  <2>2. CASE Full(w)
    <3>1. loop'[w].pc = "full" /\ loop'[w].racing = Tracked(w)
      BY <2>2, TypeGives DEF Shape, At
    <3>2. IsFiniteSet(Tracked(w)) /\ Cardinality(Tracked(w)) = Concurrency[w]
      BY <2>2, RoomTyped, PoolAssumption DEF Free
    <3>3. \A p, q \in Tracked(w) : p[1] = q[1] => p = q
      BY DEF Tracked
    <3>4. Alone(w)
      BY DEF MapInv
    <3> QED
      BY <2>2, <3>1, <3>2, <3>3, <3>4 DEF Alone, Crowd
  <2>3. CASE RoomAgain(w) \/ Wake(w) \/ LoopExit(w)
    <3>1. loop'[w].pc \notin {"claiming", "full"}
      BY <2>3, AtTyped, TypeGives DEF Shape
    <3> QED
      BY <2>3, <3>1, LoopKept
  <2> QED
    BY <2>1, <2>2, <2>3
<1> QED
  BY <1>1, <1>3, <1>4 DEF MapInv

\* A claim's executions are new, and it remembers the entries it replaces.
LEMMA ClaimReturnMap ==
  ASSUME TypeInv, MapInv, NEW w \in Workers, ClaimReturn(w)
  PROVE  MapInv'
<1> DEFINE S == Selected(w)
<1>0. /\ runs' = runs \cup {NewRun(w, j) : j \in S}
      /\ \A v \in Workers, j \in Ids :
           inFlight'[v][j] = IF v = w /\ j \in S THEN claims[j] + 1 ELSE inFlight[v][j]
      /\ \A v \in Workers : v # w => replaced'[v] = replaced[v] /\ loop'[v] = loop[v]
      /\ replaced'[w] = replaced[w] \cup {j \in S : inFlight[w][j] # 0}
      /\ loop[w].pc = "claiming" /\ loop'[w].pc \in {"top", "asleep"}
  BY AtTyped, AsleepTyped, TypeGives DEF ClaimReturn, Shape
<1>1. S \subseteq Ids /\ \A j \in S : claims[j] \in Nat
  BY ClaimsTyped, TypeGives DEF ClaimReturn, Shape
<1>2. \A j \in S : NewRun(w, j).w = w /\ NewRun(w, j).j = j /\ NewRun(w, j).n = claims[j] + 1
  BY DEF NewRun
<1>3. ASSUME NEW r \in runs
      PROVE  /\ r.w \in Workers /\ r.j \in Ids /\ r.n # 0
             /\ r.j \in S => r.n # claims[r.j] + 1
  <2>1. r.w \in Workers /\ r.j \in Ids /\ r.n \in 1 .. claims[r.j] /\ claims[r.j] \in Nat
    BY RunArguments, TypeGives DEF Counted, Shape
  <2> QED
    BY <2>1
<1> HIDE DEF S
<1>4. Entries'
  <2>1. ASSUME NEW v \in Workers, NEW j \in Ids, inFlight'[v][j] # 0
        PROVE  \E r \in runs' : r.w = v /\ r.j = j /\ r.n = inFlight'[v][j]
    <3>1. CASE v = w /\ j \in S
      BY <1>0, <1>2, <3>1
    <3>2. CASE ~(v = w /\ j \in S)
      BY <1>0, <2>1, <3>2 DEF MapInv, Entries
    <3> QED
      BY <3>1, <3>2
  <2>2. ASSUME NEW r \in runs'
        PROVE  inFlight'[r.w][r.j] = r.n \/ r.j \in replaced'[r.w]
    <3>1. CASE r \in runs
      <4>1. inFlight[r.w][r.j] = r.n \/ r.j \in replaced[r.w]
        BY <3>1 DEF MapInv, Entries
      <4>2. CASE r.w = w /\ r.j \in S
        BY <1>0, <1>3, <3>1, <4>1, <4>2
      <4>3. CASE ~(r.w = w /\ r.j \in S)
        BY <1>0, <1>3, <3>1, <4>1, <4>3
      <4> QED
        BY <4>2, <4>3
    <3>2. ASSUME NEW j \in S, r = NewRun(w, j)
          PROVE  inFlight'[r.w][r.j] = r.n
      BY <1>0, <1>1, <1>2, <3>2
    <3> QED
      BY <1>0, <3>1, <3>2
  <2>3. ASSUME NEW r \in runs', NEW s \in runs', r.j = s.j, r.n = s.n
        PROVE  r = s
    <3>1. ASSUME NEW q \in runs'
          PROVE  q \in runs \/ (q.j \in S /\ q = NewRun(w, q.j) /\ q.n = claims[q.j] + 1)
      BY <1>0, <1>2
    <3>2. CASE r \in runs /\ s \in runs
      BY <2>3, <3>2 DEF MapInv, Entries
    <3>3. CASE ~(r \in runs /\ s \in runs)
      BY <1>3, <2>3, <3>1, <3>3
    <3> QED
      BY <3>2, <3>3
  <2> QED
    BY <2>1, <2>2, <2>3 DEF Entries
<1>5. \A v \in Workers : v # w => Alone(v)' /\ Crowd(v)'
  BY <1>0, LoopKept
<1>6. Alone(w)' /\ Crowd(w)'
  <2>1. Alone(w)
    BY DEF MapInv
  <2> QED
    BY <1>0, <1>1, <2>1 DEF Alone, Crowd
<1> QED
  BY <1>4, <1>5, <1>6 DEF MapInv

\* An execution that ends takes the entry of its job with it: its own, or a later one.
LEMMA UntrackMap ==
  ASSUME TypeInv, MapInv, NEW r \in runs, Untrack(r), UNCHANGED replaced
  PROVE  MapInv'
<1>0. /\ runs' = runs \ {r} /\ r.w \in Workers /\ r.j \in Ids
      /\ \A v \in Workers, j \in Ids : inFlight'[v][j] = IF v = r.w /\ j = r.j THEN 0 ELSE inFlight[v][j]
  BY RunArguments, TypeGives DEF Untrack, Shape
<1>1. \A v \in Workers : loop'[v] = loop[v] \/ loop'[v].pc \notin {"claiming", "full"}
  BY AtTyped, TypeGives DEF Untrack, Shape
<1>2. Entries'
  <2>1. \A v \in Workers, j \in Ids :
          inFlight'[v][j] # 0 => \E q \in runs' : q.w = v /\ q.j = j /\ q.n = inFlight'[v][j]
    <3> SUFFICES ASSUME NEW v \in Workers, NEW j \in Ids, inFlight'[v][j] # 0
                 PROVE  \E q \in runs' : q.w = v /\ q.j = j /\ q.n = inFlight'[v][j]
      OBVIOUS
    <3>1. ~(v = r.w /\ j = r.j) /\ inFlight'[v][j] = inFlight[v][j]
      BY <1>0
    <3>2. PICK q \in runs : q.w = v /\ q.j = j /\ q.n = inFlight[v][j]
      BY <3>1 DEF MapInv, Entries
    <3> QED
      BY <1>0, <3>1, <3>2
  <2>2. ASSUME NEW q \in runs'
        PROVE  inFlight'[q.w][q.j] = q.n \/ q.j \in replaced[q.w]
    <3>1. q \in runs /\ q # r /\ q.w \in Workers /\ q.j \in Ids
      BY <1>0, RunArguments
    <3>2. inFlight[q.w][q.j] = q.n \/ q.j \in replaced[q.w]
      BY <3>1 DEF MapInv, Entries
    <3>3. CASE q.w = r.w /\ q.j = r.j
      BY <3>1, <3>2, <3>3 DEF MapInv, Entries
    <3>4. CASE ~(q.w = r.w /\ q.j = r.j)
      BY <1>0, <3>1, <3>2, <3>4
    <3> QED
      BY <3>3, <3>4
  <2>3. \A q, s \in runs' : q.j = s.j /\ q.n = s.n => q = s
    BY <1>0 DEF MapInv, Entries
  <2> QED
    BY <2>1, <2>2, <2>3 DEF Entries
<1>3. \A w \in Workers : Alone(w)' /\ Crowd(w)'
  BY <1>0, <1>1, LoopKept
<1> QED
  BY <1>2, <1>3 DEF MapInv

LEMMA MovedMap ==
  ASSUME TypeInv, MapInv, NEW r \in runs, NEW s, SameClaim(s, r), runs' = (runs \ {r}) \cup {s},
         UNCHANGED <<inFlight, replaced, loop>>
  PROVE  MapInv'
<1>1. Entries'
  BY EntriesKept DEF SameClaim, MapInv, Entries
<1>2. \A w \in Workers : Alone(w)' /\ Crowd(w)'
  BY LoopKept
<1> QED
  BY <1>1, <1>2 DEF MapInv

LEMMA AbortMap ==
  ASSUME TypeInv, MapInv, NEW w \in Workers, Abort(w)
  PROVE  MapInv'
<1>1. runs \subseteq Run /\ runs' = {AbortedBy(w, r) : r \in runs} /\ UNCHANGED <<inFlight, replaced, loop>>
  BY AbortedRuns, TypeGives DEF Shape, Abort
<1>2. \A r \in runs' : \E s \in runs : r = AbortedBy(w, s) /\ SameClaim(r, s)
  BY <1>1, AbortedRun DEF SameRun, SameClaim
<1>3. \A s \in runs : \E r \in runs' : SameClaim(r, s)
  BY <1>1, AbortedRun DEF SameRun, SameClaim
<1>4. ASSUME NEW r \in runs', NEW q \in runs', NEW s \in runs, SameClaim(r, s), SameClaim(q, s)
      PROVE  r = q
  <2>1. PICK a \in runs : r = AbortedBy(w, a) /\ SameClaim(r, a)
    BY <1>2
  <2>2. PICK b \in runs : q = AbortedBy(w, b) /\ SameClaim(q, b)
    BY <1>2
  <2>3. a = b
    BY <1>4, <2>1, <2>2 DEF SameClaim, MapInv, Entries
  <2> QED
    BY <2>1, <2>2, <2>3
<1>5. Entries'
  BY <1>1, <1>2, <1>3, <1>4, EntriesKept
<1>6. \A v \in Workers : Alone(v)' /\ Crowd(v)'
  BY <1>1, LoopKept
<1> QED
  BY <1>5, <1>6 DEF MapInv

LEMMA ExitMap ==
  ASSUME TypeInv, MapInv, NEW w \in Workers, Exit(w)
  PROVE  MapInv'
<1>0. /\ runs' = runs \ RunsOf(w) /\ UNCHANGED replaced
      /\ \A j \in Ids : inFlight'[w][j] = 0
      /\ \A v \in Workers : v # w => inFlight'[v] = inFlight[v] /\ loop'[v] = loop[v]
      /\ loop'[w].pc = "exited"
  BY AtTyped, NoEntriesTyped, TypeGives DEF Exit, Shape
<1>1. \A q \in runs' : q \in runs /\ q.w # w /\ q.w \in Workers /\ q.j \in Ids
  BY <1>0, RunArguments DEF RunsOf
<1>2. Entries'
  <2>1. \A v \in Workers, j \in Ids :
          inFlight'[v][j] # 0 => \E q \in runs' : q.w = v /\ q.j = j /\ q.n = inFlight'[v][j]
    BY <1>0 DEF MapInv, Entries, RunsOf
  <2>2. \A q \in runs' : inFlight'[q.w][q.j] = q.n \/ q.j \in replaced'[q.w]
    BY <1>0, <1>1 DEF MapInv, Entries
  <2>3. \A q, s \in runs' : q.j = s.j /\ q.n = s.n => q = s
    BY <1>0 DEF MapInv, Entries
  <2> QED
    BY <2>1, <2>2, <2>3 DEF Entries
<1>3. \A v \in Workers : Alone(v)' /\ Crowd(v)'
  BY <1>0, LoopKept
<1> QED
  BY <1>2, <1>3 DEF MapInv

LEMMA MapStep ==
  ASSUME TypeInv, MapInv, [Next]_vars
  PROVE  MapInv'
<1>1. ASSUME NEW j \in Ids, Revive(j) \/ \E delay \in Delays : Dispatch(j, delay)
      PROVE  MapInv'
  BY <1>1, QuietMap DEF Revive, Dispatch
<1>2. ASSUME NEW w \in Workers, \/ Start(w) \/ Maintain(w) \/ ClaimFails(w) \/ Stop(w)
                                \/ RenewStep(w) \/ RenewFails(w)
      PROVE  MapInv'
  <2>1. \A v \in Workers : loop'[v] = loop[v] \/ loop'[v].pc \notin {"claiming", "full"}
    BY <1>2, AtTyped, AsleepTyped, TypeGives
    DEF Shape, Start, Maintain, ClaimFails, Stop, RenewStep, RenewCall, RenewReturn, RenewFails
  <2> QED
    BY <1>2, <2>1, QuietMap
    DEF Start, Maintain, ClaimFails, Stop, RenewStep, RenewCall, RenewReturn, RenewFails
<1>3. ASSUME NEW w \in Workers, ClaimStep(w) \/ Wake(w)
      PROVE  MapInv'
  BY <1>3, LoopStepMap, ClaimReturnMap DEF ClaimStep
<1>4. ASSUME NEW w \in Workers, StopStep(w) \/ Crash(w)
      PROVE  MapInv'
  BY <1>4, AbortMap, ExitMap DEF StopStep, Stopped, Crash
<1>5. ASSUME NEW r \in runs, Return(r) \/ RecordFails(r)
      PROVE  MapInv'
  BY <1>5, UntrackMap DEF Return, RecordFails
<1>6. ASSUME NEW r \in runs, Record(r)
      PROVE  MapInv'
  <2> DEFINE s == [r EXCEPT !.outcome = "stored"]
  <2>1. SameClaim(s, r)
    BY RunArguments DEF Run, SameClaim
  <2>2. runs' = (runs \ {r}) \cup {s} /\ UNCHANGED <<inFlight, replaced, loop>>
    BY <1>6 DEF Record
  <2> HIDE DEF s
  <2> QED
    BY <2>1, <2>2, MovedMap
<1>7. ASSUME NEW r \in runs, NEW outcome, Settle(r, outcome)
      PROVE  MapInv'
  <2> DEFINE s == [r EXCEPT !.outcome = outcome, !.at = now]
  <2>1. SameClaim(s, r)
    BY RunArguments DEF Run, SameClaim
  <2>2. runs' = (runs \ {r}) \cup {s} /\ UNCHANGED <<inFlight, replaced, loop>>
    BY <1>7 DEF Settle
  <2> HIDE DEF s
  <2> QED
    BY <2>1, <2>2, MovedMap
<1>8. Tick \/ UNCHANGED vars => MapInv'
  BY QuietMap DEF Tick, vars
<1> QED
  BY <1>1, <1>2, <1>3, <1>4, <1>5, <1>6, <1>7, <1>8
  DEF Next, RunStep, Succeed, Retry, GiveUp, Release

LEMMA InitMap == Init => MapInv
<1> SUFFICES ASSUME Init PROVE MapInv
  OBVIOUS
<1>1. runs = {} /\ \A w \in Workers : /\ replaced[w] = {} /\ loop[w].pc \in {"top", "exited"}
                                      /\ \A j \in Ids : inFlight[w][j] = 0
  BY AtTyped, NoEntriesTyped DEF Init
<1> QED
  BY <1>1 DEF MapInv, Entries, Alone, Crowd

LEMMA MapInvariance == Spec => []MapInv
<1> QED
  BY InitMap, MapStep, TypeInvariance, PTL DEF Spec

\* The map of jobs in flight has an entry for every execution and for nothing else, except
\* for jobs that were claimed again while the reply for them was awaited; a worker with room
\* for one never does that (worker.ts, track).
THEOREM MapCorrect == Spec => []MapIsExact
<1>1. TypeInv /\ MapInv => MapIsExact
  <2> SUFFICES ASSUME TypeInv, MapInv, NEW w \in Workers
               PROVE  /\ Tracked(w) \subseteq {<<r.j, r.n>> : r \in RunsOf(w)}
                      /\ \A r \in RunsOf(w) : <<r.j, r.n>> \in Tracked(w) \/ r.j \in replaced[w]
                      /\ Concurrency[w] = 1 => replaced[w] = {}
    BY DEF MapIsExact
  <2>1. ASSUME NEW j \in Ids, inFlight[w][j] # 0
        PROVE  <<j, inFlight[w][j]>> \in {<<r.j, r.n>> : r \in RunsOf(w)}
    BY <2>1 DEF MapInv, Entries, RunsOf
  <2>2. ASSUME NEW r \in RunsOf(w)
        PROVE  <<r.j, r.n>> \in Tracked(w) \/ r.j \in replaced[w]
    <3>1. r.j \in Ids /\ r.n \in 1 .. claims[r.j] /\ r.w = w /\ r \in runs
      BY RunArguments, TypeGives DEF RunsOf, Counted
    <3>2. inFlight[w][r.j] = r.n \/ r.j \in replaced[w]
      BY <3>1 DEF MapInv, Entries
    <3> QED
      BY <3>1, <3>2 DEF Tracked
  <2>3. Concurrency[w] = 1 => replaced[w] = {}
    BY DEF MapInv, Alone
  <2> QED
    BY <2>1, <2>2, <2>3 DEF Tracked
<1> QED
  BY <1>1, TypeInvariance, MapInvariance, PTL

-----------------------------------------------------------------------------
\* Every step keeps the times.

LEMMA NumbersOf ==
  ASSUME TypeInv, NEW w \in Workers
  PROVE  /\ now \in Nat /\ loop[w].at \in Nat /\ renewal[w].next \in Nat /\ deadline[w] \in Nat
         /\ phase[w] \in Phases /\ loop[w].pc \in {"top", "claiming", "asleep", "full", "exited"}
<1>1. loop[w] \in Loop /\ renewal[w] \in Renewal
  BY DEF TypeInv, TypeOK
<1> QED
  BY <1>1 DEF TypeInv, TypeOK, Loop, Renewal

\* A worker that the step leaves alone, or that only loses executions.
Untouched(w) ==
  /\ UNCHANGED <<now, phase[w], loop[w], renewal[w], awaited[w], deadline[w], replaced[w]>>
  /\ RunsOf(w)' \subseteq RunsOf(w)
  /\ Tracked(w)' \subseteq Tracked(w)

LEMMA UntouchedTimes ==
  ASSUME Times, NEW w \in Workers, Untouched(w)
  PROVE  RenewalTime(w)' /\ ClaimTime(w)' /\ StopTime(w)'
<1>1. RenewalTime(w) /\ ClaimTime(w) /\ StopTime(w)
  BY DEF Times
<1>2. RenewalTime(w)'
  BY <1>1 DEF Untouched, RenewalTime, Live, RenewedAt
<1>3. ClaimTime(w)'
  BY <1>1 DEF Untouched, ClaimTime, Live, Stopping
<1>4. Window(w)' /\ Nap(w)' /\ Waits(w)'
  BY <1>1 DEF Untouched, StopTime, Window, Nap, Waits, Stopping
<1>5. Winding(w)'
  <2>1. Prompt(w) => Prompt(w)'
    BY DEF Untouched, Prompt
  <2>2. Left(w) => Left(w)'
    BY DEF Untouched, Left
  <2> QED
    BY <1>1, <2>1, <2>2 DEF Untouched, StopTime, Winding, Ends
<1> QED
  BY <1>2, <1>3, <1>4, <1>5 DEF StopTime

\* A worker in its phase, and stopping as it was: its loop goes on without a new claim.
LEMMA SteadyStop ==
  ASSUME Times, NEW w \in Workers, UNCHANGED <<now, phase[w], renewal[w], awaited[w], deadline[w], replaced[w]>>,
         \/ loop'[w] = loop[w]
         \/ loop'[w].pc \in {"top", "exited"}
         \/ ~Stopping(w),
         \A r \in RunsOf(w)' : \E s \in RunsOf(w) : /\ r.j = s.j /\ r.n = s.n
                                                    /\ Ends(s, deadline[w]) => Ends(r, deadline[w]),
         Tracked(w)' \subseteq Tracked(w)
  PROVE  StopTime(w)'
<1>1. Window(w) /\ Winding(w) /\ Nap(w) /\ Waits(w)
  BY DEF Times, StopTime
<1>2. Window(w)'
  BY <1>1 DEF Window, Stopping
<1>3. Nap(w)' /\ Waits(w)'
  BY <1>1 DEF Nap, Waits, Stopping
<1>4. Winding(w)'
  <2>1. Prompt(w) => Prompt(w)'
    BY DEF Prompt
  <2>2. Left(w) /\ Stopping(w) => Left(w)'
    BY DEF Left
  <2>3. phase[w] = "releasing" => \A r \in RunsOf(w)' : <<r.j, r.n>> \in awaited[w] => Ends(r, deadline[w])
    BY <1>1 DEF Winding
  <2> QED
    BY <1>1, <2>1, <2>2, <2>3 DEF Winding, Stopping, Ends
<1> QED
  BY <1>2, <1>3, <1>4 DEF StopTime

\* The caller's and the maintenance's steps.
LEMMA TableStepTimes ==
  ASSUME Times, UNCHANGED <<now, phase, loop, renewal, inFlight, runs, awaited, deadline, replaced>>
  PROVE  Times'
<1>1. \A w \in Workers : Untouched(w)
  BY DEF Untouched, RunsOf, Tracked
<1>2. \A r \in runs' : RunTime(r)'
  BY DEF Times, RunTime
<1> QED
  BY <1>1, <1>2, UntouchedTimes DEF Times

LEMMA StartTimes ==
  ASSUME TypeInv, Times, NEW w \in Workers, Start(w)
  PROVE  Times'
<1>1. \A v \in Workers : v # w => Untouched(v)
  BY TypeGives DEF Start, Untouched, RunsOf, Tracked, Shape
<1>2. phase'[w] = "up" /\ renewal'[w] = Renewing(now + RenewEvery, {}) /\ loop'[w] = At("top") /\ now' = now
  BY TypeGives DEF Start, Shape
<1>3. RenewalTime(w)' /\ ClaimTime(w)'
  BY <1>2, NumbersOf, DurationTypes, AtTyped DEF RenewalTime, ClaimTime, Stopping, Renewing
<1>4. StopTime(w)'
  BY <1>2 DEF StopTime, Window, Winding, Nap, Waits, Stopping
<1>5. \A r \in runs' : RunTime(r)'
  BY DEF Start, Times, RunTime
<1> QED
  BY <1>1, <1>3, <1>4, <1>5, UntouchedTimes DEF Times

LEMMA LoopStepTimes ==
  ASSUME TypeInv, Times, NEW w \in Workers,
         ClaimCall(w) \/ Full(w) \/ RoomAgain(w) \/ Wake(w) \/ LoopExit(w)
  PROVE  Times'
<1> USE DEF ClaimCall, Full, RoomAgain, Wake, LoopExit
<1>1. \A v \in Workers : v # w => Untouched(v)
  BY TypeGives DEF Untouched, RunsOf, Tracked, Shape
<1>2. RenewalTime(w)
  BY DEF Times
<1>3. RenewalTime(w)'
  BY <1>2 DEF RenewalTime, Live, RenewedAt
<1>4. loop'[w].pc \in {"top", "exited"} \/ ~Stopping(w)
  BY AtTyped, TypeGives DEF Stopping, Shape
<1>5. StopTime(w)'
  <2>1. UNCHANGED <<now, phase[w], renewal[w], awaited[w], deadline[w], replaced[w]>>
        /\ RunsOf(w)' = RunsOf(w) /\ Tracked(w)' = Tracked(w)
    BY DEF RunsOf, Tracked
  <2> QED
    BY <1>4, <2>1, SteadyStop
<1>6. ClaimTime(w)'
  <2>1. CASE ClaimCall(w)
    <3>1. loop'[w].at = now /\ phase'[w] = "up" /\ now' = now
      BY <2>1, TypeGives DEF Shape, At
    <3> QED
      BY <3>1, NumbersOf, DurationTypes DEF ClaimTime, Live, Stopping
  <2>2. CASE Full(w) \/ RoomAgain(w) \/ Wake(w) \/ LoopExit(w)
    <3>1. loop'[w].pc # "claiming"
      BY <2>2, AtTyped, TypeGives DEF Shape, At
    <3> QED
      BY <3>1 DEF ClaimTime
  <2> QED
    BY <2>1, <2>2
<1>7. \A r \in runs' : RunTime(r)'
  BY DEF Times, RunTime
<1> QED
  BY <1>1, <1>3, <1>5, <1>6, <1>7, UntouchedTimes DEF Times

\* The answer to a claim, or its failure: no longer does the stop wait for it, but perhaps
\* for the sleep that follows.
LEMMA AnsweredStop ==
  ASSUME TypeInv, Times, NEW w \in Workers, loop[w].pc = "claiming",
         UNCHANGED <<now, phase[w], renewal[w], awaited[w], deadline[w]>>,
         loop'[w] \in {At("top"), Asleep(w)},
         \A r \in RunsOf(w)' : <<r.j, r.n>> \in awaited[w] => r \in RunsOf(w)
  PROVE  StopTime(w)' /\ ClaimTime(w)'
<1>1. Window(w) /\ Winding(w) /\ ClaimTime(w)
  BY DEF Times, StopTime
<1>2. loop'[w].pc = "top" \/ (loop'[w].pc = "asleep" /\ (Stopping(w) => loop'[w].at = now))
  BY AtTyped, AsleepTyped
<1>3. Window(w)'
  BY <1>1 DEF Window, Stopping
<1>4. Nap(w)' /\ Waits(w)'
  BY <1>1, <1>2, NumbersOf, DurationTypes DEF ClaimTime, Nap, Waits, Stopping
<1>5. Winding(w)'
  <2>1. phase[w] = "releasing" => Prompt(w)
    BY <1>1 DEF Winding, Left
  <2>2. Prompt(w) => Prompt(w)'
    BY DEF Prompt
  <2> QED
    BY <1>1, <2>1, <2>2 DEF Winding, Ends
<1> QED
  BY <1>2, <1>3, <1>4, <1>5 DEF StopTime, ClaimTime

\* A claim's executions are new: nobody awaits them yet.
LEMMA ClaimReturnTimes ==
  ASSUME TypeInv, Times, NEW w \in Workers, ClaimReturn(w)
  PROVE  Times'
<1> USE DEF ClaimReturn
<1>0. \A j \in Selected(w) : /\ NewRun(w, j).w = w /\ NewRun(w, j).j = j /\ NewRun(w, j).n = claims[j] + 1
                              /\ NewRun(w, j).until = now + Timeout /\ NewRun(w, j).outcome = "none"
  BY DEF NewRun
<1>1. \A v \in Workers : v # w => Untouched(v)
  BY <1>0, TypeGives DEF Untouched, RunsOf, Tracked, Shape
<1>2. RenewalTime(w)
  BY DEF Times
<1>3. RenewalTime(w)'
  BY <1>2 DEF RenewalTime, Live, RenewedAt
<1>4. ASSUME NEW j \in Selected(w) PROVE <<j, claims[j] + 1>> \notin awaited[w]
  <2>1. j \in Ids /\ claims[j] \in Nat
    BY NewRunTyped, TypeGives DEF Shape
  <2>2. \A p \in awaited[w] : p[2] <= claims[p[1]]
    BY TypeGives DEF Counted
  <2> QED
    BY <2>1, <2>2
<1>5. \A r \in RunsOf(w)' : <<r.j, r.n>> \in awaited[w] => r \in RunsOf(w)
  BY <1>0, <1>4 DEF RunsOf
<1>6. loop'[w] \in {At("top"), Asleep(w)}
  BY TypeGives DEF Shape
<1>7. StopTime(w)' /\ ClaimTime(w)'
  BY <1>5, <1>6, AnsweredStop
<1>8. \A r \in runs' : RunTime(r)'
  BY <1>0, NumbersOf, DurationTypes DEF Times, RunTime
<1> QED
  BY <1>1, <1>3, <1>7, <1>8, UntouchedTimes DEF Times

LEMMA ClaimFailsTimes ==
  ASSUME TypeInv, Times, NEW w \in Workers, ClaimFails(w)
  PROVE  Times'
<1> USE DEF ClaimFails
<1>1. \A v \in Workers : v # w => Untouched(v)
  BY TypeGives DEF Untouched, RunsOf, Tracked, Shape
<1>2. RenewalTime(w)
  BY DEF Times
<1>3. RenewalTime(w)'
  BY <1>2 DEF RenewalTime, Live, RenewedAt
<1>4. loop'[w] \in {At("top"), Asleep(w)} /\ RunsOf(w)' = RunsOf(w)
  BY TypeGives DEF Shape, RunsOf
<1>5. StopTime(w)' /\ ClaimTime(w)'
  BY <1>4, AnsweredStop
<1>6. \A r \in runs' : RunTime(r)'
  BY DEF Times, RunTime
<1> QED
  BY <1>1, <1>3, <1>5, <1>6, UntouchedTimes DEF Times

\* Steps that leave every loop, or wake it: renewals, maps and phases stay.
LEMMA SteadyTimes ==
  ASSUME TypeInv, Times, NEW w \in Workers, UNCHANGED <<now, phase, renewal, awaited, deadline, replaced>>,
         loop'[w] = loop[w] \/ loop'[w].pc = "top",
         \A r \in RunsOf(w)' : \E s \in RunsOf(w) : /\ r.j = s.j /\ r.n = s.n
                                                    /\ Ends(s, deadline[w]) => Ends(r, deadline[w]),
         Tracked(w)' \subseteq Tracked(w)
  PROVE  RenewalTime(w)' /\ ClaimTime(w)' /\ StopTime(w)'
<1>1. RenewalTime(w) /\ ClaimTime(w)
  BY DEF Times
<1>2. RenewalTime(w)' /\ ClaimTime(w)'
  BY <1>1 DEF RenewalTime, ClaimTime, Live, Stopping, RenewedAt
<1>3. StopTime(w)'
  BY SteadyStop
<1> QED
  BY <1>2, <1>3

\* An awaited execution settles within the grace.
LEMMA SettleTimes ==
  ASSUME TypeInv, Times, NEW r \in runs, NEW outcome \in Outcomes, Settle(r, outcome)
  PROVE  Times'
<1> DEFINE s == [r EXCEPT !.outcome = outcome, !.at = now]
<1>1. /\ s.w = r.w /\ s.j = r.j /\ s.n = r.n /\ s.until = r.until /\ s.outcome # "none" /\ s.at = now
  BY RunArguments DEF Run, Outcomes
<1>2. runs' = (runs \ {r}) \cup {s} /\ r.outcome = "none"
      /\ UNCHANGED <<now, phase, loop, renewal, inFlight, awaited, deadline, replaced>>
  BY DEF Settle
<1> HIDE DEF s
<1>3. RunTime(r) /\ r.w \in Workers
  BY RunArguments DEF Times
<1>4. ASSUME NEW w \in Workers PROVE RenewalTime(w)' /\ ClaimTime(w)' /\ StopTime(w)'
  <2>1. \A q \in RunsOf(w)' : q \in RunsOf(w) \/ (q = s /\ r \in RunsOf(w))
    BY <1>1, <1>2 DEF RunsOf
  <2>2. \A q \in RunsOf(w)' : \E p \in RunsOf(w) : /\ q.j = p.j /\ q.n = p.n
                                                   /\ Ends(p, deadline[w]) => Ends(q, deadline[w])
    BY <1>1, <1>2, <2>1 DEF Ends
  <2>3. Tracked(w)' = Tracked(w)
    BY <1>2 DEF Tracked
  <2> QED
    BY <1>2, <2>2, <2>3, SteadyTimes
<1>5. \A q \in runs' : RunTime(q)'
  BY <1>1, <1>2, <1>3, NumbersOf, DurationTypes DEF Times, RunTime
<1> QED
  BY <1>4, <1>5 DEF Times

LEMMA RecordTimes ==
  ASSUME TypeInv, Times, NEW r \in runs, Record(r)
  PROVE  Times'
<1> DEFINE s == [r EXCEPT !.outcome = "stored"]
<1>1. /\ s.w = r.w /\ s.j = r.j /\ s.n = r.n /\ s.until = r.until /\ s.outcome # "none" /\ s.at = r.at
      /\ r.outcome # "none"
  BY RunArguments DEF Run, Outcomes, Record
<1>2. runs' = (runs \ {r}) \cup {s}
      /\ UNCHANGED <<now, phase, loop, renewal, inFlight, awaited, deadline, replaced>>
  BY DEF Record
<1> HIDE DEF s
<1>3. RunTime(r)
  BY DEF Times
<1>4. ASSUME NEW w \in Workers PROVE RenewalTime(w)' /\ ClaimTime(w)' /\ StopTime(w)'
  <2>1. \A q \in RunsOf(w)' : q \in RunsOf(w) \/ (q = s /\ r \in RunsOf(w))
    BY <1>1, <1>2 DEF RunsOf
  <2>2. \A q \in RunsOf(w)' : \E p \in RunsOf(w) : /\ q.j = p.j /\ q.n = p.n
                                                   /\ Ends(p, deadline[w]) => Ends(q, deadline[w])
    BY <1>1, <1>2, <2>1 DEF Ends
  <2>3. Tracked(w)' = Tracked(w)
    BY <1>2 DEF Tracked
  <2> QED
    BY <1>2, <2>2, <2>3, SteadyTimes
<1>5. \A q \in runs' : RunTime(q)'
  BY <1>1, <1>2, <1>3 DEF Times, RunTime
<1> QED
  BY <1>4, <1>5 DEF Times

LEMMA UntrackTimes ==
  ASSUME TypeInv, Times, NEW r \in runs, Untrack(r), UNCHANGED <<now, phase, renewal, awaited, deadline, replaced>>
  PROVE  Times'
<1>1. runs' = runs \ {r} /\ loop' \in {loop, [loop EXCEPT ![r.w] = At("top")]}
  BY DEF Untrack
<1>2. ASSUME NEW w \in Workers PROVE RenewalTime(w)' /\ ClaimTime(w)' /\ StopTime(w)'
  <2>1. \A q \in RunsOf(w)' : q \in RunsOf(w)
    BY <1>1 DEF RunsOf
  <2>2. loop'[w] = loop[w] \/ loop'[w].pc = "top"
    BY <1>1, AtTyped, TypeGives DEF Shape
  <2>3. Tracked(w)' \subseteq Tracked(w)
    <3>1. \A j \in Ids : inFlight'[w][j] \in {inFlight[w][j], 0}
      BY RunArguments, TypeGives DEF Untrack, Shape
    <3> QED
      BY <3>1 DEF Tracked
  <2> QED
    BY <2>1, <2>2, <2>3, SteadyTimes
<1>3. \A q \in runs' : RunTime(q)'
  BY <1>1 DEF Times, RunTime
<1> QED
  BY <1>2, <1>3 DEF Times

LEMMA RenewalStepTimes ==
  ASSUME TypeInv, Times, NEW w \in Workers, RenewCall(w) \/ RenewReturn(w) \/ RenewFails(w)
  PROVE  Times'
<1> USE DEF RenewCall, RenewReturn, RenewFails, RenewEnds
<1>1. \A v \in Workers : v # w => Untouched(v)
  BY TypeGives DEF Untouched, RunsOf, Tracked, Shape
<1>2. RenewalTime(w) /\ ClaimTime(w) /\ Window(w) /\ Winding(w) /\ Nap(w) /\ Waits(w)
  BY DEF Times, StopTime
<1>3. ClaimTime(w)'
  BY <1>2 DEF ClaimTime, Live, Stopping
<1>4. \/ RenewCall(w) /\ renewal'[w].next = now + RenewEvery
      \/ renewal'[w].next = renewal[w].next /\ renewal'[w].ids = {}
  BY TypeGives DEF Renewing, Shape
<1>5. RenewalTime(w)'
  BY <1>2, <1>4, NumbersOf, DurationTypes DEF RenewalTime, Live, RenewedAt
<1>6. StopTime(w)'
  <2>1. phase[w] # "up" => renewal'[w].next = renewal[w].next
    BY <1>4
  <2>2. Window(w)'
    BY <1>2, <2>1 DEF Window, Stopping
  <2>3. Nap(w)' /\ Waits(w)'
    BY <1>2 DEF Nap, Waits, Stopping, Tracked
  <2>4. Prompt(w)' = Prompt(w) /\ Left(w)' = Left(w) /\ RunsOf(w)' = RunsOf(w)
    BY DEF Prompt, Left, Tracked, RunsOf
  <2>5. Winding(w)'
    BY <1>2, <2>4 DEF Winding, Ends
  <2> QED
    BY <2>2, <2>3, <2>5 DEF StopTime
<1>7. \A r \in runs' : RunTime(r)'
  BY DEF Times, RunTime
<1> QED
  BY <1>1, <1>3, <1>5, <1>6, <1>7, UntouchedTimes DEF Times

LEMMA StopTimes ==
  ASSUME TypeInv, Times, NEW w \in Workers, Stop(w)
  PROVE  Times'
<1> USE DEF Stop
<1>1. \A v \in Workers : v # w => Untouched(v)
  BY TypeGives DEF Untouched, RunsOf, Tracked, Shape
<1>2. RenewalTime(w) /\ ClaimTime(w)
  BY DEF Times
<1>3. /\ phase'[w] = "draining" /\ deadline'[w] = now + Grace /\ now <= renewal[w].next
      /\ awaited'[w] = Tracked(w) /\ Tracked(w)' = Tracked(w)
  BY <1>2, TypeGives DEF RenewalTime, Live, Shape, Tracked
<1>4. RenewalTime(w)'
  BY <1>2, <1>3 DEF RenewalTime, Live, RenewedAt
<1>5. loop'[w].pc # "asleep" /\ (loop'[w] = loop[w] \/ loop'[w].pc = "top")
  BY AtTyped, TypeGives DEF Shape
<1>6. ClaimTime(w)'
  BY <1>2, <1>3, <1>5, NumbersOf, DurationTypes DEF ClaimTime, Live
<1>7. StopTime(w)'
  <2>1. Window(w)'
    BY <1>3, NumbersOf, DurationTypes DEF Window
  <2>2. Winding(w)' /\ Nap(w)' /\ Waits(w)'
    BY <1>3, <1>5 DEF Winding, Nap, Waits
  <2> QED
    BY <2>1, <2>2 DEF StopTime
<1>8. \A r \in runs' : RunTime(r)'
  BY DEF Times, RunTime
<1> QED
  BY <1>1, <1>4, <1>6, <1>7, <1>8, UntouchedTimes DEF Times

\* At the end of the grace every awaited execution was settled, or is aborted.
LEMMA AbortTimes ==
  ASSUME TypeInv, Times, NEW w \in Workers, Abort(w)
  PROVE  Times'
<1>0. /\ phase[w] = "draining" /\ phase' = [phase EXCEPT ![w] = "releasing"]
      /\ awaited' = [awaited EXCEPT ![w] = Tracked(w)]
      /\ UNCHANGED <<now, loop, renewal, inFlight, deadline, replaced>>
  BY DEF Abort, GraceOver
<1>1. /\ \A r \in runs' : \E s \in runs : SameRun(r, s) /\ (s.aborted \/ Signalled(w, s) => r.aborted)
  BY AbortedRuns, AbortedRun, TypeGives DEF Shape
<1>2. RenewalTime(w) /\ ClaimTime(w) /\ Window(w) /\ Nap(w) /\ Waits(w)
  BY DEF Times, StopTime
<1>3. phase'[w] = "releasing" /\ awaited'[w] = Tracked(w) /\ \A v \in Workers : Tracked(v)' = Tracked(v)
  BY <1>0, TypeGives DEF Shape, Tracked
<1>4. RenewalTime(w)' /\ ClaimTime(w)'
  BY <1>0, <1>2, <1>3 DEF RenewalTime, ClaimTime, Live, Stopping, RenewedAt
<1>5. \A r \in runs' : RunTime(r)'
  BY <1>0, <1>1 DEF Times, RunTime, SameRun
<1>6. now <= deadline[w]
  BY <1>0, <1>2 DEF Window, Stopping
<1>7. ASSUME NEW r \in RunsOf(w)', <<r.j, r.n>> \in Tracked(w) PROVE Ends(r, deadline[w])
  <2>1. PICK s \in runs : SameRun(r, s) /\ (s.aborted \/ Signalled(w, s) => r.aborted)
    BY <1>1 DEF RunsOf
  <2>2. r.w = w
    BY DEF RunsOf
  <2>3. r.outcome = "none" => r.aborted
    BY <1>7, <2>1, <2>2 DEF SameRun, Signalled
  <2>4. r.outcome # "none" => r.at <= now /\ r.at \in Nat
    BY <2>1, RunArguments DEF Times, RunTime, SameRun
  <2> QED
    BY <1>6, <2>3, <2>4, NumbersOf DEF Ends
<1>8. StopTime(w)'
  <2>1. Stopping(w)
    BY <1>0 DEF Stopping
  <2>2. Prompt(w)'
    BY <1>0, <1>6, NumbersOf, DurationTypes DEF Prompt
  <2>3. Window(w)'
    BY <1>0, <1>2, <1>3, <2>1 DEF Window
  <2>4. Nap(w)' /\ Waits(w)'
    BY <1>0, <1>2, <1>3, <2>1 DEF Nap, Waits
  <2>5. Winding(w)'
    BY <1>0, <1>3, <1>7, <2>2 DEF Winding, Ends, RunsOf
  <2> QED
    BY <2>3, <2>4, <2>5 DEF StopTime
<1>9. ASSUME NEW v \in Workers, v # w PROVE RenewalTime(v)' /\ ClaimTime(v)' /\ StopTime(v)'
  <2>1. RenewalTime(v) /\ ClaimTime(v)
    BY DEF Times
  <2>2. phase'[v] = phase[v] /\ awaited'[v] = awaited[v]
    BY <1>0, <1>9, TypeGives DEF Shape
  <2>3. RenewalTime(v)' /\ ClaimTime(v)'
    BY <1>0, <2>1, <2>2 DEF RenewalTime, ClaimTime, Live, Stopping, RenewedAt
  <2>4. \A r \in RunsOf(v)' : \E s \in RunsOf(v) : SameRun(r, s) /\ (s.aborted => r.aborted)
    BY <1>1 DEF RunsOf, SameRun
  <2>5. \A r \in RunsOf(v)' : \E s \in RunsOf(v) : /\ r.j = s.j /\ r.n = s.n
                                                   /\ Ends(s, deadline[v]) => Ends(r, deadline[v])
    BY <2>4 DEF Ends, SameRun
  <2>6. StopTime(v)'
    BY <1>0, <1>3, <2>2, <2>5, SteadyStop
  <2> QED
    BY <2>3, <2>6
<1> QED
  BY <1>4, <1>5, <1>8, <1>9 DEF Times

LEMMA ExitTimes ==
  ASSUME TypeInv, Times, NEW w \in Workers, Exit(w)
  PROVE  Times'
<1>1. \A v \in Workers : v # w => Untouched(v)
  BY TypeGives DEF Exit, Untouched, RunsOf, Tracked, Shape
<1>2. phase'[w] = "stopped" /\ loop'[w].pc = "exited"
  BY AtTyped, TypeGives DEF Exit, Shape
<1>3. RenewalTime(w)' /\ ClaimTime(w)' /\ StopTime(w)'
  BY <1>2 DEF RenewalTime, ClaimTime, StopTime, Window, Winding, Nap, Waits, Stopping, Live
<1>4. \A r \in runs' : RunTime(r)'
  BY DEF Exit, Times, RunTime
<1> QED
  BY <1>1, <1>3, <1>4, UntouchedTimes DEF Times

LEMMA ReplacedFinite ==
  ASSUME TypeInv, NEW w \in Workers
  PROVE  IsFiniteSet(replaced[w]) /\ Cardinality(replaced[w]) \in Nat
<1>1. replaced[w] \subseteq Dispatched(jobs)
  BY TypeGives DEF Shape, Counted, Dispatched
<1> QED
  BY <1>1, FS_Subset, FS_CardinalityType DEF TypeInv, FewJobs

\* A full worker that lost fewer entries than it has room for waits for an execution that
\* has its entry.
LEMMA CrowdKnown ==
  ASSUME TypeInv, MapInv, NEW w \in Workers, loop[w].pc = "full", ~RaceEnds(w),
         ~(Cardinality(replaced[w]) >= Concurrency[w])
  PROVE  \E r \in RunsOf(w) : <<r.j, r.n>> \in Tracked(w)
<1> DEFINE R == loop[w].racing
           f == [p \in R |-> p[1]]
<1>1. /\ IsFiniteSet(R) /\ Cardinality(R) = Concurrency[w]
      /\ \A p, q \in R : p[1] = q[1] => p = q
  BY DEF MapInv, Crowd
<1>2. IsFiniteSet(replaced[w]) /\ Cardinality(replaced[w]) \in Nat /\ Concurrency[w] \in Nat
  BY ReplacedFinite, PoolAssumption
<1> HIDE DEF R
<1>3. PICK p \in R : p[1] \notin replaced[w]
  <2> SUFFICES ASSUME \A p \in R : p[1] \in replaced[w]
               PROVE  FALSE
    OBVIOUS
  <2>1. f \in Injection(R, replaced[w])
    BY <1>1, Zenon DEF Injection, IsInjective
  <2>2. Cardinality(R) <= Cardinality(replaced[w])
    BY <1>2, <2>1, FS_Injection, Zenon
  <2> QED
    BY <1>1, <1>2, <2>2
<1>4. PICK r \in RunsOf(w) : <<r.j, r.n>> = p
  BY <1>3 DEF RaceEnds, Pending, R
<1>5. r \in runs /\ r.w = w /\ r.j \in Ids /\ r.n # 0
  BY RunArguments, TypeGives DEF RunsOf, Counted
<1>6. r.j \notin replaced[w]
  BY <1>3, <1>4
<1>7. inFlight[w][r.j] = r.n
  BY <1>5, <1>6 DEF MapInv, Entries
<1> QED
  BY <1>5, <1>7 DEF Tracked

\* The clock waits for what is due.
LEMMA TickTimes ==
  ASSUME TypeInv, MapInv, Times, Tick
  PROVE  Times'
<1>0. now' = now + 1 /\ UNCHANGED <<phase, loop, renewal, inFlight, runs, awaited, deadline, replaced>>
  BY DEF Tick
<1>1. ASSUME NEW r \in runs
      PROVE  /\ RunTime(r) /\ RunTime(r)' /\ r.until \in Nat /\ r.at \in Nat
             /\ r.outcome = "none" => ~r.aborted
             /\ r.outcome # "none" => now + 1 <= r.at + RoundTrip
  <2>1. RunTime(r) /\ ~RunDue(r)
    BY DEF Times, Tick
  <2> QED
    BY <1>0, <2>1, RunArguments, DurationTypes, TypeGives DEF RunTime, RunDue, Late, Shape
<1>2. ASSUME NEW w \in Workers PROVE RenewalTime(w)' /\ ClaimTime(w)' /\ StopTime(w)'
  <2>1. RenewalTime(w) /\ ClaimTime(w) /\ Window(w) /\ Winding(w) /\ Nap(w) /\ Waits(w)
    BY DEF Times, StopTime
  <2>2. ~LoopDue(w) /\ ~RenewalDue(w) /\ ~GraceOver(w) /\ ~StopDone(w)
    BY DEF Tick
  <2>3. RenewalTime(w)'
    BY <1>0, <2>1, <2>2, NumbersOf, DurationTypes DEF RenewalTime, Live, RenewedAt, RenewalDue, Late
  <2>4. loop[w].pc = "claiming" => now + 1 <= loop[w].at + RoundTrip
    BY <2>2, NumbersOf, DurationTypes DEF LoopDue, Late
  <2>5. ClaimTime(w)'
    BY <1>0, <2>1, <2>4, NumbersOf DEF ClaimTime, Live, Stopping
  <2>6. Window(w)'
    <3>1. phase[w] = "draining" => now < deadline[w]
      BY <2>2, NumbersOf DEF GraceOver
    <3> QED
      BY <1>0, <2>1, <3>1, NumbersOf, DurationTypes DEF Window, Stopping
  <2>7. Stopping(w) /\ loop[w].pc = "asleep" => now + 1 <= loop[w].at + PollMax
    BY <2>2, NumbersOf, DurationTypes DEF LoopDue
  <2>8. Nap(w)'
    BY <1>0, <2>1, <2>7, NumbersOf DEF Nap, Stopping
  <2>9. Waits(w)' /\ Tracked(w)' = Tracked(w)
    BY <1>0, <2>1 DEF Waits, Stopping, Tracked
  <2>10. Winding(w)'
    <3> SUFFICES ASSUME phase[w] = "releasing"
                 PROVE  /\ Prompt(w)' \/ Left(w)'
                        /\ \A r \in RunsOf(w) : <<r.j, r.n>> \in awaited[w] => Ends(r, deadline[w])'
      BY <1>0 DEF Winding, RunsOf
    <3>1. \A r \in RunsOf(w) : <<r.j, r.n>> \in awaited[w] => Ends(r, deadline[w])
      BY <2>1 DEF Winding
    <3>2. \A r \in RunsOf(w) : <<r.j, r.n>> \in awaited[w] => r.outcome # "none" /\ r.at <= deadline[w]
      BY <1>1, <3>1 DEF Ends, RunsOf
    <3>3. Stopping(w) /\ loop[w].pc \in {"claiming", "asleep", "full", "exited"}
      BY <2>2, NumbersOf DEF Stopping, LoopDue
    <3>4. ASSUME NEW r \in RunsOf(w), <<r.j, r.n>> \in awaited[w]
          PROVE  Prompt(w)'
      <4>1. r \in runs /\ r.at <= deadline[w] /\ now + 1 <= r.at + RoundTrip /\ r.at \in Nat
        BY <1>1, <3>2, <3>4 DEF RunsOf
      <4>2. now + 1 <= deadline[w] + RoundTrip
        BY <4>1, NumbersOf, DurationTypes
      <4> QED
        BY <1>0, <4>2 DEF Prompt
    <3>5. CASE loop[w].pc \in {"claiming", "asleep"}
      <4>1. now + 1 + Grace <= deadline[w] + RoundTrip + PollMax
        BY <2>1, <2>4, <2>7, <3>3, <3>5, NumbersOf, DurationTypes DEF ClaimTime, Nap
      <4> QED
        BY <1>0, <3>2, <4>1 DEF Prompt, Ends
    <3>6. CASE loop[w].pc = "exited"
      <4>1. PICK r \in RunsOf(w) : <<r.j, r.n>> \in awaited[w]
        BY <2>2, <3>6 DEF StopDone, Pending
      <4> QED
        BY <1>0, <3>2, <3>4, <4>1 DEF Ends
    <3>7. CASE loop[w].pc = "full"
      <4>1. Tracked(w) \subseteq awaited[w]
        BY <2>1, <3>3, <3>7 DEF Waits
      <4>2. CASE Cardinality(replaced[w]) >= Concurrency[w]
        BY <1>0, <2>9, <3>2, <3>7, <4>1, <4>2 DEF Left, Ends
      <4>3. CASE ~(Cardinality(replaced[w]) >= Concurrency[w])
        <5>1. ~RaceEnds(w)
          BY <2>2 DEF LoopDue
        <5>2. PICK r \in RunsOf(w) : <<r.j, r.n>> \in Tracked(w)
          BY <3>7, <4>3, <5>1, CrowdKnown
        <5> QED
          BY <1>0, <3>2, <3>4, <4>1, <5>2 DEF Ends
      <4> QED
        BY <4>2, <4>3
    <3> QED
      BY <3>3, <3>5, <3>6, <3>7
  <2> QED
    BY <2>3, <2>5, <2>6, <2>8, <2>9, <2>10 DEF StopTime
<1> QED
  BY <1>0, <1>1, <1>2 DEF Times

LEMMA TimesStep ==
  ASSUME TypeInv, MapInv, Times, [Next]_vars
  PROVE  Times'
<1>1. ASSUME NEW j \in Ids, Revive(j) \/ \E delay \in Delays : Dispatch(j, delay)
      PROVE  Times'
  BY <1>1, TableStepTimes DEF Revive, Dispatch
<1>2. ASSUME NEW w \in Workers, Start(w) \/ Maintain(w) \/ ClaimStep(w) \/ ClaimFails(w) \/ Wake(w)
      PROVE  Times'
  BY <1>2, TableStepTimes, StartTimes, LoopStepTimes, ClaimReturnTimes, ClaimFailsTimes DEF Maintain, ClaimStep
<1>3. ASSUME NEW w \in Workers, RenewStep(w) \/ RenewFails(w) \/ Stop(w) \/ StopStep(w) \/ Crash(w)
      PROVE  Times'
  BY <1>3, RenewalStepTimes, StopTimes, AbortTimes, ExitTimes DEF RenewStep, StopStep, Stopped, Crash
<1>4. ASSUME NEW r \in runs, Record(r) \/ Return(r) \/ RecordFails(r)
      PROVE  Times'
  BY <1>4, RecordTimes, UntrackTimes DEF Return, RecordFails
<1>5. ASSUME NEW r \in runs, Succeed(r) \/ Retry(r) \/ GiveUp(r) \/ Release(r)
      PROVE  Times'
  <2>1. \E outcome \in Outcomes : Settle(r, outcome)
    BY <1>5 DEF Succeed, Retry, GiveUp, Release, Outcomes
  <2> QED
    BY <2>1, SettleTimes
<1>6. CASE Tick \/ UNCHANGED vars
  BY <1>6, TickTimes, TableStepTimes DEF vars
<1> QED
  BY <1>1, <1>2, <1>3, <1>4, <1>5, <1>6 DEF Next, RunStep

LEMMA InitTimes == Init => Times
<1> SUFFICES ASSUME Init PROVE Times
  OBVIOUS
<1>1. ASSUME NEW w \in Workers
      PROVE  /\ phase[w] \in {"new", "up"} /\ loop[w].pc # "claiming" /\ now = 0
             /\ phase[w] = "up" => renewal[w] = Renewing(RenewEvery, {})
  BY AtTyped DEF Init
<1>2. \A w \in Workers : RenewalTime(w) /\ ClaimTime(w) /\ StopTime(w)
  BY <1>1, DurationTypes
  DEF RenewalTime, ClaimTime, StopTime, Window, Winding, Nap, Waits, Live, Stopping, Renewing
<1> QED
  BY <1>2 DEF Init, Times

LEMMA TimesInvariance == Spec => []Times
<1> QED
  BY InitTimes, TimesStep, TypeInvariance, MapInvariance, PTL DEF Spec

\* stop() returns within its grace and one call to the store, or within that call and one
\* poll sleep after it began, whatever it finds running and whatever fails meanwhile, unless
\* the worker lost as many entries of its map as it has room for (worker.ts, stop and loop).
THEOREM StopCorrect == Spec => []StopIsPrompt
<1>1. TypeInv /\ Times => StopIsPrompt
  <2> SUFFICES ASSUME TypeInv, Times, NEW w \in Workers, Stopping(w), Cardinality(replaced[w]) < Concurrency[w]
               PROVE  Prompt(w)
    BY DEF StopIsPrompt
  <2>1. Window(w) /\ Winding(w)
    BY DEF Times, StopTime
  <2>2. CASE phase[w] = "draining"
    BY <2>1, <2>2, NumbersOf, DurationTypes DEF Window, Prompt
  <2>3. CASE phase[w] = "releasing"
    <3>1. ~Left(w)
      BY ReplacedFinite, PoolAssumption DEF Left
    <3> QED
      BY <2>1, <2>3, <3>1 DEF Winding
  <2> QED
    BY <2>2, <2>3 DEF Stopping
<1> QED
  BY <1>1, TypeInvariance, TimesInvariance, PTL

-----------------------------------------------------------------------------
\* How long a key is taken.

\* A finished job leaves the table at the end of its window, and never comes back.
Settled ==
  \A j \in Ids :
    /\ jobs[j].state = "gone" => jobs'[j].state = "gone"
    /\ jobs[j].state = "completed" =>
         \/ jobs'[j] = jobs[j]
         \/ jobs'[j].state = "gone" /\ now > jobs[j].finishedAt + IdemWindow

LEMMA MaintenanceSettles ==
  ASSUME TypeInv, jobs' = Maintained(jobs, now)
  PROVE  Settled
<1>1. GoodTable(jobs) /\ now \in Nat /\ IdemWindow \in Nat
  BY DurationTypes DEF TypeInv, TypeOK, GoodTable, Agreeing
<1> SUFFICES ASSUME NEW j \in Ids
             PROVE  /\ jobs[j].state = "gone" => jobs'[j].state = "gone"
                    /\ jobs[j].state = "completed" =>
                         \/ jobs'[j] = jobs[j]
                         \/ jobs'[j].state = "gone" /\ now > jobs[j].finishedAt + IdemWindow
  BY DEF Settled
<1>2. jobs'[j] = IF j \in Expired(jobs, now) THEN Requeued(jobs, now)[j]
                 ELSE IF j \in Outdated(jobs, now) THEN NoRow("gone") ELSE jobs[j]
  BY <1>1, MaintainedRows
<1>3. jobs[j].state = "completed" => jobs[j].finishedAt \in Nat
  BY <1>1 DEF GoodTable, Agrees, Finished, Row
<1> QED
  BY <1>1, <1>2, <1>3 DEF Expired, Outdated, NoRow

LEMMA StepSettles ==
  ASSUME TypeInv, [Next]_vars
  PROVE  Settled
<1>1. ASSUME NEW j \in Ids, NEW delay \in Delays, Dispatch(j, delay)
      PROVE  Settled
  BY <1>1 DEF Dispatch, Enqueued, Settled
<1>2. ASSUME NEW j \in Ids, Revive(j)
      PROVE  Settled
  BY <1>2 DEF Revive, Retried, Settled
<1>3. ASSUME NEW w \in Workers, StoreClaims(w)
      PROVE  Settled
  BY <1>3, ClaimsTyped DEF StoreClaims, ClaimedTable, Claimed, Settled
<1>4. ASSUME NEW w \in Workers, RenewReturn(w)
      PROVE  Settled
  BY <1>4 DEF RenewReturn, Renewed, Holds, Settled
<1>5. ASSUME NEW r \in runs, Record(r)
      PROVE  Settled
  BY <1>5, TypeGives DEF Record, StoreCompletes, Completed, Holds, Settled, TypeInv, TypeOK
<1>6. UNCHANGED jobs => Settled
  BY DEF Settled
<1> QED
  BY <1>1, <1>2, <1>3, <1>4, <1>5, <1>6, TableSteps, MaintenanceSettles DEF Start, Maintain

LEMMA WindowsStep ==
  ASSUME TypeInv, Windows, [Next]_vars
  PROVE  Windows'
<1>0. now' \in {now, now + 1} /\ now \in Nat
  BY TypeGives DEF Shape, Next, vars, Revive, Dispatch, Start, Maintain, ClaimStep, ClaimCall, Full, RoomAgain,
     ClaimReturn, LoopExit, ClaimFails, Wake, RenewStep, RenewCall, RenewReturn, RenewFails, Stop, StopStep, Abort,
     Stopped, Crash, Exit, RunStep, Succeed, Retry, GiveUp, Release, Settle, Record, Return, RecordFails, Tick
<1> SUFFICES ASSUME NEW j \in Ids, Keep(j), ended'[j] # NoTime
             PROVE  \/ jobs'[j].state = "completed" /\ jobs'[j].finishedAt = ended'[j]
                    \/ jobs'[j].state = "gone" /\ now' > ended'[j] + IdemWindow
  BY DEF Windows, Keep
<1>1. CASE ended'[j] = ended[j]
  <2>1. /\ ended[j] \in Int /\ IdemWindow \in Nat
        /\ \/ jobs[j].state = "completed" /\ jobs[j].finishedAt = ended[j]
           \/ jobs[j].state = "gone" /\ now > ended[j] + IdemWindow
    BY <1>1, DurationTypes, TypeGives DEF Windows, Shape
  <2>2. Settled
    BY StepSettles
  <2> QED
    BY <1>0, <1>1, <2>1, <2>2 DEF Settled
<1>2. CASE ended'[j] # ended[j]
  <2>1. PICK r \in runs : StoreCompletes(r)
    BY <1>2, TableSteps DEF Record, Dispatch, Revive, Start, Maintain, ClaimReturn, ClaimFails, RenewReturn
  <2>2. r.outcome = "completed" /\ Holds(jobs, r.w, r.j) /\ j = r.j /\ ended'[j] = r.at
    BY <1>2, <2>1, RunArguments, TypeGives DEF StoreCompletes, Shape
  <2>3. jobs'[j] = Outcome(jobs[j], TRUE, "completed", r.at, r.at + Backoff)
    BY <2>1, <2>2 DEF StoreCompletes, Completed, TypeInv, TypeOK
  <2>4. jobs[j] \in Row /\ r.at \in Nat
    BY RunArguments DEF TypeInv, TypeOK
  <2>5. Unlocked(jobs[j]) \in Row
    BY <2>4, UnlockedRow
  <2>6. jobs'[j] = [Unlocked(jobs[j]) EXCEPT !.state = "completed", !.finishedAt = r.at]
    BY <2>3 DEF Outcome
  <2> HIDE DEF Unlocked
  <2>7. jobs'[j].state = "completed" /\ jobs'[j].finishedAt = r.at
    BY <2>5, <2>6 DEF Row
  <2> QED
    BY <2>2, <2>7
<1> QED
  BY <1>1, <1>2

LEMMA InitWindows == Init => Windows
  BY DEF Init, Windows

LEMMA WindowsInvariance == Spec => []Windows
<1> QED
  BY InitWindows, WindowsStep, TypeInvariance, PTL DEF Spec

\* Of the jobs dispatched with one key, none is stored while another waits or runs, nor
\* until the window has passed since another one's success, whatever workers do and
\* whatever fails meanwhile (define.ts; worker.ts, maintain).
THEOREM KeysCorrect == Spec => KeyRunsOnce
<1> DEFINE Step == \A i, j \in Ids :
             i # j /\ SameKey(i, j) /\ jobs[j].state = "unborn" /\ jobs'[j].state = "pending" =>
               /\ jobs[i].state \notin Stored
               /\ ended[i] = NoTime \/ now > ended[i] + IdemWindow
<1>1. TypeInv /\ Windows /\ [Next]_vars => Step
  <2> SUFFICES ASSUME TypeInv, Windows, [Next]_vars, NEW i \in Ids, NEW j \in Ids, i # j, SameKey(i, j),
                      jobs[j].state = "unborn", jobs'[j].state = "pending"
               PROVE  /\ jobs[i].state \notin Stored
                      /\ ended[i] = NoTime \/ now > ended[i] + IdemWindow
    OBVIOUS
  <2>1. \E delay \in Delays : Dispatch(j, delay)
    BY BornByDispatch
  <2>2. j \notin Deduplicated(jobs, {j})
    BY <2>1 DEF Dispatch, Enqueued, NoRow
  <2>3. jobs[i].state \notin Stored
    BY <2>2 DEF Deduplicated, InStore
  <2>4. Keep(i)
    BY DEF SameKey, Keep
  <2> QED
    BY <2>3, <2>4 DEF Windows, Stored
<1>2. TypeInv /\ Windows /\ [Next]_vars => [Step]_vars
  BY <1>1
<1> QED
  BY <1>2, TypeInvariance, WindowsInvariance, PTL DEF Spec, KeyRunsOnce

-----------------------------------------------------------------------------
\* How long a lock lasts.

LEMMA NatTimes ==
  ASSUME NEW a \in Nat, NEW c \in Nat
  PROVE  a * c \in Nat
  OBVIOUS

LEMMA Product ==
  ASSUME NEW a \in Nat, NEW b \in Nat, NEW c \in Nat, a <= b
  PROVE  a * c \in Nat /\ a * c <= b * c /\ (a + 1) * c = a * c + c
<1>1. PICK d \in Nat : b = a + d
  <2>1. b - a \in Nat /\ b = a + (b - a)
    OBVIOUS
  <2> QED
    BY <2>1
<1>2. (a + d) * c = a * c + d * c /\ d * c \in Nat /\ a * c \in Nat
  OBVIOUS
<1> QED
  BY <1>1, <1>2

LEMMA LostBounds ==
  ASSUME TypeInv
  PROVE  /\ Failing \in Nat /\ Failing * RenewEvery \in Nat
         /\ (Failing + 1) * RenewEvery = Failing * RenewEvery + RenewEvery
         /\ Lost \in Nat /\ Lost <= Failing * RenewEvery
<1>1. faults \in Nat /\ MaxFaults \in Nat /\ faults <= MaxFaults /\ RenewEvery \in Nat
  BY BoundsAssumption, DurationTypes DEF TypeInv, TypeOK
<1>2. CASE "renew" \in Faults
  BY <1>1, <1>2, Product DEF Failing, Lost
<1>3. CASE "renew" \notin Faults
  BY <1>1, <1>3 DEF Failing, Lost
<1> QED
  BY <1>2, <1>3

\* A lost renewal costs its period; no fault gives one back.
LEMMA LostGrows ==
  ASSUME TypeInv, TypeInv', faults' \in {faults, faults + 1}
  PROVE  /\ Lost \in Nat /\ Lost' \in Nat /\ Lost <= Lost'
         /\ "renew" \in Faults /\ faults' = faults + 1 => Lost' = Lost + RenewEvery
<1>1. faults \in Nat /\ faults' \in Nat /\ RenewEvery \in Nat /\ faults <= faults'
  BY BoundsAssumption, DurationTypes DEF TypeInv, TypeOK
<1>2. CASE "renew" \in Faults
  <2>1. Lost = faults * RenewEvery /\ Lost' = faults' * RenewEvery
    BY <1>2 DEF Lost
  <2>2. /\ faults * RenewEvery \in Nat /\ faults * RenewEvery <= faults' * RenewEvery
        /\ (faults + 1) * RenewEvery = faults * RenewEvery + RenewEvery
    BY <1>1, Product
  <2>3. faults' * RenewEvery \in Nat
    BY <1>1, NatTimes
  <2>4. Lost <= Lost' /\ Lost \in Nat /\ Lost' \in Nat
    BY <2>1, <2>2, <2>3
  <2>5. faults' = faults + 1 => Lost' = Lost + RenewEvery
    BY <2>1, <2>2
  <2> QED
    BY <2>4, <2>5
<1>3. CASE "renew" \notin Faults
  BY <1>3 DEF Lost
<1> QED
  BY <1>2, <1>3

\* A worker that still stops after its grace and the sleep has no such execution.
LEMMA OwnerPrompt ==
  ASSUME TypeInv, MapInv, Times, NEW r \in runs, Owns(r), Stopping(r.w)
  PROVE  Prompt(r.w)
<1>1. r.w \in Workers /\ r.j \in Ids /\ r.n # 0 /\ r.at \in Nat
  BY RunArguments, TypeGives DEF Counted
<1>2. Window(r.w) /\ Winding(r.w) /\ RunTime(r)
  BY <1>1 DEF Times, StopTime
<1>3. CASE phase[r.w] = "draining"
  BY <1>1, <1>2, <1>3, NumbersOf, DurationTypes DEF Window, Stopping, Prompt
<1>4. CASE phase[r.w] = "releasing" /\ Left(r.w)
  <2>1. inFlight[r.w][r.j] = r.n
    BY DEF Owns, MapInv, Entries
  <2>2. <<r.j, r.n>> \in awaited[r.w] /\ r \in RunsOf(r.w)
    BY <1>1, <1>4, <2>1 DEF Left, Tracked, RunsOf
  <2>3. Ends(r, deadline[r.w])
    BY <1>2, <1>4, <2>2 DEF Winding
  <2>4. now <= deadline[r.w] + RoundTrip
    BY <1>1, <1>2, <2>3, NumbersOf, DurationTypes DEF Ends, RunTime
  <2> QED
    BY <2>4 DEF Prompt
<1> QED
  BY <1>2, <1>3, <1>4 DEF Winding, Stopping

\* The job of such an execution is locked until now at least.
LEMMA StillLocked ==
  ASSUME LeaseSuffices, TypeInv, MapInv, Times, LeaseInv, NEW r \in runs, Owns(r)
  PROVE  /\ jobs[r.j].state = "active" /\ jobs[r.j].lockedBy = r.w
         /\ jobs[r.j].lockedUntil \in Nat /\ now <= jobs[r.j].lockedUntil
<1> DEFINE until == jobs[r.j].lockedUntil
           next == renewal[r.w].next
           fails == Failing * RenewEvery
<1>1. /\ r.w \in Workers /\ r.j \in Ids /\ r.until \in Nat /\ r.at \in Nat
      /\ jobs[r.j].state = "active" /\ jobs[r.j].lockedBy = r.w
  BY RunArguments DEF LeaseInv, Exact, Holds
<1>2. until \in Nat
  BY <1>1 DEF TypeInv, TypeOK, Agreeing, Agrees, Row, NoTime
<1>3. now \in Nat /\ next \in Nat /\ deadline[r.w] \in Nat
  BY <1>1, NumbersOf
<1>4. RunTime(r) /\ RenewalTime(r.w) /\ Window(r.w) /\ Locked(r)
  BY <1>1 DEF Times, StopTime, LeaseInv, AllLocked
<1>5. CASE Timeout + 2 * RoundTrip <= Lease
  <2>1. now <= r.until + RoundTrip
    BY <1>1, <1>3, <1>4, DurationTypes DEF RunTime
  <2>2. r.until + Lease <= until + Timeout + RoundTrip
    BY <1>4 DEF Locked
  <2> HIDE DEF until
  <2>3. now <= until
    BY <1>1, <1>2, <1>3, <1>5, <2>1, <2>2, DurationTypes
  <2> QED
    BY <1>1, <1>2, <2>3 DEF until
<1>6. CASE /\ (Failing + 1) * RenewEvery + 2 * RoundTrip + Grace <= Lease
           /\ (Failing + 1) * RenewEvery + 2 * RoundTrip + PollMax <= Lease
  <2>1. /\ fails \in Nat /\ Lost \in Nat /\ Lost <= fails
        /\ fails + RenewEvery + 2 * RoundTrip + Grace <= Lease
        /\ fails + RenewEvery + 2 * RoundTrip + PollMax <= Lease
    BY <1>6, LostBounds
  <2>2. next + Lease <= until + RenewEvery + RoundTrip + Lost + (IF r.j \in renewal[r.w].ids THEN RenewEvery ELSE 0)
    BY <1>4 DEF Locked
  <2>3. Live(r.w)
    BY <1>1, TypeGives DEF Resting, RunsOf
  <2>4. r.j \in renewal[r.w].ids => now <= next - RenewEvery + RoundTrip
    BY <1>4, <2>3 DEF RenewalTime, RenewedAt
  <2>5. now <= next + RoundTrip + Grace \/ now <= next + RoundTrip + PollMax
    <3>1. CASE phase[r.w] = "up"
      BY <1>3, <1>4, <2>3, <3>1, DurationTypes DEF RenewalTime
    <3>2. CASE Stopping(r.w)
      <4>1. Prompt(r.w) /\ deadline[r.w] <= next + Grace
        BY <1>4, <3>2, OwnerPrompt DEF Window
      <4> QED
        BY <1>3, <4>1, DurationTypes DEF Prompt
    <3> QED
      BY <2>3, <3>1, <3>2 DEF Live, Stopping
  <2> HIDE DEF fails, until, next
  <2>6. now <= until
    <3>1. CASE r.j \in renewal[r.w].ids
      BY <1>2, <1>3, <2>1, <2>2, <2>4, <3>1, DurationTypes
    <3>2. CASE r.j \notin renewal[r.w].ids
      BY <1>2, <1>3, <2>1, <2>2, <2>5, <3>2, DurationTypes
    <3> QED
      BY <3>1, <3>2
  <2> QED
    BY <1>1, <1>2, <2>6 DEF until
<1> QED
  BY <1>5, <1>6 DEF LeaseSuffices

\* So neither a caller, nor maintenance, nor a claim reaches it.
LEMMA RowsKept ==
  ASSUME LeaseSuffices, TypeInv, MapInv, Times, LeaseInv,
         \/ \E j \in Ids, delay \in Delays : Dispatch(j, delay)
         \/ \E j \in Ids : Revive(j)
         \/ jobs' = Maintained(jobs, now)
         \/ \E w \in Workers : StoreClaims(w)
  PROVE  \A r \in runs : Owns(r) => jobs'[r.j] = jobs[r.j]
<1> SUFFICES ASSUME NEW r \in runs, Owns(r)
             PROVE  jobs'[r.j] = jobs[r.j]
  OBVIOUS
<1>0. r.j \in Ids /\ jobs[r.j].state = "active" /\ jobs[r.j].lockedUntil \in Nat /\ now <= jobs[r.j].lockedUntil
  BY RunArguments, StillLocked
<1>1. ASSUME NEW j \in Ids, NEW delay \in Delays, Dispatch(j, delay)
      PROVE  jobs'[r.j] = jobs[r.j]
  BY <1>0, <1>1 DEF Dispatch, Enqueued
<1>2. ASSUME NEW j \in Ids, Revive(j)
      PROVE  jobs'[r.j] = jobs[r.j]
  BY <1>0, <1>2 DEF Revive, Retried
<1>3. ASSUME jobs' = Maintained(jobs, now)
      PROVE  jobs'[r.j] = jobs[r.j]
  <2>1. GoodTable(jobs) /\ now \in Nat
    BY DEF TypeInv, TypeOK, GoodTable, Agreeing
  <2>2. r.j \notin Expired(jobs, now) /\ r.j \notin Outdated(jobs, now)
    BY <1>0, <2>1 DEF Expired, Outdated
  <2> QED
    BY <1>0, <1>3, <2>1, <2>2, MaintainedRows
<1>4. ASSUME NEW w \in Workers, StoreClaims(w)
      PROVE  jobs'[r.j] = jobs[r.j]
  BY <1>0, <1>4, ClaimsTyped DEF StoreClaims, ClaimedTable, Claimed
<1> QED
  BY <1>1, <1>2, <1>3, <1>4

-----------------------------------------------------------------------------
\* No job is tried too often.

LEMMA OutcomeTries ==
  ASSUME NEW row \in Row, row.attempt >= 1, NEW most \in Nat \ {0}, row.attempt <= most, NEW keep \in BOOLEAN,
         NEW outcome \in Outcomes, NEW at \in Nat, NEW runAt \in Nat, outcome = "retry" => row.attempt < most
  PROVE  LET b == Outcome(row, keep, outcome, at, runAt)
         IN  (b.state = "pending" => b.attempt < most) /\ b.attempt <= most
<1> DEFINE u == Unlocked(row)
           b == Outcome(row, keep, outcome, at, runAt)
<1>1. u \in Row /\ u.attempt = row.attempt /\ row.attempt \in Nat
  BY UnlockedRow DEF Row
<1> HIDE DEF u
<1>2. CASE outcome = "completed" /\ keep
  <2>1. b = [u EXCEPT !.state = "completed", !.finishedAt = at]
    BY <1>2 DEF Outcome, u
  <2> QED
    BY <1>1, <2>1 DEF Row
<1>3. CASE outcome = "completed" /\ ~keep
  <2>1. b = NoRow("gone")
    BY <1>3 DEF Outcome
  <2> QED
    BY <2>1 DEF NoRow
<1>4. CASE outcome = "retry"
  <2>1. b = [u EXCEPT !.state = "pending", !.runAt = runAt]
    BY <1>4 DEF Outcome, u
  <2> QED
    BY <1>1, <1>4, <2>1 DEF Row
<1>5. CASE outcome = "dead"
  <2>1. b = [u EXCEPT !.state = "dead", !.finishedAt = at]
    BY <1>5 DEF Outcome, u
  <2> QED
    BY <1>1, <2>1 DEF Row
<1>6. CASE outcome = "released"
  <2>1. b = [u EXCEPT !.state = "pending", !.runAt = at, !.attempt = u.attempt - 1]
    BY <1>6 DEF Outcome, u
  <2>2. b.attempt = u.attempt - 1
    BY <1>1, <2>1 DEF Row
  <2> QED
    BY <1>1, <2>2
<1> QED
  BY <1>2, <1>3, <1>4, <1>5, <1>6 DEF Outcomes

LEMMA ReplacedGrows ==
  ASSUME TypeInv, [Next]_vars, NEW w \in Workers
  PROVE  replaced[w] \subseteq replaced'[w]
<1>1. ASSUME NEW v \in Workers, ClaimReturn(v)
      PROVE  replaced[w] \subseteq replaced'[w]
  BY <1>1, TypeGives DEF ClaimReturn, Shape
<1>2. ~(\E v \in Workers : ClaimReturn(v)) => UNCHANGED replaced
  BY DEF Next, vars, Revive, Dispatch, Start, Maintain, ClaimStep, ClaimCall, Full, RoomAgain,
     LoopExit, ClaimFails, Wake, RenewStep, RenewCall, RenewReturn, RenewFails, Stop, StopStep, Abort,
     Stopped, Crash, Exit, RunStep, Succeed, Retry, GiveUp, Release, Settle, Record, Return, RecordFails, Tick
<1> QED
  BY <1>1, <1>2

Tried(row, j) ==
  /\ row.state = "pending" => row.attempt < MaxAttempts[j]
  /\ row.attempt <= MaxAttempts[j]

LEMMA TriesStep ==
  ASSUME TypeInv, LeaseInv, [Next]_vars
  PROVE  TriesLeft'
<1> SUFFICES ASSUME NEW j \in Ids, Unreplaced(j)'
             PROVE  Tried(jobs'[j], j)
  BY DEF TriesLeft, Tried
<1>u. Unreplaced(j)
  BY ReplacedGrows DEF Unreplaced
<1>0. /\ jobs[j] \in Row /\ jobs[j].attempt \in Nat /\ MaxAttempts[j] \in Nat \ {0}
      /\ jobs[j].attempt <= MaxAttempts[j]
      /\ jobs[j].state = "pending" => jobs[j].attempt < MaxAttempts[j]
  BY <1>u, TriesAssumption DEF TypeInv, TypeOK, Row, LeaseInv, TriesLeft
<1>1. ASSUME NEW i \in Ids, NEW delay \in Delays, Dispatch(i, delay)
      PROVE  Tried(jobs'[j], j)
  BY <1>0, <1>1 DEF Dispatch, Enqueued, NoRow, NewRow, Tried
<1>2. ASSUME NEW i \in Ids, Revive(i)
      PROVE  Tried(jobs'[j], j)
  <2>1. CASE i = j
    <3>1. jobs'[j].attempt = 0
      BY <1>0, <1>2, <2>1 DEF Revive, Retried, Row
    <3> QED
      BY <1>0, <3>1 DEF Tried
  <2>2. CASE i # j
    BY <1>0, <1>2, <2>2 DEF Revive, Retried, Tried
  <2> QED
    BY <2>1, <2>2
<1>3. ASSUME jobs' = Maintained(jobs, now)
      PROVE  Tried(jobs'[j], j)
  <2>1. GoodTable(jobs) /\ now \in Nat
    BY DEF TypeInv, TypeOK, GoodTable, Agreeing
  <2>2. CASE j \in Expired(jobs, now)
    <3>1. jobs'[j] = Requeued(jobs, now)[j]
      BY <1>3, <2>1, <2>2, MaintainedRows
    <3>2. Unlocked(jobs[j]) \in Row /\ Unlocked(jobs[j]).attempt = jobs[j].attempt
      BY <1>0, UnlockedRow
    <3> HIDE DEF Unlocked
    <3> QED
      BY <1>0, <2>2, <3>1, <3>2 DEF Requeued, Row, Tried
  <2>3. CASE j \notin Expired(jobs, now)
    <3>1. jobs'[j] = NoRow("gone") \/ jobs'[j] = jobs[j]
      BY <1>3, <2>1, <2>3, MaintainedRows
    <3> QED
      BY <1>0, <3>1 DEF NoRow, Tried
  <2> QED
    BY <2>2, <2>3
<1>4. ASSUME NEW w \in Workers, StoreClaims(w)
      PROVE  Tried(jobs'[j], j)
  <2>1. CASE j \in Selected(w)
    <3>1. jobs[j].state = "pending"
      BY <1>4, <2>1, ClaimsTyped
    <3>2. jobs'[j].state = "active" /\ jobs'[j].attempt = jobs[j].attempt + 1
      BY <1>0, <1>4, <2>1 DEF StoreClaims, ClaimedTable, Claimed, Row
    <3> QED
      BY <1>0, <3>1, <3>2 DEF Tried
  <2>2. CASE j \notin Selected(w)
    BY <1>0, <1>4, <2>2 DEF StoreClaims, ClaimedTable, Claimed, Tried
  <2> QED
    BY <2>1, <2>2
<1>5. ASSUME NEW w \in Workers, RenewReturn(w)
      PROVE  Tried(jobs'[j], j)
  BY <1>0, <1>5 DEF RenewReturn, Renewed, Row, Tried
<1>6. ASSUME NEW r \in runs, Record(r)
      PROVE  Tried(jobs'[j], j)
  <2>1. r.j \in Ids /\ r.w \in Workers /\ r.outcome \in Outcomes /\ StoreCompletes(r)
    BY <1>6, RunArguments DEF Record
  <2>2. CASE jobs'[j] = jobs[j]
    BY <1>0, <2>2 DEF Tried
  <2>3. CASE jobs'[j] # jobs[j]
    <3>1. r.j = j /\ Holds(jobs, r.w, j)
      BY <2>1, <2>3 DEF StoreCompletes, Completed, TypeInv, TypeOK
    <3>2. Owns(r)
      BY <1>u, <2>1, <3>1 DEF Owns, Unreplaced, Outcomes
    <3>3. jobs[j].attempt = r.attempt /\ (r.outcome = "retry" => jobs[j].attempt < MaxAttempts[j])
      BY <3>1, <3>2 DEF LeaseInv, Exact, Retriable
    <3> DEFINE b == Outcome(jobs[j], Keep(j), r.outcome, r.at, r.at + Backoff)
    <3>4. jobs[j].attempt >= 1 /\ r.at \in Nat /\ r.at + Backoff \in Nat /\ Keep(j) \in BOOLEAN
      BY <3>1, <3>3, RunArguments
    <3>5. (b.state = "pending" => b.attempt < MaxAttempts[j]) /\ b.attempt <= MaxAttempts[j]
      BY <1>0, <2>1, <3>3, <3>4, OutcomeTries, SMTT(30)
    <3>6. jobs'[j] = b
      BY <2>1, <3>1 DEF StoreCompletes, Completed, TypeInv, TypeOK
    <3> HIDE DEF b
    <3> QED
      BY <3>5, <3>6 DEF Tried
  <2> QED
    BY <2>2, <2>3
<1>7. UNCHANGED jobs => Tried(jobs'[j], j)
  BY <1>0 DEF Tried
<1> QED
  BY <1>1, <1>2, <1>3, <1>4, <1>5, <1>6, <1>7, TableSteps DEF Start, Maintain

-----------------------------------------------------------------------------
\* Every step keeps executions, claims and locks together.

Together == Exact /\ AllLocked /\ Retriable

\* The executions stay, with their rows, entries, claims and renewals.
LEMMA KeptTogether ==
  ASSUME TypeInv, TypeInv', MapInv, LeaseInv, UNCHANGED <<runs, replaced>>, faults' \in {faults, faults + 1},
         \A r \in runs : Owns(r) => /\ jobs'[r.j] = jobs[r.j] /\ claims'[r.j] = claims[r.j]
                                    /\ renewal'[r.w] = renewal[r.w]
  PROVE  Together'
<1>0. \A r \in runs : Owns(r)' = Owns(r)
  BY DEF Owns
<1>1. Exact'
  BY <1>0 DEF LeaseInv, Exact, Holds
<1>2. Retriable'
  BY DEF LeaseInv, Retriable
<1>3. ASSUME NEW r \in runs, Owns(r) PROVE Locked(r)'
  <2>1. Locked(r) /\ jobs'[r.j] = jobs[r.j] /\ renewal'[r.w] = renewal[r.w]
    BY <1>3 DEF LeaseInv, AllLocked
  <2>2. r.w \in Workers /\ jobs[r.j].lockedUntil \in Nat /\ renewal[r.w].next \in Nat
    BY <1>3, RunArguments, NumbersOf DEF LeaseInv, Exact, Holds, TypeInv, TypeOK, Agreeing, Agrees, Row, NoTime
  <2>3. Lost \in Nat /\ Lost' \in Nat /\ Lost <= Lost'
    BY LostGrows
  <2> QED
    BY <2>1, <2>2, <2>3, DurationTypes DEF Locked
<1> QED
  BY <1>0, <1>1, <1>2, <1>3 DEF Together, AllLocked

LEMMA HeldRun ==
  ASSUME TypeInv, MapInv, LeaseInv, NEW r \in runs, Owns(r)
  PROVE  /\ r.w \in Workers /\ r.j \in Ids /\ Holds(jobs, r.w, r.j) /\ jobs[r.j].attempt = r.attempt
         /\ claims[r.j] = r.n /\ inFlight[r.w][r.j] = r.n /\ Locked(r) /\ Live(r.w)
         /\ jobs[r.j].lockedUntil \in Nat /\ renewal[r.w].next \in Nat /\ r.until \in Nat /\ r.n # 0
<1>1. r.w \in Workers /\ r.j \in Ids /\ r.until \in Nat /\ r.n \in 1 .. claims[r.j]
  BY RunArguments, TypeGives DEF Counted
<1>2. Holds(jobs, r.w, r.j) /\ Locked(r)
  BY DEF LeaseInv, Exact, AllLocked
<1>3. jobs[r.j].lockedUntil \in Nat /\ renewal[r.w].next \in Nat
  BY <1>1, <1>2, NumbersOf DEF Holds, TypeInv, TypeOK, Agreeing, Agrees, Row, NoTime
<1>4. Live(r.w)
  BY <1>1, TypeGives DEF Resting, RunsOf
<1>5. claims[r.j] \in Nat
  BY <1>1, TypeGives DEF Shape
<1>6. inFlight[r.w][r.j] = r.n
  BY DEF Owns, MapInv, Entries
<1> QED
  BY <1>1, <1>2, <1>3, <1>4, <1>5, <1>6 DEF LeaseInv, Exact

LEMMA ClaimReturnTogether ==
  ASSUME LeaseSuffices, TypeInv, TypeInv', MapInv, Times, LeaseInv, NEW w \in Workers, ClaimReturn(w)
  PROVE  Together'
<1> DEFINE S == Selected(w)
<1>0. /\ StoreClaims(w) /\ runs' = runs \cup {NewRun(w, j) : j \in S}
      /\ UNCHANGED <<renewal, faults>>
      /\ \A v \in Workers : replaced[v] \subseteq replaced'[v]
  BY TypeGives DEF ClaimReturn, Shape
<1>1. /\ S \subseteq Ids /\ \A j \in S : jobs[j].state = "pending" /\ claims'[j] = claims[j] + 1
      /\ \A j \in Ids \ S : claims'[j] = claims[j]
  BY <1>0, ClaimsTyped
<1>2. ASSUME NEW j \in S
      PROVE  /\ NewRun(w, j).w = w /\ NewRun(w, j).j = j /\ NewRun(w, j).n = claims[j] + 1
             /\ NewRun(w, j).until = now + Timeout /\ NewRun(w, j).outcome = "none"
             /\ NewRun(w, j).attempt = jobs'[j].attempt
             /\ jobs'[j].state = "active" /\ jobs'[j].lockedBy = w /\ jobs'[j].lockedUntil = loop[w].at + Lease
  <2>1. j \in Ids /\ jobs[j] \in Row
    BY <1>1, <1>2 DEF TypeInv, TypeOK
  <2>2. jobs'[j] = [jobs[j] EXCEPT !.state = "active", !.attempt = jobs[j].attempt + 1, !.lockedBy = w,
                                   !.lockedUntil = loop[w].at + Lease]
    BY <1>0, <1>2, <2>1 DEF StoreClaims, ClaimedTable, Claimed
  <2>3. jobs' = ClaimedTable(w)
    BY <1>0 DEF StoreClaims
  <2> QED
    BY <2>1, <2>2, <2>3 DEF NewRun, Row
<1>3. ASSUME NEW r \in runs, Owns(r)'
      PROVE  /\ Owns(r) /\ jobs'[r.j] = jobs[r.j] /\ r.j \notin S /\ claims'[r.j] = claims[r.j]
  <2>1. Owns(r)
    BY <1>0, <1>3, RunArguments DEF Owns
  <2>2. jobs'[r.j] = jobs[r.j]
    BY <1>0, <2>1, RowsKept
  <2>3. r.j \notin S /\ r.j \in Ids
    BY <1>1, <2>1, HeldRun DEF Holds
  <2> QED
    BY <1>1, <2>1, <2>2, <2>3
<1> HIDE DEF S
<1>4. Exact'
  <2>1. ASSUME NEW r \in runs', Owns(r)'
        PROVE  /\ Holds(jobs', r.w, r.j) /\ jobs'[r.j].attempt = r.attempt
               /\ claims'[r.j] = r.n
    <3>1. CASE r \in runs
      BY <1>3, <2>1, <3>1, HeldRun DEF Holds
    <3>2. ASSUME NEW j \in S, r = NewRun(w, j)
          PROVE  /\ Holds(jobs', r.w, r.j) /\ jobs'[r.j].attempt = r.attempt
                 /\ claims'[r.j] = r.n
      BY <1>1, <1>2, <3>2 DEF Holds
    <3> QED
      BY <1>0, <3>1, <3>2
  <2> QED
    BY <2>1 DEF Exact
<1>5. Retriable'
  BY <1>0, <1>2 DEF LeaseInv, Retriable
<1>6. ASSUME NEW r \in runs, Owns(r)' PROVE Locked(r)'
  <2>1. Lost' = Lost
    BY <1>0 DEF Lost
  <2>2. Owns(r) /\ jobs'[r.j] = jobs[r.j]
    BY <1>3, <1>6
  <2> QED
    BY <1>0, <2>1, <2>2, HeldRun DEF Locked
<1>7. ASSUME NEW j \in S, NEW r \in runs', r = NewRun(w, j) PROVE Locked(r)'
  <2>2. r.w = w /\ r.j = j /\ r.until = now + Timeout /\ jobs'[r.j].lockedUntil = loop[w].at + Lease
    BY <1>2, <1>7
  <2>3. now <= loop[w].at + RoundTrip /\ renewal[w].next <= now + RenewEvery
    <3>1. ClaimTime(w) /\ RenewalTime(w) /\ loop[w].pc = "claiming"
      BY DEF Times, ClaimReturn
    <3> QED
      BY <3>1 DEF ClaimTime, RenewalTime
  <2>4. Lost \in Nat /\ Lost' = Lost /\ renewal'[w] = renewal[w]
    BY <1>0, LostBounds DEF Lost
  <2> QED
    BY <2>2, <2>3, <2>4, NumbersOf, DurationTypes DEF Locked
<1>8. AllLocked'
  <2>1. \A r \in runs' : r \in runs \/ \E j \in S : r = NewRun(w, j)
    BY <1>0
  <2> QED
    BY <1>6, <1>7, <2>1 DEF AllLocked
<1> QED
  BY <1>4, <1>5, <1>8 DEF Together

LEMMA QuietTogether ==
  ASSUME LeaseSuffices, TypeInv, TypeInv', MapInv, Times, LeaseInv,
         \/ \E j \in Ids, delay \in Delays : Dispatch(j, delay)
         \/ \E j \in Ids : Revive(j)
         \/ \E w \in Workers : \/ Start(w) \/ Maintain(w) \/ ClaimCall(w) \/ Full(w) \/ RoomAgain(w)
                               \/ Wake(w) \/ LoopExit(w) \/ ClaimFails(w) \/ Stop(w)
         \/ Tick \/ UNCHANGED vars
  PROVE  Together'
<1>1. ASSUME \/ \E j \in Ids, delay \in Delays : Dispatch(j, delay)
             \/ \E j \in Ids : Revive(j)
             \/ \E w \in Workers : Maintain(w)
      PROVE  Together'
  <2>1. \A r \in runs : Owns(r) => jobs'[r.j] = jobs[r.j]
    BY <1>1, RowsKept DEF Maintain
  <2>2. UNCHANGED <<runs, replaced, claims, renewal, faults>>
    BY <1>1 DEF Dispatch, Revive, Maintain
  <2> QED
    BY <2>1, <2>2, KeptTogether
<1>2. ASSUME NEW w \in Workers, Start(w)
      PROVE  Together'
  <2>1. \A r \in runs : Owns(r) => jobs'[r.j] = jobs[r.j]
    BY <1>2, RowsKept DEF Start
  <2>2. UNCHANGED <<runs, replaced, claims, faults>>
    BY <1>2 DEF Start
  <2>3. \A v \in Workers : v # w => renewal'[v] = renewal[v]
    BY <1>2, TypeGives DEF Start, Shape
  <2>4. ~Live(w)
    BY <1>2 DEF Start, Live
  <2>5. \A r \in runs : Owns(r) => renewal'[r.w] = renewal[r.w]
    BY <2>3, <2>4, HeldRun
  <2> QED
    BY <2>1, <2>2, <2>5, KeptTogether
<1>3. ASSUME \/ \E w \in Workers : \/ ClaimCall(w) \/ Full(w) \/ RoomAgain(w) \/ Wake(w)
                                   \/ LoopExit(w) \/ Stop(w)
             \/ Tick \/ UNCHANGED vars
      PROVE  Together'
  <2>1. UNCHANGED <<jobs, runs, replaced, claims, renewal, faults>>
    BY <1>3 DEF ClaimCall, Full, RoomAgain, Wake, LoopExit, Stop, Tick, vars
  <2> QED
    BY <2>1, KeptTogether
<1>4. ASSUME NEW w \in Workers, ClaimFails(w)
      PROVE  Together'
  <2>1. UNCHANGED <<runs, replaced, renewal>> /\ faults' \in {faults, faults + 1}
    BY <1>4 DEF ClaimFails, Fault
  <2>2. CASE UNCHANGED <<jobs, claims>>
    BY <2>1, <2>2, KeptTogether
  <2>3. CASE StoreClaims(w)
    <3>1. \A r \in runs : Owns(r) => jobs'[r.j] = jobs[r.j]
      BY <2>3, RowsKept
    <3>2. \A r \in runs : Owns(r) => claims'[r.j] = claims[r.j]
      BY <2>3, ClaimsTyped, HeldRun DEF Holds
    <3> QED
      BY <2>1, <3>1, <3>2, KeptTogether
  <2> QED
    BY <1>4, <2>2, <2>3 DEF ClaimFails
<1> QED
  BY <1>1, <1>2, <1>3, <1>4

LEMMA RenewCallTogether ==
  ASSUME TypeInv, TypeInv', MapInv, Times, LeaseInv, NEW w \in Workers, RenewCall(w)
  PROVE  Together'
<1>0. /\ UNCHANGED <<jobs, runs, inFlight, replaced, claims, faults>>
      /\ renewal[w].next = now /\ renewal[w].ids = {}
      /\ renewal'[w] = Renewing(now + RenewEvery, {j \in Ids : inFlight[w][j] # 0})
      /\ \A v \in Workers : v # w => renewal'[v] = renewal[v]
  BY TypeGives DEF RenewCall, Shape
<1>1. Exact' /\ Retriable' /\ \A r \in runs : Owns(r)' = Owns(r)
  BY <1>0 DEF LeaseInv, Exact, Holds, Retriable, Owns
<1>2. Lost' = Lost
  BY <1>0 DEF Lost
<1>3. ASSUME NEW r \in runs, Owns(r) PROVE Locked(r)'
  <2>1. CASE r.w = w
    <3>1. r.j \in renewal'[w].ids /\ renewal'[w].next = now + RenewEvery
      BY <1>0, <1>3, <2>1, HeldRun DEF Renewing
    <3>2. Locked(r) /\ jobs[r.j].lockedUntil \in Nat /\ now \in Nat
      BY <1>3, HeldRun, NumbersOf
    <3> QED
      BY <1>0, <1>2, <2>1, <3>1, <3>2, LostBounds, DurationTypes DEF Locked
  <2>2. CASE r.w # w
    BY <1>0, <1>2, <1>3, <2>2, HeldRun DEF Locked
  <2> QED
    BY <2>1, <2>2
<1> QED
  BY <1>0, <1>1, <1>3 DEF Together, AllLocked

LEMMA RenewReturnTogether ==
  ASSUME TypeInv, TypeInv', MapInv, Times, LeaseInv, NEW w \in Workers, RenewReturn(w)
  PROVE  Together'
<1>0. /\ UNCHANGED <<runs, inFlight, replaced, claims, faults>>
      /\ jobs' = Renewed(jobs, w, renewal[w].ids, RenewedAt(w) + Lease) /\ renewal[w].ids # {}
      /\ renewal'[w].next = renewal[w].next /\ renewal'[w].ids = {}
      /\ \A v \in Workers : v # w => renewal'[v] = renewal[v]
  BY TypeGives DEF RenewReturn, RenewEnds, Renewing, Shape
<1>1. ASSUME NEW r \in runs, Owns(r)
      PROVE  /\ jobs'[r.j].state = jobs[r.j].state /\ jobs'[r.j].lockedBy = jobs[r.j].lockedBy
             /\ jobs'[r.j].attempt = jobs[r.j].attempt
             /\ jobs'[r.j].lockedUntil = IF r.w = w /\ r.j \in renewal[w].ids
                                         THEN RenewedAt(w) + Lease ELSE jobs[r.j].lockedUntil
  <2>1. r.j \in Ids /\ jobs[r.j] \in Row /\ Holds(jobs, r.w, r.j)
    BY <1>1, HeldRun DEF TypeInv, TypeOK
  <2> QED
    BY <1>0, <2>1 DEF Renewed, Holds, Row
<1>2. Exact' /\ \A r \in runs : Owns(r)' = Owns(r)
  BY <1>0, <1>1 DEF LeaseInv, Exact, Holds, Owns
<1>3. Retriable' /\ Lost' = Lost
  BY <1>0 DEF LeaseInv, Retriable, Lost
<1>4. ASSUME NEW r \in runs, Owns(r) PROVE Locked(r)'
  <2>1. Locked(r) /\ r.w \in Workers /\ renewal[r.w].next \in Nat /\ r.until \in Nat
        /\ jobs[r.j].lockedUntil \in Nat /\ now \in Nat
    BY <1>4, HeldRun, NumbersOf
  <2>2. CASE r.w = w /\ r.j \in renewal[w].ids
    <3>1. jobs'[r.j].lockedUntil = renewal[w].next - RenewEvery + Lease
      BY <1>1, <1>4, <2>2 DEF RenewedAt
    <3>2. now <= renewal[w].next - RenewEvery + RoundTrip
      BY <1>0, <1>4, <2>2, HeldRun DEF Times, RenewalTime, RenewedAt
    <3>3. r.until <= now + Timeout
      BY DEF Times, RunTime
    <3> QED
      BY <1>0, <1>3, <2>1, <2>2, <3>1, <3>2, <3>3, LostBounds, DurationTypes DEF Locked
  <2>3. CASE ~(r.w = w /\ r.j \in renewal[w].ids)
    <3>1. jobs'[r.j].lockedUntil = jobs[r.j].lockedUntil
      BY <1>1, <1>4, <2>3
    <3>2. renewal'[r.w].next = renewal[r.w].next /\ (r.j \in renewal'[r.w].ids <=> r.j \in renewal[r.w].ids)
      BY <1>0, <2>1, <2>3
    <3> QED
      BY <1>0, <1>3, <2>1, <3>1, <3>2 DEF Locked
  <2> QED
    BY <2>2, <2>3
<1> QED
  BY <1>0, <1>2, <1>3, <1>4 DEF Together, AllLocked

LEMMA RenewFailsTogether ==
  ASSUME TypeInv, TypeInv', MapInv, LeaseInv, NEW w \in Workers, RenewFails(w)
  PROVE  Together'
<1>0. /\ UNCHANGED <<jobs, runs, inFlight, replaced, claims>>
      /\ renewal'[w].next = renewal[w].next /\ renewal'[w].ids = {}
      /\ \A v \in Workers : v # w => renewal'[v] = renewal[v]
      /\ "renew" \in Faults /\ faults' = faults + 1
  BY TypeGives DEF RenewFails, RenewEnds, Renewing, Fault, Shape
<1>1. Exact' /\ Retriable' /\ \A r \in runs : Owns(r)' = Owns(r)
  BY <1>0 DEF LeaseInv, Exact, Holds, Retriable, Owns
<1>2. Lost' = Lost + RenewEvery /\ Lost \in Nat
  BY <1>0, LostGrows
<1>3. ASSUME NEW r \in runs, Owns(r) PROVE Locked(r)'
  <2>1. Locked(r) /\ r.w \in Workers /\ renewal[r.w].next \in Nat /\ jobs[r.j].lockedUntil \in Nat
    BY <1>3, HeldRun
  <2>2. renewal'[r.w].next = renewal[r.w].next /\ (r.j \in renewal'[r.w].ids => r.j \in renewal[r.w].ids)
    BY <1>0, <2>1
  <2> QED
    BY <1>0, <1>2, <2>1, <2>2, DurationTypes DEF Locked
<1> QED
  BY <1>0, <1>1, <1>3 DEF Together, AllLocked

LEMMA SettleTogether ==
  ASSUME TypeInv, TypeInv', MapInv, LeaseInv, NEW r \in runs, NEW outcome \in Outcomes, Settle(r, outcome),
         outcome = "retry" => r.attempt < MaxAttempts[r.j]
  PROVE  Together'
<1> DEFINE s == [r EXCEPT !.outcome = outcome, !.at = now]
<1>1. s.w = r.w /\ s.j = r.j /\ s.n = r.n /\ s.until = r.until /\ s.attempt = r.attempt /\ s.outcome = outcome
  BY RunArguments DEF Run
<1>2. runs' = (runs \ {r}) \cup {s} /\ UNCHANGED <<jobs, replaced, claims, renewal, faults>> /\ r.outcome = "none"
  BY DEF Settle
<1> HIDE DEF s
<1>3. ASSUME NEW q \in runs', Owns(q)'
      PROVE  \E p \in runs : /\ Owns(p) /\ q.w = p.w /\ q.j = p.j /\ q.until = p.until /\ q.n = p.n
                             /\ q.attempt = p.attempt
  BY <1>1, <1>2, <1>3 DEF Owns
<1>4. Exact'
  BY <1>2, <1>3 DEF LeaseInv, Exact, Holds
<1>5. Retriable'
  BY <1>1, <1>2 DEF LeaseInv, Retriable
<1>6. Lost' = Lost
  BY <1>2 DEF Lost
<1>7. AllLocked'
  <2>1. ASSUME NEW q \in runs', NEW p \in runs, Owns(p), q.w = p.w, q.j = p.j, q.until = p.until
        PROVE  Locked(q)'
    <3>1. Locked(p)
      BY <2>1 DEF LeaseInv, AllLocked
    <3> QED
      BY <1>2, <1>6, <2>1, <3>1 DEF Locked
  <2> QED
    BY <1>3, <2>1 DEF AllLocked
<1> QED
  BY <1>4, <1>5, <1>7 DEF Together

\* What one execution stores does not touch the job of another that has its job to itself.
LEMMA RecordApart ==
  ASSUME TypeInv, MapInv, LeaseInv, NEW r \in runs, Record(r), NEW q \in runs, Owns(q), q # r
  PROVE  jobs'[q.j] = jobs[q.j]
<1>1. /\ r.w \in Workers /\ r.j \in Ids /\ r.outcome \in Outcomes /\ StoreCompletes(r)
      /\ q.w \in Workers /\ q.j \in Ids /\ Holds(jobs, q.w, q.j) /\ claims[q.j] = q.n
  BY RunArguments, HeldRun DEF Record
<1>2. CASE q.j # r.j \/ ~Holds(jobs, r.w, r.j)
  BY <1>1, <1>2 DEF StoreCompletes, Completed, TypeInv, TypeOK
<1>3. CASE q.j = r.j /\ Holds(jobs, r.w, r.j)
  <2>1. q.w = r.w
    BY <1>1, <1>3 DEF Holds
  <2>2. Owns(r)
    BY <1>1, <1>3, <2>1 DEF Owns, Outcomes
  <2>3. claims[r.j] = r.n
    BY <2>2, HeldRun
  <2> QED
    BY <1>1, <1>3, <2>3 DEF MapInv, Entries
<1> QED
  BY <1>2, <1>3

LEMMA RecordTogether ==
  ASSUME TypeInv, TypeInv', MapInv, LeaseInv, NEW r \in runs, Record(r) \/ Return(r) \/ RecordFails(r)
  PROVE  Together'
<1>0. UNCHANGED <<claims, renewal, replaced>> /\ faults' \in {faults, faults + 1}
  BY DEF Record, Return, RecordFails, Fault
<1>1. ASSUME NEW q \in runs', Owns(q)'
      PROVE  q \in runs /\ q # r /\ Owns(q)
  <2> DEFINE s == [r EXCEPT !.outcome = "stored"]
  <2>1. runs' = (runs \ {r}) \cup {s} \/ runs' = runs \ {r}
    BY DEF Record, Return, RecordFails, Untrack
  <2>2. s.outcome = "stored"
    BY RunArguments DEF Run
  <2> HIDE DEF s
  <2> QED
    BY <1>0, <1>1, <2>1, <2>2 DEF Owns
<1>2. ASSUME NEW q \in runs', Owns(q)'
      PROVE  jobs'[q.j] = jobs[q.j]
  <2>1. q \in runs /\ q # r /\ Owns(q)
    BY <1>1, <1>2
  <2>2. CASE Record(r)
    BY <2>1, <2>2, RecordApart
  <2>3. CASE Return(r) \/ RecordFails(r)
    BY <2>3 DEF Return, RecordFails
  <2> QED
    BY <2>2, <2>3
<1>3. Exact'
  BY <1>0, <1>1, <1>2, HeldRun DEF Exact, Holds
<1>4. Retriable'
  <2> DEFINE s == [r EXCEPT !.outcome = "stored"]
  <2>1. \A q \in runs' : q \in runs \/ q = s
    BY DEF Record, Return, RecordFails, Untrack
  <2>2. s.outcome = "stored"
    BY RunArguments DEF Run
  <2> HIDE DEF s
  <2> QED
    BY <2>1, <2>2 DEF LeaseInv, Retriable
<1>5. ASSUME NEW q \in runs', Owns(q)' PROVE Locked(q)'
  <2>1. q \in runs /\ Owns(q) /\ jobs'[q.j] = jobs[q.j] /\ renewal' = renewal
    BY <1>0, <1>1, <1>2, <1>5
  <2> QED
    BY <2>1, <1>0, HeldRun, LostGrows, DurationTypes DEF Locked
<1> QED
  BY <1>3, <1>4, <1>5 DEF Together, AllLocked

LEMMA AbortTogether ==
  ASSUME TypeInv, TypeInv', MapInv, LeaseInv, NEW w \in Workers, Abort(w)
  PROVE  Together'
<1>0. UNCHANGED <<jobs, replaced, claims, renewal, faults>> /\ Lost' = Lost
  BY DEF Abort, Lost
<1>1. runs \subseteq Run /\ runs' = {AbortedBy(w, r) : r \in runs}
  BY AbortedRuns, TypeGives DEF Shape
<1>2. \A r \in runs' : \E s \in runs : SameRun(r, s)
  BY <1>1, AbortedRun
<1>3. ASSUME NEW r \in runs', NEW s \in runs, SameRun(r, s), Owns(r)'
      PROVE  Owns(s)
  BY <1>0, <1>3 DEF Owns, SameRun
<1>4. Exact'
  <2>1. ASSUME NEW r \in runs', Owns(r)'
        PROVE  /\ Holds(jobs', r.w, r.j) /\ jobs'[r.j].attempt = r.attempt
               /\ claims'[r.j] = r.n
    <3>1. PICK s \in runs : SameRun(r, s)
      BY <1>2
    <3>2. Owns(s)
      BY <1>3, <2>1, <3>1
    <3> QED
      BY <1>0, <3>1, <3>2, HeldRun DEF SameRun
  <2> QED
    BY <2>1 DEF Exact
<1>5. Retriable'
  BY <1>2 DEF LeaseInv, Retriable, SameRun
<1>6. ASSUME NEW r \in runs', Owns(r)' PROVE Locked(r)'
  <2>1. PICK s \in runs : SameRun(r, s)
    BY <1>2
  <2>2. Locked(s)
    BY <1>3, <1>6, <2>1 DEF LeaseInv, AllLocked
  <2> QED
    BY <1>0, <2>1, <2>2 DEF Locked, SameRun
<1> QED
  BY <1>4, <1>5, <1>6 DEF Together, AllLocked

LEMMA ExitTogether ==
  ASSUME TypeInv, TypeInv', MapInv, LeaseInv, NEW w \in Workers, Exit(w), faults' \in {faults, faults + 1}
  PROVE  Together'
<1>0. /\ UNCHANGED <<jobs, replaced, claims>> /\ runs' = runs \ RunsOf(w)
      /\ \A v \in Workers : v # w => renewal'[v] = renewal[v]
  BY TypeGives DEF Exit, Shape
<1>1. \A q \in runs' : q \in runs /\ q.w # w /\ (Owns(q)' = Owns(q))
  BY <1>0 DEF RunsOf, Owns
<1>2. Exact'
  BY <1>0, <1>1, HeldRun DEF Exact
<1>3. Retriable'
  BY <1>1 DEF LeaseInv, Retriable
<1>4. ASSUME NEW q \in runs', Owns(q)' PROVE Locked(q)'
  <2>1. q \in runs /\ q.w # w /\ Owns(q)
    BY <1>1, <1>4
  <2>2. renewal'[q.w] = renewal[q.w]
    BY <1>0, <2>1, HeldRun
  <2> QED
    BY <1>0, <2>1, <2>2, HeldRun, LostGrows, DurationTypes DEF Locked
<1> QED
  BY <1>2, <1>3, <1>4 DEF Together, AllLocked

LEMMA LeaseStep ==
  ASSUME LeaseSuffices, TypeInv, TypeInv', MapInv, Times, LeaseInv, [Next]_vars
  PROVE  LeaseInv'
<1>1. ASSUME NEW j \in Ids, Revive(j) \/ \E delay \in Delays : Dispatch(j, delay)
      PROVE  Together'
  BY <1>1, QuietTogether
<1>2. ASSUME NEW w \in Workers, Start(w) \/ Maintain(w) \/ ClaimStep(w) \/ ClaimFails(w) \/ Wake(w) \/ Stop(w)
      PROVE  Together'
  <2>1. ClaimReturn(w) => Together'
    BY ClaimReturnTogether
  <2>2. Start(w) \/ Maintain(w) \/ ClaimCall(w) \/ Full(w) \/ RoomAgain(w) \/ Wake(w) \/ LoopExit(w)
          \/ ClaimFails(w) \/ Stop(w) => Together'
    BY QuietTogether
  <2> QED
    BY <1>2, <2>1, <2>2 DEF ClaimStep
<1>3. ASSUME NEW w \in Workers, RenewStep(w) \/ RenewFails(w) \/ Abort(w)
      PROVE  Together'
  BY <1>3, RenewCallTogether, RenewReturnTogether, RenewFailsTogether, AbortTogether DEF RenewStep
<1>4. ASSUME NEW w \in Workers, Stopped(w) \/ Crash(w)
      PROVE  Together'
  BY <1>4, ExitTogether DEF Stopped, Crash, Fault
<1>5. ASSUME NEW r \in runs, Record(r) \/ Return(r) \/ RecordFails(r)
      PROVE  Together'
  BY <1>5, RecordTogether
<1>6. ASSUME NEW r \in runs, Succeed(r) \/ Retry(r) \/ GiveUp(r) \/ Release(r)
      PROVE  Together'
  <2>1. \E outcome \in Outcomes : Settle(r, outcome) /\ (outcome = "retry" => r.attempt < MaxAttempts[r.j])
    BY <1>6 DEF Succeed, Retry, GiveUp, Release, Outcomes
  <2> QED
    BY <2>1, SettleTogether
<1>7. ASSUME Tick \/ UNCHANGED vars
      PROVE  Together'
  BY <1>7, QuietTogether, Zenon
<1>8. Together'
  <2>1. ASSUME NEW w \in Workers, StopStep(w) \/ Crash(w)
        PROVE  Together'
    BY <1>3, <1>4, <2>1 DEF StopStep
  <2>2. ASSUME NEW r \in runs, RunStep(r) \/ RecordFails(r)
        PROVE  Together'
    BY <1>5, <1>6, <2>2 DEF RunStep
  <2> QED
    BY <1>1, <1>2, <1>3, <1>7, <2>1, <2>2 DEF Next
<1>9. TriesLeft'
  BY TriesStep
<1> QED
  BY <1>8, <1>9 DEF Together, LeaseInv

LEMMA InitLease == Init => LeaseInv
<1> SUFFICES ASSUME Init PROVE LeaseInv
  OBVIOUS
<1>1. runs = {}
  BY DEF Init
<1>2. TriesLeft
  BY TriesAssumption DEF Init, TriesLeft, NoRow
<1> QED
  BY <1>1, <1>2 DEF LeaseInv, Exact, AllLocked, Retriable

LEMMA LeaseInvariance ==
  ASSUME LeaseSuffices
  PROVE  Spec => []LeaseInv
<1>1. TypeInv /\ TypeInv' /\ MapInv /\ Times /\ LeaseInv /\ [Next]_vars => LeaseInv'
  BY LeaseStep
<1> QED
  BY <1>1, InitLease, TypeInvariance, MapInvariance, TimesInvariance, PTL DEF Spec

\* When the lease is long enough, an execution of a job whose entry was not replaced holds
\* its job until its outcome is stored, and its claim is the job's last one: no such job is
\* ever executed twice at once, on one worker or on two (worker.ts, track, renewLeases and
\* stop).
THEOREM LeaseCorrect ==
  ASSUME LeaseSuffices
  PROVE  Spec => []HoldsLease
<1>1. LeaseInv => HoldsLease
  BY DEF LeaseInv, Exact, Owns, HoldsLease
<1> QED
  BY <1>1, LeaseInvariance, PTL

\* Then no job, but for one whose entry was replaced, is claimed more often than it may be
\* tried (worker.ts, failure; memory.ts, requeueExpired).
THEOREM TriesCorrect ==
  ASSUME LeaseSuffices
  PROVE  Spec => []TriesLeft
<1>1. LeaseInv => TriesLeft
  BY DEF LeaseInv
<1> QED
  BY <1>1, LeaseInvariance, PTL

\* Then a dispatched job leaves the store only when its handler succeeded or when it had
\* been finished for as long as its kind is kept (memory.ts, complete, purge and enqueue).
THEOREM LostCorrect ==
  ASSUME LeaseSuffices
  PROVE  Spec => NothingLost
<1> DEFINE Step == \A j \in Ids : jobs[j].state # "gone" /\ jobs'[j].state = "gone" =>
             \/ jobs[j].state = "unborn" /\ \E i \in InStore(jobs) : SameKey(i, j)
             \/ \E r \in runs : /\ r.j = j /\ r.outcome = "completed" /\ ~Keep(j)
                                /\ r.n = claims[j] \/ j \in replaced[r.w]
             \/ jobs[j].state = "completed" /\ now > jobs[j].finishedAt + IdemWindow
             \/ jobs[j].state = "dead" /\ now > jobs[j].finishedAt + DeadRetention
<1>1. TypeInv /\ LeaseInv /\ [Next]_vars => Step
  <2> SUFFICES ASSUME TypeInv, LeaseInv, [Next]_vars, NEW j \in Ids,
                      jobs[j].state # "gone", jobs'[j].state = "gone"
               PROVE  \/ jobs[j].state = "unborn" /\ \E i \in InStore(jobs) : SameKey(i, j)
                      \/ \E r \in runs : /\ r.j = j /\ r.outcome = "completed" /\ ~Keep(j)
                                         /\ r.n = claims[j] \/ j \in replaced[r.w]
                      \/ jobs[j].state = "completed" /\ now > jobs[j].finishedAt + IdemWindow
                      \/ jobs[j].state = "dead" /\ now > jobs[j].finishedAt + DeadRetention
    OBVIOUS
  <2>0. GoodTable(jobs) /\ jobs[j] \in Row /\ now \in Nat /\ IdemWindow \in Nat /\ DeadRetention \in Nat
    BY DurationTypes DEF TypeInv, TypeOK, GoodTable, Agreeing
  <2>1. ASSUME NEW i \in Ids, NEW delay \in Delays, Dispatch(i, delay)
        PROVE  jobs[j].state = "unborn" /\ \E k \in InStore(jobs) : SameKey(k, j)
    <3>1. j = i /\ jobs[j].state = "unborn" /\ j \in Deduplicated(jobs, {j})
      BY <2>1 DEF Dispatch, Enqueued, NewRow, NoRow
    <3>2. j \in Nat
      BY IdsAssumption
    <3> QED
      BY <3>1, <3>2 DEF Deduplicated
  <2>2. ASSUME NEW i \in Ids, Revive(i)
        PROVE  FALSE
    BY <2>0, <2>2 DEF Revive, Retried, Row
  <2>3. ASSUME jobs' = Maintained(jobs, now)
        PROVE  \/ jobs[j].state = "completed" /\ now > jobs[j].finishedAt + IdemWindow
               \/ jobs[j].state = "dead" /\ now > jobs[j].finishedAt + DeadRetention
    <3>1. j \notin Expired(jobs, now)
      <4>1. Unlocked(jobs[j]) \in Row
        BY <2>0, UnlockedRow
      <4> HIDE DEF Unlocked
      <4> QED
        BY <2>0, <2>3, <4>1, MaintainedRows, ZenonT(40) DEF Requeued, Row
    <3>2. j \in Outdated(jobs, now)
      BY <2>0, <2>3, <3>1, MaintainedRows
    <3>3. jobs[j].finishedAt \in Nat
      BY <2>0, <3>2 DEF Outdated, GoodTable, Agrees, Finished, Row
    <3> QED
      BY <2>0, <3>2, <3>3 DEF Outdated
  <2>4. ASSUME NEW w \in Workers, StoreClaims(w)
        PROVE  FALSE
    BY <2>0, <2>4 DEF StoreClaims, ClaimedTable, Claimed, Row
  <2>5. ASSUME NEW w \in Workers, RenewReturn(w)
        PROVE  FALSE
    BY <2>0, <2>5 DEF RenewReturn, Renewed, Row
  <2>6. ASSUME NEW r \in runs, Record(r)
        PROVE  /\ r.j = j /\ r.outcome = "completed" /\ ~Keep(j)
               /\ r.n = claims[j] \/ j \in replaced[r.w]
    <3>1. r.outcome \in Outcomes /\ StoreCompletes(r)
      BY <2>6 DEF Record
    <3>2. r.j = j /\ Holds(jobs, r.w, j)
      BY <3>1, RunArguments DEF StoreCompletes, Completed, TypeInv, TypeOK
    <3>3. r.n = claims[j] \/ j \in replaced[r.w]
      <4>1. Owns(r) \/ j \in replaced[r.w]
        BY <3>1, <3>2 DEF Owns, Outcomes
      <4> QED
        BY <3>2, <4>1 DEF LeaseInv, Exact
    <3>4. jobs'[j] = Outcome(jobs[j], Keep(j), r.outcome, r.at, r.at + Backoff)
      BY <3>1, <3>2 DEF StoreCompletes, Completed, TypeInv, TypeOK
    <3>5. Unlocked(jobs[j]) \in Row
      BY <2>0, UnlockedRow
    <3>6. r.outcome = "completed" /\ ~Keep(j)
      <4> HIDE DEF Unlocked
      <4> QED
        BY <3>1, <3>4, <3>5 DEF Outcome, Outcomes, Row
    <3> QED
      BY <3>2, <3>3, <3>6
  <2> QED
    BY <2>1, <2>2, <2>3, <2>4, <2>5, <2>6, TableSteps DEF Start, Maintain
<1>2. TypeInv /\ LeaseInv /\ [Next]_vars => [Step]_vars
  BY <1>1
<1> QED
  BY <1>2, TypeInvariance, LeaseInvariance, PTL DEF Spec, NothingLost

\* Where no entry was replaced, what is recorded is recorded for the last claim.
FreshUnlessReplaced ==
  [][\A r \in runs : r \notin runs' /\ jobs'[r.j] # jobs[r.j] /\ r.j \notin replaced[r.w] =>
       r.n = claims[r.j]]_vars

LEMMA FreshStep ==
  ASSUME TypeInv, LeaseInv, [Next]_vars, NEW r \in runs, r \notin runs', jobs'[r.j] # jobs[r.j],
         r.j \notin replaced[r.w]
  PROVE  r.n = claims[r.j]
<1>1. ~UNCHANGED jobs /\ ~UNCHANGED runs
  OBVIOUS
<1>2. ASSUME NEW q \in runs, Record(q)
      PROVE  r = q /\ r.outcome \in Outcomes
  BY <1>2 DEF Record
<1>3. PICK q \in runs : Record(q)
  BY <1>1, TableSteps DEF Dispatch, Revive, Start, Maintain, ClaimReturn, ClaimFails, RenewReturn
<1>4. Owns(r)
  BY <1>2, <1>3 DEF Owns, Outcomes
<1> QED
  BY <1>4 DEF LeaseInv, Exact

\* And then no result is recorded for a claim that is not the one that produced it, but for
\* jobs whose entry was replaced; so, as adapter.ts has it (complete), for no job at all when
\* every worker has room for one.  Nothing else prevents it: the store compares worker ids
\* only.
THEOREM FreshCorrect ==
  ASSUME LeaseSuffices
  PROVE  /\ Spec => FreshUnlessReplaced
         /\ (\A w \in Workers : Concurrency[w] = 1) => (Spec => StaleResultDiscarded)
<1> DEFINE Step == \A r \in runs : r \notin runs' /\ jobs'[r.j] # jobs[r.j] /\ r.j \notin replaced[r.w] =>
                     r.n = claims[r.j]
           Always == \A r \in runs : r \notin runs' /\ jobs'[r.j] # jobs[r.j] => r.n = claims[r.j]
<1>1. TypeInv /\ LeaseInv /\ [Next]_vars => [Step]_vars
  BY FreshStep
<1>2. Spec => FreshUnlessReplaced
  BY <1>1, TypeInvariance, LeaseInvariance, PTL DEF Spec, FreshUnlessReplaced
<1>3. ASSUME \A w \in Workers : Concurrency[w] = 1
      PROVE  Spec => StaleResultDiscarded
  <2>1. TypeInv /\ MapInv /\ LeaseInv /\ [Next]_vars => [Always]_vars
    <3> SUFFICES ASSUME TypeInv, MapInv, LeaseInv, [Next]_vars, NEW r \in runs, r \notin runs', jobs'[r.j] # jobs[r.j]
                 PROVE  r.n = claims[r.j]
      OBVIOUS
    <3>1. r.j \notin replaced[r.w]
      BY <1>3, RunArguments DEF MapInv, Alone
    <3> QED
      BY <3>1, FreshStep
  <2> QED
    BY <2>1, TypeInvariance, MapInvariance, LeaseInvariance, PTL DEF Spec, StaleResultDiscarded
<1> QED
  BY <1>2, <1>3
=============================================================================

----------------------------- MODULE WorkerPool -----------------------------
(***************************************************************************)
(* Worker processes running jobs from one queue (packages/queue/src/       *)
(* worker.ts) over the table of JobTable.                                  *)
(*                                                                         *)
(* Every await of the worker is a point where another worker, a timer or a *)
(* stop may run, so each handler is split exactly there: the claim loop    *)
(* (at its top, a claim in flight, asleep, waiting for room), an execution *)
(* (its handler running, its outcome on the way to the store, the reply on *)
(* the way back), a renewal in flight, and stop() (draining, releasing,    *)
(* stopped).                                                               *)
(*                                                                         *)
(* All workers read one clock.  A healthy process takes a step that is due *)
(* before the clock moves on, and a call to the store takes at most        *)
(* RoundTrip; what is not healthy appears as a fault: a crash, a call that *)
(* fails, a reply that is lost.  A claim and a renewal carry instants read *)
(* before the call, so the store may apply them up to RoundTrip later.     *)
(***************************************************************************)
EXTENDS JobTable

CONSTANTS
  Concurrency,      \* [Workers -> jobs in flight at once]
  Lease,            \* how long a claim or a renewal lasts
  RenewEvery,       \* the period of renewLeases, a third of the lease
  RoundTrip,        \* longest time a call to the store is under way
  Timeout,          \* the handlers' timeout
  Backoff,          \* delay before the next try of a failed job
  Grace,            \* shutdownTimeout
  PollMax,          \* the longest sleep between two polls
  IdemWindow,       \* completed jobs with a key are kept this long
  DeadRetention,    \* dead jobs are kept this long
  Delays,           \* delays a job may be dispatched with
  Spare,            \* workers started later
  Mortal,           \* workers that may be told to stop, or crash
  Faults,           \* kinds of fault that may happen
  MaxFaults,        \* bound: faults in one behaviour
  MaxRevivals,      \* bound: dead jobs put back by hand in one behaviour
  Horizon           \* bound: the clock stops here

VARIABLES
  jobs,       \* the table
  now,        \* the clock
  phase,      \* [Workers -> Phases]
  loop,       \* [Workers -> the claim loop: where it is, what it asked for]
  renewal,    \* [Workers -> the renewal timer and the call in flight]
  inFlight,   \* [Workers -> [Ids -> claim number; 0: no entry in the map]]
  runs,       \* the executions that have not ended
  awaited,    \* [Workers -> the executions stop() awaits]
  deadline,   \* [Workers -> when stop() ends its grace]
  replaced,   \* history: [Workers -> jobs whose entry in the map a claim replaced]
  claims,     \* history: [Ids -> how many times the job was claimed]
  ended,      \* history: [Ids -> finish time of its recorded success]
  faults,     \* faults so far
  revivals    \* jobs put back by hand so far

vars == <<jobs, now, phase, loop, renewal, inFlight, runs, awaited, deadline, replaced,
          claims, ended, faults, revivals>>

FaultKinds == {"crash",         \* a worker process dies
               "claim",         \* a claim fails before it reaches the store
               "claimReply",    \* a claim reaches the store, its reply is lost
               "complete",      \* an outcome does not reach the store
               "renew"}         \* a renewal fails

Durations == {Lease, RenewEvery, RoundTrip, Timeout, Backoff, Grace, PollMax,
              IdemWindow, DeadRetention}

ASSUME DurationsAssumption == /\ Durations \subseteq Nat
                              /\ Delays \subseteq Nat
                              /\ RoundTrip <= RenewEvery
                              /\ RenewEvery > 0
ASSUME PoolAssumption == Concurrency \in [Workers -> Nat \ {0}] /\ Spare \subseteq Workers
                                                   /\ Mortal \subseteq Workers
ASSUME BoundsAssumption == /\ Faults \subseteq FaultKinds
                           /\ {MaxFaults, MaxRevivals, Horizon} \subseteq Nat

Phases == {"new",        \* not started
           "up",
           "draining",   \* stop() waits for the jobs in flight, up to Grace
           "releasing",  \* stop() has aborted the rest and waits for them
           "stopped"}    \* stop() returned and the process exited, or it crashed

Loop == [pc : {"top", "claiming", "asleep", "full", "exited"},
         at : Nat,                        \* when the claim was made; when a sleep of stop() began
         limit : Nat,                     \* what the claim asked for
         racing : SUBSET (Ids \X Nat)]    \* the executions of which one has to end first
At(pc) == [pc |-> pc, at |-> 0, limit |-> 0, racing |-> {}]

Renewal == [next : Nat, ids : SUBSET Ids]    \* ids: of the call in flight, if any
Renewing(next, ids) == [next |-> next, ids |-> ids]

Run == [w : Workers, j : Ids, n : Nat,       \* the worker, and claim n of job j
        attempt : Nat \ {0},                 \* record.attempt
        until : Nat,                         \* when its timeout aborts it
        aborted : BOOLEAN,                   \* stop() aborted its signal
        outcome : Outcomes \cup {"none",     \* while the handler runs
                               "stored"},  \* the store has applied it, nobody knows yet
        at : Nat]                            \* the completion's now

NoEntries == [j \in Ids |-> 0]

\* The executions stop() finds in the inFlight map, by job and claim.
Tracked(w) == {<<j, inFlight[w][j]>> : j \in {i \in Ids : inFlight[w][i] # 0}}

RunsOf(w) == {r \in runs : r.w = w}
Pending(w, S) == \E r \in RunsOf(w) : <<r.j, r.n>> \in S

Free(w) == Concurrency[w] - Cardinality(Tracked(w))
Stopping(w) == phase[w] \in {"draining", "releasing"}
Asleep(w) == [At("asleep") EXCEPT !.at = IF Stopping(w) THEN now ELSE 0]

-----------------------------------------------------------------------------
Init ==
  /\ jobs = [j \in Ids |-> NoRow("unborn")]
  /\ now = 0
  /\ phase = [w \in Workers |-> IF w \in Spare THEN "new" ELSE "up"]
  /\ loop = [w \in Workers |-> At(IF w \in Spare THEN "exited" ELSE "top")]
  /\ renewal = [w \in Workers |-> Renewing(IF w \in Spare THEN 0 ELSE RenewEvery, {})]
  /\ inFlight = [w \in Workers |-> NoEntries]
  /\ runs = {}
  /\ awaited = [w \in Workers |-> {}]
  /\ deadline = [w \in Workers |-> 0]
  /\ replaced = [w \in Workers |-> {}]
  /\ claims = [j \in Ids |-> 0]
  /\ ended = [j \in Ids |-> NoTime]
  /\ faults = 0
  /\ revivals = 0

Fault(kind) == kind \in Faults /\ faults < MaxFaults /\ faults' = faults + 1

-----------------------------------------------------------------------------
\* Callers of Queue.dispatch, and a person putting a dead job back.

Dispatch(j, delay) ==
  /\ jobs[j].state = "unborn"
  /\ jobs' = Enqueued(jobs, {j}, now + delay)
  /\ UNCHANGED <<now, phase, loop, renewal, inFlight, runs, awaited, deadline,
                 replaced, claims, ended, faults, revivals>>

Revive(j) ==
  /\ jobs[j].state = "dead"
  /\ revivals < MaxRevivals
  /\ revivals' = revivals + 1
  /\ jobs' = Retried(jobs, {j}, now)
  /\ UNCHANGED <<now, phase, loop, renewal, inFlight, runs, awaited, deadline,
                 replaced, claims, ended, faults>>

-----------------------------------------------------------------------------
\* start() and maintenance.

\* The three calls of maintain() carry the instant it began.
\* Mutant: nothing is requeued.
MaintainedPurgeOnly(js, t) ==
  Purged(Purged(js, "completed", t - IdemWindow), "dead", t - DeadRetention)

Maintained(js, t) ==
  Purged(Purged(Requeued(js, t), "completed", t - IdemWindow), "dead", t - DeadRetention)

Start(w) ==
  /\ phase[w] = "new"
  /\ phase' = [phase EXCEPT ![w] = "up"]
  /\ jobs' = Maintained(jobs, now)
  /\ renewal' = [renewal EXCEPT ![w] = Renewing(now + RenewEvery, {})]
  /\ loop' = [loop EXCEPT ![w] = At("top")]
  /\ UNCHANGED <<now, inFlight, runs, awaited, deadline, replaced, claims, ended, faults, revivals>>

Maintain(w) ==
  /\ phase[w] = "up"
  /\ jobs' = Maintained(jobs, now)
  /\ jobs' # jobs
  /\ UNCHANGED <<now, phase, loop, renewal, inFlight, runs, awaited, deadline,
                 replaced, claims, ended, faults, revivals>>

-----------------------------------------------------------------------------
\* loop(): claim as many jobs as there is room for, run them, sleep when there
\* were fewer, wait for room when there is none.

ClaimCall(w) ==
  /\ phase[w] = "up"
  /\ loop[w].pc = "top"
  /\ Free(w) > 0
  /\ loop' = [loop EXCEPT ![w] = [At("claiming") EXCEPT !.at = now, !.limit = Free(w)]]
  /\ UNCHANGED <<jobs, now, phase, renewal, inFlight, runs, awaited, deadline,
                 replaced, claims, ended, faults, revivals>>

\* Promise.race over the map's executions, of the moment it is made.
Full(w) ==
  /\ phase[w] = "up"
  /\ loop[w].pc = "top"
  /\ Free(w) = 0
  /\ loop' = [loop EXCEPT ![w] = [At("full") EXCEPT !.racing = Tracked(w)]]
  /\ UNCHANGED <<jobs, now, phase, renewal, inFlight, runs, awaited, deadline,
                 replaced, claims, ended, faults, revivals>>

RaceEnds(w) == loop[w].pc = "full" /\ \E p \in loop[w].racing : ~Pending(w, {p})

RoomAgain(w) ==
  /\ RaceEnds(w)
  /\ loop' = [loop EXCEPT ![w] = At("top")]
  /\ UNCHANGED <<jobs, now, phase, renewal, inFlight, runs, awaited, deadline,
                 replaced, claims, ended, faults, revivals>>

\* What the claim in flight selects when the store gets to it.
Selected(w) == Claimable(jobs, w, loop[w].at, loop[w].limit)

ClaimedTable(w) == Claimed(jobs, w, Selected(w), loop[w].at + Lease)

StoreClaims(w) ==
  /\ jobs' = ClaimedTable(w)
  /\ claims' = [j \in Ids |-> claims[j] + IF j \in Selected(w) THEN 1 ELSE 0]

\* execute() as far as its first await.
NewRun(w, j) == [w |-> w, j |-> j, n |-> claims[j] + 1, attempt |-> ClaimedTable(w)[j].attempt,
                 until |-> now + Timeout, aborted |-> FALSE, outcome |-> "none", at |-> 0]

\* track(): every claimed job gets an execution, whether or not stop() has begun,
\* and the inFlight entry of its id, replacing one that is there.
ClaimReturn(w) ==
  /\ loop[w].pc = "claiming"
  /\ StoreClaims(w)
  /\ runs' = runs \cup {NewRun(w, j) : j \in Selected(w)}
  /\ inFlight' = [inFlight EXCEPT ![w] =
                    [j \in Ids |-> IF j \in Selected(w) THEN claims[j] + 1 ELSE @[j]]]
  /\ replaced' = [replaced EXCEPT ![w] = @ \cup {j \in Selected(w) : inFlight[w][j] # 0}]
  /\ loop' = [loop EXCEPT ![w] =
                IF Cardinality(Selected(w)) = loop[w].limit THEN At("top") ELSE Asleep(w)]
  /\ UNCHANGED <<now, phase, renewal, awaited, deadline, ended, faults, revivals>>

\* The claim rejects: it never reached the store, or it did and nobody knows.
ClaimFails(w) ==
  /\ loop[w].pc = "claiming"
  /\ \/ Fault("claim") /\ UNCHANGED <<jobs, claims>>
     \/ Fault("claimReply") /\ StoreClaims(w)
  /\ loop' = [loop EXCEPT ![w] = Asleep(w)]
  /\ UNCHANGED <<now, phase, renewal, inFlight, runs, awaited, deadline, replaced, ended, revivals>>

\* sleep() ends: the poll timer, a wake-up from the store.  A poll that would find
\* nothing changes nothing and is skipped.  A worker told to stop while its claim was
\* in flight has spent its wake-up and sleeps until then as well.
Wake(w) ==
  /\ loop[w].pc = "asleep"
  /\ Stopping(w) \/ Due(jobs, w, now) # {}
  /\ loop' = [loop EXCEPT ![w] = At("top")]
  /\ UNCHANGED <<jobs, now, phase, renewal, inFlight, runs, awaited, deadline,
                 replaced, claims, ended, faults, revivals>>

\* Mutant: the loop misses a stop that has gone on to releasing.
LoopExitWhileDraining(w) ==
  /\ phase[w] = "draining"
  /\ loop[w].pc = "top"
  /\ loop' = [loop EXCEPT ![w] = At("exited")]
  /\ UNCHANGED <<jobs, now, phase, renewal, inFlight, runs, awaited, deadline,
                 replaced, claims, ended, faults, revivals>>

LoopExit(w) ==
  /\ Stopping(w)
  /\ loop[w].pc = "top"
  /\ loop' = [loop EXCEPT ![w] = At("exited")]
  /\ UNCHANGED <<jobs, now, phase, renewal, inFlight, runs, awaited, deadline,
                 replaced, claims, ended, faults, revivals>>

-----------------------------------------------------------------------------
\* execute(): the handler settles, then its outcome is recorded.

Settle(r, outcome) ==
  /\ r.outcome = "none"
  /\ runs' = (runs \ {r}) \cup {[r EXCEPT !.outcome = outcome, !.at = now]}
  /\ UNCHANGED <<jobs, now, phase, loop, renewal, inFlight, awaited, deadline,
                 replaced, claims, ended, faults, revivals>>

Succeed(r) == ~r.aborted /\ Settle(r, "completed")

\* The handler threw, or its timeout aborted it: failure().
\* Mutant: the limit is off by one.
RetryOnceMore(r) == ~r.aborted /\ r.attempt <= MaxAttempts[r.j] /\ Settle(r, "retry")

Retry(r) == ~r.aborted /\ r.attempt < MaxAttempts[r.j] /\ Settle(r, "retry")

\* No tries are left, or the error is a NonRetryableError.
GiveUp(r) == ~r.aborted /\ Settle(r, "dead")

\* The reason of the abort is ShutdownAbort: the handler's own result is dropped.
Release(r) == r.aborted /\ Settle(r, "released")

Keep(j) == KeyOf[j] # NoKey

StoreCompletes(r) ==
  /\ jobs' = Completed(jobs, r.w, r.j, Keep(r.j), r.outcome, r.at, r.at + Backoff)
  /\ ended' = IF r.outcome = "completed" /\ Holds(jobs, r.w, r.j)
              THEN [ended EXCEPT ![r.j] = r.at]
              ELSE ended

\* complete() reaches the store; its reply is awaited.
Record(r) ==
  /\ r.outcome \in Outcomes
  /\ StoreCompletes(r)
  /\ runs' = (runs \ {r}) \cup {[r EXCEPT !.outcome = "stored"]}
  /\ UNCHANGED <<now, phase, loop, renewal, inFlight, awaited, deadline,
                 replaced, claims, faults, revivals>>

\* Mutant: the entry of an ended execution stays in the map.
UntrackNot(r) ==
  /\ runs' = runs \ {r}
  /\ loop' = IF loop[r.w].pc = "asleep" THEN [loop EXCEPT ![r.w] = At("top")] ELSE loop
  /\ UNCHANGED inFlight

\* The finally of track(): the entry of this id goes, whosever it is by now.
Untrack(r) ==
  /\ runs' = runs \ {r}
  /\ inFlight' = [inFlight EXCEPT ![r.w][r.j] = 0]
  /\ loop' = IF loop[r.w].pc = "asleep" THEN [loop EXCEPT ![r.w] = At("top")] ELSE loop

\* The reply arrives, or its loss is noticed, which is caught.
Return(r) ==
  /\ r.outcome = "stored"
  /\ Untrack(r)
  /\ UNCHANGED <<jobs, now, phase, renewal, awaited, deadline, replaced, claims, ended, faults, revivals>>

\* complete() fails before it reaches the store, which is caught.
RecordFails(r) ==
  /\ r.outcome \in Outcomes
  /\ Fault("complete")
  /\ Untrack(r)
  /\ UNCHANGED <<jobs, now, phase, renewal, awaited, deadline, replaced, claims, ended, revivals>>

-----------------------------------------------------------------------------
\* renewLeases(), on its timer; stop() clears the timer, not a call in flight.

RenewCall(w) ==
  /\ phase[w] = "up"
  /\ renewal[w].next = now
  /\ renewal[w].ids = {}
  /\ renewal' = [renewal EXCEPT ![w] =
                   Renewing(now + RenewEvery, {j \in Ids : inFlight[w][j] # 0})]
  /\ UNCHANGED <<jobs, now, phase, loop, inFlight, runs, awaited, deadline,
                 replaced, claims, ended, faults, revivals>>

\* When the call in flight was made: the timer was set anew at that moment.
RenewedAt(w) == renewal[w].next - RenewEvery

RenewEnds(w) == renewal' = [renewal EXCEPT ![w] = Renewing(@.next, {})]

\* Mutant: the lease is renewed until now rather than for its length.
RenewReturnUntilNow(w) ==
  /\ renewal[w].ids # {}
  /\ jobs' = Renewed(jobs, w, renewal[w].ids, RenewedAt(w))
  /\ RenewEnds(w)
  /\ UNCHANGED <<now, phase, loop, inFlight, runs, awaited, deadline,
                 replaced, claims, ended, faults, revivals>>

RenewReturn(w) ==
  /\ renewal[w].ids # {}
  /\ jobs' = Renewed(jobs, w, renewal[w].ids, RenewedAt(w) + Lease)
  /\ RenewEnds(w)
  /\ UNCHANGED <<now, phase, loop, inFlight, runs, awaited, deadline,
                 replaced, claims, ended, faults, revivals>>

RenewFails(w) ==
  /\ renewal[w].ids # {}
  /\ Fault("renew")
  /\ RenewEnds(w)
  /\ UNCHANGED <<jobs, now, phase, loop, inFlight, runs, awaited, deadline,
                 replaced, claims, ended, revivals>>

-----------------------------------------------------------------------------
\* stop(): on SIGTERM, or from the app's lifecycle.

Stop(w) ==
  /\ w \in Mortal
  /\ phase[w] = "up"
  /\ phase' = [phase EXCEPT ![w] = "draining"]
  /\ loop' = IF loop[w].pc = "asleep" THEN [loop EXCEPT ![w] = At("top")] ELSE loop
  /\ awaited' = [awaited EXCEPT ![w] = Tracked(w)]
  /\ deadline' = [deadline EXCEPT ![w] = now + Grace]
  /\ UNCHANGED <<jobs, now, renewal, inFlight, runs, replaced, claims, ended, faults, revivals>>

GraceOver(w) == phase[w] = "draining" /\ (~Pending(w, awaited[w]) \/ now >= deadline[w])

\* Mutant: nothing is aborted.
AbortNothing(w) ==
  /\ GraceOver(w)
  /\ phase' = [phase EXCEPT ![w] = "releasing"]
  /\ awaited' = [awaited EXCEPT ![w] = Tracked(w)]
  /\ UNCHANGED <<jobs, now, loop, renewal, inFlight, runs, deadline,
                 replaced, claims, ended, faults, revivals>>

Abort(w) ==
  /\ GraceOver(w)
  /\ phase' = [phase EXCEPT ![w] = "releasing"]
  /\ awaited' = [awaited EXCEPT ![w] = Tracked(w)]
  /\ runs' = {[r EXCEPT !.aborted = @ \/ (r.w = w /\ r.outcome = "none"
                                                  /\ <<r.j, r.n>> \in Tracked(w))] : r \in runs}
  /\ UNCHANGED <<jobs, now, loop, renewal, inFlight, deadline, replaced, claims, ended, faults, revivals>>

\* The process and everything it still runs is gone.
Exit(w) ==
  /\ phase' = [phase EXCEPT ![w] = "stopped"]
  /\ loop' = [loop EXCEPT ![w] = At("exited")]
  /\ renewal' = [renewal EXCEPT ![w] = Renewing(0, {})]
  /\ inFlight' = [inFlight EXCEPT ![w] = NoEntries]
  /\ runs' = runs \ RunsOf(w)
  /\ awaited' = [awaited EXCEPT ![w] = {}]
  /\ deadline' = [deadline EXCEPT ![w] = 0]
  /\ UNCHANGED <<jobs, now, replaced, claims, ended, revivals>>

StopDone(w) == phase[w] = "releasing" /\ ~Pending(w, awaited[w]) /\ loop[w].pc = "exited"

Stopped(w) == StopDone(w) /\ Exit(w) /\ UNCHANGED faults

Crash(w) ==
  w \in Mortal /\ phase[w] \notin {"new", "stopped"} /\ Fault("crash") /\ Exit(w)

-----------------------------------------------------------------------------
\* The clock: it waits for every step that is due.

Late(at) == now >= at + RoundTrip

LoopDue(w) == \/ loop[w].pc = "claiming" /\ Late(loop[w].at)
              \/ loop[w].pc = "top"
              \/ loop[w].pc = "asleep" /\ Stopping(w) /\ now >= loop[w].at + PollMax
              \/ RaceEnds(w)

RenewalDue(w) == \/ phase[w] = "up" /\ renewal[w].next = now
                 \/ renewal[w].ids # {} /\ Late(RenewedAt(w))

RunDue(r) == IF r.outcome = "none" THEN r.aborted \/ now >= r.until ELSE Late(r.at)

\* Bound: time in which nobody waits for anything is skipped.
Awaited(row) == CASE row.state = "pending"   -> row.runAt > now
                  [] row.state = "active"    -> row.lockedUntil >= now
                  [] row.state = "completed" -> row.finishedAt + IdemWindow >= now
                  [] row.state = "dead"      -> row.finishedAt + DeadRetention >= now
                  [] OTHER                   -> FALSE

Tick ==
  /\ now < Horizon
  /\ \/ runs # {}
     \/ \E w \in Workers : Stopping(w)
     \/ \E j \in Ids : Awaited(jobs[j])
  /\ \A w \in Workers : ~(LoopDue(w) \/ RenewalDue(w) \/ GraceOver(w) \/ StopDone(w))
  /\ \A r \in runs : ~RunDue(r)
  /\ now' = now + 1
  /\ UNCHANGED <<jobs, phase, loop, renewal, inFlight, runs, awaited, deadline,
                 replaced, claims, ended, faults, revivals>>

-----------------------------------------------------------------------------
ClaimStep(w) == ClaimCall(w) \/ Full(w) \/ RoomAgain(w) \/ ClaimReturn(w) \/ LoopExit(w)
RenewStep(w) == RenewCall(w) \/ RenewReturn(w)
StopStep(w) == Abort(w) \/ Stopped(w)
RunStep(r) == Succeed(r) \/ Retry(r) \/ GiveUp(r) \/ Release(r) \/ Record(r) \/ Return(r)

Next ==
  \/ \E j \in Ids : Revive(j) \/ \E delay \in Delays : Dispatch(j, delay)
  \/ \E w \in Workers : \/ Start(w) \/ Maintain(w)
                        \/ ClaimStep(w) \/ ClaimFails(w) \/ Wake(w)
                        \/ RenewStep(w) \/ RenewFails(w)
                        \/ Stop(w) \/ StopStep(w) \/ Crash(w)
  \/ \E r \in runs : RunStep(r) \/ RecordFails(r)
  \/ Tick

Spec == Init /\ [][Next]_vars

\* A worker process is scheduled, its timers fire and its calls are answered; the
\* maintenance interval comes round; every handler settles (at its timeout at
\* the latest).  Nothing obliges anyone to dispatch, revive, start or stop.
Fairness ==
  /\ WF_vars(Tick)
  /\ \A w \in Workers : /\ WF_vars(ClaimStep(w))
                         /\ WF_vars(Wake(w))
                         /\ WF_vars(Maintain(w))
                         /\ WF_vars(RenewStep(w))
                         /\ WF_vars(StopStep(w))
                         /\ \A j \in Ids : WF_vars(\E r \in RunsOf(w) : r.j = j /\ RunStep(r))

FairSpec == Spec /\ Fairness

-----------------------------------------------------------------------------
\* Properties.

\* Every variable keeps its type; one execution per claim.
TypeOK ==
  /\ jobs \in [Ids -> Row]
  /\ now \in Nat
  /\ phase \in [Workers -> Phases]
  /\ loop \in [Workers -> Loop]
  /\ renewal \in [Workers -> Renewal]
  /\ inFlight \in [Workers -> [Ids -> Nat]]
  /\ runs \subseteq Run
  /\ awaited \in [Workers -> SUBSET (Ids \X Nat)]
  /\ deadline \in [Workers -> Nat]
  /\ replaced \in [Workers -> SUBSET Ids]
  /\ claims \in [Ids -> Nat]
  /\ ended \in [Ids -> Int]
  /\ faults \in 0 .. MaxFaults
  /\ revivals \in 0 .. MaxRevivals

\* An execution of a job whose entry no claim of its worker replaced holds the job's
\* lease until its outcome is stored, and its claim is the job's last one: such a job is
\* never executed twice at once, on one worker or on two, whatever crashes, lost replies
\* and stops happen meanwhile (worker.ts, track, renewLeases and stop).
HoldsLease ==
  \A r \in runs : r.outcome # "stored" /\ r.j \notin replaced[r.w] =>
    Holds(jobs, r.w, r.j) /\ claims[r.j] = r.n

\* The map of jobs in flight has an entry for every execution of the worker and for
\* nothing else, except that a job may be missing which the worker claimed again while
\* it still awaited the reply for it: the finally of the first execution deletes the
\* entry of the second (worker.ts, track).  A worker with room for one never does that.
MapIsExact ==
  \A w \in Workers :
    /\ Tracked(w) \subseteq {<<r.j, r.n>> : r \in RunsOf(w)}
    /\ \A r \in RunsOf(w) : <<r.j, r.n>> \in Tracked(w) \/ r.j \in replaced[w]
    /\ Concurrency[w] = 1 => replaced[w] = {}

\* The jobs of which no entry was replaced.
Unreplaced(j) == \A w \in Workers : j \notin replaced[w]

\* Such a job is never claimed more often than it may be tried: whoever would claim a
\* pending job next still has a try for it (worker.ts, failure; memory.ts,
\* requeueExpired).
TriesLeft ==
  \A j \in Ids : Unreplaced(j) =>
    /\ jobs[j].state = "pending" => jobs[j].attempt < MaxAttempts[j]
    /\ jobs[j].attempt <= MaxAttempts[j]

\* A dispatched job leaves the store only when its handler succeeded, in the execution
\* of the last claim, or when it had been finished for as long as its kind is kept; a key
\* that is taken is the only reason not to store a job (memory.ts, complete, purge and
\* enqueue).
NothingLost ==
  [][\A j \in Ids : jobs[j].state # "gone" /\ jobs'[j].state = "gone" =>
       \/ jobs[j].state = "unborn" /\ \E i \in InStore(jobs) : SameKey(i, j)
       \/ \E r \in runs : /\ r.j = j /\ r.outcome = "completed" /\ ~Keep(j)
                          /\ r.n = claims[j] \/ j \in replaced[r.w]
       \/ jobs[j].state = "completed" /\ now > jobs[j].finishedAt + IdemWindow
       \/ jobs[j].state = "dead" /\ now > jobs[j].finishedAt + DeadRetention]_vars

\* Of the jobs dispatched with one key, none is stored while another waits or
\* runs, nor until IdemWindow after another one's success (define.ts and spec-6
\* 3.1; worker.ts, maintain).
KeyRunsOnce ==
  [][\A i, j \in Ids :
       i # j /\ SameKey(i, j) /\ jobs[j].state = "unborn" /\ jobs'[j].state = "pending" =>
         /\ jobs[i].state \notin Stored
         /\ ended[i] = NoTime \/ now > ended[i] + IdemWindow]_vars

\* What execute() records is recorded for the claim that produced it: a result
\* that outlived its lease is discarded (adapter.ts, complete).
StaleResultDiscarded ==
  [][\A r \in runs : r \notin runs' /\ jobs'[r.j] # jobs[r.j] => r.n = claims[r.j]]_vars

\* stop() ends within its grace and one call to the store; or, when a claim was in
\* flight as it began, within that call and the poll sleep that follows it, which
\* nothing cuts short (worker.ts, stop and loop).  A worker that lost as many entries as
\* it has room for may wait longer: its loop waits for one of those executions, which
\* stop() neither finds nor aborts.
Prompt(w) ==
  \/ now <= deadline[w] + RoundTrip
  \/ now + Grace <= deadline[w] + RoundTrip + PollMax

StopIsPrompt ==
  \A w \in Workers :
    Stopping(w) /\ Cardinality(replaced[w]) < Concurrency[w] => Prompt(w)

\* A worker that stopped, and no fault befell, holds no job.
StopLeavesNothing ==
  \A w \in Workers, j \in Ids :
    phase[w] = "stopped" /\ faults = 0 => ~Holds(jobs, w, j)

\* While some worker stays up, every stored job is finished in the end: it succeeds
\* or it is dead, also when the worker that had claimed it crashed, stopped with
\* the claim in flight or lost the reply (worker.ts, loop and maintain).
JobsFinish ==
  \A j \in Ids : jobs[j].state \in {"pending", "active"} ~>
                   jobs[j].state \in {"completed", "dead", "gone"}

\* A stop that has begun ends, whatever its executions do (worker.ts, stop).
StopsEnd == \A w \in Workers : Stopping(w) ~> phase[w] = "stopped"

\* The jobs' rows move along the lifecycle whatever the workers do.
Lifecycle == INSTANCE JobLifecycle
  WITH life <- [j \in Ids |-> LifeOf(jobs[j])]

ImplementsLifecycle == Lifecycle!Spec
=============================================================================

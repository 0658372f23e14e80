---------------------------- MODULE QueueAdapter ----------------------------
(***************************************************************************)
(* The storage contract behind jobs (packages/queue/src/adapter.ts), as    *)
(* MemoryQueueAdapter implements it (memory.ts): any caller makes any call *)
(* with any instants, and each call is one atomic step (the methods of     *)
(* MemoryQueueAdapter never await).                                        *)
(***************************************************************************)
EXTENDS JobTable

CONSTANTS
  Times,         \* instants callers may pass
  Limits         \* claim sizes callers may ask for

VARIABLE jobs    \* [Ids -> the job's row]

ASSUME TimesAssumption == Times \subseteq Nat

-----------------------------------------------------------------------------
\* The contract: one action per call, for any caller.

Init == jobs = [j \in Ids |-> NoRow("unborn")]

enqueue(batch, runAt) ==
  /\ \A j \in batch : jobs[j].state = "unborn"
  /\ jobs' = Enqueued(jobs, batch, runAt)

claim(w, now, limit, until) ==
  jobs' = Claimed(jobs, w, Claimable(jobs, w, now, limit), until)

renew(w, S, until) == jobs' = Renewed(jobs, w, S, until)

\* A caller keeps the row of a completed job exactly when the job has a key.
complete(w, j, outcome, at, runAt) ==
  jobs' = Completed(jobs, w, j, KeyOf[j] # NoKey, outcome, at, runAt)

requeueExpired(now) == jobs' = Requeued(jobs, now)

retry(S, now) == jobs' = Retried(jobs, S, now)

purge(state, before) == jobs' = Purged(jobs, state, before)

Next ==
  \/ \E batch \in SUBSET Ids, runAt \in Times : enqueue(batch, runAt)
  \/ \E w \in Workers, now, until \in Times, limit \in Limits : claim(w, now, limit, until)
  \/ \E w \in Workers, S \in SUBSET Ids, until \in Times : renew(w, S, until)
  \/ \E w \in Workers, j \in Ids, outcome \in Outcomes, at, runAt \in Times :
       complete(w, j, outcome, at, runAt)
  \/ \E now \in Times : requeueExpired(now)
  \/ \E S \in SUBSET Ids, now \in Times : retry(S, now)
  \/ \E state \in Finished, before \in Times : purge(state, before)

Spec == Init /\ [][Next]_jobs

-----------------------------------------------------------------------------
\* Properties.

\* Every row keeps its shape: the types of JobRecord (adapter.ts), with unset
\* fields at Nobody and NoTime.
TypeOK == jobs \in [Ids -> Row]

\* The columns agree with the state: a lock exactly on active jobs, a finish
\* time exactly on finished ones, and an active job has been tried.  Maintenance
\* reads lockedUntil and finishedAt without looking further (memory.ts, requeueExpired
\* and purge): a row where they disagree is never requeued or never purged.
ColumnsAgree ==
  \A j \in Ids :
    LET row == jobs[j]
    IN /\ (row.state = "active") <=> (row.lockedBy \in Workers)
       /\ (row.state = "active") <=> (row.lockedUntil # NoTime)
       /\ (row.state \in Finished) <=> (row.finishedAt # NoTime)
       /\ row.attempt >= IF row.state = "active" THEN 1 ELSE 0

\* Two stored jobs never share an idempotency key, also when both come in one
\* batch, and whatever retries and purges happen in between (memory.ts, enqueue).
OneJobPerKey ==
  \A i, j \in InStore(jobs) : SameKey(i, j) => i = j

\* Every call moves each job along an edge of its lifecycle.
Lifecycle == INSTANCE JobLifecycle
  WITH life <- [j \in Ids |-> LifeOf(jobs[j])]

ImplementsLifecycle == Lifecycle!Spec
=============================================================================

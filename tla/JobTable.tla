------------------------------ MODULE JobTable --------------------------------
(***************************************************************************)
(* The table of jobs every queue adapter keeps (packages/queue/src/        *)
(* adapter.ts) and its operations as MemoryQueueAdapter performs them      *)
(* (memory.ts), each as an operator from one table to the next.  An        *)
(* adapter reads no clock: every instant is an argument of a call.         *)
(*                                                                         *)
(* QueueAdapter lets any caller make any call on such a table; WorkerPool  *)
(* lets worker processes make the calls the worker makes.                  *)
(***************************************************************************)
EXTENDS Integers, FiniteSets

CONSTANTS
  Ids,           \* jobs ever created: UUIDv7s, so their order is creation order
  Workers,       \* worker ids, one per worker process
  Keys,          \* idempotency keys
  NoKey,         \* the key of a job dispatched without one
  KeyOf,         \* [Ids -> Keys \cup {NoKey}]
  Priority,      \* [Ids -> Int], higher first
  MaxAttempts,   \* [Ids -> Nat \ {0}], total tries, including the first
  Serves,        \* [Workers -> SUBSET Ids]: jobs in its queues and of its names
  Nobody         \* lockedBy of a job no worker holds

ASSUME IdsAssumption == Ids \subseteq Nat
ASSUME KeysAssumption == NoKey \notin Keys /\ KeyOf \in [Ids -> Keys \cup {NoKey}]
ASSUME NobodyAssumption == Nobody \notin Workers
ASSUME TriesAssumption == MaxAttempts \in [Ids -> Nat \ {0}]
ASSUME PriorityAssumption == Priority \in [Ids -> Int]
ASSUME ServesAssumption == Serves \in [Workers -> SUBSET Ids]

-----------------------------------------------------------------------------
\* The table.

NoTime == -1          \* a time that is not set
Stored == {"pending", "active", "completed", "dead"}
Finished == {"completed", "dead"}

Row == [state       : Stored \cup {"unborn", "gone"},
        attempt     : Nat,
        runAt       : Nat \cup {NoTime},
        lockedBy    : Workers \cup {Nobody},
        lockedUntil : Nat \cup {NoTime},
        finishedAt  : Nat \cup {NoTime}]

NoRow(state) == [state |-> state, attempt |-> 0, runAt |-> NoTime,
                 lockedBy |-> Nobody, lockedUntil |-> NoTime, finishedAt |-> NoTime]

NewRow(runAt) == [NoRow("pending") EXCEPT !.runAt = runAt]

InStore(js) == {j \in Ids : js[j].state \in Stored}

\* What a row shows of its job's life (JobLifecycle).
LifeOf(row) == [state |-> row.state, tries |-> row.attempt]

\* The lease check of renew and complete: the row's state and worker id only.
Holds(js, w, j) == js[j].state = "active" /\ js[j].lockedBy = w

-----------------------------------------------------------------------------
\* The operations, as operators from a table to the next one.

SameKey(i, j) == KeyOf[i] = KeyOf[j] /\ KeyOf[j] # NoKey

\* Mutant: the key of a completed job no longer counts.
DeduplicatedUnfinished(js, batch) ==
  {j \in batch : \/ \E i \in InStore(js) : js[i].state # "completed" /\ SameKey(i, j)
                 \/ \E i \in batch : i < j /\ SameKey(i, j)}

\* Jobs of the batch whose key is taken, by a stored job or earlier in the batch.
Deduplicated(js, batch) ==
  {j \in batch : \/ \E i \in InStore(js) : SameKey(i, j)
                 \/ \E i \in batch : i < j /\ SameKey(i, j)}

Enqueued(js, batch, runAt) ==
  [j \in Ids |-> IF j \notin batch THEN js[j]
                 ELSE IF j \in Deduplicated(js, batch) THEN NoRow("gone")
                 ELSE NewRow(runAt)]

\* Mutant: a claim does not look at the state.
DueWhateverState(js, w, now) ==
  {j \in Serves[w] : js[j].state \in {"pending", "active"} /\ js[j].runAt <= now}

Due(js, w, now) == {j \in Serves[w] : js[j].state = "pending" /\ js[j].runAt <= now}

\* Claim order: higher priority, then earlier runAt, then creation (id).
Before(js, i, j) ==
  \/ Priority[i] > Priority[j]
  \/ Priority[i] = Priority[j] /\ js[i].runAt < js[j].runAt
  \/ Priority[i] = Priority[j] /\ js[i].runAt = js[j].runAt /\ i < j

\* The first `limit` due jobs in claim order: those with fewer due jobs before them.
Claimable(js, w, now, limit) ==
  LET due == Due(js, w, now)
  IN {j \in due : Cardinality({i \in due : Before(js, i, j)}) < limit}

\* Mutant: the claim is counted twice as an attempt.
ClaimedCountedTwice(js, w, S, until) ==
  [j \in Ids |-> IF j \in S
                 THEN [js[j] EXCEPT !.state = "active", !.attempt = @ + 2,
                                    !.lockedBy = w, !.lockedUntil = until]
                 ELSE js[j]]

Claimed(js, w, S, until) ==
  [j \in Ids |-> IF j \in S
                 THEN [js[j] EXCEPT !.state = "active", !.attempt = @ + 1,
                                    !.lockedBy = w, !.lockedUntil = until]
                 ELSE js[j]]

Renewed(js, w, S, until) ==
  [j \in Ids |-> IF j \in S /\ Holds(js, w, j)
                 THEN [js[j] EXCEPT !.lockedUntil = until]
                 ELSE js[j]]

Unlocked(row) == [row EXCEPT !.lockedBy = Nobody, !.lockedUntil = NoTime]

\* complete(): `at` is the completion's now, `runAt` matters to a retry only.
Outcomes == {"completed", "retry", "dead", "released"}

Outcome(row, keep, outcome, at, runAt) ==
  CASE outcome = "completed" -> IF keep
                                THEN [Unlocked(row) EXCEPT !.state = "completed", !.finishedAt = at]
                                ELSE NoRow("gone")
    [] outcome = "retry"     -> [Unlocked(row) EXCEPT !.state = "pending", !.runAt = runAt]
    [] outcome = "dead"      -> [Unlocked(row) EXCEPT !.state = "dead", !.finishedAt = at]
    [] outcome = "released"  -> [Unlocked(row) EXCEPT !.state = "pending", !.runAt = at,
                                                      !.attempt = @ - 1]

Completed(js, w, j, keep, outcome, at, runAt) ==
  IF Holds(js, w, j)
  THEN [js EXCEPT ![j] = Outcome(@, keep, outcome, at, runAt)]
  ELSE js

Expired(js, now) == {j \in Ids : js[j].state = "active" /\ js[j].lockedUntil < now}

Requeued(js, now) ==
  [j \in Ids |-> IF j \notin Expired(js, now) THEN js[j]
                 ELSE IF js[j].attempt >= MaxAttempts[j]
                 THEN [Unlocked(js[j]) EXCEPT !.state = "dead", !.finishedAt = now]
                 ELSE [Unlocked(js[j]) EXCEPT !.state = "pending", !.runAt = now]]

\* Mutant: finishedAt stays set.
RetriedStillFinished(js, S, now) ==
  [j \in Ids |-> IF j \in S /\ js[j].state = "dead"
                 THEN [js[j] EXCEPT !.state = "pending", !.attempt = 0, !.runAt = now]
                 ELSE js[j]]

Retried(js, S, now) ==
  [j \in Ids |-> IF j \in S /\ js[j].state = "dead"
                 THEN [js[j] EXCEPT !.state = "pending", !.attempt = 0,
                                    !.runAt = now, !.finishedAt = NoTime]
                 ELSE js[j]]

\* Mutant: a job is purged at the end of its retention rather than after it.
PurgedEarly(js, state, before) ==
  [j \in Ids |-> IF /\ js[j].state = state
                     /\ js[j].finishedAt # NoTime
                     /\ js[j].finishedAt <= before
                 THEN NoRow("gone")
                 ELSE js[j]]

Purged(js, state, before) ==
  [j \in Ids |-> IF /\ js[j].state = state
                     /\ js[j].finishedAt # NoTime
                     /\ js[j].finishedAt < before
                 THEN NoRow("gone")
                 ELSE js[j]]
=============================================================================

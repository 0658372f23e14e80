---------------------------- MODULE DatabaseQueue ----------------------------
(***************************************************************************)
(* The table of jobs as DatabaseQueueAdapter keeps it (packages/queue/src/ *)
(* database.ts): the rows of JobTable in the application's own database,   *)
(* where a job dispatched inside a transaction commits or rolls back with  *)
(* it.                                                                     *)
(*                                                                         *)
(* A statement is one atomic step.  enqueue is an insert and, when that    *)
(* conflicts, a select; requeueExpired is two updates; every other call is *)
(* one statement.  (Postgres' "skip locked" lets two claims run at once    *)
(* on different rows: as if one came after the other.)                     *)
(***************************************************************************)
EXTENDS JobTable

CONSTANTS
  Txs,            \* transactions in which jobs are dispatched
  Alone,          \* the dispatcher outside of any transaction
  SingleWriter,   \* SQLite: who has written holds the lock until it commits
  Times,          \* instants callers may pass
  Limits          \* claim sizes callers may ask for

ASSUME TxsAssumption == Alone \notin Txs
ASSUME TimesAssumption == Times \subseteq Nat
ASSUME DialectAssumption == SingleWriter \in BOOLEAN

VARIABLES
  rows,      \* [Ids -> the job's row, committed or not]
  tx,        \* [Txs -> Progress]
  by,        \* history: [Ids -> where the job was dispatched]
  conn,      \* [Ids -> whose connection the insert went through]
  reply,     \* [Ids -> Replies: what its enqueue came to]
  holder,    \* [Ids -> the job a duplicate was answered with]
  sweeps     \* the instants of requeueExpired calls between their statements

dispatches == <<by, conn, reply, holder>>
vars == <<rows, tx, dispatches, sweeps>>

Progress == {"open", "committed", "rolled back"}
Replies == {"none", "selecting", "stored", "duplicate", "failed"}
NoJob == -1

Kept(d) == d \in {Alone} \cup {t \in Txs : tx[t] = "committed"}

Committed(j) == Kept(conn[j])

\* Mutant: statements bypass the transaction.
ConnectionOutside(d) == Alone

\* db.sql: inside db.transaction() the transaction, otherwise the pool.
Connection(d) == d

\* The table as everyone outside the open transactions sees it.
Rows == [j \in Ids |-> IF Committed(j) \/ rows[j].state = "gone" THEN rows[j]
                                                                ELSE NoRow("unborn")]

\* The transaction has begun to write: on SQLite it holds the write lock.
Writes(t) == tx[t] = "open" /\ \E j \in Ids : conn[j] = t
MayWrite(d) == SingleWriter => \A t \in Txs \ {d} : ~Writes(t)

Init ==
  /\ rows = [j \in Ids |-> NoRow("unborn")]
  /\ tx = [t \in Txs |-> "open"]
  /\ by = [j \in Ids |-> Alone]
  /\ conn = [j \in Ids |-> Alone]
  /\ reply = [j \in Ids |-> "none"]
  /\ holder = [j \in Ids |-> NoJob]
  /\ sweeps = {}

-----------------------------------------------------------------------------
\* enqueue, for one job of a batch.

Waits(d) == \E j \in Ids : by[j] = d /\ reply[j] = "selecting"
Dispatchers == {Alone} \cup {t \in Txs : tx[t] = "open" /\ ~Waits(t)}

\* A key held by a row that another transaction has yet to commit: the unique index
\* makes the insert wait for the outcome.
KeyInDoubt(j, d) ==
  \E i \in InStore(rows) : SameKey(i, j) /\ ~Committed(i) /\ conn[i] # d

\* Mutant: the unique index leaves out rows that are finished.
KeyTakenUnfinished(j) ==
  \E i \in InStore(rows) : SameKey(i, j) /\ rows[i].state \notin Finished

KeyTaken(j) == \E i \in InStore(rows) : SameKey(i, j)

Insert(j, d, runAt) ==
  /\ rows[j].state = "unborn"
  /\ d \in Dispatchers
  /\ MayWrite(Connection(d))
  /\ ~KeyInDoubt(j, Connection(d))
  /\ conn' = [conn EXCEPT ![j] = Connection(d)]
  /\ by' = [by EXCEPT ![j] = d]
  /\ rows' = [rows EXCEPT ![j] = IF KeyTaken(j) THEN NoRow("gone") ELSE NewRow(runAt)]
  /\ reply' = [reply EXCEPT ![j] = IF KeyTaken(j) THEN "selecting" ELSE "stored"]
  /\ UNCHANGED <<tx, holder, sweeps>>

\* The row that held the key may be gone by now: enqueue throws.
Select(j) ==
  LET found == {i \in InStore(rows) : SameKey(i, j) /\ conn[i] \in {conn[j]} \cup {d \in Txs \cup {Alone} : Kept(d)}}
  IN /\ reply[j] = "selecting"
     /\ \/ /\ found = {}
           /\ reply' = [reply EXCEPT ![j] = "failed"]
           /\ UNCHANGED holder
        \/ \E i \in found : /\ reply' = [reply EXCEPT ![j] = "duplicate"]
                            /\ holder' = [holder EXCEPT ![j] = i]
     /\ UNCHANGED <<rows, tx, by, conn, sweeps>>

Commit(t) ==
  /\ tx[t] = "open" /\ ~Waits(t)
  /\ tx' = [tx EXCEPT ![t] = "committed"]
  /\ UNCHANGED <<rows, dispatches, sweeps>>

\* Also the end of a process whose transaction is open.
Rollback(t) ==
  /\ tx[t] = "open"
  /\ tx' = [tx EXCEPT ![t] = "rolled back"]
  /\ rows' = [j \in Ids |-> IF conn[j] = t THEN NoRow("gone") ELSE rows[j]]
  /\ reply' = [j \in Ids |-> IF by[j] = t /\ reply[j] = "selecting" THEN "failed" ELSE reply[j]]
  /\ UNCHANGED <<by, conn, holder, sweeps>>

-----------------------------------------------------------------------------
\* The statements of workers and of maintenance, each a transaction of its own.

Statement == MayWrite(Alone) /\ UNCHANGED <<tx, dispatches>>

claim(w, now, limit, until) ==
  /\ Statement /\ UNCHANGED sweeps
  /\ rows' = Claimed(rows, w, Claimable(Rows, w, now, limit), until)

renew(w, S, until) ==
  /\ Statement /\ UNCHANGED sweeps
  /\ rows' = Renewed(rows, w, S, until)

complete(w, j, outcome, at, runAt) ==
  /\ Statement /\ UNCHANGED sweeps
  /\ rows' = Completed(rows, w, j, KeyOf[j] # NoKey, outcome, at, runAt)

\* The two updates of requeueExpired.
Buried(js, now) ==
  [j \in Ids |-> IF j \in Expired(js, now) /\ js[j].attempt >= MaxAttempts[j]
                 THEN Requeued(js, now)[j] ELSE js[j]]
\* Mutant: the lock's columns keep their values.
PutBackLocked(js, now) ==
  [j \in Ids |-> IF j \in Expired(js, now) /\ js[j].attempt < MaxAttempts[j]
                 THEN [js[j] EXCEPT !.state = "pending", !.runAt = now] ELSE js[j]]

PutBack(js, now) ==
  [j \in Ids |-> IF j \in Expired(js, now) /\ js[j].attempt < MaxAttempts[j]
                 THEN Requeued(js, now)[j] ELSE js[j]]

requeueDead(now) ==
  /\ Statement
  /\ now \notin sweeps
  /\ rows' = Buried(rows, now)
  /\ sweeps' = sweeps \cup {now}

requeuePending(now) ==
  /\ Statement
  /\ now \in sweeps
  /\ rows' = PutBack(rows, now)
  /\ sweeps' = sweeps \ {now}

\* The caller's process ends, or its connection does, between the two.
SweepEnds(now) ==
  /\ now \in sweeps
  /\ sweeps' = sweeps \ {now}
  /\ UNCHANGED <<rows, tx, dispatches>>

retry(S, now) ==
  /\ Statement /\ UNCHANGED sweeps
  /\ rows' = Retried(rows, S, now)

purge(state, before) ==
  /\ Statement /\ UNCHANGED sweeps
  /\ rows' = Purged(rows, state, before)

-----------------------------------------------------------------------------
Next ==
  \/ \E j \in Ids, d \in Txs \cup {Alone}, runAt \in Times : Insert(j, d, runAt)
  \/ \E j \in Ids : Select(j)
  \/ \E t \in Txs : Commit(t) \/ Rollback(t)
  \/ \E w \in Workers, now, until \in Times, limit \in Limits : claim(w, now, limit, until)
  \/ \E w \in Workers, S \in SUBSET Ids, until \in Times : renew(w, S, until)
  \/ \E w \in Workers, j \in Ids, outcome \in Outcomes, at, runAt \in Times :
       complete(w, j, outcome, at, runAt)
  \/ \E now \in Times : requeueDead(now) \/ requeuePending(now) \/ SweepEnds(now)
  \/ \E S \in SUBSET Ids, now \in Times : retry(S, now)
  \/ \E state \in Finished, before \in Times : purge(state, before)

Spec == Init /\ [][Next]_vars

-----------------------------------------------------------------------------
\* Properties.

\* Every variable keeps its type.
TypeOK ==
  /\ rows \in [Ids -> Row]
  /\ tx \in [Txs -> Progress]
  /\ by \in [Ids -> Txs \cup {Alone}]
  /\ conn \in [Ids -> Txs \cup {Alone}]
  /\ reply \in [Ids -> Replies]
  /\ holder \in [Ids -> Ids \cup {NoJob}]
  /\ sweeps \subseteq Times

\* The columns of every row agree with its state, between the two statements of a
\* requeueExpired as well (see QueueAdapter).
ColumnsAgree ==
  \A j \in Ids :
    LET row == rows[j]
    IN /\ (row.state = "active") <=> (row.lockedBy \in Workers)
       /\ (row.state = "active") <=> (row.lockedUntil # NoTime)
       /\ (row.state \in Finished) <=> (row.finishedAt # NoTime)
       /\ row.attempt >= IF row.state = "active" THEN 1 ELSE 0

\* No two rows share a key, committed or not (database.ts, enqueue).
OneJobPerKey == \A i, j \in InStore(rows) : SameKey(i, j) => i = j

\* A job dispatched in a transaction is seen and run only once that has committed; and
\* a dispatcher whose own work is kept was never refused in favour of a job that
\* was rolled back, which would leave its key without any job (database.ts,
\* DatabaseQueueAdapter: "commits or rolls back with it").
JobsFollowTheirTransaction ==
  \A j \in Ids :
    /\ Rows[j].state \in Stored => Kept(by[j])
    /\ reply[j] = "duplicate" /\ Kept(by[j]) => Kept(by[holder[j]])

\* Every statement moves each job along an edge of its lifecycle, as seen from outside
\* the open transactions.
Lifecycle == INSTANCE JobLifecycle
  WITH life <- [j \in Ids |-> LifeOf(Rows[j])]

ImplementsLifecycle == Lifecycle!Spec
=============================================================================

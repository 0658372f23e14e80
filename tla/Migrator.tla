------------------------------ MODULE Migrator ------------------------------
(***************************************************************************)
(* Migrator (packages/database/src/migrator.ts): migrate() and rollback()  *)
(* of instances that share a database, each await a step.  On Postgres a   *)
(* connection reserved from the instance's pool holds an advisory lock;    *)
(* SQLite has none.  A migration is its place in the order of names; its   *)
(* effect is its row's: each file runs in a transaction with it.           *)
(***************************************************************************)
EXTENDS Integers, Sequences, SequencesExt, FiniteSets

CONSTANTS
  Instances,
  Early, Late,            \* migrations there from the start, and those a branch brings later
  Broken, OneWay,         \* those whose up fails, and those without a down section
  NoInstance,
  MaxCalls, MaxLosses     \* bounds: calls; crashes, lost connections and lost replies

ASSUME MigratorAssumption ==
  /\ Early \cup Late \subseteq Nat /\ IsFiniteSet(Early \cup Late)
  /\ NoInstance \notin Instances

VARIABLES
  dialect, pool,  \* "postgres" or "sqlite"; connections of each instance
  files,          \* the directory
  table,          \* hydrate_migrations, in the order of insertion
  lock,           \* the instance whose session holds the advisory lock
  instance,       \* [Instances -> where its call is]
  calls, losses,  \* how many so far
  trouble         \* history: "clash": a call met what another did meanwhile; "unlocked": a
                  \* lock was lost under a call; "rollback": one was called

migratorVars == <<dialect, pool, files, table, lock, instance, calls, losses, trouble>>

Resting == [pc |-> "idle", call |-> "none", number |-> 0, seen |-> <<>>, listed |-> {}, todo |-> <<>>, batch |-> 0]
Is(i, pc) == instance[i].pc = pc
Names(rows) == {row.name : row \in ToSet(rows)}

MigratorInit ==
  /\ dialect \in {"postgres", "sqlite"} /\ pool \in 1 .. 2
  /\ files = Early /\ table = <<>> /\ lock = NoInstance
  /\ instance = [i \in Instances |-> Resting]
  /\ calls = 0 /\ losses = 0 /\ trouble = {}

Step(i, next) == instance' = [instance EXCEPT ![i] = next]
Goes(i, pc) == Step(i, [instance[i] EXCEPT !.pc = pc])

\* The lock's connection is reserved: the work needs another one of the pool.
Connected == dialect = "sqlite" \/ pool > 1

-----------------------------------------------------------------------------
\* exclusive(): the lock, then the table if it is not there, then the work.

Call(i, call) ==
  /\ Is(i, "idle") /\ calls < MaxCalls /\ calls' = calls + 1
  /\ Step(i, [Resting EXCEPT !.pc = IF dialect = "postgres" THEN "locking" ELSE "reading",
                             !.call = call, !.number = calls + 1])
  /\ trouble' = IF call = "migrate" THEN trouble ELSE trouble \cup {"rollback"}
  /\ UNCHANGED <<dialect, pool, files, table, lock, losses>>

\* Mutant: pg_try_advisory_lock, its answer ignored.
LockAtOnce(i) ==
  /\ Is(i, "locking")
  /\ lock' = (IF lock = NoInstance THEN i ELSE lock) /\ Goes(i, "reading")
  /\ UNCHANGED <<dialect, pool, files, table, calls, losses, trouble>>

Lock(i) ==
  /\ Is(i, "locking") /\ lock = NoInstance
  /\ lock' = i /\ Goes(i, "reading")
  /\ UNCHANGED <<dialect, pool, files, table, calls, losses, trouble>>

\* finally: unlock and release; unlocking a session that is gone rejects, too.
Unlock(i) ==
  /\ Is(i, "ending")
  /\ lock' = (IF lock = i THEN NoInstance ELSE lock) /\ Step(i, Resting)
  /\ UNCHANGED <<dialect, pool, files, table, calls, losses, trouble>>

-----------------------------------------------------------------------------
\* What there is to do.

\* Lists of as many places as S has members.
Lists(S) == [1 .. Cardinality(S) -> S]
Ascending(s) == \A m, n \in DOMAIN s : m < n => s[m] < s[n]

\* appliedMigrations(): the rows, by batch, then name.
Before(a, b) == a.batch < b.batch \/ (a.batch = b.batch /\ a.name < b.name)
ByBatch(rows) == \A m, n \in DOMAIN rows : m < n => Before(rows[m], rows[n])
AppliedMigrations == {rows \in Lists(ToSet(table)) : ByBatch(rows)}

\* The places of the last batch, or of one step; newest first.
Targets(call, rows) ==
  {n \in DOMAIN rows : IF call = "rollback" THEN rows[n].batch = rows[Len(rows)].batch ELSE n = Len(rows)}
NewestFirst(rows, places) ==
  {[n \in DOMAIN s |-> rows[s[n]].name] : s \in {s \in Lists(places) : \A m, n \in DOMAIN s : m < n => s[m] > s[n]}}

ReadApplied(i) ==
  /\ Is(i, "reading") /\ Connected
  /\ \E rows \in AppliedMigrations :
       LET q == [instance[i] EXCEPT !.seen = rows]
       IN IF q.call = "migrate" THEN Step(i, [q EXCEPT !.pc = "listing"])
          ELSE \E names \in NewestFirst(rows, Targets(q.call, rows)) :
                 Step(i, [q EXCEPT !.pc = "running", !.todo = names])
  /\ UNCHANGED <<dialect, pool, files, table, lock, calls, losses, trouble>>

migrationFiles(i) ==
  /\ Is(i, "listing")
  /\ \E names \in Lists(files \ Names(instance[i].seen)) :
       Ascending(names) /\ Step(i, [instance[i] EXCEPT !.pc = "numbering", !.listed = files, !.todo = names])
  /\ UNCHANGED <<dialect, pool, files, table, lock, calls, losses, trouble>>

lastBatch(i) ==
  /\ Is(i, "numbering") /\ Connected
  /\ \E last \in {0} \cup {row.batch : row \in ToSet(table)} :
       /\ \A row \in ToSet(table) : row.batch <= last
       /\ Step(i, [instance[i] EXCEPT !.pc = "running", !.batch = last + 1])
  /\ UNCHANGED <<dialect, pool, files, table, lock, calls, losses, trouble>>

-----------------------------------------------------------------------------
\* One file, in its transaction.

Runs(i, verb) == Is(i, "running") /\ Connected /\ instance[i].todo # <<>> /\ (instance[i].call = "migrate") = (verb = "up")
Now(i) == Head(instance[i].todo)

\* The transaction commits, and its reply arrives or is lost, which fails the call.
Commits(i, rows) ==
  /\ table' = rows
  /\ \/ Step(i, [instance[i] EXCEPT !.todo = Tail(@)]) /\ UNCHANGED losses
     \/ Goes(i, "ending") /\ losses < MaxLosses /\ losses' = losses + 1
  /\ UNCHANGED <<dialect, pool, files, lock, calls, trouble>>

Fails(i, why) ==
  /\ Goes(i, "ending") /\ trouble' = trouble \cup why
  /\ UNCHANGED <<dialect, pool, files, table, lock, calls, losses>>

\* What the file changes is there already, or its row is.
Up(i) ==
  /\ Runs(i, "up")
  /\ \/ Now(i) \notin Broken \cup Names(table)
        /\ Commits(i, Append(table, [name |-> Now(i), batch |-> instance[i].batch, by |-> instance[i].number]))
     \/ Now(i) \in Broken /\ Fails(i, {})
     \/ Now(i) \in Names(table) /\ Fails(i, {"clash"})

\* Of a file that another call has undone, down fails unless it holds comments only.
Down(i) ==
  /\ Runs(i, "down")
  /\ \/ /\ Now(i) \notin OneWay
        /\ \E n \in DOMAIN table : table[n].name = Now(i) /\ Commits(i, RemoveAt(table, n))
     \/ Now(i) \in OneWay /\ Fails(i, {})
     \/ Now(i) \notin Names(table) /\ (Fails(i, {"clash"}) \/ Commits(i, table))

Done(i) ==
  /\ Is(i, "running") /\ instance[i].todo = <<>> /\ Goes(i, "ending")
  /\ UNCHANGED <<dialect, pool, files, table, lock, calls, losses, trouble>>

-----------------------------------------------------------------------------
\* The surroundings.

\* The branch is merged.
Merge ==
  /\ files # Early \cup Late /\ files' = Early \cup Late
  /\ UNCHANGED <<dialect, pool, table, lock, instance, calls, losses, trouble>>

Loss == losses < MaxLosses /\ losses' = losses + 1

\* The session that holds the lock ends; its work goes on over other connections.
Disconnect(i) ==
  /\ Loss /\ lock = i /\ lock' = NoInstance /\ trouble' = trouble \cup {"unlocked"}
  /\ UNCHANGED <<dialect, pool, files, table, instance, calls>>

Dies(i) ==
  /\ Loss /\ ~ Is(i, "idle")
  /\ Step(i, Resting) /\ lock' = (IF lock = i THEN NoInstance ELSE lock)
  /\ UNCHANGED <<dialect, pool, files, table, calls, trouble>>

Proceeds(i) ==
  Lock(i) \/ Unlock(i) \/ ReadApplied(i) \/ migrationFiles(i) \/ lastBatch(i) \/ Up(i) \/ Down(i) \/ Done(i)

MigratorNext ==
  \/ \E i \in Instances : \/ \E call \in {"migrate", "rollback", "step"} : Call(i, call)
                          \/ Proceeds(i) \/ Disconnect(i) \/ Dies(i)
  \/ Merge

MigratorSpec == MigratorInit /\ [][MigratorNext]_migratorVars

-----------------------------------------------------------------------------
\* Properties.

Guarded == dialect = "postgres" /\ "unlocked" \notin trouble

\* As long as the lock is held no call fails because of another one (migrator.ts:157).
OneAtATime == Guarded => "clash" \notin trouble

\* Under the lock, the order by batch and name in which a rollback goes back is the order
\* of application, and a batch is what one call applied; whatever failed or died
\* between two files, and whatever older files a branch brought later.
BatchesKeepOrder ==
  Guarded => /\ AppliedMigrations = {table}
             /\ \A a, b \in ToSet(table) : a.batch = b.batch => a.by = b.by

\* A migrate() that is done has left no file unapplied that was there when it looked; without
\* a lock, too, as long as nobody rolls back.
AllApplied ==
  \A i \in Instances :
    LET q == instance[i]
    IN q.pc = "running" /\ q.call = "migrate" /\ q.todo = <<>> /\ (Guarded \/ "rollback" \notin trouble)
       => q.listed \subseteq Names(table)

\* A rollback() undoes the last batch and nothing else: all of it when it is done, and from
\* the end when it fails half-way.
UndoesLast ==
  \A i \in Instances :
    LET q == instance[i]
    IN Guarded /\ q.pc = "running" /\ q.call = "rollback" =>
         /\ IsPrefix(table, q.seen)
         /\ q.todo = <<>> => \A a \in ToSet(table), b \in ToSet(q.seen) \ ToSet(table) : a.batch < b.batch

\* What a call needs next is in use: the lock, or the only connection.
Waits(i) ==
  \/ Is(i, "locking") /\ lock # NoInstance
  \/ instance[i].pc \in {"reading", "numbering", "running"} /\ ~ Connected

\* Calls never wait for each other for good, whoever failed or died with the lock: who waits,
\* waits for a call at work that waits for nothing, unless the pool has only the connection
\* that holds the lock.
NobodyStuck ==
  pool > 1 => \A i \in Instances : Waits(i) => lock \in Instances \ {i} /\ ~ Is(lock, "idle") /\ ~ Waits(lock)

\* What migrate() and rollback() promise.
MigrationsHold == OneAtATime /\ BatchesKeepOrder /\ AllApplied /\ UndoesLast /\ NobodyStuck
=============================================================================

----------------------------- MODULE UnitOfWork -----------------------------
(***************************************************************************)
(* What happens around a transaction: Database.transaction and afterCommit *)
(* (packages/database/src/database.ts), the two that defer to it,          *)
(* Queue.dispatch (packages/queue/src/queue.ts) for an adapter that cannot *)
(* join the transaction and EventBus.emit (packages/events/src/events.ts), *)
(* and EventBus.idle, which the App's drain waits for.                     *)
(*                                                                         *)
(* A flow is a request: one asynchronous function that opens transactions  *)
(* one after the other and savepoints inside of them, with branches it may *)
(* or may not wait for.  An item is one dispatch or one emitted event; the *)
(* rows it announces are written in the same scope, and bear its name.     *)
(***************************************************************************)
EXTENDS Naturals, Sequences

CONSTANTS
  Flows,        \* the requests of one process
  Items,        \* dispatches and events
  Events,       \* the events among them
  Listeners,    \* in-process listeners of every event
  MaxScopes     \* bound: transactions and savepoints of one flow

ASSUME EventsAssumption == Events \subseteq Items
ASSUME ScopesAssumption == MaxScopes \in Nat

VARIABLES
  request,    \* [Flows -> Requests]
  begun,      \* [Flows -> transactions and savepoints begun]
  lists,      \* [Flows -> the afterCommit arrays of its open scopes, outermost first]
  after,      \* [Flows -> callbacks of its committed transaction still to run]
  pending,    \* EventBus.pending: the listeners that run
  app,        \* Stages
  settling,   \* the listeners idle() awaits
  writes,     \* the database: [Flows -> the rows written in its open scopes]
  kept,       \* the database: the rows committed
  queued,     \* the queue's store: the jobs in it
  noted,      \* history: [Flows -> the items in the order in which it registered them]
  ran,        \* history: the items in the order in which their callbacks ran
  late,       \* history: items registered when their scope had ended
  aside,      \* history: items a branch registered beside an open savepoint
  doubted     \* history: rows committed by a commit whose reply was lost

scopes == <<begun, lists, writes>>
bus == <<pending, settling>>
history == <<noted, late, aside>>
vars == <<request, scopes, after, bus, app, kept, queued, ran, history, doubted>>

Requests == {"new", "active", "ended"}

Stages == {"up",
           "stopping",   \* waits for the requests
           "draining",   \* the drain hook waits for events.idle()
           "closed",     \* the connections are closed
           "crashed"}

Set(seq) == {seq[n] : n \in DOMAIN seq}
Depth(f) == Len(lists[f])
Outer(seq) == SubSeq(seq, 1, Len(seq) - 1)
Unused(i) == i \notin (UNION {Set(noted[f]) : f \in Flows}) \cup late \cup Set(ran)
Running == app \in {"up", "stopping", "draining"}

Init ==
  /\ request = [f \in Flows |-> "new"]
  /\ begun = [f \in Flows |-> 0]
  /\ lists = [f \in Flows |-> <<>>]
  /\ writes = [f \in Flows |-> <<>>]
  /\ after = [f \in Flows |-> <<>>]
  /\ pending = {} /\ settling = {}
  /\ app = "up"
  /\ kept = {} /\ queued = {}
  /\ noted = [f \in Flows |-> <<>>] /\ ran = <<>>
  /\ late = {} /\ aside = {} /\ doubted = {}

-----------------------------------------------------------------------------
\* What a callback does: deliver() starts every listener and returns; enqueue stores
\* the job, or throws.

Started(i) == {i} \X Listeners

Deliver(i) ==
  /\ i \in Events
  /\ pending' = pending \cup Started(i)
  /\ UNCHANGED queued

Enqueue(i) ==
  /\ i \notin Events
  /\ queued' \in {queued, queued \cup {i}}
  /\ UNCHANGED pending

RunsItem(i) == ran' = Append(ran, i) /\ (Deliver(i) \/ Enqueue(i))

-----------------------------------------------------------------------------
\* transaction(): the outermost one, or a savepoint.

Begin(f) ==
  /\ request[f] = "active" /\ after[f] = <<>>
  /\ begun[f] < MaxScopes
  /\ begun' = [begun EXCEPT ![f] = @ + 1]
  /\ lists' = [lists EXCEPT ![f] = Append(@, <<>>)]
  /\ writes' = [writes EXCEPT ![f] = Append(@, {})]
  /\ UNCHANGED <<request, after, bus, app, kept, queued, ran, history, doubted>>

\* Mutant: the inner callbacks in front of the outer scope's own.
JoinedInFront(f) ==
  Append(SubSeq(lists[f], 1, Depth(f) - 2), lists[f][Depth(f)] \o lists[f][Depth(f) - 1])

\* The inner callbacks after the outer scope's own.
Joined(f) ==
  Append(SubSeq(lists[f], 1, Depth(f) - 2), lists[f][Depth(f) - 1] \o lists[f][Depth(f)])

\* Mutant: a callback registered in a savepoint outlives it.
DroppedNever(f) == Joined(f)

Dropped(f) == Outer(lists[f])

\* The savepoint held.
Release(f) ==
  /\ Depth(f) > 1
  /\ lists' = [lists EXCEPT ![f] = Joined(f)]
  /\ writes' = [writes EXCEPT ![f] =
                  Append(SubSeq(@, 1, Depth(f) - 2), @[Depth(f) - 1] \cup @[Depth(f)])]
  /\ UNCHANGED <<request, begun, after, bus, app, kept, queued, ran, history, doubted>>

\* Its work threw.
Undo(f) ==
  /\ Depth(f) > 1
  /\ lists' = [lists EXCEPT ![f] = Dropped(f)]
  /\ writes' = [writes EXCEPT ![f] = Outer(@)]
  /\ UNCHANGED <<request, begun, after, bus, app, kept, queued, ran, history, doubted>>

Ends(f) ==
  /\ Depth(f) = 1
  /\ lists' = [lists EXCEPT ![f] = <<>>]
  /\ writes' = [writes EXCEPT ![f] = <<>>]
  /\ UNCHANGED <<request, begun, bus, app, queued, ran, history>>

Commit(f) ==
  /\ Ends(f)
  /\ after' = [after EXCEPT ![f] = lists[f][1]]
  /\ kept' = kept \cup writes[f][1]
  /\ UNCHANGED doubted

\* The work threw, or the commit failed.
Rollback(f) == Ends(f) /\ UNCHANGED <<after, kept, doubted>>

\* The commit reached the database and its reply was lost: begin() rejects.
CommitUnknown(f) ==
  /\ Ends(f)
  /\ kept' = kept \cup writes[f][1]
  /\ doubted' = doubted \cup writes[f][1]
  /\ UNCHANGED after

-----------------------------------------------------------------------------
\* afterCommit(), called by dispatch and emit.

\* In an open scope, the innermost one or, from a branch, one around it.
Register(f, i, n) ==
  /\ Unused(i)
  /\ n \in 1 .. Depth(f)
  /\ lists' = [lists EXCEPT ![f][n] = Append(@, i)]
  /\ writes' = [writes EXCEPT ![f][n] = @ \cup {i}]
  /\ noted' = [noted EXCEPT ![f] = Append(@, i)]
  /\ aside' = IF n < Depth(f) THEN aside \cup {i} ELSE aside
  /\ UNCHANGED <<request, begun, after, bus, app, kept, queued, ran, late, doubted>>

\* From a branch nobody waited for, when its scope has ended: the array is read no
\* more, unless it is the one whose callbacks are being run.
RegisterLate(f, i) ==
  /\ Unused(i)
  /\ request[f] = "active" /\ begun[f] > Depth(f)
  /\ \/ after[f] # <<>> /\ after' = [after EXCEPT ![f] = Append(@, i)]
     \/ UNCHANGED after
  /\ late' = late \cup {i}
  /\ UNCHANGED <<request, scopes, bus, app, kept, queued, ran, noted, aside, doubted>>

\* Outside of any transaction: at once.
RunNow(f, i) ==
  /\ Unused(i)
  /\ request[f] = "active" /\ Depth(f) = 0
  /\ RunsItem(i)
  /\ kept' = kept \cup {i}
  /\ UNCHANGED <<request, scopes, after, app, settling, history, doubted>>

\* runAfterCommit(), one callback; what it throws is reported.
\* Mutant: an error ends the loop.
RunCallbackToError(f) ==
  /\ after[f] # <<>>
  /\ RunsItem(Head(after[f]))
  /\ after' = [after EXCEPT ![f] = IF Head(@) \in Events \cup queued' THEN Tail(@) ELSE <<>>]
  /\ UNCHANGED <<request, scopes, app, settling, kept, history, doubted>>

RunCallback(f) ==
  /\ after[f] # <<>>
  /\ RunsItem(Head(after[f]))
  /\ after' = [after EXCEPT ![f] = Tail(@)]
  /\ UNCHANGED <<request, scopes, app, settling, kept, history, doubted>>

-----------------------------------------------------------------------------
\* Listeners, requests, and the App's drain.

\* The listener returned or threw.
\* Mutant: one that threw stays in the set.
ListenerEndsNever(p) == p \in pending /\ UNCHANGED vars

ListenerEnds(p) ==
  /\ pending' = pending \ {p}
  /\ UNCHANGED <<request, scopes, after, settling, app, kept, queued, ran, history, doubted>>

\* A listener emits or dispatches itself.
ListenerEmits(i) ==
  /\ pending # {}
  /\ Unused(i)
  /\ RunsItem(i)
  /\ kept' = kept \cup {i}
  /\ UNCHANGED <<request, scopes, after, app, settling, history, doubted>>

Arrive(f) ==
  /\ app = "up" /\ request[f] = "new"
  /\ request' = [request EXCEPT ![f] = "active"]
  /\ UNCHANGED <<scopes, after, bus, app, kept, queued, ran, history, doubted>>

\* Mutant: transaction() does not wait for its callbacks.
LeaveAtOnce(f) ==
  /\ request[f] = "active" /\ Depth(f) = 0
  /\ request' = [request EXCEPT ![f] = "ended"]
  /\ UNCHANGED <<scopes, after, bus, app, kept, queued, ran, history, doubted>>

Leave(f) ==
  /\ request[f] = "active" /\ Depth(f) = 0 /\ after[f] = <<>>
  /\ request' = [request EXCEPT ![f] = "ended"]
  /\ UNCHANGED <<scopes, after, bus, app, kept, queued, ran, history, doubted>>

Stop ==
  /\ app = "up"
  /\ app' = "stopping"
  /\ UNCHANGED <<request, scopes, after, bus, kept, queued, ran, history, doubted>>

\* The requests are answered; the drain hook calls idle().
Drained ==
  /\ app = "stopping"
  /\ \A f \in Flows : request[f] # "active"
  /\ app' = "draining"
  /\ settling' = pending
  /\ UNCHANGED <<request, scopes, after, pending, kept, queued, ran, history, doubted>>

Settled == app = "draining" /\ settling \cap pending = {}

\* Listeners started meanwhile are awaited, too.
IdleAgain ==
  /\ Settled /\ pending # {}
  /\ settling' = pending
  /\ UNCHANGED <<request, scopes, after, pending, app, kept, queued, ran, history, doubted>>

Idle ==
  /\ Settled /\ pending = {}
  /\ app' = "closed"
  /\ UNCHANGED <<request, scopes, after, bus, kept, queued, ran, history, doubted>>

\* What the process had in memory is gone; the database rolls back.
Crash ==
  /\ Running
  /\ app' = "crashed"
  /\ request' = [f \in Flows |-> "ended"]
  /\ lists' = [f \in Flows |-> <<>>]
  /\ writes' = [f \in Flows |-> <<>>]
  /\ after' = [f \in Flows |-> <<>>]
  /\ pending' = {} /\ settling' = {}
  /\ UNCHANGED <<begun, kept, queued, ran, history, doubted>>

-----------------------------------------------------------------------------
Next ==
  \/ \E f \in Flows : \/ Arrive(f) \/ Leave(f)
                      \/ Begin(f) \/ Release(f) \/ Undo(f)
                      \/ Commit(f) \/ Rollback(f) \/ CommitUnknown(f)
                      \/ RunCallback(f)
  \/ \E f \in Flows, i \in Items : \/ RegisterLate(f, i) \/ RunNow(f, i)
                                   \/ \E n \in 1 .. MaxScopes : Register(f, i, n)
  \/ \E i \in Items : ListenerEmits(i)
  \/ \E p \in pending : ListenerEnds(p)
  \/ Stop \/ Drained \/ IdleAgain \/ Idle \/ Crash

Spec == Init /\ [][Next]_vars

\* A process that runs goes through its callbacks and answers its requests, and its
\* listeners end; nobody is obliged to stop the app.
Fairness == /\ \A f \in Flows : WF_vars(RunCallback(f))
            /\ \A i \in Items, l \in Listeners : WF_vars(<<i, l>> \in pending /\ ListenerEnds(<<i, l>>))
            /\ WF_vars(Drained \/ IdleAgain \/ Idle)

FairSpec == Spec /\ Fairness

-----------------------------------------------------------------------------
\* Properties.

\* Every variable keeps its type.
TypeOK ==
  /\ request \in [Flows -> Requests]
  /\ begun \in [Flows -> 0 .. MaxScopes]
  /\ lists \in [Flows -> Seq(Seq(Items))]
  /\ after \in [Flows -> Seq(Items)]
  /\ writes \in [Flows -> Seq(SUBSET Items)]
  /\ app \in Stages
  /\ pending \subseteq Events \X Listeners /\ settling \subseteq Events \X Listeners
  /\ {kept, queued, late, aside, doubted} \subseteq SUBSET Items
  /\ noted \in [Flows -> Seq(Items)] /\ ran \in Seq(Items)

\* Nothing is announced that is undone afterwards: a job is queued and a listener runs
\* only when the rows written with it are committed, through all the savepoints
\* around them (database.ts, afterCommit; queue.ts, dispatch).
OnlyAfterCommit ==
  \A i \in Set(ran) \cup queued \cup {p[1] : p \in pending} : i \in kept \cup late

RanBefore(a, b) == \E m, n \in DOMAIN ran : m < n /\ ran[m] = a /\ ran[n] = b

\* Callbacks run once each, and those of one request in the order in which it
\* registered them, through savepoints that hold and others that do not.  (What a branch
\* registers beside an open savepoint is the exception: it comes before the
\* savepoint's own, which join the list when it ends.)  No callback is
\* left out when a later one has run (database.ts, transaction and
\* runAfterCommit).
InOrder ==
  /\ \A m, n \in DOMAIN ran : ran[m] = ran[n] => m = n
  /\ \A f \in Flows : \A m, n \in DOMAIN noted[f] :
       /\ m < n /\ noted[f][n] \in Set(ran) \ aside
       /\ noted[f][m] \in kept \ doubted
       => RanBefore(noted[f][m], noted[f][n])

\* When the App closes its connections, everything committed has been announced
\* and no listener runs any more (events.ts, idle; database.ts, transaction, which
\* resolves after its callbacks).
ClosedQuietly ==
  app = "closed" => pending = {} /\ kept \ doubted \subseteq Set(ran)

\* What is committed is announced in the end, also after callbacks that throw, unless
\* the process crashes or the commit's reply is lost (database.ts, runAfterCommit).
KeptRuns ==
  \A i \in Items : i \in kept \ doubted ~> i \in Set(ran) \/ app = "crashed"

\* idle() returns although listeners start others (events.ts, idle).
IdleReturns == app = "draining" ~> app \in {"closed", "crashed"}
=============================================================================

---------------------------- MODULE AppLifecycle ----------------------------
(***************************************************************************)
(* An App from listen() or run() to stop() (packages/core/src/app.ts and   *)
(* lifecycle.ts): start hooks that open resources, the server, the pub/sub *)
(* subscription, requests and sockets being served, the drain, and the     *)
(* hooks that close what was opened.                                       *)
(*                                                                         *)
(* listen() and stop() are two asynchronous functions over the same        *)
(* fields; each await of theirs is a point where the other one, a request  *)
(* or a socket may take a step.                                            *)
(*                                                                         *)
(* Resources are numbered in the order they are opened: those up to Built  *)
(* exist before the app starts and are closed by stop hooks, each of the   *)
(* others is opened by a start hook and closed by the cleanup it returned. *)
(***************************************************************************)
EXTENDS Integers, Sequences, SequencesExt

CONSTANTS
  Built,        \* resources that stop hooks close
  Top,         \* the last resource; Built+1 .. Top are opened by start hooks
  Faulty,       \* resources whose closing throws
  PubSub,       \* whether the app has a pub/sub adapter
  Failures,     \* which steps of listen() may fail: "hook", "bind", "subscribe" (or stop(): "unsubscribe")
  EarlyStop,    \* whether stop() may be called while listen() is under way
  MaxLoad       \* bound: requests and sockets at once

ASSUME ResourcesAssumption == Built \in Nat /\ Top \in Nat /\ Built < Top
ASSUME FaultyAssumption == Faulty \subseteq 1 .. Top
ASSUME SwitchesAssumption == /\ PubSub \in BOOLEAN
                             /\ EarlyStop \in BOOLEAN
                             /\ Failures \subseteq {"hook", "bind", "subscribe", "unsubscribe"}
ASSUME LoadAssumption == MaxLoad \in Nat

VARIABLES
  state,       \* lifecycle.state
  starter,     \* where listen() is: [pc, hook: the start hook under way,
               \*   serves: listen() rather than run(), todo: hooks it has yet to run]
  stopper,     \* where stop() is: [pc, todo]
  open,        \* resources that are open
  cleanups,    \* lifecycle.cleanups, as the resources they close
  server,      \* the Bun server
  subscribed,  \* the pub/sub subscription is alive
  http,        \* plain requests in flight
  upgrading,   \* upgrade requests in flight: past the state check, handler running
  sockets,     \* open sockets nobody told to close
  leaving,     \* sockets told to close whose close event has not fired
  timedOut,    \* the drain ended by its timeout
  closings     \* history: how often each resource's hook has run

work == <<http, upgrading, sockets, leaving>>
vars == <<state, starter, stopper, open, cleanups, server, subscribed, work, timedOut, closings>>

Resources == 1 .. Top
States == {"created", "initializing", "ready", "running", "stopping", "stopped"}
StartPcs == {"idle", "hooks", "undoing", "binding", "unwinding", "subscribing", "listening", "rejected"}
StopPcs == {"idle", "draining", "drained", "unsubscribing", "closing", "stopped"}
Servers == {"none", "open", "closing", "forced"}

\* The order hooks run in when the app goes down: runAll over a copy of cleanups, then
\* over the stop hooks.
\* Mutant: in the order of opening.
ShutdownHooksForward(opened) == [r \in 1 .. Built |-> r] \o opened

ShutdownHooks(opened) == Reverse(opened) \o Reverse([r \in 1 .. Built |-> r])

Init ==
  /\ state = "created"
  /\ starter = [pc |-> "idle", hook |-> 0, serves |-> TRUE, todo |-> <<>>]
  /\ stopper = [pc |-> "idle", todo |-> <<>>]
  /\ open = 1 .. Built
  /\ cleanups = <<>>
  /\ server = "none"
  /\ subscribed = FALSE
  /\ http = 0 /\ upgrading = 0 /\ sockets = 0 /\ leaving = 0
  /\ timedOut = FALSE
  /\ closings = [r \in Resources |-> 0]

-----------------------------------------------------------------------------
\* listen() and run(): start hooks, the port, the subscription.

StarterAt(pc) == starter' = [starter EXCEPT !.pc = pc]

Listen(serves) ==
  /\ state = "created"
  /\ state' = "initializing"
  /\ starter' = [pc |-> "hooks", hook |-> Built + 1, serves |-> serves, todo |-> <<>>]
  /\ UNCHANGED <<stopper, open, cleanups, server, subscribed, work, timedOut, closings>>

HookDone ==
  /\ starter.pc = "hooks"
  /\ open' = open \cup {starter.hook}
  /\ cleanups' = Append(cleanups, starter.hook)
  /\ IF starter.hook < Top
     THEN starter' = [starter EXCEPT !.hook = @ + 1] /\ UNCHANGED state
     ELSE StarterAt("binding") /\ state' = "ready"
  /\ UNCHANGED <<stopper, server, subscribed, work, timedOut, closings>>

HookFails ==
  /\ starter.pc = "hooks" /\ "hook" \in Failures
  /\ starter' = [starter EXCEPT !.pc = "undoing", !.todo = Reverse(cleanups)]
  /\ UNCHANGED <<state, stopper, open, cleanups, server, subscribed, work, timedOut, closings>>

\* One hook of a list is awaited; one that throws is logged and leaves its resource open.
RunsHook(r) ==
  /\ open' = IF r \in Faulty THEN open ELSE open \ {r}
  /\ closings' = [closings EXCEPT ![r] = @ + 1]

StarterRunsHook ==
  /\ starter.pc \in {"undoing", "unwinding"} /\ starter.todo # <<>>
  /\ RunsHook(Head(starter.todo))
  /\ starter' = [starter EXCEPT !.todo = Tail(@)]
  /\ UNCHANGED <<state, stopper, cleanups, server, subscribed, work, timedOut>>

\* Mutant: a failed start leaves the state as it was.
UndoneInitializing ==
  /\ starter.pc = "undoing" /\ starter.todo = <<>>
  /\ StarterAt("rejected")
  /\ UNCHANGED <<state, stopper, open, cleanups, server, subscribed, work, timedOut, closings>>

Undone ==
  /\ starter.pc = "undoing" /\ starter.todo = <<>>
  /\ StarterAt("rejected")
  /\ state' = "stopped"
  /\ UNCHANGED <<stopper, open, cleanups, server, subscribed, work, timedOut, closings>>

\* run() has no port to bind.
Bind ==
  /\ starter.pc = "binding"
  /\ IF starter.serves THEN server' = "open" ELSE UNCHANGED server
  /\ IF starter.serves /\ PubSub
     THEN StarterAt("subscribing") /\ UNCHANGED state
     ELSE StarterAt("listening") /\ state' = "running"
  /\ UNCHANGED <<stopper, open, cleanups, subscribed, work, timedOut, closings>>

BindFails ==
  /\ starter.pc = "binding" /\ starter.serves /\ "bind" \in Failures
  /\ starter' = [starter EXCEPT !.pc = "unwinding", !.todo = ShutdownHooks(cleanups)]
  /\ UNCHANGED <<state, stopper, open, cleanups, server, subscribed, work, timedOut, closings>>

Unwound ==
  /\ starter.pc = "unwinding" /\ starter.todo = <<>>
  /\ cleanups' = <<>>
  /\ state' = "stopped"
  /\ StarterAt("rejected")
  /\ UNCHANGED <<stopper, open, server, subscribed, work, timedOut, closings>>

Subscribed ==
  /\ starter.pc = "subscribing"
  /\ subscribed' = TRUE
  /\ state' = "running"
  /\ StarterAt("listening")
  /\ UNCHANGED <<stopper, open, cleanups, server, work, timedOut, closings>>

SubscribeFails ==
  /\ starter.pc = "subscribing" /\ "subscribe" \in Failures
  /\ StarterAt("rejected")
  /\ UNCHANGED <<state, stopper, open, cleanups, server, subscribed, work, timedOut, closings>>

-----------------------------------------------------------------------------
\* Requests and sockets.

Idle == http = 0 /\ upgrading = 0 /\ sockets = 0 /\ leaving = 0

Arrives ==
  /\ server = "open"
  /\ http + upgrading + sockets + leaving < MaxLoad
  /\ \/ http' = http + 1 /\ UNCHANGED upgrading
     \/ state = "running" /\ upgrading' = upgrading + 1 /\ UNCHANGED http
  /\ UNCHANGED <<state, starter, stopper, open, cleanups, server, subscribed,
                 sockets, leaving, timedOut, closings>>

Answered ==
  /\ \/ http > 0 /\ http' = http - 1 /\ UNCHANGED upgrading
     \/ upgrading > 0 /\ upgrading' = upgrading - 1 /\ UNCHANGED http
  /\ UNCHANGED <<state, starter, stopper, open, cleanups, server, subscribed,
                 sockets, leaving, timedOut, closings>>

\* The upgrade handler returned: the state is not looked at again.
Upgraded ==
  /\ upgrading > 0 /\ server # "forced"
  /\ upgrading' = upgrading - 1
  /\ sockets' = sockets + 1
  /\ UNCHANGED <<state, starter, stopper, open, cleanups, server, subscribed,
                 http, leaving, timedOut, closings>>

PeerCloses ==
  /\ sockets > 0
  /\ sockets' = sockets - 1
  /\ UNCHANGED <<state, starter, stopper, open, cleanups, server, subscribed,
                 http, upgrading, leaving, timedOut, closings>>

Left ==
  /\ leaving > 0
  /\ leaving' = leaving - 1
  /\ UNCHANGED <<state, starter, stopper, open, cleanups, server, subscribed,
                 http, upgrading, sockets, timedOut, closings>>

-----------------------------------------------------------------------------
\* stop().

StopperAt(pc) == stopper' = [stopper EXCEPT !.pc = pc]

Early == starter.pc \notin {"idle", "listening", "rejected"}

StopUnstarted ==
  /\ stopper.pc = "idle" /\ state \in {"created", "stopped"}
  /\ state' = "stopped"
  /\ StopperAt("stopped")
  /\ UNCHANGED <<starter, open, cleanups, server, subscribed, work, timedOut, closings>>

Stop ==
  /\ stopper.pc = "idle" /\ state \notin {"created", "stopped"}
  /\ Early => EarlyStop
  /\ state' = "stopping"
  /\ leaving' = leaving + sockets
  /\ sockets' = 0
  /\ IF server = "open"
     THEN server' = "closing" /\ StopperAt("draining")
     ELSE StopperAt("drained") /\ UNCHANGED server
  /\ UNCHANGED <<starter, open, cleanups, subscribed, http, upgrading, timedOut, closings>>

\* Mutant: open sockets are not waited for.
DrainedOfRequests ==
  /\ stopper.pc = "draining" /\ http = 0 /\ upgrading = 0
  /\ StopperAt("drained")
  /\ UNCHANGED <<state, starter, open, cleanups, server, subscribed, work, timedOut, closings>>

Drained ==
  /\ stopper.pc = "draining" /\ Idle
  /\ StopperAt("drained")
  /\ UNCHANGED <<state, starter, open, cleanups, server, subscribed, work, timedOut, closings>>

\* Mutant: the drain has no timeout.
TimeoutNever ==
  /\ FALSE
  /\ UNCHANGED vars

\* The timeout comes first: connections are cut, handlers run on.
Timeout ==
  /\ stopper.pc = "draining" /\ ~Idle
  /\ timedOut' = TRUE
  /\ server' = "forced"
  /\ sockets' = 0 /\ leaving' = 0
  /\ StopperAt("drained")
  /\ UNCHANGED <<state, starter, open, cleanups, subscribed, http, upgrading, closings>>

DrainHooks ==
  /\ stopper.pc = "drained"
  /\ StopperAt("unsubscribing")
  /\ UNCHANGED <<state, starter, open, cleanups, server, subscribed, work, timedOut, closings>>

\* A failure is logged, and the subscription stays.
Unsubscribes ==
  /\ stopper.pc = "unsubscribing"
  /\ subscribed' \in IF "unsubscribe" \in Failures THEN {FALSE, subscribed} ELSE {FALSE}
  /\ stopper' = [pc |-> "closing", todo |-> ShutdownHooks(cleanups)]
  /\ UNCHANGED <<state, starter, open, cleanups, server, work, timedOut, closings>>

StopperRunsHook ==
  /\ stopper.pc = "closing" /\ stopper.todo # <<>>
  /\ RunsHook(Head(stopper.todo))
  /\ stopper' = [stopper EXCEPT !.todo = Tail(@)]
  /\ UNCHANGED <<state, starter, cleanups, server, subscribed, work, timedOut>>

Stopped ==
  /\ stopper.pc = "closing" /\ stopper.todo = <<>>
  /\ cleanups' = <<>>
  /\ state' = "stopped"
  /\ StopperAt("stopped")
  /\ UNCHANGED <<starter, open, server, subscribed, work, timedOut, closings>>

-----------------------------------------------------------------------------
StartStep == HookDone \/ StarterRunsHook \/ Undone \/ Bind \/ Unwound \/ Subscribed
StopStep == \/ Drained \/ Timeout \/ DrainHooks \/ Unsubscribes \/ StopperRunsHook \/ Stopped

Next == \/ \E serves \in BOOLEAN : Listen(serves)
        \/ StartStep \/ HookFails \/ BindFails \/ SubscribeFails
        \/ Arrives \/ Answered \/ Upgraded \/ PeerCloses \/ Left
        \/ StopUnstarted \/ Stop \/ StopStep

Spec == Init /\ [][Next]_vars

\* Hooks settle and the timer fires; no handler and no peer has to do anything.
FairSpec == Spec /\ WF_vars(StartStep) /\ WF_vars(StopStep)

-----------------------------------------------------------------------------
\* Properties.

\* Every variable keeps its type.
TypeOK ==
  /\ state \in States
  /\ starter \in [pc : StartPcs, hook : {0} \cup Resources, serves : BOOLEAN, todo : Seq(Resources)]
  /\ stopper \in [pc : StopPcs, todo : Seq(Resources)]
  /\ open \subseteq Resources
  /\ cleanups \in Seq(Resources)
  /\ server \in Servers
  /\ subscribed \in BOOLEAN
  /\ {http, upgrading, sockets, leaving} \subseteq 0 .. MaxLoad
  /\ timedOut \in BOOLEAN
  /\ closings \in [Resources -> Nat]

\* Resources close opposite to how they opened, on every way down: while one is being
\* closed nothing opened after it is still open (lifecycle.ts, runShutdownHooks).
ClosedInOrder ==
  [][\A r \in Resources : r \in open /\ r \notin open' =>
       \A later \in open : later > r => later \in Faulty]_vars

\* No hook runs twice, in particular not once for a failed start and again for the stop()
\* that follows it (lifecycle.ts, start; app.ts, shutdown).
ClosedOnce == \A r \in Resources : closings[r] <= 1

\* stop() closes nothing under a request or a socket it promised to wait for, and
\* receives no messages meanwhile, unless unsubscribing failed (app.ts, shutdown).
ClosedAfterDrain ==
  [][StopperRunsHook => /\ Idle \/ timedOut
                        /\ subscribed => "unsubscribe" \in Failures]_vars

\* An app that says it stopped closed all its start hooks opened; and all that its stop
\* hooks close, unless the start itself failed in a start hook (lifecycle.ts, start).
NothingLeftOpen ==
  /\ state = "stopped" => open \cap (Built + 1 .. Top) \subseteq Faulty
  /\ stopper.pc = "stopped" /\ starter.pc = "listening" => open \subseteq Faulty

\* Whatever fails on the way, everything that was opened is closed, and once.
ClosedExactlyOnce == ClosedOnce /\ NothingLeftOpen

\* A stop() that was called ends with the app stopped, whatever the handlers and the
\* peers do (app.ts, shutdown).
StopEnds == (stopper.pc # "idle") ~> (stopper.pc = "stopped" /\ state = "stopped")

\* When stop() has returned the app is stopped, and stays so.
StopIsFinal == stopper.pc = "stopped" => state = "stopped"

\* A listen() that rejected has cleaned up what it did.
FailedListenCleansUp ==
  starter.pc = "rejected" => server = "none" /\ open \cap (Built + 1 .. Top) \subseteq Faulty
=============================================================================

----------------------------- MODULE Container -----------------------------
(***************************************************************************)
(* The dependency injection container (packages/di/src/container.ts) and   *)
(* the scope each request gets (request-scope.ts).  get() is synchronous   *)
(* but recursive: the frames of the calls under way are a stack, and one   *)
(* action is one step of the innermost call.  dispose() awaits each        *)
(* instance, so other scopes go on between two of its steps.               *)
(*                                                                         *)
(* Instances are numbered in the order they are created.                   *)
(***************************************************************************)
EXTENDS Integers, Sequences, FiniteSets, SequencesExt

CONSTANTS
  Tokens,        \* keys
  Wirings,       \* set of [Tokens -> Seq(Tokens)]: what each key's create() resolves, in order
  Lifetimes,     \* set of [Tokens -> Kinds]: how each key is registered
  ScopeIds,      \* scopes created beside the root
  Root,          \* the container's own scope
  Replaced,      \* bound: keys that override() and provide() are called with
  MaxInstances   \* bound: instances created

VARIABLES
  wiring, registrations,
  held,        \* the instances Maps: [Scopes -> [Tokens -> instance, NoInstance]]
  created,     \* [Scopes -> what the scope has to dispose, in order of creation]
  made,        \* every instance: [key, home: the scope that made it, uses: what create() was given]
  calls,       \* stack of resolve() calls: [key, at: scope, todo, got]
  answer,      \* what the innermost call returned, NoInstance before it does, or Thrown
  phase,       \* [Scopes -> "new", "open", "disposing", "disposed" or "failed"]
  toDispose,   \* [Scopes -> what dispose() has still to await]
  released        \* history: instances that were disposed, in order

containerVars == <<wiring, registrations, held, created, made, calls, answer, phase, toDispose, released>>

Kinds == {"singleton", "scoped", "transient", "value", "unregistered"}
ASSUME LifetimesAssumption == Lifetimes \subseteq [Tokens -> Kinds]
ASSUME WiringsAssumption == Wirings \subseteq [Tokens -> Seq(Tokens)]
ASSUME ReplacedAssumption == Replaced \subseteq Tokens
Scopes == ScopeIds \cup {Root}
NoInstance == 0
Thrown == -1
Idle == calls = <<>>

Lifetime(k) == IF registrations[k] = "value" THEN "singleton" ELSE registrations[k]
Owned(k) == registrations[k] # "value"

ContainerInit ==
  /\ wiring \in Wirings
  /\ registrations \in Lifetimes
  /\ held = [s \in Scopes |-> [k \in Tokens |-> NoInstance]]
  /\ created = [s \in Scopes |-> <<>>]
  /\ made = <<>>
  /\ calls = <<>>
  /\ answer = NoInstance
  /\ phase = [s \in Scopes |-> IF s = Root THEN "open" ELSE "new"]
  /\ toDispose = created
  /\ released = <<>>

createScope(s) ==
  /\ Idle /\ phase[s] = "new"
  /\ phase' = [phase EXCEPT ![s] = "open"]
  /\ UNCHANGED <<wiring, registrations, held, created, made, calls, answer, toDispose, released>>

Captor(chain) == \E i \in DOMAIN chain : Lifetime(chain[i].key) = "singleton"
Circular(k, chain) == \E i \in DOMAIN chain : chain[i].key = k

\* Every early throw of resolve() at scope s, under the calls of `chain`.
Refused(k, s, chain) ==
  \/ Circular(k, chain)
  \/ registrations[k] = "unregistered"
  \/ registrations[k] = "scoped" /\ (Captor(chain) \/ s = Root)

\* The scope that resolves k: a singleton is passed on to the root.
HomeOf(k, s) == IF Lifetime(k) = "singleton" THEN Root ELSE s

\* What resolve() returns goes to the call below it, if it has one.
Returns(v, below) == calls' = below /\ answer' = IF below = <<>> THEN NoInstance ELSE v

\* resolve(): a held instance is returned, otherwise create() begins.
Enter(k, s) ==
  LET home == HomeOf(k, s)
      found == {held[s][k], held[home][k]} \ {NoInstance}
  IN IF found # {} THEN \E v \in found : Returns(v, calls)
     ELSE IF Refused(k, s, calls) THEN Returns(Thrown, calls)
     ELSE /\ calls' = Append(calls, [key |-> k, at |-> home, got |-> <<>>,
                                    todo |-> IF Owned(k) THEN wiring[k] ELSE <<>>])
          /\ answer' = NoInstance

\* get() of a handler, on its scope or on the container.
get(s, k) ==
  /\ Idle /\ phase[s] # "new"
  /\ Enter(k, s)
  /\ UNCHANGED <<wiring, registrations, held, created, made, phase, toDispose, released>>

Top == Last(calls)

\* create() asks the resolver for its next dependency ...
Ask ==
  /\ ~ Idle /\ answer = NoInstance /\ Top.todo # <<>>
  /\ Enter(Head(Top.todo), Top.at)
  /\ UNCHANGED <<wiring, registrations, held, created, made, phase, toDispose, released>>

\* ... is given it ...
Receive ==
  /\ ~ Idle /\ answer > NoInstance
  /\ calls' = [calls EXCEPT ![Len(calls)].todo = Tail(@), ![Len(calls)].got = Append(@, answer)]
  /\ answer' = NoInstance
  /\ UNCHANGED <<wiring, registrations, held, created, made, phase, toDispose, released>>

\* ... or an exception, which ends every call under way; so does create() itself.
Throws ==
  /\ ~ Idle /\ (answer = Thrown \/ (answer = NoInstance /\ Top.todo = <<>> /\ Owned(Top.key)))
  /\ Returns(Thrown, <<>>)
  /\ UNCHANGED <<wiring, registrations, held, created, made, phase, toDispose, released>>

\* Mutant: only what the scope caches is disposed with it.
TracksCached(k) == Owned(k) /\ Lifetime(k) # "transient"
Tracks(k) == Owned(k)

Create ==
  /\ ~ Idle /\ answer = NoInstance /\ Top.todo = <<>> /\ Len(made) < MaxInstances
  /\ LET new == Len(made) + 1
         k == Top.key
     IN /\ made' = Append(made, [key |-> k, home |-> Top.at, uses |-> ToSet(Top.got), owned |-> Owned(k)])
        /\ held' = IF Lifetime(k) = "transient" THEN held ELSE [held EXCEPT ![Top.at][k] = new]
        /\ created' = IF Tracks(k) THEN [created EXCEPT ![Top.at] = Append(@, new)] ELSE created
        /\ Returns(new, Front(calls))
  /\ UNCHANGED <<wiring, registrations, phase, toDispose, released>>

\* A value for this scope only: held, never disposed.
provide(s, k) ==
  /\ Idle /\ s # Root /\ phase[s] = "open" /\ Len(made) < MaxInstances
  /\ made' = Append(made, [key |-> k, home |-> s, uses |-> {}, owned |-> FALSE])
  /\ held' = [held EXCEPT ![s][k] = Len(made) + 1]
  /\ UNCHANGED <<wiring, registrations, created, calls, answer, phase, toDispose, released>>

\* Replaces a registration with a value, and drops what the root holds.
override(k) ==
  /\ Idle
  /\ registrations' = [registrations EXCEPT ![k] = "value"]
  /\ held' = [held EXCEPT ![Root][k] = NoInstance]
  /\ UNCHANGED <<wiring, created, made, calls, answer, phase, toDispose, released>>

\* dispose(): the lists are taken at once, then each instance is awaited.
Dispose(s) ==
  /\ Idle /\ phase[s] = "open"
  /\ phase' = [phase EXCEPT ![s] = "disposing"]
  /\ toDispose' = [toDispose EXCEPT ![s] = Reverse(created[s])]
  /\ created' = [created EXCEPT ![s] = <<>>]
  /\ held' = [held EXCEPT ![s] = [k \in Tokens |-> NoInstance]]
  /\ UNCHANGED <<wiring, registrations, made, calls, answer, released>>

DisposeInstance(s) ==
  /\ phase[s] = "disposing" /\ Idle
  /\ IF toDispose[s] = <<>>
     THEN phase' = [phase EXCEPT ![s] = "disposed"] /\ UNCHANGED <<toDispose, released>>
     ELSE /\ released' = Append(released, Head(toDispose[s]))
          /\ toDispose' = [toDispose EXCEPT ![s] = Tail(@)]
          /\ UNCHANGED phase
  /\ UNCHANGED <<wiring, registrations, held, created, made, calls, answer>>

\* One that throws ends dispose(): the rest was taken from the list and stays.
DisposeThrows(s) ==
  /\ phase[s] = "disposing" /\ Idle /\ toDispose[s] # <<>>
  /\ phase' = [phase EXCEPT ![s] = "failed"]
  /\ UNCHANGED <<wiring, registrations, held, created, made, calls, answer, toDispose, released>>

ContainerNext ==
  \/ \E s \in Scopes : \/ createScope(s) \/ Dispose(s) \/ DisposeInstance(s) \/ DisposeThrows(s)
                       \/ \E k \in Tokens : get(s, k)
                       \/ \E k \in Replaced : provide(s, k)
  \/ Ask \/ Receive \/ Throws \/ Create
  \/ \E k \in Replaced : override(k)

-----------------------------------------------------------------------------
\* Properties.

\* Nothing outlives what it was given: an instance uses those of its own scope and
\* of the root, and one of the root only those of the root, through whatever chain of
\* transients and provided values it was resolved (container.ts:99, the captor check).
NoCapture ==
  \A i \in DOMAIN made : \A u \in made[i].uses : made[u].home \in {Root, made[i].home}

\* A scope never has two instances of a key to dispose unless the key is transient:
\* an exception, an override or a provided value in between makes no second one.
OneInstance ==
  \A s \in Scopes : \A i, j \in ToSet(created[s]) :
    made[i].key = made[j].key /\ i # j => registrations[made[i].key] \in {"transient", "value"}

\* What a scope created it disposes, once, unless a disposal before it threw: also an
\* instance whose key was overridden, or whose requirer's create() threw.
DisposedOnce ==
  /\ \A i, j \in DOMAIN released : released[i] = released[j] => i = j
  /\ \A i \in DOMAIN made : made[i].owned <=>
       i \in ToSet(released) \cup ToSet(created[made[i].home]) \cup ToSet(toDispose[made[i].home])
  /\ \A s \in Scopes : phase[s] = "disposed" => toDispose[s] = <<>>

\* An instance is disposed before those of its scope that it uses.
UsersFirst ==
  \A n \in DOMAIN released : \A i \in DOMAIN made :
    released[n] \in made[i].uses /\ made[i].home = made[released[n]].home
      => i \in ToSet(SubSeq(released, 1, n))

\* What scopes promise.
ScopesHold == NoCapture /\ OneInstance /\ DisposedOnce /\ UsersFirst
=============================================================================

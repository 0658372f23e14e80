----------------------------- MODULE MCAdapters -----------------------------
(* The contracts that the packages' adapters keep, one part per behaviour:  *)
(* the queue adapter with two jobs that share a key and one without, the    *)
(* sessions over their stores, the rate limiter over its stores, the scopes *)
(* of the container, and the listeners of the event bus.                    *)
EXTENDS MCQueueAdapter, Sessions, RateLimit, Container, EventBus, TLC

CONSTANTS r1, r2, nothing, p1, p2, s1, root, b1, b2, l1, l2, d1, d2, c1, c2

\* Three keys that form a chain with a short cut, or a cycle, registered in five ways.
MCChain == [a |-> <<"b", "c">>, b |-> <<"c">>, c |-> <<>>]
MCWirings == {MCChain, [a |-> <<"b">>, b |-> <<"c">>, c |-> <<"a">>]}
MCPlain == [a |-> "singleton", b |-> "transient", c |-> "singleton"]
MCLifetimes ==
  {MCPlain, [MCPlain EXCEPT !.a = "scoped"], [MCPlain EXCEPT !.c = "scoped"],
   [a |-> "scoped", b |-> "scoped", c |-> "value"],
   [a |-> "transient", b |-> "singleton", c |-> "unregistered"]}

MCLocalOn == [l \in {l1, l2} |-> b1]
MCDurableOn == [d \in {d1, d2} |-> b1]
MCListensOn == [c \in {c1, c2} |-> b1]

\* The part that moves in this behaviour; the others stay as they began.
VARIABLE part

MCInit == /\ part \in {"queue", "sessions", "limits", "container", "events"}
          /\ Init
          /\ SessionsInit /\ (part # "sessions" => store = "database")
          /\ RateInit /\ (part # "limits" => shop = "memory")
          /\ ContainerInit /\ (part # "container" => wiring = MCChain /\ registrations = MCPlain)
          /\ BusInit /\ (part # "events" => setup = [aware |-> TRUE, queue |-> "transactional"])

MCNext ==
  /\ UNCHANGED part
  /\ \/ part = "queue" /\ Next /\ UNCHANGED <<sessionVars, rateVars, containerVars, busVars>>
     \/ part = "sessions" /\ SessionsNext /\ UNCHANGED <<jobs, rateVars, containerVars, busVars>>
     \/ part = "limits" /\ RateNext /\ UNCHANGED <<jobs, sessionVars, containerVars, busVars>>
     \/ part = "container" /\ ContainerNext /\ UNCHANGED <<jobs, sessionVars, rateVars, busVars>>
     \/ part = "events" /\ BusNext /\ UNCHANGED <<jobs, sessionVars, rateVars, containerVars>>

MCSpec == MCInit /\ [][MCNext]_<<part, jobs, sessionVars, rateVars, containerVars, busVars>>

\* The unsubscribe functions are called three times in all, and of listeners that are alike
\* the first is registered first.
MCBounds ==
  /\ MCAttempts
  /\ FoldFunction(LAMBDA x, y : x + y, 0, offs) <= 3
  /\ (l2 \in Made => l1 \in Made) /\ (d2 \in Made => d1 \in Made)

\* The requests are alike, and so are the instances.
MCSymmetry == Permutations(Requests) \cup Permutations(Instances)
=============================================================================

---------------------------- MODULE MCWorkerPool ----------------------------
(* Values for the constants of WorkerPool: two workers, one or three jobs.  *)
EXTENDS WorkerPool

CONSTANTS w1, w2, k1, none, nobody

MCIds == 1 .. 3
MCKeyed == <<k1, k1, none>>
MCPriority == <<0, 0, 0>>
MCOneUnkeyed == <<none>>
MCOnePriority == <<0>>
MCOneTwoTries == <<2>>
MCOneTry == <<1, 1, 1>>
MCAlone == [w \in Workers |-> 1]
MCPair == [w \in Workers |-> IF w = w1 THEN 2 ELSE 1]
\* Bound: a revival comes without a fault and without a stop.
MCRevivedAlone == revivals > 0 => faults = 0 /\ phase[w1] = "up"
MCServes == [w \in Workers |-> Ids]
=============================================================================

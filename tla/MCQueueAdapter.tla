--------------------------- MODULE MCQueueAdapter ---------------------------
(* A small instance of the adapter contract: two jobs that share a key and  *)
(* one without, two workers, of which one serves only two of the jobs.      *)
EXTENDS QueueAdapter

CONSTANTS w1, w2, k1, none, nobody

MCIds == 1 .. 3
MCWorkers == {w1, w2}
MCKeyOf == <<k1, k1, none>>
MCPriority == <<0, 0, 1>>
MCMaxAttempts == <<1, 1, 2>>
MCServes == [w \in MCWorkers |-> IF w = w1 THEN MCIds ELSE {2, 3}]
MCTimes == 0 .. 1
MCLimits == 1 .. 2

\* A caller may claim and fail a job for ever: count two tries of each.
MCAttempts == \A j \in Ids : jobs[j].attempt <= 2
=============================================================================

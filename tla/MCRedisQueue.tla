---------------------------- MODULE MCRedisQueue ----------------------------
(* A small instance of the Redis adapter: three jobs in two queues, two of them *)
(* sharing a key across the queues, and two workers, of which one serves one    *)
(* queue only.                                                                  *)
EXTENDS RedisQueue

CONSTANTS w1, w2, k1, none, nobody

MCIds == 1 .. 3
MCKeyOf == <<k1, k1, none>>
MCPriority == <<0, 0, 1>>
MCMaxAttempts == <<1, 1, 2>>
MCQueueOf == <<"high", "low", "low">>
MCNameOf == <<"mail", "mail", "mail">>
MCQueuesOf == [w \in Workers |-> IF w = w1 THEN Queues ELSE {"low"}]
MCNamesOf == [w \in Workers |-> Names]
MCServes == [w \in Workers |-> IF w = w1 THEN Ids ELSE {2, 3}]

\* A caller may claim and fail a job for ever: count two tries of each.
MCAttempts == \A j \in Ids : hash[j].attempt <= 2
=============================================================================

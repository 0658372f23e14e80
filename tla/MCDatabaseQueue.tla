--------------------------- MODULE MCDatabaseQueue ---------------------------
(* What processes share, one part per behaviour: the queue's table with two      *)
(* jobs of one key, dispatched inside and outside of two transactions on         *)
(* Postgres; the files of the storage; the keys that say who a request comes     *)
(* from.                                                                         *)
EXTENDS DatabaseQueue, Storage, Auth

CONSTANTS w1, k1, t1, t2, none, nobody, alone, c1, c2, v1, v2, p1, p2, junk, a1

MCIds == 1 .. 2
MCKeyOf == <<k1, k1>>
MCPriority == <<0, 0>>
MCMaxAttempts == <<1, 2>>
MCServes == [w \in Workers |-> Ids]

\* A caller may claim and fail a job for ever: count two tries of each.
MCAttempts == \A j \in Ids : rows[j].attempt <= 2

\* The part that moves in this behaviour; the others stay as they began.
VARIABLE part

MCInit ==
  /\ part \in {"queue", "storage", "tokens", "api keys"}
  /\ Init
  /\ StorageInit /\ (part # "storage" => adapter = "local" /\ \A k \in StorageKeys : content[k] = Nothing)
  /\ AuthInit /\ (part # "api keys" => \A k \in ApiKeyIds : ~ apiKeys[k].exists)

MCNext ==
  /\ UNCHANGED part
  /\ \/ part = "queue" /\ Next /\ UNCHANGED <<storageVars, authVars>>
     \/ part = "storage" /\ StorageNext /\ UNCHANGED <<vars, authVars>>
     \/ part = "tokens" /\ AuthNext /\ UNCHANGED <<apiKeys, vars, storageVars>>
     \/ part = "api keys" /\ AuthNext /\ UNCHANGED <<published, lastRefresh, vars, storageVars>>

MCSpec == MCInit /\ [][MCNext]_<<part, vars, storageVars, authVars>>
=============================================================================

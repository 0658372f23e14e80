---------------------------- MODULE MCUnitOfWork ----------------------------
(* What is made together or not at all, one part per behaviour: what a      *)
(* transaction announces, what a command changes in a project, and what a   *)
(* migration changes in the database that instances share.                  *)
EXTENDS UnitOfWork, FeaturePlan, Migrator

CONSTANTS f1, job, event, other, i1, i2, nobody

\* The part that moves in this behaviour; the others stay as they began.
VARIABLE part

\* Every feature some command treats unlike the others: presets, options, conflicts,
\* shared files, blocks, scaffolds, migrations, and removals that cascade twice.
One(S) == {<<x>> : x \in S}
MCAdditions ==
  One({"auth", "auth:api", "auth:login", "auth:oidc", "auth:ui-account", "auth:api-keys", "cache:redis", "cache:memory",
       "events", "jobs:redis", "storage:s3", "storage:local", "metrics", "styles:sass"})
MCGenerated == "module:orders" :> [file |-> "src/modules/orders", slots |-> {"permissions"}, needs |-> {"auth:core"}]
MCRemovals == One({"auth", "auth:core", "auth:sessions", "redis", "jobs:redis", "cache:memory"})

MCInit == /\ part \in {"work", "features", "migrations"}
          /\ Init /\ FeaturesInit
          /\ MigratorInit /\ (part # "migrations" => dialect = "sqlite" /\ pool = 1)

MCNext ==
  /\ UNCHANGED part
  /\ \/ part = "work" /\ Next /\ UNCHANGED <<featureVars, migratorVars>>
     \/ part = "features" /\ FeaturesNext /\ UNCHANGED <<vars, migratorVars>>
     \/ part = "migrations" /\ MigratorNext /\ UNCHANGED <<vars, featureVars>>

\* What FairSpec asks, for the part that moves.
MCFairness ==
  /\ \A f \in Flows : WF_vars(part = "work" /\ RunCallback(f))
  /\ \A i \in Items, l \in Listeners : WF_vars(part = "work" /\ <<i, l>> \in pending /\ ListenerEnds(<<i, l>>))
  /\ WF_vars(part = "work" /\ (Drained \/ IdleAgain \/ Idle))

MCSpec == MCInit /\ [][MCNext]_<<part, vars, featureVars, migratorVars>> /\ MCFairness
=============================================================================

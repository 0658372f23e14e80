-------------------------- MODULE FeatureCatalogue --------------------------
(***************************************************************************)
(* The features that `hydrate add` knows (packages/cli/src/features/       *)
(* catalog/): what each requires, excludes, creates and contributes.  Of a *)
(* file only its path is kept, of a contribution its slot, of an output    *)
(* the slots it renders.  A requirement is a sequence of options.          *)
(***************************************************************************)
EXTENDS Integers, Sequences, SequencesExt, FiniteSets, TLC

\* defineFeature: what a definition leaves out is empty.
NoParts == [requires |-> <<>>, conflicts |-> {}, files |-> {}, scaffold |-> {}, migration |-> FALSE,
            slots |-> {}, outputs |-> {}, commands |-> {}, commandsModule |-> {}]
defineFeature(given) == given @@ NoParts

\* Outputs: the slots each renders; of a block only the lines between its markers are rendered.
Output(path, kind, slots) == [path |-> path, kind |-> kind, slots |-> slots]
compositionRoot == Output("src/auth/index.ts", "file", {"auth.features"})
commandsIndex == Output("src/auth/commands.ts", "file", {"auth.commands"})
permissionsBlock == Output("src/shared/permissions.ts", "block", {"permissions"})
authPages == Output("src/web/auth-pages.ts", "file", {"web.authPages"})
platformRoot == Output("src/platform/index.ts", "file", {"platform.install"})
jobsIndex == Output("src/jobs/index.ts", "file", {"jobs.all", "jobs.sources"})
eventsIndex == Output("src/events/index.ts", "file", {"events.listeners"})
clientPluginsOutput == Output("src/web/client.plugins.ts", "file", {"client.plugins"})

\* auth/index.ts: accounts, passwords and sessions ...
accountFeatures ==
  "auth:core" :> defineFeature([
     files |-> {"src/auth/accounts.ts", "src/auth/accounts.test.ts", "src/auth/core.ts", "src/auth/core.commands.ts"},
     scaffold |-> {"src/auth/config.ts"}, migration |-> TRUE,
     slots |-> {"auth.features", "auth.commands"},
     outputs |-> {compositionRoot, commandsIndex, permissionsBlock},
     commands |-> {"auth:set-role", "auth:permissions"}, commandsModule |-> {commandsIndex.path}]) @@
  "auth:passwords" :> defineFeature([
     requires |-> << <<"auth:core">> >>, migration |-> TRUE,
     files |-> {"src/auth/passwords.ts", "src/auth/passwords.test.ts", "src/auth/passwords.commands.ts"},
     slots |-> {"auth.features", "auth.commands"},
     commands |-> {"auth:create-user"}, commandsModule |-> {commandsIndex.path}]) @@
  "auth:sessions" :> defineFeature([
     requires |-> << <<"auth:core">> >>, migration |-> TRUE,
     files |-> {"src/auth/sessions.commands.ts"}, slots |-> {"auth.features", "auth.commands"},
     commands |-> {"auth:revoke-sessions"}, commandsModule |-> {commandsIndex.path}])

\* ... the bearers of credentials ...
bearerFeatures ==
  "auth:jwt" :> defineFeature([
     requires |-> << <<"auth:core">> >>, conflicts |-> {"auth:oidc"}, slots |-> {"auth.features"}]) @@
  "auth:oidc" :> defineFeature([
     requires |-> << <<"auth:core">> >>, conflicts |-> {"auth:jwt"}, slots |-> {"auth.features"}]) @@
  "auth:api-keys" :> defineFeature([
     requires |-> << <<"auth:core">> >>, migration |-> TRUE,
     files |-> {"src/auth/api-keys.commands.ts"}, slots |-> {"auth.features", "auth.commands"},
     commands |-> {"auth:api-key"}, commandsModule |-> {commandsIndex.path}])

\* ... and what users see.
loginFeatures ==
  "auth:login" :> defineFeature([
     requires |-> << <<"auth:passwords">>, <<"auth:sessions", "auth:jwt">> >>,
     files |-> {"src/auth/login/login.schema.ts", "src/auth/login/login.routes.ts",
                "src/auth/login/feature.ts", "src/auth/login/login.test.ts"},
     slots |-> {"auth.features"}]) @@
  "auth:react" :> defineFeature([
     requires |-> << <<"auth:core">> >>, files |-> {"src/web/auth.ts"}, outputs |-> {authPages}]) @@
  "auth:ui-login" :> defineFeature([
     requires |-> << <<"auth:login">>, <<"auth:react">> >>,
     files |-> {"src/web/pages/auth/Login.tsx", "src/web/pages/auth/Login.test.tsx"}, slots |-> {"web.authPages"}]) @@
  "auth:ui-register" :> defineFeature([
     requires |-> << <<"auth:login">>, <<"auth:react">> >>,
     files |-> {"src/web/pages/auth/Register.tsx", "src/web/pages/auth/Register.test.tsx"}, slots |-> {"web.authPages"}]) @@
  "auth:ui-account" :> defineFeature([
     requires |-> << <<"auth:sessions">>, <<"auth:react">> >>,
     files |-> {"src/web/pages/auth/Account.tsx", "src/web/pages/auth/Account.test.tsx", "src/auth/account/feature.ts"},
     slots |-> {"auth.features", "web.authPages"}])

\* platform.ts: each is one file and its test, installed by the generated installPlatform().
Platform(file, given) ==
  defineFeature(given @@ [files |-> {file, file \o " test"}, slots |-> {"platform.install"}, outputs |-> {platformRoot}])

platformFeatures ==
  "metrics" :> Platform("src/platform/metrics.ts", [migration |-> FALSE]) @@
  "security:cors" :> Platform("src/platform/cors.ts", [migration |-> FALSE]) @@
  "rate-limit" :> Platform("src/platform/rate-limit.ts", [migration |-> FALSE]) @@
  "cache:memory" :> Platform("src/platform/cache.ts", [conflicts |-> {"cache:redis"}]) @@
  "cache:redis" :> Platform("src/platform/cache.ts", [requires |-> << <<"redis">> >>, conflicts |-> {"cache:memory"}])

\* distributed.ts: the two queues differ in what they need and in one file's content.
jobsFeature(given) ==
  defineFeature(given @@ [
    files |-> {"src/jobs/queue.ts", "src/jobs/queue.test.ts", "src/jobs/commands.ts"},
    scaffold |-> {"src/worker.ts"}, slots |-> {"platform.install"}, outputs |-> {platformRoot, jobsIndex},
    commands |-> {"jobs:status", "jobs:dead", "jobs:retry", "jobs:purge", "jobs:dispatch"},
    commandsModule |-> {"src/jobs/commands.ts"}])

distributedFeatures ==
  "redis" :> Platform("src/platform/redis.ts", [migration |-> FALSE]) @@
  "jobs:database" :> jobsFeature([conflicts |-> {"jobs:redis"}, migration |-> TRUE]) @@
  "jobs:redis" :> jobsFeature([conflicts |-> {"jobs:database"}, requires |-> << <<"redis">> >>]) @@
  "events" :> defineFeature([
     requires |-> << <<"jobs:database", "jobs:redis">> >>, files |-> {"src/events/bus.ts", "src/events/bus.test.ts"},
     slots |-> {"platform.install", "jobs.sources"}, outputs |-> {platformRoot, eventsIndex}]) @@
  "storage:local" :> Platform("src/platform/storage.ts", [conflicts |-> {"storage:s3"}]) @@
  "storage:s3" :> Platform("src/platform/storage.ts", [conflicts |-> {"storage:local"}]) @@
  "realtime:redis" :> Platform("src/platform/realtime.ts", [requires |-> << <<"redis">> >>])

stylesFeatures ==
  "styles:sass" :> defineFeature([
     scaffold |-> {"src/web/styles/app.scss", "src/web/styles/_variables.scss"},
     slots |-> {"client.plugins"}, outputs |-> {clientPluginsOutput}])

\* createRegistry: every feature, in registration order, and the presets.
Features == accountFeatures @@ bearerFeatures @@ loginFeatures @@ platformFeatures @@ distributedFeatures @@ stylesFeatures

AllOutputs == UNION {Features[id].outputs : id \in DOMAIN Features}
Outputs == [path \in {o.path : o \in AllOutputs} |-> CHOOSE o \in AllOutputs : o.path = path]

Registered ==
  <<"auth:core", "auth:passwords", "auth:sessions", "auth:jwt", "auth:oidc", "auth:api-keys", "auth:login", "auth:react",
    "auth:ui-login", "auth:ui-register", "auth:ui-account", "metrics", "security:cors", "rate-limit", "cache:memory",
    "cache:redis", "redis", "jobs:database", "jobs:redis", "events", "storage:local", "storage:s3", "realtime:redis",
    "styles:sass">>

authPresets ==
  "auth" :> <<"auth:core", "auth:passwords", "auth:sessions", "auth:login", "auth:react", "auth:ui-login">> @@
  "auth:api" :> <<"auth:core", "auth:passwords", "auth:jwt", "auth:login">> @@
  "auth:service" :> <<"auth:core", "auth:api-keys">>

-----------------------------------------------------------------------------
\* What the plans rely on (registry.ts:15 checks the first).

Requirements == Seq(DOMAIN Features) \ {<<>>}
ASSUME CatalogueTyped ==
  /\ Registered \in Seq(DOMAIN Features) /\ IsFiniteSet(DOMAIN Features) /\ IsFiniteSet(DOMAIN Outputs)
  /\ \A preset \in DOMAIN authPresets : authPresets[preset] \in Seq(DOMAIN Features)
  /\ \A id \in DOMAIN Features : LET f == Features[id] IN
       /\ f.requires \in Seq(Requirements) /\ Len(FlattenSeq(f.requires)) <= 3 /\ Len(f.requires) <= 3
       /\ IsFiniteSet(f.files) /\ IsFiniteSet(f.scaffold)
  /\ \A o \in AllOutputs : Outputs[o.path] = o

\* No chain of requirements is longer than three.
Required(ids) == UNION {UNION {ToSet(r) : r \in ToSet(Features[id].requires)} : id \in ids}
ASSUME CatalogueAcyclic == Required(Required(Required(Required(DOMAIN Features)))) = {}

\* Two features share a file only if they exclude one another.
ASSUME CatalogueExclusive ==
  \A a, b \in DOMAIN Features :
    a = b \/ Features[a].files \cap Features[b].files = {} \/ b \in Features[a].conflicts

\* A feature that contributes to an output declares it, or needs a feature that does, or one that needs such a
\* feature, whichever options are chosen; and so for the output with its commands.
Passed(has) ==
  [id \in DOMAIN Features |-> has[id] \cup
     {x \in UNION {has[o] : o \in DOMAIN Features} : \E r \in ToSet(Features[id].requires) : \A o \in ToSet(r) : x \in has[o]}]
Declared == [id \in DOMAIN Features |-> {o.path : o \in Features[id].outputs}]
Rendered == [id \in DOMAIN Features |-> UNION {o.slots : o \in Features[id].outputs}]
ASSUME CatalogueDelivers ==
  \A id \in DOMAIN Features :
    /\ Features[id].slots \subseteq Passed(Passed(Rendered))[id]
    /\ Features[id].commandsModule \ Features[id].files \subseteq Passed(Passed(Declared))[id]
=============================================================================

# bun-hydrate in TLA+

This directory holds a formal model of bun-hydrate: TLA+ modules translated from
the source, TLC configurations that check them on small instances, and proofs
that TLAPS checks for every value of the constants. The reference is the code
under `packages/`; docs and tests are quoted where the code and they disagree.

Contents: [the system](#the-system), [modules](#modules-and-the-code),
[runs](#runs), [assumptions](#time-faults-and-fairness), [proofs](#proofs),
[disagreements](#where-the-code-and-its-docs-disagree),
[what is not modelled](#not-modelled), [plan](#plan).

## The system

bun-hydrate is a full-stack TypeScript framework for Bun, a set of packages and
a reference application that wires them. What carries state, and what is hard
about it:

| component | state | operations | what is hard | correct when |
|---|---|---|---|---|
| queue adapters (`queue/src/{memory,redis,database}.ts`) | a table of jobs: state, attempt, runAt, lock, finishedAt | enqueue, claim, renew, complete, requeueExpired, retry, purge | every caller brings its own clock readings; Redis keeps the table in several structures, SQL in separate statements | columns agree, one stored job per key, every job moves along its lifecycle |
| queue worker (`queue/src/worker.ts`) | jobs in flight, timers, a claim loop, a stop promise | start, claim loop, execute, renewLeases, maintain, stop | every await is a point where another worker, a timer or a stop runs; leases end; processes crash, calls fail, replies are lost | no job runs twice at once, none is lost, tries are counted right, stop ends in time, every job is finished in the end |
| schedules (`queue/src/{cron,worker}.ts`) | a timer per worker and schedule | parseCron, next, schedule, fire | month ends, leap days, clock changes; every worker dispatches every slot, by its own clock | the next instant is the first that is due; a slot's job is stored once |
| dispatch (`queue/src/queue.ts`) | what is deferred to a commit | dispatch, dispatchMany | a dispatch inside a transaction is deferred or joins it | nothing is dispatched for a transaction that rolled back |
| App and lifecycle (`core/src/{app,lifecycle}.ts`) | lifecycle state, cleanups, server, subscription, requests in flight, sockets | listen, run, stop, upgrade, socket open and close | listen and stop are two asynchronous functions over the same fields; a drain waits for clients that need not answer | resources close once, in reverse, after the drain; stop ends |
| routing (`core/src/{router,route-trie,app}.ts`) | routers, the table compiled of them | route, use, mount, match | backtracking between static, parameter and wildcard children; a table that is out of date | the route found is the best one registered now, behind the middleware of the routers it is mounted through |
| request handling (`core/src/app.ts`, `middleware.ts`, ...) | one request's layers, cookies and headers | next, answer, throw | middleware that calls `next()` twice or never, errors in any layer | nothing runs twice, every answer has what every answer must have |
| database (`database/src`) | a stack of transactions with their callbacks; the migrations table | transaction, afterCommit, migrate, rollback | nested transactions; instances that migrate at once; a session that ends between two files | callbacks run once after the outermost commit, never after a rollback; each migration once, batches in order |
| events (`events/src/events.ts`) | listeners, pending deliveries, a subscription | on, emit, broadcast, receive, idle | listeners added and removed while a delivery's loop runs; a broadcast that fails half-way | each listener runs once per event, idle waits for all |
| cache (`cache/src`) | entries with expiry, loads in flight | get, set, delete, remember | set and delete while a load is under way | one load at a time per key; no older value over a newer one |
| rate limit (`rate-limit/src`) | two counters per key | consume, sweep | window borders, clocks that run apart | never more than the limit in a window, within the estimate's error |
| storage (`storage/src/{local,memory,routes}.ts`) | content files and their sidecars | put, get, delete, list; signed URLs, ranges | a put is several file operations; readers and crashes in between | a file and its metadata belong together, a list leaves nothing out |
| sessions (`auth/src/sessions`) | sessions by token hash | login, strategy, end, endAll, purge | touch after an await writes back what was deleted | an ended session stays ended |
| credentials (`auth/src/{oidc,jwt,api-keys,csrf}.ts`) | the provider's keys, API keys | authenticate, refresh, revoke | keys that rotate while requests overlap; a key revoked while its use is written down | a revoked key is refused for good; the provider is asked at most once an interval |
| auth features (`auth/src/{compose,authenticate,features}.ts`) | none (pure) | orderFeatures, install | cycles, alternatives, what one feature adds for another | an order that respects every dependency; a bad token never makes a request anonymous |
| container (`di/src/container.ts`) | registrations, instances per scope | get, resolve, override, dispose | instances that outlive what they use; disposal beside resolution | one instance per scope, disposed once, users first |
| feature CLI (`cli/src/features`) | manifest, files, marker blocks | add, remove, sync, doctor, undo | a write that fails half-way, edits between plan and write, blocks that share a file | a command applies as a whole or not at all and overwrites no edit |
| redis client, validation, observability, react, generators, test kits, deployment | | | stateless, text or third-party | |

How they interact. The application calls `Queue.dispatch`, which calls the
adapter's `enqueue`; worker processes call `claim`, run handlers in a DI scope
and call `complete`; all they share is the adapter's table, so the adapter is
the only channel between processes. `startWorkerIn` starts a worker in a start
hook of `App` and stops it in the hook's cleanup, so the worker's `stop()` runs
inside the App's. The App drains requests, lets drain hooks run (`events.idle()`),
unsubscribes from pub/sub and then closes resources (database, Redis) in reverse
order of opening. `Database.afterCommit` defers dispatches and events to the
commit. The cache, the rate limiter, sessions and the Redis queue share the Redis
client. A request passes the App's middleware, the routing and the route's own
middleware to a handler; authentication is a middleware, a request's DI scope another.

## Modules and the code

`PROJECT.json` maps every definition to its lines. Names are the code's where TLA+
allows it; a definition called `FooXyz` next to `Foo` under a comment "Mutant"
is `Foo` with a plausible bug, kept to show that the properties notice it.

### The queue

**JobLifecycle**: what a job goes through, without queues: unborn, pending,
active with a number of tries, completed, dead, gone. It is the abstract
specification; an adapter and a pool of workers are both shown to implement it.

**JobTable**: the adapter's table as operators from a table to the next one,
translated from `memory.ts` (the adapter the tests treat as the model of the other
two). An adapter reads no clock, so every instant is an argument. Absent
timestamps are `NoTime`, absent locks `Nobody`. Ids stand for UUIDv7s, whose
order is the order of creation. A row is `gone` when it was deleted or refused as
a duplicate; a job is created once. Payload, queue, name and lastError are
abstracted: `Serves[w]` is the set of jobs in a worker's queues and of its names.

**QueueAdapter**: one action per call, any caller, any arguments: the contract
the worker relies on. `get`, `list`, `counts` and `stats` only read.

**RedisQueue**: the same table as `redis.ts` keeps it: a hash per job, a sorted set
of pending jobs per queue and name (scored by priority and runAt), of active,
completed and dead jobs per queue, a string per idempotency key and an index. A
sorted set is a function from ids to scores. One Lua script is one atomic step;
`enqueue` runs its script per job, so a batch is several steps. `Found`, `Candidates`
and `Chosen` are the three stages of CLAIM: cut per priority band, merge, cut. The
history `created` tells a job that was refused or deleted from one that was never
dispatched; with it, `Rows` is the table of `JobTable`, and the module is shown to
implement QueueAdapter. The `names` sets and the creation times are left out (only
`counts` and `list` read them), and so are publish and subscribe, which are the
worker's `Wake`.

**DatabaseQueue**: the same table as `database.ts` keeps it, in the application's own
database. One statement is one atomic step, so `enqueue` is `Insert` and, after a
conflict, `Select`; `requeueExpired` is `requeueDead` and `requeuePending`, with
anything in between, a crash of the caller (`SweepEnds`) included; every other call
is one statement. Dispatches come from outside of any transaction (`Alone`) or from one
of `Txs`, each of which commits or rolls back (as its process' death makes it).
`by` is where a job was dispatched and `conn` the connection its insert used: the
code makes them equal, and `JobsFollowTheirTransaction` is about what follows from
that. `Rows` is what everyone outside the open transactions sees, and the module is
shown to implement JobLifecycle through it. The unique index makes an insert wait
for a transaction that holds its key (`KeyInDoubt`); with `SingleWriter` (SQLite) every
write waits for a transaction that has written. Postgres' `for update skip locked`
lets two claims run at once on different rows, which is the same as one after the
other. Ids, keys and columns are those of JobTable.

**WorkerPool**: any number of `Worker` processes over one table and one clock.
The handlers are split at their awaits:

| code | actions |
|---|---|
| `loop()` | `ClaimCall` (computes the room, calls), `Full` / `RoomAgain` (`Promise.race` over the map of that moment), `ClaimReturn` / `ClaimFails`, `Wake` (end of `sleep`), `LoopExit` |
| `track`, `execute`, `failure` | `ClaimReturn` starts an execution per claimed job; `Succeed`, `Retry`, `GiveUp`, `Release` settle its handler; `Record` is the store applying `complete()`, `Return` its reply and the `finally` of `track`, `RecordFails` a call that never reaches the store |
| `renewLeases` on its timer | `RenewCall`, `RenewReturn`, `RenewFails` |
| `maintain` | `Maintain`: three calls with one instant, as one step; `Start` makes the first |
| `stop` | `Stop` (stops claiming, clears the timers, takes the snapshot of the jobs in flight), `Abort` (grace over or all done), `Stopped` |
| the process | `Exit` with the end of stop (`onSignal` exits), `Crash` |

`inFlight` is the `Map` keyed by job id and `runs` the promises themselves: the two
can differ, since a second claim of the same job by the same worker replaces the
first one's entry, and the `finally` of the first execution deletes the second one's. That
needs no fault: once the store has applied a `complete()` that asks for a retry, a worker with room
left may claim the job while it still awaits that reply. `replaced` remembers such jobs; it is history, like `claims`
(which numbers the claims of a job), `ended`, `faults` and `revivals`; no guard of the code's own steps reads them
but to number an execution. `stop()` wakes a loop that sleeps as it begins; one whose claim is
in flight then goes to sleep when the answer comes, and the clock may run on by `PollMax` before it wakes (`Asleep`, `LoopDue`).

**Cron** and **Schedules**: `cron.ts` as operators over a calendar whose sizes are
constants (`MINUTE`, `HourMinutes`, `DayHours`, `WeekDays`, `MonthDays`, ...), since the
code's own arithmetic uses theirs: `parseCron` of the items of five fields, the date of a
wall-clock time (`getMonth`, `getDate` and the others), the two offsets `fromWall` tries, and `next` as a recursive
function that walks month by month, day by day, hour by hour and minute by minute (`walkFrom` is one turn of the loop). `Slots` is the reference it is compared
with: the minutes whose own wall clock the expression names. A zone is an offset that changes once.
`Schedules` is `worker.schedule()` in several workers: `armed` computes the slot by the worker's
own clock and sets a timer, of at most the longest a timer may have; `FireTimer` begins the dispatch,
with the slot as idempotency key; `EnqueueSlot` is what the adapter does with it; `SlotAnswered` and
`DispatchFails` arm again. Clocks are set forward and back, timers come late, dispatches take time
and fail, workers crash, start late and stop; the jobs of slots are run and purged
beside it.

### The App

**AppLifecycle**: `listen`, `run` and `stop` of one `App`, split at their awaits,
with the requests and sockets they wait for. `starter` and `stopper` are where
the two asynchronous functions are. Resources are numbered in order of opening:
the first `Built` exist before the app starts and are closed by stop hooks, each
of the others is opened by a start hook and closed by the cleanup it returned.
`http`, `upgrading`, `sockets` and `leaving` count what `inFlight` and `sockets`
of the App count. Bun is external: after `server.stop()` it hands over no new
request, a socket closed by the app reports its close event when its peer has
answered, and `server.stop(true)` cuts every connection but no handler.

**Routes**: routers with their routes, middleware, mounts and revisions (`router.ts`), the trie
(`route-trie.ts`; a node is the pattern that leads to it, `find` the backtracking search as a recursive
function of the node, `visit` its one step) and the table App compiles when a request finds the revision changed, or fails to. `Wanted` says which route
is right without a trie.

**Requests**: one request, a frame per layer: `next()` called once, again or never, answers and
exceptions on the way in and out, `respond`, the error handler, and the framework's own layers (body
limit, security headers, CORS) with what they read of the request. `resolveClient` (which address a
client has behind proxies) and `checkUploads` are pure and compared with what they promise.

**Container**: `get()` as a stack of frames, one per nested resolution, with the scope each
one resolves in; `create` asks for its dependencies, may throw and records what it owns; overrides
and provided values; `dispose` awaits one instance at a time while other scopes go on. Instances are numbered
in order of creation.

**Sessions**: `SessionManager` over the database store (each call one statement) or the cache store
(`touch` is a find and, later, a set). Requests hold their token and what they read across
each await; logins rotate, `endAll` and the purge run beside them.

**Auth**: the OIDC strategy (`discover`, `refresh` with its interval, the key picked before the
verification is awaited), API keys (found, then their use written down), the claims and the key of a
JWT; and the pure composition: `orderFeatures`, `install`, `authenticate`, `csrf`,
`requirePermission`, `issue`. The recursion of `orderFeatures` is a function of the list still to
place, what is under way and what is placed (`Work`), `place` its one step. The provider is external: it rotates its keys and may fail to answer.
Signatures are right or wrong by a name.

### The data

**UnitOfWork**: what is deferred to a commit, of one process. A flow is a request with
a stack of open scopes, the outermost transaction and savepoints; per scope it
has the `afterCommit` array (`lists`, as the code keeps it) and, independently, the
rows written in it (`writes`, as the database keeps them). An item is a dispatch or an
emitted event (one with durable listeners is a dispatch each, then the event), or
any callback, and the rows it announces bear its name; so "announced only if
committed" compares the two. Scopes of one flow nest: a scope's work awaits the
savepoints it opens. Its branches are free otherwise: they register callbacks in
any open scope (`Register` with `n` below the depth) or when it has ended
(`RegisterLate`). Callbacks that throw, a commit whose reply is lost and a crash at any
point are in the model. `RunCallback` is one turn of `runAfterCommit`; `Deliver` starts
the listeners and does not wait, `ListenerEmits` lets them emit, and the App's stop waits
for the requests, then for `idle()`, then closes. The queue's adapter is one that
cannot join the transaction; one that can is DatabaseQueue.

**EventBus**: `on` and the functions it returns, local and durable listeners, `emit` (jobs first, then, after
the commit, the local ones) and `broadcast` over a transport to each `listen()` call, of which a bus may make several
(`Ears`: where an event reaches a bus from). A delivery is
the loop over the array of listeners as it is at each turn; the synchronous part of a listener
may register and remove others. An emit comes alone or in a transaction, with a bus that knows of it (`db`) or not, and with a queue
whose adapter enqueues in the transaction, one that defers the dispatch to the commit (`Defers`, `StoreDeferred`), or one that
does neither: `setup`. A deferred dispatch is no job yet, and its callback may throw (`lost`). Where `UnitOfWork` has fixed
listeners and nested scopes, this module has listeners that change and one scope, whose program awaits the emit in it.

**Migrator**: `migrate` and `rollback` of instances over one database, each an await a step:
the lock (Postgres' advisory lock on a connection reserved from a pool of limited size; SQLite has
none), the table, the listing, and one transaction per file with its row. Sessions end, replies get
lost, a file fails, older files come with a later deployment.

**Cache**: `KeyValueCache` over the LRU map or over Redis. `remember` is split into lookup, load, the
store's set and the `finally` that forgets the load; others wait for a load under way. A value is the version
of its source; `floor` and `older` are history: what a write that met no load made final, and whether someone
returned less.

**RateLimit**: `windowPosition`, `decide` and the counters of the memory store, with `sweep`, and of the Redis script,
for instances whose clocks differ. A memory store is one limiter's or shared: then `newest`, the largest index of
all counters in it, may come from windows of any length, down to a millisecond (`Newest`). Its clock may step
back (`StepBack`). Either way `RateSweep` may drop counters that still count; `forgotten` counts those that it did.
`admitted` logs every hit since the clock last stepped back and is what the properties count.

**Storage**: put, get, delete and list of the local storage, one file operation at a time (temp
file, sidecar, rename; stat, sidecar, body when it is asked for; unlink twice), and of the memory
storage; a step may fail and a process die between any two. Signed URLs and byte ranges are operators.

**FeatureCatalogue** and **FeaturePlan**: what the registered features require, exclude, create and
render, as tables; and the commands over them: `resolveAdd`, `resolveRemove`, the plan (a sequence of
changes, the manifest's last), confirmation, `apply` one write at a time, its journal played backwards after
a failure, a command cut off at any point, `planSync` and `diagnose`; and `generate` (a module with `--auth`, a job, a listener), which writes its
file and then applies a sync with what it recorded in the manifest's `extra` section. A file's content is who wrote it and the lines in it that
matter, named for the feature or generated thing they come from, so hashes compare contents. The developer edits files between commands and while a plan
waits: around a block, or in it, where lines go or one of his own or a blank one comes. `readBlock` joins the lines between the markers (`markers.ts:13`), so
it reads a block of one blank line as empty, while a replacement takes that line out.
The code's recursions (`place` in `order`, `include` in `resolveAdd`, the loop of `resolveRemove`) are functions of the list still
to go through and of what is there so far (`Placing`, `Including`), or of what goes (`cascaded`). What
the commands rely on is stated as four assumptions on the catalogue: its shape, no chain of requirements beyond three, features that share
a file exclude one another, contributions find an output; TLC evaluates them for the one there is.

### Composition

`MCQueueAdapter`, `MCRedisQueue` and `MCWorkerPool` give values to the constants of one module.
Five more host components that share nothing but a question: a variable `part` picks the one whose
steps a behaviour takes, and the others stay as they began, so the state space is the sum of the parts' and not their
product.

| module | parts |
|---|---|
| `MCAdapters` | the queue adapter, Sessions, RateLimit, Container, EventBus |
| `MCDatabaseQueue` | DatabaseQueue, Storage, Auth (bearer tokens), Auth (API keys) |
| `MCUnitOfWork` | UnitOfWork, FeaturePlan, Migrator |
| `MCApp` | AppLifecycle, Cache, Routes, Requests |
| `MCWorkers` | WorkerPool, Schedules |

Components that do interact are composed in one module: workers and their table in
WorkerPool, transactions, queue and events in UnitOfWork, transactions and table in
DatabaseQueue, sessions and their stores in Sessions.

**JobTableLemmas, QueueAdapterProofs, RedisQueueProofs,
WorkerPoolProofs, UnitOfWorkProofs, ServicesProofs, AppLifecycleProofs, FeaturePlanProofs**: see [Proofs](#proofs).

## Runs

| run | instance | shows |
|---|---|---|
| `adapter` | the queue: 3 jobs, 2 of them with one key, 2 workers, instants 0..1. Sessions: 2, used by 2 requests at a time, both stores. Limits: 2 hits in a window of 3; a memory store of its own, one shared with limiters of any windows, clocks that step back, one live counter dropped per window; Redis with 2 instances, whose clocks are up to a window apart. Container: 3 keys wired as a chain with a short cut or as a cycle, 5 ways of registering them, a request's scope. Events: 2 buses, 2 local and 2 durable listeners, 2 `listen()` calls, 3 calls of unsubscribe functions, 6 setups | any sequence of calls keeps `ColumnsAgree` and `OneJobPerKey` and implements `JobLifecycle`; `SessionsEnd` (an ended session stays ended, limits hold, the purge takes only the dead); `LimitsHold` (the limit in a window, and once more for each live counter a sweep drops, which a limiter's own store with a steady clock never does); `ScopesHold` (nothing outlives what it was given, one instance per scope, disposed once, users first); `BusHolds` (each listener once a delivery, none left out, jobs before local listeners, what is deferred shares its transaction's fate, a removal called again costs one other listener at most) |
| `redis` | 3 jobs in 2 queues, 2 of them with one key across the queues, 2 priorities, 2 workers of which one serves one queue, instants 0..1, claims of 1 or 2 | `StructuresAgree` (every sorted set, key and index says what the hashes say), `ClaimsFirstDue` (a claim takes exactly the jobs the contract names), refinement of `QueueAdapter` |
| `database` | the queue: 2 jobs with one key, 2 transactions, 1 worker, Postgres, instants 0..1. Storage: 2 clients, 2 keys, 3 operations, 1 error. Auth: 2 visitors at a time, one rotation of the provider's keys, one API key | a job follows its transaction, one row per key, columns and lifecycle between any two statements; `StorageHolds` (body and sidecar belong together unless operations overlapped, lists are complete, URLs expire when they should); `AuthHolds` (keys rotate, revoked stays revoked, tokens expire, the right key is picked, nobody slips in, features in order) |
| `pool_one_job` | 1 job with 2 tries, a worker with room for 2 that may stop or crash and one with room for 1 that starts late, a crash, a lost claim's reply or a lost outcome, one revival (without a fault or a stop), calls that take up to 1, polls up to 2 | `HoldsLease` (a running execution owns its job's last claim: no job runs twice at once), `MapIsExact` (an entry for every execution, but for jobs claimed again while a reply was awaited), `TriesLeft`, `StopIsPrompt`, `NothingLost`, refinement of `JobLifecycle` |
| `pool_batch` | 3 jobs, 2 of them with one key, a worker with room for 2, one fault of any kind but a crash, a failed renewal included, a revival, both retentions | `KeyRunsOnce`: with several executions and renewals at once, a second job with a key is stored only when the first is out of the way for its window |
| `pool_live` | 1 job, 2 workers of which one stays up, one fault of any kind; 2 workers with one schedule through a clock change, and 6 expressions in 11 zones from 49 instants | every stored job is finished, every stop ends; `SchedulesHold`: the next instant is the first that is due, a slot is stored once, and every slot is served while one worker is well |
| `unit_of_work` | 1 request, up to 3 nested or successive scopes, a job and two events; 2 commands over the whole catalogue and one generated module, with one edit and one fault; 2 instances, 3 migrations of which one fails, one has no way back and one comes early, 3 calls, one loss | `OnlyAfterCommit`, `InOrder` (once each, none left out), `ClosedQuietly`, `KeptRuns` and `IdleReturns` under fairness; `FeaturesHold` (what is installed fits, a failed command changes nothing, edits survive, a cut-off add can be run again, doctor and sync agree but for one blank line, what `generate` recorded stays); `MigrationsHold` (one at a time, batches in order, all applied, the last batch undone, nobody stuck) |
| `app_up_down` | 4 resources of which one fails to close, up to 3 requests and sockets, every step of listen may fail; a cache of 1 entry, 2 keys and 2 callers; 3 routers and 7 routes, 2 changes; 13 requests with 6 settings | `ClosedInOrder`, `ClosedExactlyOnce` (every resource that was opened, whatever failed), `ClosedAfterDrain`, `StopEnds`; `CacheCoherent`; `RoutesHold` (the trie finds the best route, requests meet the routers as they are); `RequestsHold` (nothing twice, full answers, nothing revealed, bodies within limits) |
| `pool_stale`, `pool_late_claim`, `app_early_stop`, `app_subscribe_fails` | the smallest instance that shows it | a disagreement, see below |

Type correctness of the adapters, WorkerPool, UnitOfWork, Sessions and AppLifecycle is a theorem and not part of a
run; that of Container, EventBus and RateLimit is part of their inductive invariants.

Bounds. `Horizon` stops the clock; in the safety runs it lies beyond a lease and a
second try, so that a job is claimed, loses its lease, is requeued, claimed again
and finished within it. In `pool_live` everything is settled before its clock
runs out: otherwise `JobsFinish` itself would fail, so liveness is not owed to the bound.
`MaxFaults` is 1: a fault's effects (a lost reply, a locked job nobody knows) end
with the next lease, and three in a row are what `pool_stale` is about.
`MaxRevivals` bounds dead jobs put back by hand; in `pool_one_job` a revival comes without a fault and without a stop (`MCRevivedAlone`). `MCAttempts` (in `MCQueueAdapter`, `MCRedisQueue`
and `MCDatabaseQueue`) cuts behaviours in which a caller claims and fails a job for ever. `MaxLoad`
bounds requests and sockets, `Lapses` the live counters of a visitor swept away in one window, `MaxOffs` how often an unsubscribe function is called
(`MCBounds`: three calls in all), `MaxOps`, `MaxVisits`, `MaxCalls`, `MaxChanges`, `MaxCommands`, `MaxEdits`,
`MaxRotations` and `MaxUpsets` (stops, crashes, set clocks and failed dispatches of Schedules)
the calls of their modules, `MaxErrors` and `MaxLosses` their faults, `Dawn`, `RateEnd`, `AuthEnd`, `CacheEnd` and `Dusk` their clocks.

The calendar of `pool_live` is scaled: minutes of 2 instants, hours of 2 minutes, days of 3
hours, weeks of 3 days, years of 2 months with a leap day every other year; a leap day, a
skipped hour, a repeated one and a change of zone at a month's end all lie within the 49 starts. `KeepMs`, the window of
a slot's key, is 4: exactly what a clock set by 2 (`Leap`, at most, once: `Spread`), a timer late by 1 and a dispatch that takes 1 need; with 3,
`OncePerSlot` fails.

Deadlock is not checked in runs of systems that really stop: when the clock has
reached its bound, or every job is gone and nothing is
awaited, or the app is stopped and idle, nobody has anything left to do. `adapter` uses symmetry
of the two session requests, which no property and no action tells apart.

## Time, faults and fairness

The workers of WorkerPool read one clock, and a step that is due is taken before the clock moves
on (`Tick` waits for it): a healthy event loop runs its timers. What a healthy
process does not do is a fault, an action of its own: `Crash`, a call that fails
before or after it took effect, a renewal that fails. A claim and a renewal carry
the instant read before the call and may be applied up to `RoundTrip` later.
What is said of an execution holds while its worker did not claim its job anew beside it (`replaced`); nothing renews the
lease of one that lost its entry. With that, `HoldsLease` needs the lease to cover a handler that is never renewed, or
the renewals that may fail in a row, one that succeeds, the way of a claim or renewal to
the store and back, and the time a job may still run after stop() cleared the renewal timer
(`LeaseSuffices` in WorkerPoolProofs, where it is proved that this is enough):

    Timeout + 2 * RoundTrip <= Lease    or
    (failed renewals + 1) * RenewEvery + 2 * RoundTrip + Grace <= Lease   and
    (failed renewals + 1) * RenewEvery + 2 * RoundTrip + PollMax <= Lease

The last inequality is about a stop that waits for the sleep of a loop whose claim was in flight: the jobs of that claim run meanwhile, and
nothing renews them.
The defaults (lease = min(longest timeout, 60 s) + 30 s, renewal at a third, grace
25 s) satisfy the first for handlers of up to a minute and calls of up to 15 s, and the second for
longer ones, with one failed renewal and calls of up to 2.5 s (a poll is at most 2 s). A `shutdownTimeout` beyond what is left of the
lease does not: `stop()` clears the timer (worker.ts:174) before it waits, and another worker may then
run the job while the first still does. In `pool_one_job` the lease is exactly long
enough by the second; one instant less and `HoldsLease` fails. In `pool_stale` three renewals fail and neither holds.

Fairness (`FairSpec` of WorkerPool): a process is scheduled, its timers fire, its
calls are answered, maintenance comes round, and a handler settles, at the latest
when its timeout or stop's abort is raced against it (`untilAborted`). Nothing
obliges anyone to dispatch, revive, start or stop. (`FairSpec` of AppLifecycle):
hooks settle and the drain's timer fires; handlers and peers owe nothing. (`FairSpec`
of UnitOfWork): a process that runs goes on with its callbacks, a listener ends, `idle()`
is scheduled; requests owe nothing. (`MCFairness` in MCApp): a caller of `remember()` whose await is over goes
on, and a load ends, with a value or an error; nobody has to call. The MC modules restate the fairness
of their modules for the part that moves. Of the other modules nothing is
claimed that needs fairness; `NobodyStuck` in Migrator says that whoever waits, waits for a call at work that
waits for nothing.

Clocks. Schedules, RateLimit and Auth give each process its own: the difference is a constant of the behaviour in RateLimit,
and a clock may be set in Schedules. Timers there are late by at most `Lag` and dispatches take at most `Takes`;
`EverySlotServed` counts from a worker's start as long as its clock is not set and no dispatch of its fails.
Sessions and Auth read the clock where the code does, before or after the await.

## Proofs

`QueueAdapterProofs` proves, for every set of jobs, workers, keys and instants
and for callers that make any calls with any arguments:

- `TypeCorrect`: `Spec => []TypeOK`
- `ColumnsCorrect`: `Spec => []ColumnsAgree`
- `KeysCorrect`: `Spec => []OneJobPerKey`
- `LifecycleCorrect`: `Spec => Lifecycle!Spec`, the refinement of `JobLifecycle`

`TypeOK` is not inductive (a release subtracts from `attempt`, which needs an
active job to have been tried) and neither is any of the others alone. The
inductive invariant is the conjunction of type, columns and keys. `JobTableLemmas`
shows for each operator of `JobTable` that it takes a good table to a good one
(rows of the right shape with agreeing columns), that it creates no second stored
job with one key, and that each row stays or moves along an edge of the lifecycle (and holds the
lemmas on recursion and induction that several modules need);
`QueueAdapterProofs` has one step per call and cites them. The assumptions are the
named `ASSUME`s of JobTable and QueueAdapter, which TLC evaluates in every run of theirs.

It also proves of Schedules, for any workers, timetables, zones, clocks, delays and number of upsets:

- `NextCorrect`: `NextIsFirst`
- `SchedulesCorrect`: `SchedulesSpec => []SchedulesHold`

`NextIsFirst` says what `next()` computes, on a calendar of any scale. The lemmas on quotients and multiples come first
(`Quotient`, `Multiples`), since no size of the calendar is a number the provers know; then the months of a day (`MonthHolds`,
`MonthKnown`). `Turns` is about one turn of the loop: it stops at the time it is at, or goes on past times none of which
is a hit, since those of one month, day or hour share what the expression was asked. `WalkFinds` is the
induction along the walk. In a zone near UTC `fromWall` then gives the first instant of a wall-clock time, if it has one
(`FirstFound`), later times give later instants (`FirstsOrdered`), and an instant that is no repetition
lies after the given one on the wall as well (`LaterOnTheWall`), where the walk looks for it. `ZonesAssumption` says that offsets are whole
minutes between half a day west and a day east of UTC (the world's are between -12 and +14 hours), and
`ExpressionsAssumption` that an expression names some minute well within the horizon, as `parseCron` throws for one that never does;
TLC evaluates both in `pool_live`.

`SchedulesCorrect` is about what the workers make of it. The
inductive invariant (`SchedulesInv`) has three parts. The clocks lie within a stretch (`Between`) that each jump widens by at
most `Leap`, whoever's clock jumps and however often it does so forth and back. A worker is at a slot no later than by the
clock furthest behind, a late timer and a slow dispatch (`OnTime`), and a slot's job is forgotten only when no clock can come to the
slot any more (`SlotOK`): both are about the stretch and no single clock, since the one that purges is not the one
that dispatches. And a punctual worker has seen to every slot up to the one it is armed for (`Punctual`), with nothing to miss while
it is at it (`Alone`). `OncePerSlot` asks that keys are kept at least as long as clocks, timers and dispatches can
be apart, `EverySlotServed` that slots lie further apart than a timer is late and a dispatch slow (`FarApart`); `MCFits` says that
both are so in `pool_live`. The assumptions are the types of the constants and that the instants `NextIsFirst` is
about include those of the behaviour.

`RedisQueueProofs` proves of RedisQueue, for any jobs, queues, names and workers:

- `TypeCorrect`: `Spec => []TypeOK`
- `StructuresCorrect`: `Spec => []StructuresAgree`

Its inductive invariant is type, agreement, and `Hashes`: the hashes form a good
table of `JobTable` and the pending ones are due at instants callers passed. The
parts need each other: a script reads one structure and writes the others
unseen (REQUEUE_EXPIRED takes ids from `active` and moves their hashes, PURGE deletes
hashes and keys of ids found in `finished`), so it is right only as long as they
agreed before. There is one step lemma per script.

Its second half proves what the scripts are for:

- `ClaimsCorrect`: `Spec => []ClaimsFirstDue`
- `AdapterCorrect`: `Spec => ImplementsAdapter`, the refinement of `QueueAdapter`,
  and through `LifecycleCorrect` of the lifecycle

The argument for a claim: the bands of two priorities do not overlap (`Bands`), so
the range CLAIM asks for in a band holds the due jobs of that priority and no others;
a job that is among the first `limit` of all is among the first of its own place and
band, so cutting twice picks what cutting once does (`CutTwice`, by induction along
the order of a finite set); and the order of scores is the contract's order by
priority, runAt and creation. That only finitely many jobs were created at any time
is an invariant of its own. The assumptions are `ScoresAssumption` (priorities 0 to 9
as documented, instants below the width of a band: 10^13 ms is the year 2286) and
claims of at least one job.

The second part of `FeaturePlanProofs` proves of DatabaseQueue, for either dialect and any transactions:

- `TypeCorrect`, `ColumnsCorrect`, `KeysCorrect` as above
- `DispatchCorrect`: `Spec => []JobsFollowTheirTransaction`
- `LifecycleCorrect`: `Spec => ImplementsLifecycle`

The inductive invariant adds two parts to the good table with different keys.
`Drafts`: a row that its transaction has not committed is as it was inserted, because
no statement of another connection reaches it; so a commit takes a job from unborn
to pending in one step, and a rollback from unborn to gone. `Holders`: the job a
duplicate was answered with is committed or of the same transaction; `KeyInDoubt` makes
it so. The statements of workers and maintenance are summed up as `Quiet` (the table
stays good, no row enters, rows out of reach stay) with one lemma each, and `QuietSound`
is proved once; half a requeueExpired is `Quiet` too (`PartRequeued`),
which is why an interrupted one does no harm.

`WorkerPoolProofs` proves of WorkerPool, for any jobs, workers, concurrency, faults and times:

- `TypeCorrect`: `Spec => []TypeOK`
- `LifecycleCorrect`: `Spec => ImplementsLifecycle`, the refinement of `JobLifecycle`
- `MapCorrect`: `Spec => []MapIsExact`
- `StopCorrect`: `Spec => []StopIsPrompt`
- `KeysCorrect`: `Spec => KeyRunsOnce`

and, under `LeaseSuffices`, the inequality of the section above,

- `LeaseCorrect`: `Spec => []HoldsLease`
- `TriesCorrect`: `Spec => []TriesLeft`
- `LostCorrect`: `Spec => NothingLost`
- `FreshCorrect`: what is recorded is recorded for the last claim, for jobs whose entry no claim replaced
  (`FreshUnlessReplaced`); and `Spec => StaleResultDiscarded`, which `pool_stale` violates with a shorter lease, if every worker has room for one

What the map knows (`MapInv`) is proved for any lease. An entry is of an execution that runs, and one that has no entry shares its job with
one whose entry was replaced (`Entries`). A worker with room for one claims with an empty map and so replaces nothing (`Alone`). A full one
waits for as many executions of different jobs as it has room for (`Crowd`), so that, unless as many jobs lost their entries, one of those it waits for
is among those `stop()` finds and aborts. That is what `StopIsPrompt` needs: a stop then ends within its grace and a call, or, if a claim was in flight
as it began, within a call and a poll sleep (`Nap`, `Winding`; `Left` is what remains of a stop that takes longer, by its own exception).

Nothing in the store ties an execution to its claim but the worker's name, so that no job runs twice is a matter of
time only, and so is its proof. `Times` holds whatever the lease is: a renewal, a claim, a stop and an execution
each stand within their bounds of the clock (a renewal timer fires at most a period from now, a draining
worker's clock has not passed its deadline, an answer is at most a round trip late). `LeaseInv` is about
executions that have their job to themselves (`Owns`: the outcome is not stored yet, no entry of the job was replaced). It says that each holds the job's last
claim (`Exact`), that the job is locked by its worker, at least
until the end of its timeout, or until the worker's next renewal and all the renewals that may still fail
(`AllLocked`; `Lost` counts those that failed), and that tries are counted (`TriesLeft`, `Retriable`). By `StillLocked` no
execution's lock has ended; by `RowsKept` maintenance and other workers' claims then pass its row by; and so the execution
keeps its claim. The two need each other, so they are proved together (`LeaseStep`, one lemma per action). TLC checked
the invariant in `pool_one_job`'s instance before it was proved.
`KeyRunsOnce` needs an invariant of its own (`Windows`: what was stored under a key before is out of the way for its window).

`UnitOfWorkProofs` proves of UnitOfWork, for any flows, items and depth of savepoints:

- `TypeCorrect`: `Spec => []TypeOK`
- `AnnouncedCorrect`: `Spec => []OnlyAfterCommit`
- `OrderCorrect`: `Spec => []InOrder`
- `QuietCorrect`: `Spec => []ClosedQuietly`

For the first two the inductive invariant is type and property with `ScopesMatch` (the stack of
`afterCommit` arrays and the database's stack of scopes have one height, and each
array holds items whose rows are written in that very scope) and `AfterKept` (what a
commit left to run is committed). Each end of a scope does the same to both stacks, so
an array and its rows share their fate.

For the other two it is joined by `OrderInv`. `Owned`: an item waits in one place only, in the hands of the flow that
registered it, and what waits has not run. `Lined`: read from the outermost scope inwards, the arrays of a flow hold its
callbacks in the order of registration, but for what a branch registered beside an open savepoint
(`aside`, which `InOrder` excepts); a savepoint's release appends its array to the one outside and keeps that order,
a rollback only takes away. `OpenFirst`: nothing registered after what an open scope holds has run. `Announcing`: what is
committed has run or is about to. `Idling`: scopes are open only while a request runs, and no request does once the
App closes, which with `Announcing` gives the quiet close.

It also proves of Migrator, for any instances, files, calls and losses, on Postgres and SQLite:

- `MigrationsCorrect`: `MigratorSpec => []MigrationsHold`

A guarded call is alone with the table (`InstanceOK`: who works has the lock), so what it read stays true. `Upwards`: what a
`migrate()` has still to apply is ascending, not in the table and behind all that is there, by batch or by name, so each row it
appends keeps the order. `Backwards`: what a `rollback()` has still to undo are the names at the end of the table, from
the last one, and in the rows it read the last batch begins exactly where it will stop. `Complete` holds unguarded, too, as long as nobody
rolls back: no name that was read goes away. That the rows by batch and name are the table rests on
there being one way only to put a set in order (`OneOrder`). `LockHasOwner`, an invariant of its own, says that
the lock outlives no call, however the call ended, and gives `NobodyStuck`. The assumption is that migrations are finitely many numbers. TLC
checked the invariant with 2 instances, 3 migrations and 4 calls (3.5 million states).

`ServicesProofs` holds the proofs of five services. Of Sessions, for any tokens, requests, limits and either store:

- `SessionsTypeCorrect`: `SessionsSpec => []SessionsTypeOK`
- `SessionsCorrect`: `SessionsSpec => SessionsEnd`, the action property that the `adapter` run checks

The inductive invariant ties what a handler holds across an await to the session it read it from. `Stored` and
`Held`: a record, stored or in a handler's hands, bears the expiry fixed at the login and was last seen no later
than its user was, so an old copy that is written back cannot extend a session. `Gone`: a session that is ended
and still stored ended inside a touch of the cache store. `Onward` says what every step leaves true of a
session that was given out (its login is fixed, its user is seen no earlier), and carries
the handlers that do not move. The assumptions are that limits are integers and "no session" is no record.

Of Container, for any keys, wirings, lifetimes, scopes and overrides:

- `ScopesCorrect`: `ContainerSpec => []ScopesHold`

A resolution is a stack of frames, and `Nested` is what makes it sound: each frame makes the only instance of its key
in its scope, frames below the top are in that scope or an inner one, and none has the key of another. `Usable` says
of whatever a frame was given that its home is the frame's scope or the root, and that it is in its home's list if
the container made it; `Holding` says it of what a scope holds, and `Kept` that who is to dispose an instance of a key that is kept
still holds one, so that no second one is made. `Placed`: each instance is in one list, in the order of
creation, and after `dispose()` in reverse. `Uses`: what an instance was given is older than it and not gone
as long as it is there. Together the last two give `UsersFirst`. The assumptions are the types of
`Lifetimes`, `Wirings` and `Replaced`. TLC checked the invariant with 3 keys, 2 scopes and 4 instances (6.5 million states).

Of EventBus, for any buses, listeners and events:

- `EventsCorrect`: `BusSpec => []BusHolds`

`deliver()` iterates over the listeners' array itself (`events.ts`), which `on` and the functions it returns change
meanwhile. `Looping` states what the index still means: what stands at it or behind was not called yet for
this event, and, unless a removal shifted the array, all before it were. `Listed` (no listener twice) and `Told` (what
ran, ran for a delivery, and each bus and each `listen()` call delivers an event once) carry it; `Dispatching` says the same of the
loop over the durable listeners, whose jobs are stored, wait for the commit or were reported as lost (`Done`), and `Fated` which of these is
possible while the transaction is open, committed or rolled back. `OthersStay` is inductive by itself: a removal that costs another listener is
a second call of a function, and each adds one to what it is compared with. The cases in which a listener may be skipped or another's be removed are those
the properties name. The assumption is that each registration and each `listen()` call names one bus and that registrations are either local or durable. TLC
checked the invariant in the instance of `adapter`.

Of RateLimit, for any visitors, instances, limits and windows, over a limiter's own memory store, a shared one and Redis:

- `LimitsCorrect`: `RateSpec => []LimitsHold`

The inductive invariant says what the counters are: of this window and the last, no less than the numbers of requests that were let through
(`MemoryCounts`), for after a step back a counter still has the windows ahead in it (`Covers`), but for what sweeps dropped: a
limit's worth each time, and nothing when only what the next visit would have dropped goes. That only a shared store or a clock that stepped
back makes a sweep drop more is `Steady`. In Redis they are exactly those numbers (`RedisExact`). A Redis
counter is kept for two windows after its last hit, and that is long enough for a reader whose clock is at most a
window behind the hitter's: at a window and a millisecond TLC finds one window with more than the limit, so
`WindowLimit` states the bound, and the run has clocks exactly that far apart. `Sliding` bounds what was
let through up to any reading by the estimate at that reading; with `Limited` it gives the bound of
`SlidingLimit`, since the previous window's share has fallen by no more than the elapsed part of the limit. Requests
are counted in a log (`Within`), so that sums are cardinalities, about which the library has theorems.

Of Storage, for any keys, clients and page size, and either store:

- `StorageCorrect`: `StorageSpec => []StorageHolds`

Each client's operation is sound by itself (`Sound`). `Relies` is what an operation that nobody disturbed may count on at
each of its steps: before the rename the sidecar is the put's, after the unlink the file is gone, a stat sees file and
sidecar agree. `Lists` says how far a list has come: what it listed, what it looks at and what it has before it follow each other,
and a key that was there throughout is among them or comes on a later page. An operation can take another's
ground away only on the same key, and then both are `dirty` and the key is `tangled`, which the properties
except. The assumptions are that keys are numbers (their order is all that is used) and finitely many, that "no
file" is no content, and that page size and clock unit are positive.

`AppLifecycleProofs` proves of AppLifecycle, for any resources, faulty hooks, failures and load:

- `TypeCorrect`: `Spec => []TypeOK`
- `ClosedCorrect`: `EarlyStop = FALSE => (Spec => []ClosedExactlyOnce)`
- `OrderCorrect`: `EarlyStop = FALSE => (Spec => ClosedInOrder)`
- `DrainCorrect`: `EarlyStop = FALSE => (Spec => ClosedAfterDrain)`

The assumption is that no `stop()` comes while `listen()` is under way; `app_early_stop` shows what
happens otherwise. The inductive invariant has a part for each phase of the app (`Phase`). While it comes
up and serves, what is open and what `cleanups` lists are the resources up to one that the starter's place names
(`Up`). While it goes down, the hooks left are exactly those from some resource downwards, and all above it are
closed or faulty (`Down`, `Going`): that is what makes each hook run once, in order and without a gap, whichever of
the three ways down is taken. `Drainage` relates the server to the stopper: connections come only
while it is open, so what the drain saw empty stays empty.

It also proves of Requests, for any requests, options, and limits:

- `RequestsCorrect`: `RequestsSpec => []RequestsHold`

A request has not come, goes in, goes out, or is over (`NotYet`, `GoesIn`, `GoesOut`, `IsOver`), and the layers entered are
those down to the innermost that ran (`EnteredTo`). `Carries` says what a response has at layer n when layer d was the
innermost: no header of a layer it has yet to pass, all those of the layers it passed, and the inside of an error only
with `exposeErrors`. An error or an answer of any layer starts out with nothing but a `csp` of the handler's own (`Bare`), so
whatever is thrown or replaced is dressed by all that is left of the way. `ClientIsReal` and `UploadsFit` are about
operators: for the chains and files they name, `resolveClient` yields the first hop that is not trusted (`Stranger`,
`Resolved`), and what is accepted was sniffed (`Sniffed`). The assumptions are the types of requests, options
and limits, and that no request is the absent one.

And of Cache, for any keys, callers, ttl and capacity, over either store:

- `CacheCorrect`: `CacheSpec => [](OneLoadPerKey /\ WritesLast /\ WithinCapacity)`, all of `CacheCoherent` but its liveness

The map of loads and the callers agree (`Known`), and that is what keeps `floor` from rising under a load: what a load read
was no older than the last write it did not meet (`Holds`), and stays so until it is stored or
returned. `Since` bounds where each call began, so a caller who waits for another's load is told nothing older than
his own beginning. The list stays a Map (`IsMap`), since every call leaves entries that were there, with at most the one it puts
at the end (`Leaves`, `LeavesWith`). The assumptions are that there is a key, that "nobody" is no caller and that capacity and ttl
are natural numbers. TLC checked the invariant with 3 callers (1.4 million states).

Of Routes, for any routers, routes, prefixes, requests and number of changes:

- `TrieFindsBest`: in any table `add()` accepts, the search answers any path with the right route (`RightRoute`)
- `RoutesCorrect`: `RoutesSpec => []RoutesHold`

Both recursions, the search down the trie and the collection of routes from the mounts, are recursive functions, and that
there is a function that fulfils such a definition is itself a lemma: `RecursionHolds`, for whatever looks only at
arguments of a lower rank. The rank of a node is how much of the path is left at it. By induction on it,
what is found beneath a node is the best of the accepted patterns that begin with the node and fit the rest of the path
(`Right`); a static segment beats a parameter and that a wildcard because their patterns part at that
segment. Mounts fall in some rank of the routers, since none is mounted below itself (`route` in the model leaves
circles out: `changed()` would not return from one), and that there is such a rank is part of `RoutesInv`. The invariant further says that the compiled table is the one of the
routers as they are whenever the Root's revision is the one it was compiled at. A change either raises that revision or concerns
a router no mount leads to from the Root, and then the collected routes are the same. `RoutesAssumption` says what
kinds of values the constants are.

Of Auth, for any visitors, keys, intervals and bounds:

- `AuthInvariant`: `AuthSpec => []AuthInv`
- `FeaturesPlaced`: any list of features that `orderFeatures` accepts is ordered as its comment promises
- `AuthCorrect`: `AuthSpec => []AuthHolds`

`BearerOK` says what a visit with a token may count on at each await: as long as its key is published, the provider publishes
it, the answer on its way has it, and the stored keys have it unless somebody else's answer was stored. `ApiKeyOK`: a visit
that presented a revoked key never gets past the lookup, because the table never loses a revocation, `touch` writing
one column only. `FeaturesPlaced` is again an induction over a recursive function, ranked by what is not under
way yet and how much of the list is left (`Burden`). `Adds` is what one placing keeps to: what was placed stays in
its place, everything listed comes in, what is under way does not, everything stands behind what it needs, and in front of the
k-th of the list comes only what the first k need, directly or further on. The properties of `AuthHolds` that
name lists of features follow from it for those lists (`NobodySlips`, `FeaturesDoOrder`), and those about tokens, keys and
permissions from lemmas for any token and key (`TokenLives`, `KeyChosen`). The assumptions are that `Junk` is no key and that the interval is a
natural number.

`FeaturePlanProofs` proves of FeaturePlan, for any catalogue that meets the four assumptions of FeatureCatalogue, any requests, any
paths the developer edits and any number of commands, edits and faults:

- `FeaturesCorrect`: `FeaturesSpec => []FeaturesHold`

The lemmas on the operators come first. A topological order places each feature once, after what it requires; what `resolveAdd` plans
meets its own requirements and those of what is installed, by induction on how far a feature is from those
that require nothing (`Height`) and on the list that is left; a removal that cascades leaves nothing unmet,
by induction on what still stands. So `planAdd`, `planRemove` and `planSync` each yield a plan (`PlanOf`): no change
touches what the developer wrote unless forced, an output is brought to what the features that will be installed make of it, every stale one is,
and the manifest's change is among them. `doctor` and `sync` compare differently, and `DoctorIsSync` shows that the comparisons agree up to one blank line in a
block where no line is due.

`FeaturesHold` is far from inductive: what is on disk in the midst of a command makes sense only beside the plan it is part of, and beside the
files as they were when the plan was made, which no variable keeps. So the invariant (`FeaturesInv`) says that there is such a plan, files
and set of features. While a plan waits, only touched files differ from those it was made of (`Waiting`); those `generate` applies its plan to are the ones
it was made of but for the manifest, which has less in its `extra` section (`Follows`). While it is written, what was
done of it is on disk and all else as it was confirmed (`Done`), and the first entry of the journal for a path
holds what was there at the confirmation (`Oldest`), for every path that differs (`Covered`). While it is undone, each file is as it was or as a change
of the plan made it (`Possible`), and if no entry failed the last entry left for a path is its old content (`Newest`): so an empty journal means
that nothing differs. As the manifest changes in one write, the installed features are those from before or those
of the plan at every point (`InstalledSoFar`), which is why a command that is cut off leaves features that go together;
and what an add had written when it was cut off is exactly what the next one adopts (`AcceptedAgain`).

Only model-checked: that jobs are finished, stops end, callbacks run and `idle()` returns. Liveness stays with TLC, since
fairness and ENABLED are out of the prover's reach.

## Where the code and its docs disagree

- `pool_stale`: `complete()` recognises a lease by state and worker id
  (`memory.ts:53`). After a lease lost to failed renewals, the same worker may claim
  the job again while its first execution still runs; the first result is then taken
  for the second claim, although `adapter.ts:89` says such a result is discarded.
- `pool_late_claim`: a claim in flight when `stop()` begins may return after the
  aborts. Its jobs are in neither snapshot of the in-flight map, so stop() resolves,
  the process exits and they stay locked until their lease ends (`worker.ts:170`
  says the ones still running are released).
- `app_early_stop`: `stop()` during `listen()` shuts down beside the running start
  hooks; `listen()` then goes on, sets the state back to `running` and leaves open
  what it opened, and a later `stop()` returns the old promise (`app.ts:218`).
- `app_subscribe_fails`: `pubsub.subscribe()` is outside the `try` of `listen()`, so
  its failure cleans nothing up (`app.ts:185` promises it).

More that the models show without a run of their own; where a property would not hold
because of one, its comment names the exception:

- A worker with room for more than one that claims a job again while it awaits the reply of the
  `complete()` that put it back (a retry without or with a short delay) loses the map entry of the second execution (`worker.ts:257`): `renewLeases` and
  `stop()` miss it, `active` and the room for claims do not count it, and when its lease ends it may run a second time (`MapIsExact`, `HoldsLease`).
- A claim in flight when `stop()` begins is followed by a full poll sleep that nothing cuts short, since `stop()`
  calls `wake` once, before (`worker.ts:173`, `worker.ts:239`): with a `shutdownTimeout` below the poll interval the stop takes longer than it (`StopIsPrompt`).
- An upgrade whose handler runs when `stop()` begins opens its socket after the open ones were
  closed (`app.ts:301` checks the state before the handler is awaited), and only the
  timeout ends that drain (`Upgraded` in AppLifecycle).
- A callback registered by a branch nobody awaited, after its transaction ended, goes to an array
  that is read no more, so that an event emitted without `await` may never be delivered
  (`RegisterLate` in UnitOfWork).
- `fromWall` (`cron.ts:154`) takes the offsets half a day around a wall-clock time read as UTC. In
  zones further from UTC than that both may be those of one side of a clock change: of a
  repeated hour the second is returned, and the times just before the change are skipped on that
  day. `NextIsFirst` asks for the first instant within half a day of UTC only.
- A slot's job is stored a second time if a worker comes to it later than the idempotency window
  (24 h) after it ran. Slots that lie closer together than a dispatch takes are skipped, as the
  next slot is computed when the dispatch is answered. Two schedules of one definition share the keys of common slots.
- A value loaded by `remember()` replaces what a `set` or `delete` stored while it was loaded
  (`cache.ts:74`); `WritesLast` is about writes that meet no load.
- The cache store of sessions brings a session back that was ended between the find and the set of a
  touch (`store.ts:118`); `EndedStaysEnded` names the case, and the database store has none.
- The answer of the App's own body limit (`app.ts:119`) has no security headers, since that layer
  is the outermost one (`Decorated`).
- After a refresh of the provider's keys that failed, tokens of unknown keys are refused without
  another one until the interval is over (`oidc.ts:65` sets the time before the fetch); of two answers
  that come in the wrong order the older keys stay (`KeysRotate`).
- Instances whose clocks, or whose calls' times to Redis, are more than a window apart do not share one limit: a
  counter expires two windows after its last hit (`stores.ts:93`), when the instance that is behind has not left its
  window (`WindowLimit` has the bound).
- A sweep of a memory store that limiters share compares the window numbers of all of them (`stores.ts:42`), so limiters with short windows make it drop
  live counters of those with long ones; a clock that stepped back makes it do the same. Each lets the limit through once more (`WindowLimit`, `SweepsSpare`).
- An unsubscribe function that is called twice removes the last listener of its event
  (`events.ts:171`, `indexOf` is -1; of a durable listener, whoever has the name by then), and one removed during a delivery makes that delivery's loop skip the next one
  (`OthersStay`, `EveryoneHears`). A bus that listens twice hears each broadcast twice (`OnceEach`).
- A dispatch to a durable listener that was deferred to the commit and whose callback throws is lost, and
  the local listeners of the event run all the same; a bus without `db` runs them before the commit (`JobsComeFirst`).
- A blank line in a block where no line is due is nothing to `doctor` (`markers.ts:15` joins the lines to ""), while `sync` takes
  it out (`DoctorKnows`).
- A put and a delete of one key that overlap, or a put that is cut off, leave a file with the sidecar of another
  (`local.ts:71`) until the next undisturbed operation (`Paired`).
- With SQLite nothing serialises migrations: the loser of a race fails, but nothing is applied
  twice. With a pool of one connection Postgres' lock holds the only one and the work waits for ever
  (`NobodyStuck` excludes it).

## Not modelled

Reading calls of the adapters, logging, metrics, payload validation and encoding; a worker's maintenance as the three calls
it is (they are one step, with nothing in between; the adapters' modules have them apart); unsubscribing from wake-ups in `stop()`
(`worker.ts:185`, one more await);
the DI scope of an execution (`scope.dispose()` is not raced with the abort: a
dispose that never returns keeps stop() waiting, which the model leaves out); wake-ups
from the store that arrive while no `sleep` is under way (the poll timer finds the job
later, and the model lets the loop wake at any time at which it would find one);
readiness checks and publish; `worker.start()` called twice before it is running; requests handed to the App by its own `fetch()`, which
works in any state (in AppLifecycle requests arrive while the server is open); a drain that times out while requests are active and closes the events
under them (in UnitOfWork the App closes when the requests have ended, so its properties say nothing of that case).

Of requests: several at a time through one App (the layers share no state; what they wait
for together is AppLifecycle), a body read by a middleware rather than the handler, a middleware that calls `next()` a second time while the first call is
under way, static files, health endpoints, configuration, the parsing of headers. Of the storage: S3, scopes, symbolic
links and streaming. Of authentication: passwords, hashes and signatures, the browser login
flow. Of the CLI: the text of templates, formatting, generators of events and middleware, which record nothing in the manifest, and the shared files a module
brings; what a generated thing writes is one file, written whole. Of cron: refusals of malformed expressions and zones
whose offset changes more often than once in the window that is searched.

Whole packages that are left out, with the reason, are listed under `components` in
`PROJECT.json`: they keep no state (validation, react, generators, instrumentation), forward
to a library (the Redis client), or are fakes and scripts.

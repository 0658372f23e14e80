----------------------------- MODULE RedisQueue -----------------------------
(***************************************************************************)
(* The table of jobs as RedisQueueAdapter keeps it (packages/queue/src/    *)
(* redis.ts): a hash per job, sorted sets that say which jobs wait, run or *)
(* are finished, a string per idempotency key, an index of ids.            *)
(*                                                                         *)
(* Every call is one Lua script and so one atomic step, except enqueue,    *)
(* which runs its script once per job of the batch.                        *)
(*                                                                         *)
(* A sorted set is a function from all ids to their scores, NoScore for an *)
(* id that is no member; a hash that does not exist is NoRow("gone").      *)
(***************************************************************************)
EXTENDS JobTable

CONSTANTS
  Queues, Names,        \* of queues, of jobs
  QueueOf, NameOf,      \* [Ids -> Queues], [Ids -> Names]
  QueuesOf, NamesOf,    \* what each worker asks for
  TopPriority,          \* priorities are 0 .. TopPriority: 9
  Band,                 \* the width of a priority's range of scores: 1e13
  Times,                \* instants callers may pass
  Limits                \* claim sizes callers may ask for

ASSUME PlacesAssumption == QueueOf \in [Ids -> Queues] /\ NameOf \in [Ids -> Names]
ASSUME AskedAssumption ==
  /\ QueuesOf \in [Workers -> SUBSET Queues]
  /\ NamesOf \in [Workers -> SUBSET Names]
  /\ Serves = [w \in Workers |-> {j \in Ids : QueueOf[j] \in QueuesOf[w] /\ NameOf[j] \in NamesOf[w]}]
ASSUME ScoresAssumption ==
  /\ TopPriority \in Nat /\ Band \in Nat
  /\ Priority \in [Ids -> 0 .. TopPriority]
  /\ Times \subseteq 0 .. Band - 1 /\ Times # {}
ASSUME LimitsAssumption == Limits \subseteq Nat \ {0}

VARIABLES
  hash,       \* [Ids -> the fields of job:<id>]
  pending,    \* [Queues \X Names -> sorted set by priority and runAt]
  active,     \* [Queues -> sorted set by lockedUntil]
  finished,   \* [Finished -> [Queues -> sorted set by finishedAt]]
  idem,       \* [Keys -> the job holding the key, or NoJob]
  index,      \* the ids of all jobs
  queues,     \* the queues that were ever used
  created     \* history: ids passed to enqueue

structures == <<pending, active, finished, idem, index, queues>>
vars == <<hash, structures, created>>

NoScore == -1
NoJob == -1
Score == Nat \cup {NoScore}
ZSet == [Ids -> Score]

\* ZADD and ZREM of several members, ZRANGEBYSCORE.
ZAdd(z, S, scores) == [j \in Ids |-> IF j \in S THEN scores[j] ELSE z[j]]
ZRem(z, S) == [j \in Ids |-> IF j \in S THEN NoScore ELSE z[j]]
InRange(z, low, high) == {j \in Ids : z[j] # NoScore /\ low <= z[j] /\ z[j] <= high}
Below(z, bound) == {j \in Ids : z[j] # NoScore /\ z[j] < bound}

Place(j) == <<QueueOf[j], NameOf[j]>>
Places == Queues \X Names
score(j, runAt) == (TopPriority - Priority[j]) * Band + runAt

\* Adds the jobs of S to the pending sets they belong to, as due at `at`.
Waiting(S, at) ==
  [k \in Places |-> ZAdd(pending[k], {j \in S : Place(j) = k}, [j \in Ids |-> score(j, at)])]

Init ==
  /\ hash = [j \in Ids |-> NoRow("gone")]
  /\ pending = [k \in Places |-> [j \in Ids |-> NoScore]]
  /\ active = [q \in Queues |-> [j \in Ids |-> NoScore]]
  /\ finished = [s \in Finished |-> [q \in Queues |-> [j \in Ids |-> NoScore]]]
  /\ idem = [key \in Keys |-> NoJob]
  /\ index = {} /\ queues = {} /\ created = {}

-----------------------------------------------------------------------------
\* ENQUEUE, for one job.

Taken(j) == KeyOf[j] # NoKey /\ idem[KeyOf[j]] # NoJob

enqueueDuplicate(j) ==
  /\ j \notin created /\ Taken(j)
  /\ created' = created \cup {j}
  /\ UNCHANGED <<hash, structures>>

enqueue(j, runAt) ==
  /\ j \notin created /\ ~Taken(j)
  /\ created' = created \cup {j}
  /\ hash' = [hash EXCEPT ![j] = NewRow(runAt)]
  /\ idem' = [key \in Keys |-> IF key = KeyOf[j] THEN j ELSE idem[key]]
  /\ queues' = queues \cup {QueueOf[j]}
  /\ pending' = Waiting({j}, runAt)
  /\ index' = index \cup {j}
  /\ UNCHANGED <<active, finished>>

-----------------------------------------------------------------------------
\* CLAIM: a candidate is a place and an id found there.  Each place gives up to `limit`
\* candidates per priority band; of all, the first `limit` are claimed.

Found(k, now, limit) ==
  UNION {LET band == InRange(pending[k], b * Band, b * Band + now)
         IN {j \in band : Cardinality({i \in band : \/ pending[k][i] < pending[k][j]
                                                    \/ pending[k][i] = pending[k][j] /\ i < j}) < limit}
         : b \in 0 .. TopPriority}

Candidates(w, now, limit) ==
  {c \in (QueuesOf[w] \X NamesOf[w]) \X Ids : c[2] \in Found(c[1], now, limit)}

\* Mutant: the oldest job first, whatever its priority.
SoonerById(c, d) == c[2] < d[2]

Sooner(c, d) == LET c1 == pending[c[1]][c[2]] d1 == pending[d[1]][d[2]]
                IN c1 < d1 \/ (c1 = d1 /\ c[2] < d[2])

\* Mutant: the candidates are not cut to the limit.
ChosenAll(w, now, limit) == Candidates(w, now, limit)

Chosen(w, now, limit) ==
  LET all == Candidates(w, now, limit)
  IN {c \in all : Cardinality({d \in all : Sooner(d, c)}) < limit}

ClaimAll(w, C, until) ==
  LET S == {c[2] : c \in C}
  IN /\ hash' = [j \in Ids |-> IF j \in S
                               THEN [hash[j] EXCEPT !.state = "active", !.attempt = @ + 1,
                                                    !.lockedBy = w, !.lockedUntil = until]
                               ELSE hash[j]]
     /\ pending' = [k \in Places |-> ZRem(pending[k], {j \in Ids : <<k, j>> \in C})]
     /\ active' = [q \in Queues |->
                     ZAdd(active[q], {j \in Ids : \E c \in C : c[2] = j /\ c[1][1] = q},
                          [j \in Ids |-> until])]
     /\ UNCHANGED <<finished, idem, index, queues, created>>

claim(w, now, limit, until) == ClaimAll(w, Chosen(w, now, limit), until)

-----------------------------------------------------------------------------
\* RENEW and COMPLETE.

\* Mutant: the sorted set keeps the old end of the lease.
renewHashOnly(w, S, until) ==
  /\ hash' = [j \in Ids |-> IF j \in S /\ Holds(hash, w, j)
                            THEN [hash[j] EXCEPT !.lockedUntil = until] ELSE hash[j]]
  /\ UNCHANGED <<structures, created>>

renew(w, S, until) ==
  LET held == {j \in S : Holds(hash, w, j)}
  IN /\ hash' = [j \in Ids |-> IF j \in held
                               THEN [hash[j] EXCEPT !.lockedUntil = until] ELSE hash[j]]
     /\ active' = [q \in Queues |-> ZAdd(active[q], {j \in held : QueueOf[j] = q},
                                         [j \in Ids |-> until])]
     /\ UNCHANGED <<pending, finished, idem, index, queues, created>>

Released(j) == active' = [active EXCEPT ![QueueOf[j]] = ZRem(@, {j})]
Wrote(j, row) == hash' = [hash EXCEPT ![j] = row]
Shelved(j, state, at) ==
  finished' = [finished EXCEPT ![state][QueueOf[j]] = ZAdd(@, {j}, [i \in Ids |-> at])]
NoHash(S) == [j \in Ids |-> IF j \in S THEN NoRow("gone") ELSE hash[j]]
FreeKeys(S) == [key \in Keys |-> IF \E j \in S : KeyOf[j] = key THEN NoJob ELSE idem[key]]

completeKept(w, j, at) ==
  /\ Holds(hash, w, j)
  /\ Released(j)
  /\ Wrote(j, [Unlocked(hash[j]) EXCEPT !.state = "completed", !.finishedAt = at])
  /\ Shelved(j, "completed", at)
  /\ UNCHANGED <<pending, idem, index, queues, created>>

completeDeleted(w, j) ==
  /\ Holds(hash, w, j)
  /\ Released(j)
  /\ hash' = NoHash({j})
  /\ index' = index \ {j}
  /\ idem' = FreeKeys({j})
  /\ UNCHANGED <<pending, finished, queues, created>>

completeRetry(w, j, runAt) ==
  /\ Holds(hash, w, j)
  /\ Released(j)
  /\ Wrote(j, [Unlocked(hash[j]) EXCEPT !.state = "pending", !.runAt = runAt])
  /\ pending' = Waiting({j}, runAt)
  /\ UNCHANGED <<finished, idem, index, queues, created>>

completeDead(w, j, at) ==
  /\ Holds(hash, w, j)
  /\ Released(j)
  /\ Wrote(j, [Unlocked(hash[j]) EXCEPT !.state = "dead", !.finishedAt = at])
  /\ Shelved(j, "dead", at)
  /\ UNCHANGED <<pending, idem, index, queues, created>>

completeReleased(w, j, at) ==
  /\ Holds(hash, w, j)
  /\ Released(j)
  /\ Wrote(j, [Unlocked(hash[j]) EXCEPT !.state = "pending", !.runAt = at, !.attempt = @ - 1])
  /\ pending' = Waiting({j}, at)
  /\ UNCHANGED <<finished, idem, index, queues, created>>

-----------------------------------------------------------------------------
\* REQUEUE_EXPIRED, RETRY and PURGE.

requeueExpired(now) ==
  LET late == {j \in Ids : \E q \in queues : j \in Below(active[q], now)}
      out  == {j \in late : hash[j].attempt >= MaxAttempts[j]}
  IN /\ hash' = [j \in Ids |->
                   CASE j \in out        -> [Unlocked(hash[j]) EXCEPT !.state = "dead", !.finishedAt = now]
                     [] j \in late \ out -> [Unlocked(hash[j]) EXCEPT !.state = "pending", !.runAt = now]
                     [] OTHER            -> hash[j]]
     /\ active' = [q \in Queues |-> IF q \in queues THEN ZRem(active[q], Below(active[q], now))
                                                    ELSE active[q]]
     /\ finished' = [finished EXCEPT !["dead"] =
                       [q \in Queues |-> ZAdd(@[q], {j \in out : QueueOf[j] = q}, [j \in Ids |-> now])]]
     /\ pending' = Waiting(late \ out, now)
     /\ UNCHANGED <<idem, index, queues, created>>

retry(S, now) ==
  LET dead == {j \in S : hash[j].state = "dead"}
  IN /\ hash' = [j \in Ids |-> IF j \in dead
                               THEN [hash[j] EXCEPT !.state = "pending", !.attempt = 0,
                                                    !.runAt = now, !.finishedAt = NoTime]
                               ELSE hash[j]]
     /\ finished' = [finished EXCEPT !["dead"] =
                       [q \in Queues |-> ZRem(@[q], {j \in dead : QueueOf[j] = q})]]
     /\ pending' = Waiting(dead, now)
     /\ UNCHANGED <<active, idem, index, queues, created>>

purge(state, before) ==
  LET old == {j \in Ids : \E q \in queues : j \in Below(finished[state][q], before)}
  IN /\ hash' = NoHash(old)
     /\ idem' = FreeKeys(old)
     /\ index' = index \ old
     /\ finished' = [finished EXCEPT ![state] =
                       [q \in Queues |-> IF q \in queues THEN ZRem(@[q], Below(@[q], before)) ELSE @[q]]]
     /\ UNCHANGED <<pending, active, queues, created>>

-----------------------------------------------------------------------------
Complete(w, j) ==
  \/ KeyOf[j] = NoKey /\ completeDeleted(w, j)
  \/ \E at \in Times : \/ KeyOf[j] # NoKey /\ completeKept(w, j, at)
                       \/ completeRetry(w, j, at)
                       \/ completeDead(w, j, at)
                       \/ completeReleased(w, j, at)

Next ==
  \/ \E j \in Ids : enqueueDuplicate(j) \/ \E runAt \in Times : enqueue(j, runAt)
  \/ \E w \in Workers, now, until \in Times, limit \in Limits : claim(w, now, limit, until)
  \/ \E w \in Workers, S \in SUBSET Ids, until \in Times : renew(w, S, until)
  \/ \E w \in Workers, j \in Ids : Complete(w, j)
  \/ \E now \in Times : requeueExpired(now)
  \/ \E S \in SUBSET Ids, now \in Times : retry(S, now)
  \/ \E state \in Finished, before \in Times : purge(state, before)

Spec == Init /\ [][Next]_vars

-----------------------------------------------------------------------------
\* Properties.

\* Every key holds a value of its Redis type.
TypeOK ==
  /\ hash \in [Ids -> Row]
  /\ pending \in [Places -> ZSet]
  /\ active \in [Queues -> ZSet]
  /\ finished \in [Finished -> [Queues -> ZSet]]
  /\ idem \in [Keys -> Ids \cup {NoJob}]
  /\ index \subseteq Ids
  /\ queues \subseteq Queues
  /\ created \subseteq Ids

Exists(j) == hash[j].state \in Stored

PendingAgrees ==
  \A k \in Places, j \in Ids :
    pending[k][j] = IF hash[j].state = "pending" /\ k = Place(j)
                    THEN score(j, hash[j].runAt) ELSE NoScore
ActiveAgrees ==
  \A q \in Queues, j \in Ids :
    active[q][j] = IF hash[j].state = "active" /\ q = QueueOf[j]
                   THEN hash[j].lockedUntil ELSE NoScore
FinishedAgrees ==
  \A s \in Finished, q \in Queues, j \in Ids :
    finished[s][q][j] = IF hash[j].state = s /\ q = QueueOf[j]
                        THEN hash[j].finishedAt ELSE NoScore
KeysAgree ==
  \A key \in Keys, j \in Ids : idem[key] = j <=> Exists(j) /\ KeyOf[j] = key
IndexAgrees ==
  /\ index = {j \in Ids : Exists(j)}
  /\ \A j \in index : QueueOf[j] \in queues /\ j \in created

\* Every structure says of a job what its hash says: it is in exactly the sorted set
\* of its state, with the score of its time; its key names it, and no key names a
\* job that is gone; the index lists it.  A script that forgets one of them leaves a
\* job that is never claimed, never requeued or never purged, or a key that is
\* taken for ever (redis.ts, the scripts).
StructuresAgree ==
  /\ PendingAgrees /\ ActiveAgrees /\ FinishedAgrees
  /\ KeysAgree /\ IndexAgrees

Rows == [j \in Ids |-> IF j \in created THEN hash[j] ELSE NoRow("unborn")]

\* CLAIM's cuts per place and band and its merge by score pick, in every state, the
\* very jobs the contract names: the first `limit` due ones of all, by priority, runAt
\* and creation (redis.ts, CLAIM).
ClaimsFirstDue ==
  \A w \in Workers, now \in Times, limit \in Limits :
    {c[2] : c \in Chosen(w, now, limit)} = Claimable(Rows, w, now, limit)

\* The Redis adapter keeps the contract of the memory adapter: each script does what
\* some call of the contract does, so it claims, finds duplicates, requeues and
\* purges as the contract says.
Adapter == INSTANCE QueueAdapter WITH jobs <- Rows
ImplementsAdapter == Adapter!Spec
=============================================================================

--------------------------- MODULE JobTableLemmas ---------------------------
(***************************************************************************)
(* What the operations of the job table preserve, for every table and      *)
(* every argument: the rows' types and the agreement of their columns, one *)
(* job per key, and the edges of the lifecycle.  The specifications that   *)
(* use the table (QueueAdapter, WorkerPool) cite these lemmas.  At the end *)
(* are those on recursion and induction that several proofs need.          *)
(***************************************************************************)
EXTENDS JobTable, WellFoundedInduction, TLAPS

\* The columns of one row agree with its state.
Agrees(row) ==
  /\ (row.state = "active") <=> (row.lockedBy \in Workers)
  /\ (row.state = "active") <=> (row.lockedUntil # NoTime)
  /\ (row.state \in Finished) <=> (row.finishedAt # NoTime)
  /\ row.state = "active" => row.attempt >= 1

Good(row) == row \in Row /\ Agrees(row)
GoodTable(js) == js \in [Ids -> Row] /\ \A j \in Ids : Agrees(js[j])

KeysDiffer(js) == \A i, j \in InStore(js) : SameKey(i, j) => i = j

\* The lifecycle's edges do not depend on its variable.
Life == INSTANCE JobLifecycle WITH life <- 0

Moves(js, ks) == \A j \in Ids : LifeOf(ks[j]) = LifeOf(js[j]) \/ Life!Edge(LifeOf(js[j]), LifeOf(ks[j]))

-----------------------------------------------------------------------------
\* Rows that are made anew, and rows that are unlocked.

LEMMA NewRows ==
  ASSUME NEW t \in Nat
  PROVE  Good(NoRow("unborn")) /\ Good(NoRow("gone")) /\ Good(NewRow(t))
BY NobodyAssumption DEF Good, Agrees, Row, NoRow, NewRow, NoTime, Stored, Finished

LEMMA UnlockedRow ==
  ASSUME NEW row \in Row
  PROVE  /\ Unlocked(row) \in Row
         /\ Unlocked(row).state = row.state
         /\ Unlocked(row).attempt = row.attempt
         /\ Unlocked(row).lockedBy = Nobody
         /\ Unlocked(row).lockedUntil = NoTime
         /\ Unlocked(row).finishedAt = row.finishedAt
BY DEF Row, Unlocked

\* A row without a lock agrees with itself when only finished states have a
\* finish time.
LEMMA IdleRow ==
  ASSUME NEW row \in Row, row.state # "active", row.lockedBy = Nobody, row.lockedUntil = NoTime,
         (row.state \in Finished) <=> (row.finishedAt # NoTime)
  PROVE  Good(row)
BY NobodyAssumption DEF Good, Agrees

LEMMA PendingRow ==
  ASSUME NEW row \in Row, row.lockedBy = Nobody, row.lockedUntil = NoTime, row.finishedAt = NoTime,
         NEW t \in Nat, NEW n \in Nat
  PROVE  /\ Good([row EXCEPT !.state = "pending", !.runAt = t])
         /\ Good([row EXCEPT !.state = "pending", !.runAt = t, !.attempt = n])
<1> DEFINE a == [row EXCEPT !.state = "pending", !.runAt = t]
           b == [row EXCEPT !.state = "pending", !.runAt = t, !.attempt = n]
<1>1. a \in Row /\ a.state = "pending" /\ a.lockedBy = Nobody /\ a.lockedUntil = NoTime /\ a.finishedAt = NoTime
  BY DEF Row, Stored
<1>2. b \in Row /\ b.state = "pending" /\ b.lockedBy = Nobody /\ b.lockedUntil = NoTime /\ b.finishedAt = NoTime
  BY DEF Row, Stored
<1>3. "pending" \notin Finished /\ "pending" # "active"
  BY DEF Finished
<1> HIDE DEF a, b
<1>4. Good(a) /\ Good(b)
  BY <1>1, <1>2, <1>3, IdleRow
<1>5. QED
  BY <1>4 DEF a, b

LEMMA FinishedRow ==
  ASSUME NEW row \in Row, row.lockedBy = Nobody, row.lockedUntil = NoTime,
         NEW state \in Finished, NEW t \in Nat
  PROVE  Good([row EXCEPT !.state = state, !.finishedAt = t])
<1> DEFINE a == [row EXCEPT !.state = state, !.finishedAt = t]
<1>1. a \in Row /\ a.state = state /\ a.lockedBy = Nobody /\ a.lockedUntil = NoTime /\ a.finishedAt = t
  BY DEF Row, Stored, Finished
<1>2. t # NoTime /\ state # "active"
  BY DEF NoTime, Finished
<1> HIDE DEF a
<1>3. Good(a)
  BY <1>1, <1>2, IdleRow
<1>4. QED
  BY <1>3 DEF a

\* A row that leaves the active state through any outcome is good.
LEMMA OutcomeRow ==
  ASSUME NEW row, Good(row), row.state = "active", NEW keep \in BOOLEAN,
         NEW outcome \in Outcomes, NEW at \in Nat, NEW runAt \in Nat
  PROVE  Good(Outcome(row, keep, outcome, at, runAt))
<1> DEFINE u == Unlocked(row)
<1>1. row \in Row /\ row.finishedAt = NoTime /\ row.attempt \in Nat /\ row.attempt >= 1
  BY DEF Good, Agrees, Row, Finished
<1>2. u \in Row /\ u.attempt = row.attempt /\ u.lockedBy = Nobody /\ u.lockedUntil = NoTime /\ u.finishedAt = NoTime
  BY <1>1, UnlockedRow
<1>3. u.attempt - 1 \in Nat
  BY <1>1, <1>2
<1> HIDE DEF u
<1>4. Good([u EXCEPT !.state = "completed", !.finishedAt = at])
  BY <1>2, FinishedRow DEF Finished
<1>5. Good([u EXCEPT !.state = "dead", !.finishedAt = at])
  BY <1>2, FinishedRow DEF Finished
<1>6. Good([u EXCEPT !.state = "pending", !.runAt = runAt])
  BY <1>2, PendingRow
<1>7. Good([u EXCEPT !.state = "pending", !.runAt = at, !.attempt = u.attempt - 1])
  BY <1>2, <1>3, PendingRow
<1>8. QED
  BY <1>4, <1>5, <1>6, <1>7, NewRows DEF Outcomes, Outcome, u

-----------------------------------------------------------------------------
\* Every operation keeps a good table good.



LEMMA InitGood == GoodTable([j \in Ids |-> NoRow("unborn")])
<1>1. 0 \in Nat
  OBVIOUS
<1>2. QED
  BY <1>1, NewRows DEF GoodTable, Good

LEMMA EnqueuedGood ==
  ASSUME NEW js, GoodTable(js), NEW batch, NEW t \in Nat
  PROVE  GoodTable(Enqueued(js, batch, t))
BY NewRows DEF GoodTable, Good, Enqueued

LEMMA ClaimedRow ==
  ASSUME NEW row \in Row, row.state = "pending", Agrees(row), NEW w \in Workers, NEW until \in Nat
  PROVE  Good([row EXCEPT !.state = "active", !.attempt = @ + 1,
                          !.lockedBy = w, !.lockedUntil = until])
<1> DEFINE a == [row EXCEPT !.state = "active", !.attempt = @ + 1,
                            !.lockedBy = w, !.lockedUntil = until]
<1>1. row.attempt \in Nat /\ row.attempt + 1 \in Nat /\ row.attempt + 1 >= 1 /\ row.finishedAt = NoTime
  BY DEF Row, Agrees, Finished
<1>2. /\ a \in Row /\ a.state = "active" /\ a.attempt = row.attempt + 1
      /\ a.lockedBy = w /\ a.lockedUntil = until /\ a.finishedAt = NoTime
  BY <1>1 DEF Row, Stored
<1>3. until # NoTime /\ "active" \notin Finished
  BY DEF NoTime, Finished
<1> HIDE DEF a
<1>4. Good(a)
  BY <1>1, <1>2, <1>3 DEF Good, Agrees
<1>5. QED
  BY <1>4 DEF a

LEMMA ClaimableDue ==
  ASSUME NEW js, NEW w \in Workers, NEW now, NEW limit
  PROVE  /\ Claimable(js, w, now, limit) \subseteq Ids
         /\ \A j \in Claimable(js, w, now, limit) : js[j].state = "pending"
BY ServesAssumption DEF Claimable, Due

LEMMA ClaimedGood ==
  ASSUME NEW js, GoodTable(js), NEW w \in Workers, NEW until \in Nat,
         NEW S, \A j \in S : js[j].state = "pending"
  PROVE  GoodTable(Claimed(js, w, S, until))
BY ClaimedRow DEF GoodTable, Good, Claimed

LEMMA RenewedRow ==
  ASSUME NEW row \in Row, Agrees(row), row.state = "active", NEW until \in Nat
  PROVE  Good([row EXCEPT !.lockedUntil = until])
<1> DEFINE a == [row EXCEPT !.lockedUntil = until]
<1>1. /\ a \in Row /\ a.state = "active" /\ a.attempt = row.attempt
      /\ a.lockedBy = row.lockedBy /\ a.lockedUntil = until /\ a.finishedAt = row.finishedAt
  BY DEF Row
<1>2. until # NoTime
  BY DEF NoTime
<1> HIDE DEF a
<1>3. Good(a)
  BY <1>1, <1>2 DEF Good, Agrees
<1>4. QED
  BY <1>3 DEF a

LEMMA RenewedGood ==
  ASSUME NEW js, GoodTable(js), NEW w, NEW S, NEW until \in Nat
  PROVE  GoodTable(Renewed(js, w, S, until))
BY RenewedRow DEF GoodTable, Good, Renewed, Holds

LEMMA CompletedGood ==
  ASSUME NEW js, GoodTable(js), NEW w, NEW j \in Ids, NEW keep \in BOOLEAN,
         NEW outcome \in Outcomes, NEW at \in Nat, NEW runAt \in Nat
  PROVE  GoodTable(Completed(js, w, j, keep, outcome, at, runAt))
<1>1. CASE Holds(js, w, j)
  <2>1. Good(Outcome(js[j], keep, outcome, at, runAt))
    BY <1>1, OutcomeRow DEF GoodTable, Good, Holds
  <2>2. QED
    BY <1>1, <2>1 DEF GoodTable, Good, Completed
<1>2. CASE ~Holds(js, w, j)
  BY <1>2 DEF Completed
<1>3. QED
  BY <1>1, <1>2

LEMMA RequeuedGood ==
  ASSUME NEW js, GoodTable(js), NEW now \in Nat
  PROVE  GoodTable(Requeued(js, now))
<1>1. ASSUME NEW j \in Expired(js, now)
      PROVE  /\ Good([Unlocked(js[j]) EXCEPT !.state = "dead", !.finishedAt = now])
             /\ Good([Unlocked(js[j]) EXCEPT !.state = "pending", !.runAt = now])
  <2>1. j \in Ids /\ js[j] \in Row /\ js[j].finishedAt = NoTime
    BY DEF Expired, GoodTable, Agrees, Finished
  <2>2. QED
    BY <2>1, UnlockedRow, FinishedRow, PendingRow DEF Finished
<1>2. QED
  BY <1>1 DEF GoodTable, Good, Requeued

LEMMA RetriedGood ==
  ASSUME NEW js, GoodTable(js), NEW S, NEW now \in Nat
  PROVE  GoodTable(Retried(js, S, now))
<1>1. ASSUME NEW j \in Ids, js[j].state = "dead"
      PROVE  Good([js[j] EXCEPT !.state = "pending", !.attempt = 0, !.runAt = now, !.finishedAt = NoTime])
  <2> DEFINE a == [js[j] EXCEPT !.state = "pending", !.attempt = 0, !.runAt = now, !.finishedAt = NoTime]
  <2>1. js[j] \in Row /\ js[j].lockedBy = Nobody /\ js[j].lockedUntil = NoTime
    BY <1>1 DEF GoodTable, Agrees, Row
  <2>2. /\ a \in Row /\ a.state = "pending" /\ a.lockedBy = Nobody
        /\ a.lockedUntil = NoTime /\ a.finishedAt = NoTime
    BY <2>1 DEF Row, Stored
  <2>3. "pending" \notin Finished /\ "pending" # "active"
    BY DEF Finished
  <2> HIDE DEF a
  <2>4. Good(a)
    BY <2>2, <2>3, IdleRow
  <2>5. QED
    BY <2>4 DEF a
<1>2. QED
  BY <1>1 DEF GoodTable, Good, Retried

LEMMA PurgedGood ==
  ASSUME NEW js, GoodTable(js), NEW state, NEW before
  PROVE  GoodTable(Purged(js, state, before))
<1>1. Good(NoRow("gone"))
  <2>1. 0 \in Nat
    OBVIOUS
  <2>2. QED
    BY <2>1, NewRows
<1>2. QED
  BY <1>1 DEF GoodTable, Good, Purged

-----------------------------------------------------------------------------
\* No operation stores a second job with a key.  Only an enqueue stores jobs.

LEMMA EnqueuedKeys ==
  ASSUME NEW js, KeysDiffer(js), NEW batch, NEW t, \A j \in batch : js[j].state = "unborn"
  PROVE  KeysDiffer(Enqueued(js, batch, t))
<1> DEFINE ks == Enqueued(js, batch, t)
           new == (batch \cap Ids) \ Deduplicated(js, batch)
<1>1. InStore(ks) \subseteq InStore(js) \cup new
  BY DEF InStore, Enqueued, NoRow, Stored
<1>2. \A i \in InStore(js), j \in new : ~SameKey(i, j)
  BY DEF Deduplicated
<1>3. \A i, j \in new : SameKey(i, j) => i = j
  <2>1. \A i, j \in new : SameKey(i, j) => ~(i < j) /\ ~(j < i)
    BY DEF Deduplicated, SameKey
  <2>2. \A i, j \in new : ~(i < j) /\ ~(j < i) => i = j
    <3>1. \A i, j \in Nat : ~(i < j) /\ ~(j < i) => i = j
      OBVIOUS
    <3>2. new \subseteq Nat
      BY IdsAssumption
    <3>3. QED
      BY <3>1, <3>2
  <2>3. QED
    BY <2>1, <2>2
<1>4. \A i, j : SameKey(i, j) => SameKey(j, i)
  BY DEF SameKey
<1> HIDE DEF ks, new
<1>5. KeysDiffer(ks)
  BY <1>1, <1>2, <1>3, <1>4 DEF KeysDiffer
<1>6. QED
  BY <1>5 DEF ks

LEMMA StoreShrinks ==
  ASSUME NEW js, NEW ks, KeysDiffer(js), InStore(ks) \subseteq InStore(js)
  PROVE  KeysDiffer(ks)
BY DEF KeysDiffer

LEMMA ClaimedStore ==
  ASSUME NEW js, NEW w, NEW until, NEW S, \A j \in S : js[j].state = "pending"
  PROVE  InStore(Claimed(js, w, S, until)) \subseteq InStore(js)
BY DEF InStore, Claimed, Stored

LEMMA RenewedStore ==
  ASSUME NEW js, NEW w, NEW S, NEW until
  PROVE  InStore(Renewed(js, w, S, until)) \subseteq InStore(js)
BY DEF InStore, Renewed, Holds, Stored

LEMMA CompletedStore ==
  ASSUME NEW js, NEW w, NEW j \in Ids, NEW keep, NEW outcome, NEW at, NEW runAt,
         js = [i \in Ids |-> js[i]]
  PROVE  InStore(Completed(js, w, j, keep, outcome, at, runAt)) \subseteq InStore(js)
<1>1. \A i \in Ids \ {j} : Completed(js, w, j, keep, outcome, at, runAt)[i] = js[i]
  BY DEF Completed
<1>2. CASE Holds(js, w, j)
  BY <1>1, <1>2 DEF InStore, Holds, Stored
<1>3. CASE ~Holds(js, w, j)
  BY <1>3 DEF Completed
<1>4. QED
  BY <1>2, <1>3

LEMMA RequeuedStore ==
  ASSUME NEW js, NEW now
  PROVE  InStore(Requeued(js, now)) \subseteq InStore(js)
BY DEF InStore, Requeued, Expired, Stored

LEMMA RetriedStore ==
  ASSUME NEW js, NEW S, NEW now
  PROVE  InStore(Retried(js, S, now)) \subseteq InStore(js)
BY DEF InStore, Retried, Stored

LEMMA PurgedStore ==
  ASSUME NEW js, NEW state, NEW before
  PROVE  InStore(Purged(js, state, before)) \subseteq InStore(js)
BY DEF InStore, Purged, NoRow, Stored

-----------------------------------------------------------------------------
\* Every operation moves each job along an edge of the lifecycle, or not at all.

LEMMA EnqueuedMoves ==
  ASSUME NEW js, NEW batch, NEW t, \A j \in batch : js[j].state = "unborn"
  PROVE  Moves(js, Enqueued(js, batch, t))
BY DEF Moves, Enqueued, LifeOf, NoRow, NewRow, Life!Edge, Life!Create, Life!Life

LEMMA ClaimedMoves ==
  ASSUME NEW js, GoodTable(js), NEW w, NEW until, NEW S, \A j \in S : js[j].state = "pending"
  PROVE  Moves(js, Claimed(js, w, S, until))
<1>1. \A j \in Ids \cap S : LifeOf(Claimed(js, w, S, until)[j]) = Life!Life("active", js[j].attempt + 1)
  BY DEF GoodTable, Row, Claimed, LifeOf, Life!Life
<1>2. QED
  BY <1>1 DEF Moves, Claimed, LifeOf, Life!Edge, Life!Begin

LEMMA RenewedMoves ==
  ASSUME NEW js, GoodTable(js), NEW w, NEW S, NEW until
  PROVE  Moves(js, Renewed(js, w, S, until))
BY DEF GoodTable, Row, Moves, Renewed, LifeOf

LEMMA OutcomeMoves ==
  ASSUME NEW row \in Row, row.state = "active", NEW keep \in BOOLEAN,
         NEW outcome \in Outcomes, NEW at, NEW runAt
  PROVE  Life!Edge(LifeOf(row), LifeOf(Outcome(row, keep, outcome, at, runAt)))
<1> DEFINE u == Unlocked(row)
           b == LifeOf(Outcome(row, keep, outcome, at, runAt))
<1>1. u \in Row /\ u.attempt = row.attempt
  BY UnlockedRow
<1>2. outcome = "completed" => b = Life!Life("completed", row.attempt) \/ b.state = "gone"
  <2> HIDE DEF u
  <2>1. LifeOf([u EXCEPT !.state = "completed", !.finishedAt = at]) = Life!Life("completed", row.attempt)
    BY <1>1 DEF Row, LifeOf, Life!Life
  <2>2. LifeOf(NoRow("gone")).state = "gone"
    BY DEF LifeOf, NoRow
  <2>3. QED
    BY <2>1, <2>2 DEF Outcome, u
<1>3. outcome = "retry" => b = Life!Life("pending", row.attempt)
  <2> HIDE DEF u
  <2>1. LifeOf([u EXCEPT !.state = "pending", !.runAt = runAt]) = Life!Life("pending", row.attempt)
    BY <1>1 DEF Row, LifeOf, Life!Life
  <2>2. QED
    BY <2>1 DEF Outcome, u
<1>4. outcome = "dead" => b = Life!Life("dead", row.attempt)
  <2> HIDE DEF u
  <2>1. LifeOf([u EXCEPT !.state = "dead", !.finishedAt = at]) = Life!Life("dead", row.attempt)
    BY <1>1 DEF Row, LifeOf, Life!Life
  <2>2. QED
    BY <2>1 DEF Outcome, u
<1>5. outcome = "released" => b = Life!Life("pending", row.attempt - 1)
  <2> HIDE DEF u
  <2>1. LifeOf([u EXCEPT !.state = "pending", !.runAt = at, !.attempt = u.attempt - 1])
          = Life!Life("pending", row.attempt - 1)
    BY <1>1 DEF Row, LifeOf, Life!Life
  <2>2. QED
    BY <2>1 DEF Outcome, u
<1>6. LifeOf(row).state = "active" /\ LifeOf(row).tries = row.attempt
  BY DEF LifeOf
<1> HIDE DEF b
<1>7. Life!Edge(LifeOf(row), b)
  BY <1>2, <1>3, <1>4, <1>5, <1>6 DEF Outcomes, Life!Edge, Life!Finish, Life!Again, Life!PutBack
<1>8. QED
  BY <1>7 DEF b

LEMMA CompletedMoves ==
  ASSUME NEW js, GoodTable(js), NEW w, NEW j \in Ids, NEW keep \in BOOLEAN,
         NEW outcome \in Outcomes, NEW at, NEW runAt
  PROVE  Moves(js, Completed(js, w, j, keep, outcome, at, runAt))
<1>1. CASE Holds(js, w, j)
  <2>1. Life!Edge(LifeOf(js[j]), LifeOf(Outcome(js[j], keep, outcome, at, runAt)))
    BY <1>1, OutcomeMoves DEF GoodTable, Holds
  <2>2. QED
    BY <1>1, <2>1 DEF GoodTable, Moves, Completed
<1>2. CASE ~Holds(js, w, j)
  BY <1>2 DEF Moves, Completed
<1>3. QED
  BY <1>1, <1>2

LEMMA RequeuedMoves ==
  ASSUME NEW js, GoodTable(js), NEW now
  PROVE  Moves(js, Requeued(js, now))
<1>1. ASSUME NEW j \in Expired(js, now)
      PROVE  /\ Life!Edge(LifeOf(js[j]), LifeOf([Unlocked(js[j]) EXCEPT !.state = "dead", !.finishedAt = now]))
             /\ Life!Edge(LifeOf(js[j]), LifeOf([Unlocked(js[j]) EXCEPT !.state = "pending", !.runAt = now]))
  <2>1. js[j] \in Row /\ js[j].state = "active"
    BY DEF Expired, GoodTable
  <2>2. /\ Outcome(js[j], TRUE, "dead", now, now) = [Unlocked(js[j]) EXCEPT !.state = "dead", !.finishedAt = now]
        /\ Outcome(js[j], TRUE, "retry", now, now) = [Unlocked(js[j]) EXCEPT !.state = "pending", !.runAt = now]
    BY DEF Outcome
  <2>3. \A outcome \in {"dead", "retry"} :
          Life!Edge(LifeOf(js[j]), LifeOf(Outcome(js[j], TRUE, outcome, now, now)))
    <3>1. {"dead", "retry"} \subseteq Outcomes /\ TRUE \in BOOLEAN
      BY DEF Outcomes
    <3>2. QED
      BY <2>1, <3>1, OutcomeMoves
  <2>4. QED
    BY <2>2, <2>3
<1>2. QED
  BY <1>1 DEF Moves, Requeued

LEMMA RetriedMoves ==
  ASSUME NEW js, GoodTable(js), NEW S, NEW now
  PROVE  Moves(js, Retried(js, S, now))
<1>1. \A j \in Ids \cap S : js[j].state = "dead" => LifeOf(Retried(js, S, now)[j]) = Life!Life("pending", 0)
  BY DEF GoodTable, Row, Retried, LifeOf, Life!Life
<1>2. QED
  BY <1>1 DEF Moves, Retried, LifeOf, Life!Edge, Life!Revive

LEMMA PurgedMoves ==
  ASSUME NEW js, NEW state \in Finished, NEW before
  PROVE  Moves(js, Purged(js, state, before))
BY DEF Moves, Purged, Finished, LifeOf, NoRow, Life!Edge, Life!Forget

-----------------------------------------------------------------------------
\* Least elements, recursion and induction.

LEMMA Least ==
  ASSUME NEW T, T \subseteq Nat, T # {}
  PROVE  \E x \in T : \A y \in T : x <= y
<1>1. PICK x \in T : \A y \in T : ~ (<<y, x>> \in OpToRel(<, Nat))
  BY NatLessThanWellFounded, WFMin
<1>2. \A y \in T : ~ (y < x)
  BY <1>1 DEF OpToRel
<1> QED
  BY <1>2

\* A definition by recursion that looks at what has a lower rank only has a function that fulfils it.
WellFounded(S, V, rank, Body) ==
  /\ V # {} /\ rank \in [S -> Nat] /\ Body \in [[S -> V] -> [S -> V]]
  /\ \A f, g \in [S -> V], x \in S : (\A y \in S : rank[y] < rank[x] => f[y] = g[y]) => Body[f][x] = Body[g][x]

LEMMA RecursionHolds ==
  ASSUME NEW S, NEW V, NEW rank, NEW Body, WellFounded(S, V, rank, Body)
  PROVE  \E f \in [S -> V] : f = Body[f]
<1>0. /\ V # {} /\ rank \in [S -> Nat] /\ Body \in [[S -> V] -> [S -> V]]
      /\ \A f, g \in [S -> V], x \in S : (\A y \in S : rank[y] < rank[x] => f[y] = g[y]) => Body[f][x] = Body[g][x]
  BY DEF WellFounded
<1> USE <1>0
<1> DEFINE Upto(n, f) == \A x \in S : rank[x] < n => f[x] = Body[f][x]
<1>1. ASSUME NEW n \in Nat
      PROVE  \E f \in [S -> V] : Upto(n, f)
  <2> DEFINE Bad == {m \in Nat : ~ \E f \in [S -> V] : Upto(m, f)}
  <2>1. SUFFICES ASSUME Bad # {} PROVE FALSE
    OBVIOUS
  <2>2. PICK m \in Bad : \A k \in Bad : m <= k
    BY <2>1, Least
  <2>3. 0 \notin Bad
    <3>1. PICK v \in V : TRUE
      OBVIOUS
    <3>2. [x \in S |-> v] \in [S -> V] /\ Upto(0, [x \in S |-> v])
      OBVIOUS
    <3> QED
      BY <3>2
  <2>4. m - 1 \in Nat /\ m - 1 \notin Bad
    BY <2>2, <2>3
  <2>5. PICK f \in [S -> V] : Upto(m - 1, f)
    BY <2>4
  <2>6. PICK g \in [S -> V] : g = Body[f]
    OBVIOUS
  <2>7. ASSUME NEW x \in S, rank[x] < m
        PROVE  g[x] = Body[g][x]
    <3>1. ASSUME NEW y \in S, rank[y] < rank[x]
          PROVE  f[y] = g[y]
      <4>1. rank[y] < m - 1
        BY <2>2, <2>7, <3>1
      <4> QED
        BY <2>5, <2>6, <4>1
    <3>2. Body[f][x] = Body[g][x]
      BY <3>1
    <3> QED
      BY <2>6, <3>2
  <2>8. Upto(m, g)
    BY <2>7
  <2> QED
    BY <2>2, <2>8
<1>2. ASSUME NEW n \in Nat, NEW f \in [S -> V], NEW g \in [S -> V], Upto(n, f), Upto(n, g), NEW z \in S, rank[z] < n
      PROVE  f[z] = g[z]
  <2> DEFINE Differ == {rank[x] : x \in {x \in S : rank[x] < n /\ f[x] # g[x]}}
  <2> SUFFICES ASSUME f[z] # g[z] PROVE FALSE
    OBVIOUS
  <2>1. rank[z] \in Differ
    BY <1>2
  <2>2. Differ \subseteq Nat
    OBVIOUS
  <2>3. PICK m \in Differ : \A k \in Differ : m <= k
    BY <2>1, <2>2, Least
  <2>4. PICK x \in S : rank[x] = m /\ rank[x] < n /\ f[x] # g[x]
    BY <2>3
  <2>5. ASSUME NEW y \in S, rank[y] < rank[x]
        PROVE  f[y] = g[y]
    <3>1. rank[y] < n /\ ~ (m <= rank[y])
      BY <2>4, <2>5
    <3> QED
      BY <2>3, <3>1
  <2>6. Body[f][x] = Body[g][x]
    BY <2>5
  <2>7. f[x] = Body[f][x] /\ g[x] = Body[g][x]
    BY <1>2, <2>4
  <2> QED
    BY <2>4, <2>6, <2>7
<1> DEFINE Best(n) == CHOOSE f \in [S -> V] : Upto(n, f)
           F == [x \in S |-> Best(rank[x] + 1)[x]]
<1> HIDE DEF Upto
<1>3. \A n \in Nat : Best(n) \in [S -> V] /\ Upto(n, Best(n))
  BY <1>1
<1> HIDE DEF Best
<1>4. F \in [S -> V]
  BY <1>3
<1>5. ASSUME NEW x \in S
      PROVE  F[x] = Body[F][x]
  <2>1. PICK n, g : n = rank[x] + 1 /\ g = Best(n)
    OBVIOUS
  <2>2. n \in Nat /\ g \in [S -> V] /\ Upto(n, g) /\ F[x] = g[x] /\ rank[x] < n
    BY <1>3, <2>1
  <2>3. ASSUME NEW y \in S, rank[y] < rank[x]
        PROVE  g[y] = F[y]
    <3>1. PICK k, h : k = rank[y] + 1 /\ h = Best(k)
      OBVIOUS
    <3>2. k \in Nat /\ h \in [S -> V] /\ Upto(k, h) /\ F[y] = h[y] /\ rank[y] < k /\ k < n
      BY <1>3, <2>1, <2>3, <3>1
    <3>3. Upto(k, g)
      BY <2>2, <3>2 DEF Upto
    <3> QED
      BY <1>2, <2>2, <3>2, <3>3
  <2>4. Body[g][x] = Body[F][x]
    BY <1>4, <2>2, <2>3
  <2> QED
    BY <2>2, <2>4 DEF Upto
<1>6. F = Body[F]
  BY <1>4, <1>5
<1> QED
  BY <1>4, <1>6

\* Induction over the natural numbers of a set.
LEMMA Climb ==
  ASSUME NEW T, \A n \in Nat : (\A m \in Nat : m < n => m \in T) => n \in T
  PROVE  Nat \subseteq T
<1> SUFFICES ASSUME Nat \ T # {} PROVE FALSE
  OBVIOUS
<1>1. PICK n \in Nat \ T : \A m \in Nat \ T : n <= m
  BY Least
<1> QED
  BY <1>1
=============================================================================

------------------------- MODULE QueueAdapterProofs -------------------------
(***************************************************************************)
(* Proofs about the storage contract for any jobs, workers, keys, instants *)
(* and claim sizes: the inductive invariant is the good table with one job *)
(* per key, and every call moves each job along an edge of its lifecycle.  *)
(* And about Schedules, whose slots rely on one job per key.  The walk of  *)
(* next() passes over no instant that is due, on a calendar of any scale.  *)
(* For any workers, timetables, clocks and delays, how far apart the       *)
(* clocks can be bounds when a slot is dispatched last, and so how long    *)
(* its key is kept.                                                        *)
(***************************************************************************)
EXTENDS QueueAdapter, JobTableLemmas, Schedules, FiniteSetTheorems

IInv == GoodTable(jobs) /\ KeysDiffer(jobs)

\* What every call does to a table that satisfies the invariant.
Sound(js, ks) == GoodTable(ks) /\ KeysDiffer(ks) /\ Moves(js, ks)

-----------------------------------------------------------------------------
LEMMA InitSound == Init => IInv
<1> SUFFICES ASSUME Init PROVE IInv
  OBVIOUS
<1>1. GoodTable(jobs)
  BY InitGood DEF Init
<1>2. InStore(jobs) = {}
  BY DEF Init, InStore, NoRow, Stored
<1>3. QED
  BY <1>1, <1>2 DEF IInv, KeysDiffer

LEMMA NextSound == IInv /\ Next => Sound(jobs, jobs')
<1> SUFFICES ASSUME IInv, Next PROVE Sound(jobs, jobs')
  OBVIOUS
<1> USE DEF IInv, Sound
<1>1. ASSUME NEW batch \in SUBSET Ids, NEW runAt \in Times, enqueue(batch, runAt)
      PROVE  Sound(jobs, jobs')
  <2>1. runAt \in Nat
    BY TimesAssumption
  <2>2. QED
    BY <1>1, <2>1, EnqueuedGood, EnqueuedKeys, EnqueuedMoves DEF enqueue
<1>2. ASSUME NEW w \in Workers, NEW now \in Times, NEW until \in Times, NEW limit \in Limits,
             claim(w, now, limit, until)
      PROVE  Sound(jobs, jobs')
  <2> DEFINE S == Claimable(jobs, w, now, limit)
  <2>1. \A j \in S : jobs[j].state = "pending"
    BY ClaimableDue
  <2>2. until \in Nat /\ jobs' = Claimed(jobs, w, S, until)
    BY <1>2, TimesAssumption DEF claim
  <2> HIDE DEF S
  <2>3. QED
    BY <2>1, <2>2, ClaimedGood, ClaimedStore, StoreShrinks, ClaimedMoves
<1>3. ASSUME NEW w \in Workers, NEW S \in SUBSET Ids, NEW until \in Times, renew(w, S, until)
      PROVE  Sound(jobs, jobs')
  <2>1. until \in Nat
    BY TimesAssumption
  <2>2. QED
    BY <1>3, <2>1, RenewedGood, RenewedStore, StoreShrinks, RenewedMoves DEF renew
<1>4. ASSUME NEW w \in Workers, NEW j \in Ids, NEW outcome \in Outcomes,
             NEW at \in Times, NEW runAt \in Times, complete(w, j, outcome, at, runAt)
      PROVE  Sound(jobs, jobs')
  <2> DEFINE keep == KeyOf[j] # NoKey
  <2>1. at \in Nat /\ runAt \in Nat /\ keep \in BOOLEAN
    BY TimesAssumption
  <2>2. jobs' = Completed(jobs, w, j, keep, outcome, at, runAt)
    BY <1>4 DEF complete
  <2>3. jobs = [i \in Ids |-> jobs[i]]
    BY DEF GoodTable
  <2> HIDE DEF keep
  <2>4. QED
    BY <2>1, <2>2, <2>3, CompletedGood, CompletedStore, StoreShrinks, CompletedMoves
<1>5. ASSUME NEW now \in Times, requeueExpired(now)
      PROVE  Sound(jobs, jobs')
  <2>1. now \in Nat
    BY TimesAssumption
  <2>2. QED
    BY <1>5, <2>1, RequeuedGood, RequeuedStore, StoreShrinks, RequeuedMoves DEF requeueExpired
<1>6. ASSUME NEW S \in SUBSET Ids, NEW now \in Times, retry(S, now)
      PROVE  Sound(jobs, jobs')
  <2>1. now \in Nat
    BY TimesAssumption
  <2>2. QED
    BY <1>6, <2>1, RetriedGood, RetriedStore, StoreShrinks, RetriedMoves DEF retry
<1>7. ASSUME NEW state \in Finished, NEW before \in Times, purge(state, before)
      PROVE  Sound(jobs, jobs')
  BY <1>7, PurgedGood, PurgedStore, StoreShrinks, PurgedMoves DEF purge
<1>8. QED
  BY <1>1, <1>2, <1>3, <1>4, <1>5, <1>6, <1>7 DEF Next

\* The invariant is inductive.
LEMMA Invariance == Spec => []IInv
<1>1. IInv /\ [Next]_jobs => IInv'
  <2>1. IInv /\ Next => IInv'
    BY NextSound DEF IInv, Sound, GoodTable, KeysDiffer, InStore
  <2>2. IInv /\ UNCHANGED jobs => IInv'
    BY DEF IInv, GoodTable, KeysDiffer, InStore
  <2>3. QED
    BY <2>1, <2>2
<1>2. QED
  BY InitSound, <1>1, PTL DEF Spec

-----------------------------------------------------------------------------
\* Every row keeps its type, whatever is called when (adapter.ts, JobRecord).
THEOREM TypeCorrect == Spec => []TypeOK
<1>1. IInv => TypeOK
  BY DEF IInv, GoodTable, TypeOK
<1>2. QED
  BY Invariance, <1>1, PTL

\* A job's lock and finish time are set exactly when its state says so, whatever is
\* called when, so maintenance finds every job it should (memory.ts, requeueExpired
\* and purge).
THEOREM ColumnsCorrect == Spec => []ColumnsAgree
<1>1. IInv => ColumnsAgree
  BY DEF IInv, GoodTable, Agrees, ColumnsAgree, Row
<1>2. QED
  BY Invariance, <1>1, PTL

\* At most one stored job has a given idempotency key, for batches of any size
\* (memory.ts, enqueue).
THEOREM KeysCorrect == Spec => []OneJobPerKey
<1>1. IInv => OneJobPerKey
  BY DEF IInv, KeysDiffer, OneJobPerKey
<1>2. QED
  BY Invariance, <1>1, PTL

\* The contract implements the lifecycle of jobs: every call moves each job along
\* one edge, or leaves it (adapter.ts; spec-6 3.2).
THEOREM LifecycleCorrect == Spec => ImplementsLifecycle
<1>1. Init => Lifecycle!Init
  BY DEF Init, Lifecycle!Init, Lifecycle!Life, LifeOf, NoRow
<1>2. IInv /\ [Next]_jobs => [Lifecycle!Next]_([j \in Ids |-> LifeOf(jobs[j])])
  <2>1. ASSUME IInv, Next PROVE Lifecycle!Next
    <3>1. Moves(jobs, jobs')
      BY <2>1, NextSound DEF Sound
    <3> DEFINE S == {j \in Ids : LifeOf(jobs'[j]) # LifeOf(jobs[j])}
    <3>2. \A j \in S : Lifecycle!Edge(LifeOf(jobs[j]), LifeOf(jobs'[j]))
      BY <3>1 DEF Moves, Life!Edge, Life!Create, Life!Begin, Life!Again, Life!PutBack,
                  Life!Finish, Life!Revive, Life!Forget, Life!Life,
                  Lifecycle!Edge, Lifecycle!Create, Lifecycle!Begin, Lifecycle!Again,
                  Lifecycle!PutBack, Lifecycle!Finish, Lifecycle!Revive,
                  Lifecycle!Forget, Lifecycle!Life
    <3>3. S \in SUBSET Ids /\ \A j \in Ids \ S : LifeOf(jobs'[j]) = LifeOf(jobs[j])
      OBVIOUS
    <3> HIDE DEF S
    <3>4. QED
      BY <3>2, <3>3 DEF Lifecycle!Next
  <2>2. UNCHANGED jobs => UNCHANGED [j \in Ids |-> LifeOf(jobs[j])]
    OBVIOUS
  <2>3. QED
    BY <2>1, <2>2
<1>3. QED
  BY Invariance, <1>1, <1>2, PTL DEF Spec, ImplementsLifecycle, Lifecycle!Spec

-----------------------------------------------------------------------------
\* Cron: divisions by a number that is not known.

LEMMA LeastOf ==
  ASSUME NEW T, T \subseteq Nat, T # {}
  PROVE  Min(T) \in T /\ \A y \in T : Min(T) <= y
<1>1. \E x \in T : \A y \in T : x <= y
  BY Least
<1> QED
  BY <1>1 DEF Min

LEMMA Divided ==
  ASSUME NEW a \in Int, NEW n \in Nat \ {0}
  PROVE  /\ a \div n \in Int /\ n * (a \div n) <= a /\ a < n * (a \div n) + n
         /\ a % n = a - n * (a \div n) /\ a % n \in Nat /\ a % n < n
OBVIOUS

LEMMA Product ==
  ASSUME NEW n \in Nat, NEW a \in Int, NEW b \in Int
  PROVE  /\ n * a \in Int /\ n * (a + b) = n * a + n * b /\ n * (a - b) = n * a - n * b
         /\ a <= b => n * a <= n * b
OBVIOUS

LEMMA ProductStrict ==
  ASSUME NEW n \in Nat \ {0}, NEW a \in Int, NEW b \in Int, n * a < n * b + n
  PROVE  a <= b
OBVIOUS

LEMMA Quotient ==
  ASSUME NEW a \in Int, NEW n \in Nat \ {0}, NEW q \in Int, n * q <= a, a < n * q + n
  PROVE  a \div n = q
BY Divided, ProductStrict

LEMMA Multiple ==
  ASSUME NEW a \in Int, NEW n \in Nat \ {0}
  PROVE  a % n = 0 <=> \E k \in Int : a = n * k
<1>1. PICK q : q = a \div n
  OBVIOUS
<1>2. q \in Int /\ a % n = a - n * q /\ n * q \in Int
  BY <1>1, Divided, Product
<1>3. ASSUME NEW k \in Int, a = n * k
      PROVE  a % n = 0
  <2>1. n * k <= a /\ a < n * k + n
    BY <1>3
  <2>2. q = k
    BY <1>1, <2>1, Quotient
  <2> QED
    BY <1>2, <1>3, <2>2
<1>4. ASSUME a % n = 0
      PROVE  a = n * q
  <2>1. PICK r, p : r = a % n /\ p = n * q
    OBVIOUS
  <2>2. r = a - p /\ r = 0 /\ p \in Int
    BY <1>2, <1>4, <2>1
  <2> QED
    BY <2>1, <2>2
<1>5. ASSUME a % n = 0
      PROVE  \E k \in Int : a = n * k
  BY <1>2, <1>4, <1>5, Zenon
<1>6. ASSUME \E k \in Int : a = n * k
      PROVE  a % n = 0
  BY <1>3, <1>6, Zenon
<1> QED
  BY <1>5, <1>6, Zenon

LEMMA Reassoc ==
  ASSUME NEW a \in Int, NEW b \in Int, NEW c \in Int
  PROVE  (a * b) * c = a * (b * c) /\ a * b \in Int /\ a * b = b * a
OBVIOUS

\* Multiples of one number.
LEMMA Multiples ==
  ASSUME NEW n \in Nat \ {0}, NEW a \in Int, NEW b \in Int, a % n = 0, b % n = 0
  PROVE  /\ (a + b) % n = 0 /\ (a - b) % n = 0
         /\ a < b => a + n <= b
         /\ n * (a \div n) = a
<1>1. PICK k \in Int, j \in Int : a = n * k /\ b = n * j
  BY Multiple
<1>2. k + j \in Int /\ k - j \in Int /\ a + b = n * (k + j) /\ a - b = n * (k - j)
  BY <1>1, Product
<1>3. (a + b) % n = 0 /\ (a - b) % n = 0
  <2>1. PICK sum, rest : sum = a + b /\ rest = a - b
    OBVIOUS
  <2>2. sum \in Int /\ rest \in Int
    BY <2>1
  <2>4. (\E m \in Int : sum = n * m) /\ (\E m \in Int : rest = n * m)
    BY <1>2, <2>1, Zenon
  <2>3. sum % n = 0 /\ rest % n = 0
    BY <2>2, <2>4, Multiple, Zenon
  <2> QED
    BY <2>1, <2>3
<1>4. ASSUME a < b
      PROVE  a + n <= b
  <2>1. ~ (j <= k)
    BY <1>1, <1>4, Product
  <2>2. k + 1 <= j /\ k + 1 \in Int
    BY <2>1
  <2>3. n * (k + 1) <= n * j /\ n * (k + 1) = n * k + n * 1 /\ n * 1 = n
    BY <2>2, Product
  <2> QED
    BY <1>1, <2>3
<1>5. n * (a \div n) = a
  BY Divided
<1> QED
  BY <1>3, <1>4, <1>5

\* A time rounded down to a multiple.
LEMMA Rounded ==
  ASSUME NEW n \in Nat \ {0}, NEW a \in Int
  PROVE  /\ (a \div n) * n \in Int /\ (a \div n) * n <= a /\ a < (a \div n) * n + n
         /\ ((a \div n) * n) % n = 0
         /\ a % n = 0 => (a \div n) * n = a
<1>1. PICK q : q = a \div n
  OBVIOUS
<1>2. q \in Int /\ n * q <= a /\ a < n * q + n /\ a % n = a - n * q /\ n * q \in Int
  BY <1>1, Divided, Product
<1>3. q * n = n * q
  BY <1>2, Reassoc
<1>4. (n * q) % n = 0
  BY <1>2, Multiple
<1> QED
  BY <1>1, <1>2, <1>3, <1>4

-----------------------------------------------------------------------------
\* The calendar.

LEMMA Scale ==
  /\ MINUTE \in Nat \ {0} /\ HOUR \in Nat \ {0} /\ DAY \in Nat \ {0}
  /\ HOUR % MINUTE = 0 /\ DAY % MINUTE = 0 /\ MINUTE <= HOUR /\ HOUR <= DAY /\ MINUTE <= DAY
  /\ DAY \div 2 \in Nat /\ (DAY \div 2) % MINUTE = 0 /\ DAY \div 2 + MINUTE <= DAY /\ DAY \div 2 + DAY \div 2 <= DAY
<1>1. ASSUME NEW a \in Nat \ {0}, NEW b \in Nat \ {0}
      PROVE  a * b \in Nat \ {0} /\ a <= a * b
  OBVIOUS
<1>2. MINUTE \in Nat \ {0} /\ HourMinutes \in Nat \ {0} /\ DayHours \in Nat \ {0}
  BY CalendarAssumption
<1>3. HOUR \in Nat \ {0} /\ MINUTE <= HOUR
  BY <1>1, <1>2 DEF HOUR
<1>4. DAY \in Nat \ {0} /\ HOUR <= DAY
  BY <1>1, <1>2, <1>3 DEF DAY
<1>5. HOUR % MINUTE = 0
  BY <1>2, <1>3, Multiple DEF HOUR
<1>6. DAY = MINUTE * (HourMinutes * DayHours) /\ HourMinutes * DayHours \in Int
  BY <1>2, Reassoc DEF HOUR, DAY
<1>7. DAY % MINUTE = 0
  BY <1>2, <1>4, <1>6, Multiple
<1>8. PICK half : half = DAY \div 2
  OBVIOUS
<1>9. half \in Nat /\ half + half <= DAY
  BY <1>4, <1>8
<1>10. half % MINUTE = 0
  BY <1>8, CalendarAssumption DEF DAY, HOUR
<1>11. half + MINUTE <= DAY
  <2>1. half < DAY
    BY <1>4, <1>9
  <2> QED
    BY <1>2, <1>4, <1>7, <1>9, <1>10, <2>1, Multiples
<1> QED
  BY <1>2, <1>3, <1>4, <1>5, <1>7, <1>8, <1>9, <1>10, <1>11

Months == Len(MonthDays)

LEMMA MonthsAre == Months \in Nat \ {0} /\ \A m \in 1 .. Months : MonthDays[m] \in Nat \ {0}
<1>1. MonthDays \in Seq(Nat \ {0}) /\ MonthDays # <<>>
  BY CalendarAssumption
<1> QED
  BY <1>1 DEF Months

LEMMA StartsAre ==
  \E F \in [1 .. Months + 1 -> Nat] :
    MonthStarts = F /\ F[1] = 0 /\ \A m \in 1 .. Months : F[m + 1] = F[m] + MonthDays[m]
<1> DEFINE S == 1 .. Months + 1
           V == Nat
           Turn(f, m) == IF m = 1 THEN 0 ELSE f[m - 1] + MonthDays[m - 1]
           Body == [f \in [S -> V] |-> [m \in S |-> Turn(f, m)]]
           rank == [m \in S |-> m]
<1>1. ASSUME NEW f \in [S -> V], NEW m \in S
      PROVE  Turn(f, m) \in V
  BY MonthsAre
<1>2. ASSUME NEW f \in [S -> V], NEW g \in [S -> V], NEW m \in S, \A k \in S : rank[k] < rank[m] => f[k] = g[k]
      PROVE  Turn(f, m) = Turn(g, m)
  BY <1>2, MonthsAre
<1>3. rank \in [S -> Nat] /\ V # {}
  BY MonthsAre
<1> HIDE DEF Turn
<1>4. Body \in [[S -> V] -> [S -> V]]
  BY <1>1
<1>5. \A f, g \in [S -> V], x \in S : (\A y \in S : rank[y] < rank[x] => f[y] = g[y]) => Body[f][x] = Body[g][x]
  BY <1>2
<1>6. \E f \in [S -> V] : f = Body[f]
  <2>1. WellFounded(S, V, rank, Body)
    BY <1>3, <1>4, <1>5 DEF WellFounded
  <2> HIDE DEF S, V, rank, Body
  <2> QED
    BY <2>1, RecursionHolds
<1> DEFINE F == CHOOSE f : f = [m \in S |-> Turn(f, m)]
<1>7. F = [m \in S |-> Turn(F, m)]
  BY <1>6
<1>8. MonthStarts = F
  BY DEF MonthStarts, Turn, Months
<1>9. PICK G : G = F /\ G = [m \in S |-> Turn(G, m)]
  BY <1>7
<1> HIDE DEF F
<1>10. G[1] = 0 /\ \A m \in 1 .. Months : G[m + 1] = G[m] + MonthDays[m]
  <2>1. \A m \in S : G[m] = Turn(G, m)
    BY <1>9
  <2> QED
    BY <2>1, MonthsAre DEF Turn
<1>11. \A n \in Nat : n \in S => G[n] \in Nat
  <2> DEFINE T == {n \in Nat : n \in S => G[n] \in Nat}
  <2>1. ASSUME NEW n \in Nat, \A m \in Nat : m < n => m \in T
        PROVE  n \in T
    <3> SUFFICES ASSUME n \in S, n # 1 PROVE G[n] \in Nat
      BY <1>10
    <3>1. n - 1 \in Nat /\ n - 1 < n /\ n - 1 \in 1 .. Months /\ n - 1 \in S /\ (n - 1) + 1 = n
      BY MonthsAre
    <3>2. G[n - 1] \in Nat
      BY <2>1, <3>1
    <3> QED
      BY <1>10, <3>1, <3>2, MonthsAre
  <2>2. Nat \subseteq T
    <3> HIDE DEF T
    <3> QED
      BY <2>1, Climb
  <2> QED
    BY <2>2
<1>12. G \in [S -> Nat]
  BY <1>9, <1>11
<1> QED
  BY <1>8, <1>9, <1>10, <1>12

LEMMA StartsGrow ==
  /\ MonthStarts[1] = 0
  /\ \A m \in 1 .. Months + 1 : MonthStarts[m] \in Nat
  /\ \A m \in 1 .. Months : MonthStarts[m + 1] = MonthStarts[m] + MonthDays[m]
  /\ \A m \in 1 .. Months + 1, k \in 1 .. Months + 1 : k <= m => MonthStarts[k] <= MonthStarts[m]
<1>1. PICK F \in [1 .. Months + 1 -> Nat] :
           MonthStarts = F /\ F[1] = 0 /\ \A m \in 1 .. Months : F[m + 1] = F[m] + MonthDays[m]
  BY StartsAre
<1>2. ASSUME NEW k \in 1 .. Months + 1
      PROVE  \A m \in Nat : k + m \in 1 .. Months + 1 => F[k] <= F[k + m]
  <2> DEFINE T == {m \in Nat : k + m \in 1 .. Months + 1 => F[k] <= F[k + m]}
  <2>1. ASSUME NEW n \in Nat, \A m \in Nat : m < n => m \in T
        PROVE  n \in T
    <3> SUFFICES ASSUME k + n \in 1 .. Months + 1, n # 0 PROVE F[k] <= F[k + n]
      BY MonthsAre
    <3>1. n - 1 \in Nat /\ n - 1 < n /\ k + (n - 1) \in 1 .. Months /\ k + (n - 1) \in 1 .. Months + 1
          /\ (k + (n - 1)) + 1 = k + n
      BY MonthsAre
    <3>2. F[k] <= F[k + (n - 1)]
      BY <2>1, <3>1
    <3>3. F[k + n] = F[k + (n - 1)] + MonthDays[k + (n - 1)]
      BY <1>1, <3>1
    <3>4. F[k] \in Nat /\ F[k + (n - 1)] \in Nat /\ MonthDays[k + (n - 1)] \in Nat
      BY <3>1, MonthsAre
    <3> QED
      BY <3>2, <3>3, <3>4
  <2>2. Nat \subseteq T
    <3> HIDE DEF T
    <3> QED
      BY <2>1, Climb
  <2> QED
    BY <2>2
<1>3. ASSUME NEW m \in 1 .. Months + 1, NEW k \in 1 .. Months + 1, k <= m
      PROVE  F[k] <= F[m]
  <2>1. m - k \in Nat /\ k + (m - k) = m
    BY <1>3, MonthsAre
  <2> QED
    BY <1>2, <2>1
<1> QED
  BY <1>1, <1>3

Longest == Max({MonthDays[m] : m \in DOMAIN MonthDays})

LEMMA LongestIs == Longest \in Nat \ {0} /\ \A m \in 1 .. Months : MonthDays[m] <= Longest
<1> DEFINE T == {MonthDays[m] : m \in DOMAIN MonthDays}
           top == MonthStarts[Months + 1]
           U == {top - d : d \in T}
<1>1. DOMAIN MonthDays = 1 .. Months
  BY CalendarAssumption DEF Months
<1>2. top \in Nat /\ \A d \in T : d \in Nat \ {0} /\ d <= top
  <2>1. \A m \in 1 .. Months : m + 1 \in 1 .. Months + 1 /\ m \in 1 .. Months + 1 /\ m + 1 <= Months + 1
        /\ Months + 1 \in 1 .. Months + 1
    BY MonthsAre
  <2>2. ASSUME NEW m \in 1 .. Months
        PROVE  MonthDays[m] \in Nat \ {0} /\ MonthDays[m] <= top
    <3>1. MonthStarts[m + 1] = MonthStarts[m] + MonthDays[m] /\ MonthStarts[m + 1] <= top
          /\ MonthStarts[m] \in Nat /\ MonthStarts[m + 1] \in Nat /\ top \in Nat /\ MonthDays[m] \in Nat \ {0}
      BY <2>1, StartsGrow, MonthsAre
    <3> QED
      BY <3>1
  <2>3. top \in Nat
    BY <2>1, StartsGrow, MonthsAre
  <2> QED
    BY <1>1, <2>2, <2>3
<1> HIDE DEF top
<1>3. U \subseteq Nat /\ U # {}
  <2>1. 1 \in 1 .. Months
    BY MonthsAre
  <2>2. MonthDays[1] \in T
    BY <1>1, <2>1
  <2> HIDE DEF T
  <2> QED
    BY <1>2, <2>2
<1>4. PICK u \in U : \A v \in U : u <= v
  BY <1>3, Least
<1>5. PICK d \in T : u = top - d
  OBVIOUS
<1>6. ASSUME NEW e \in T
      PROVE  d >= e
  <2> HIDE DEF T
  <2>1. top - e \in U
    OBVIOUS
  <2>2. u <= top - e
    BY <1>4, <2>1
  <2>3. d \in Nat /\ e \in Nat /\ top \in Nat
    BY <1>2
  <2> QED
    BY <1>5, <2>2, <2>3
<1>7. Longest = CHOOSE x \in T : \A y \in T : x >= y
  BY DEF Longest, Max
<1>8. Longest \in T /\ \A y \in T : Longest >= y
  BY <1>6, <1>7
<1>9. \A y \in T : y <= Longest
  BY <1>2, <1>8
<1> QED
  BY <1>1, <1>2, <1>8, <1>9

Days == MonthStarts[Months + 1]

LEMMA DaysAre == Days \in Nat
BY StartsGrow, MonthsAre DEF Days

\* The month of a day.
LEMMA MonthHolds ==
  ASSUME NEW wall, wall \div DAY \in Nat, wall \div DAY < Days
  PROVE  /\ MonthOf(wall) \in 1 .. Months
         /\ MonthStarts[MonthOf(wall)] <= wall \div DAY /\ wall \div DAY < MonthStarts[MonthOf(wall) + 1]
<1>1. PICK d : d = wall \div DAY
  OBVIOUS
<1>2. d \in Nat /\ d < Days
  BY <1>1
<1> DEFINE T == {m \in 1 .. Months + 1 : d < MonthStarts[m]}
<1>3. Months + 1 \in T /\ T \subseteq Nat
  BY <1>2, MonthsAre DEF Days
<1>4. PICK k \in T : \A m \in T : k <= m
  BY <1>3, Least
<1>5. k # 1
  BY <1>2, StartsGrow
<1>6. k - 1 \in 1 .. Months /\ k - 1 \in 1 .. Months + 1 /\ k - 1 \notin T /\ (k - 1) + 1 = k
  BY <1>4, <1>5, MonthsAre
<1>7. MonthStarts[k - 1] <= d
  BY <1>2, <1>6, StartsGrow
<1>8. DOMAIN MonthDays = 1 .. Months
  BY CalendarAssumption DEF Months
<1>9. \E m \in 1 .. Months : MonthStarts[m] <= d /\ d < MonthStarts[m + 1]
  BY <1>6, <1>7
<1>10. MonthOf(wall) = CHOOSE m \in 1 .. Months : MonthStarts[m] <= d /\ d < MonthStarts[m + 1]
  BY <1>1, <1>8 DEF MonthOf
<1> QED
  BY <1>1, <1>9, <1>10

LEMMA MonthKnown ==
  ASSUME NEW wall, NEW m \in 1 .. Months, wall \div DAY \in Nat,
         MonthStarts[m] <= wall \div DAY, wall \div DAY < MonthStarts[m + 1]
  PROVE  MonthOf(wall) = m
<1>1. PICK d : d = wall \div DAY
  OBVIOUS
<1>2. m + 1 \in 1 .. Months + 1 /\ m \in 1 .. Months + 1 /\ Months + 1 \in 1 .. Months + 1 /\ m + 1 <= Months + 1
  BY MonthsAre
<1>3. MonthStarts[m + 1] <= Days /\ MonthStarts[m + 1] \in Nat /\ Days \in Nat
  BY <1>2, StartsGrow DEF Days
<1>4. d \in Nat /\ d < Days
  BY <1>1, <1>3
<1>5. PICK k : k = MonthOf(wall)
  OBVIOUS
<1>6. k \in 1 .. Months /\ MonthStarts[k] <= d /\ d < MonthStarts[k + 1]
  BY <1>1, <1>4, <1>5, MonthHolds
<1>7. k + 1 \in 1 .. Months + 1 /\ k \in 1 .. Months + 1
  BY <1>6, MonthsAre
<1>8. MonthStarts[k] \in Nat /\ MonthStarts[k + 1] \in Nat /\ MonthStarts[m] \in Nat
  BY <1>2, <1>7, StartsGrow
<1>9. ~ (k + 1 <= m) /\ ~ (m + 1 <= k)
  <2>1. k + 1 <= m => MonthStarts[k + 1] <= MonthStarts[m]
    BY <1>2, <1>7, StartsGrow
  <2>2. m + 1 <= k => MonthStarts[m + 1] <= MonthStarts[k]
    BY <1>2, <1>7, StartsGrow
  <2> QED
    BY <1>1, <1>3, <1>4, <1>6, <1>8, <2>1, <2>2
<1> QED
  BY <1>2, <1>5, <1>6, <1>9, MonthsAre

-----------------------------------------------------------------------------
\* Zones.

Whole(t) == t \in Int /\ t % MINUTE = 0
Half == DAY \div 2
ZoneOK(zone) ==
  /\ Whole(zone.change) /\ Whole(zone.before) /\ Whole(zone.after)
  /\ -Half <= zone.before /\ zone.before <= DAY /\ -Half <= zone.after /\ zone.after <= DAY
Near(zone) == zone.before <= Half /\ zone.after <= Half

LEMMA HalfIs == Half \in Nat /\ Whole(Half) /\ Half + MINUTE <= DAY /\ Half + Half <= DAY
BY Scale DEF Half, Whole

LEMMA WholeSums ==
  ASSUME NEW a, NEW b, Whole(a), Whole(b)
  PROVE  Whole(a + b) /\ Whole(a - b) /\ (a < b => a + MINUTE <= b)
<1>1. a \in Int /\ b \in Int /\ a % MINUTE = 0 /\ b % MINUTE = 0 /\ a + b \in Int /\ a - b \in Int
  BY DEF Whole
<1>2. MINUTE \in Nat \ {0}
  BY Scale
<1>3. (a + b) % MINUTE = 0 /\ (a - b) % MINUTE = 0
  BY <1>1, <1>2, Multiples
<1>4. a < b => a + MINUTE <= b
  BY <1>1, <1>2, Multiples
<1> QED
  BY <1>1, <1>3, <1>4 DEF Whole

LEMMA ZonesOK ==
  ASSUME NEW zone \in ZoneSet
  PROVE  ZoneOK(zone)
<1>1. {zone.change, zone.before, zone.after} \subseteq {t \in Int : t % MINUTE = 0}
      /\ {zone.before, zone.after} \subseteq -(DAY \div 2) .. DAY
  BY ZonesAssumption
<1>2. Whole(zone.change) /\ Whole(zone.before) /\ Whole(zone.after)
  BY <1>1 DEF Whole
<1>3. zone.before \in -Half .. DAY /\ zone.after \in -Half .. DAY
  BY <1>1 DEF Half
<1>4. Half \in Nat /\ DAY \in Nat
  BY HalfIs, Scale
<1> QED
  BY <1>2, <1>3, <1>4 DEF ZoneOK

LEMMA NearIs ==
  ASSUME NEW zone, ZoneOK(zone)
  PROVE  Max({zone.before, zone.after}) <= DAY \div 2 <=> Near(zone)
<1>1. PICK b, a : b = zone.before /\ a = zone.after
  OBVIOUS
<1>2. b \in Int /\ a \in Int
  BY <1>1 DEF ZoneOK, Whole
<1>3. \E x \in {b, a} : \A y \in {b, a} : x >= y
  BY <1>2
<1>4. PICK top : top = Max({b, a})
  OBVIOUS
<1>5. top \in {b, a} /\ \A y \in {b, a} : top >= y
  BY <1>3, <1>4 DEF Max
<1>6. PICK half : half = Half /\ half \in Nat
  BY HalfIs
<1>7. top <= half <=> b <= half /\ a <= half
  BY <1>2, <1>5, <1>6
<1> QED
  BY <1>1, <1>4, <1>6, <1>7 DEF Near, Half

LEMMA OffsetIs ==
  ASSUME NEW zone, ZoneOK(zone), NEW i \in Int
  PROVE  /\ Whole(offset(zone, i)) /\ -Half <= offset(zone, i) /\ offset(zone, i) <= DAY
         /\ i < zone.change => offset(zone, i) = zone.before
         /\ ~ (i < zone.change) => offset(zone, i) = zone.after
BY DEF offset, ZoneOK

LEMMA WallIs ==
  ASSUME NEW zone, ZoneOK(zone), NEW i \in Int
  PROVE  /\ Whole(toWall(zone, i))
         /\ toWall(zone, i) <= i + offset(zone, i) /\ i + offset(zone, i) < toWall(zone, i) + MINUTE
         /\ Whole(i) => toWall(zone, i) = i + offset(zone, i)
<1>1. PICK o : o = offset(zone, i) /\ Whole(o)
  BY OffsetIs
<1>2. PICK t : t = i + o /\ t \in Int
  BY <1>1 DEF Whole
<1>3. toWall(zone, i) = (t \div MINUTE) * MINUTE
  BY <1>1, <1>2 DEF toWall
<1>4. Whole(i) => t % MINUTE = 0
  BY <1>1, <1>2, WholeSums DEF Whole
<1>5. PICK wall : wall = (t \div MINUTE) * MINUTE
  OBVIOUS
<1>6. wall \in Int /\ wall <= t /\ t < wall + MINUTE /\ wall % MINUTE = 0 /\ (t % MINUTE = 0 => wall = t)
  BY <1>2, <1>5, Rounded, Scale, Zenon
<1> QED
  BY <1>1, <1>2, <1>3, <1>4, <1>5, <1>6 DEF Whole

LEMMA LeastOfTwo ==
  ASSUME NEW a \in Int, NEW b \in Int, NEW T, T \subseteq {a, b}, T # {}
  PROVE  Min(T) \in T /\ \A y \in T : Min(T) <= y
<1>1. T = {a} \/ T = {b} \/ T = {a, b}
  OBVIOUS
<1>2. \E x \in T : \A y \in T : x <= y
  BY <1>1
<1> QED
  BY <1>2 DEF Min

\* What fromWall() tries.
Tried(zone, wall) == {wall - offset(zone, wall - Half), wall - offset(zone, wall + Half)}
Valid(zone, wall) == {i \in Tried(zone, wall) : toWall(zone, i) = wall}

LEMMA FromWallIs ==
  ASSUME NEW zone, ZoneOK(zone), NEW wall, Whole(wall)
  PROVE  /\ fromWall(zone, wall) = IF Valid(zone, wall) = {} THEN Never ELSE Min(Valid(zone, wall))
         /\ \A i \in Tried(zone, wall) : Whole(i)
         /\ Valid(zone, wall) # {} => /\ fromWall(zone, wall) \in Valid(zone, wall)
                                      /\ \A i \in Valid(zone, wall) : fromWall(zone, wall) <= i
<1>1. PICK a, b : a = wall - Half /\ b = wall + Half
  OBVIOUS
<1>2. Whole(a) /\ Whole(b)
  BY <1>1, HalfIs, WholeSums
<1>3. a \in Int /\ b \in Int /\ wall \in Int
  BY <1>2 DEF Whole
<1>4. PICK o, q : o = offset(zone, a) /\ q = offset(zone, b) /\ Whole(o) /\ Whole(q)
  BY <1>3, OffsetIs
<1>5. toWall(zone, a) = a + o /\ toWall(zone, b) = b + q
  BY <1>2, <1>3, <1>4, WallIs
<1>6. toWall(zone, a) - a = o /\ toWall(zone, b) - b = q
  BY <1>3, <1>4, <1>5 DEF Whole
<1>7. {toWall(zone, t) - t : t \in {a, b}} = {o, q}
  BY <1>6
<1>8. PICK i, k : i = wall - o /\ k = wall - q /\ Whole(i) /\ Whole(k)
  BY <1>4, WholeSums
<1>9. Tried(zone, wall) = {i, k} /\ {wall - x : x \in {o, q}} = {i, k}
  BY <1>1, <1>4, <1>8 DEF Tried
<1>10. fromWall(zone, wall) = IF Valid(zone, wall) = {} THEN Never ELSE Min(Valid(zone, wall))
  BY <1>1, <1>7, <1>9 DEF fromWall, Valid, Half
<1>11. i \in Int /\ k \in Int /\ Valid(zone, wall) \subseteq {i, k}
  BY <1>8, <1>9 DEF Whole, Valid
<1>12. Valid(zone, wall) # {} => Min(Valid(zone, wall)) \in Valid(zone, wall)
                                 /\ \A x \in Valid(zone, wall) : Min(Valid(zone, wall)) <= x
  BY <1>11, LeastOfTwo
<1> QED
  BY <1>8, <1>9, <1>10, <1>12

\* What fromWall() returns is an instant of that wall-clock time ...
LEMMA FromWallSound ==
  ASSUME NEW zone, ZoneOK(zone), NEW wall, Whole(wall), fromWall(zone, wall) # Never
  PROVE  Whole(fromWall(zone, wall)) /\ toWall(zone, fromWall(zone, wall)) = wall
BY FromWallIs DEF Valid

\* ... in a zone near UTC the first ...
LEMMA FromWallFirst ==
  ASSUME NEW zone, ZoneOK(zone), Near(zone), NEW i, Whole(i), NEW wall, wall = toWall(zone, i)
  PROVE  fromWall(zone, wall) \in Int /\ Whole(fromWall(zone, wall))
         /\ toWall(zone, fromWall(zone, wall)) = wall /\ fromWall(zone, wall) <= i
<1>1. i \in Int /\ wall = i + offset(zone, i) /\ Whole(wall)
  BY WallIs DEF Whole
<1>2. PICK half : half = Half /\ half \in Nat
  BY HalfIs
<1>3. PICK c, b, a : c = zone.change /\ b = zone.before /\ a = zone.after
  OBVIOUS
<1>4. c \in Int /\ b \in Int /\ a \in Int /\ -half <= b /\ b <= half /\ -half <= a /\ a <= half
  BY <1>2, <1>3 DEF Near, ZoneOK, Whole
<1>5. PICK o : o = offset(zone, i) /\ o \in Int /\ wall = i + o /\ wall \in Int
  BY <1>1, OffsetIs DEF Whole
<1>6. wall - half \in Int /\ wall + half \in Int
  BY <1>2, <1>5
<1>7. CASE i < c
  <2>1. o = b
    BY <1>1, <1>3, <1>5, <1>7, OffsetIs
  <2>2. wall - half < c
    BY <1>1, <1>2, <1>4, <1>5, <1>7, <2>1
  <2>3. offset(zone, wall - half) = b
    BY <1>3, <1>6, <2>2, OffsetIs
  <2>4. i = wall - b
    BY <1>1, <1>4, <1>5, <2>1
  <2>5. i \in Tried(zone, wall)
    BY <1>2, <2>3, <2>4 DEF Tried
  <2>6. i \in Valid(zone, wall)
    BY <2>5 DEF Valid
  <2> QED
    BY <1>1, <2>6, FromWallIs DEF Valid, Whole
<1>8. CASE ~ (i < c)
  <2>1. o = a
    BY <1>1, <1>3, <1>5, <1>8, OffsetIs
  <2>2. ~ (wall + half < c)
    BY <1>1, <1>2, <1>4, <1>5, <1>8, <2>1
  <2>3. offset(zone, wall + half) = a
    BY <1>3, <1>6, <2>2, OffsetIs
  <2>4. i = wall - a
    BY <1>1, <1>4, <1>5, <2>1
  <2>5. i \in Tried(zone, wall)
    BY <1>2, <2>3, <2>4 DEF Tried
  <2>6. i \in Valid(zone, wall)
    BY <2>5 DEF Valid
  <2> QED
    BY <1>1, <2>6, FromWallIs DEF Valid, Whole
<1> QED
  BY <1>7, <1>8

\* ... and away from a change of the clock the only one.
LEMMA FromWallSettled ==
  ASSUME NEW zone, ZoneOK(zone), NEW i, Whole(i), offset(zone, i - 2 * DAY) = offset(zone, i + 2 * DAY)
  PROVE  /\ fromWall(zone, toWall(zone, i)) = i
         /\ \A t \in Int : i - 2 * DAY <= t /\ t <= i + 2 * DAY => offset(zone, t) = offset(zone, i)
<1>1. PICK half, day : half = Half /\ day = DAY /\ half \in Nat /\ day \in Nat /\ half <= day
  BY HalfIs, Scale
<1>2. PICK c, b, a : c = zone.change /\ b = zone.before /\ a = zone.after /\ c \in Int
  BY DEF ZoneOK, Whole
<1>3. i \in Int /\ i - 2 * day \in Int /\ i + 2 * day \in Int
  BY <1>1 DEF Whole
<1>4. ASSUME NEW t \in Int, i - 2 * day <= t, t <= i + 2 * day
      PROVE  offset(zone, t) = offset(zone, i)
  <2>1. CASE i + 2 * day < c
    <3>1. t < c /\ i < c
      BY <1>1, <1>2, <1>3, <1>4, <2>1
    <3> QED
      BY <1>2, <1>3, <3>1, OffsetIs
  <2>2. CASE ~ (i - 2 * day < c)
    <3>1. ~ (t < c) /\ ~ (i < c)
      BY <1>1, <1>2, <1>3, <1>4, <2>2
    <3> QED
      BY <1>2, <1>3, <3>1, OffsetIs
  <2>3. CASE ~ (i + 2 * day < c) /\ i - 2 * day < c
    <3>1. a = b
      BY <1>1, <1>2, <1>3, <2>3, OffsetIs
    <3> QED
      BY <1>2, <1>3, <3>1 DEF offset
  <2> QED
    BY <2>1, <2>2, <2>3
<1>5. PICK o, wall : o = offset(zone, i) /\ wall = toWall(zone, i)
  OBVIOUS
<1>6. wall = i + o /\ Whole(wall) /\ o \in Int /\ -half <= o /\ o <= day
  BY <1>1, <1>3, <1>5, OffsetIs, WallIs DEF Whole
<1>7. /\ wall - half \in Int /\ i - 2 * day <= wall - half /\ wall - half <= i + 2 * day
      /\ wall + half \in Int /\ i - 2 * day <= wall + half /\ wall + half <= i + 2 * day
  BY <1>1, <1>3, <1>6
<1>8. offset(zone, wall - half) = o /\ offset(zone, wall + half) = o
  BY <1>4, <1>5, <1>7
<1>9. Tried(zone, wall) = {i}
  BY <1>1, <1>3, <1>6, <1>8 DEF Tried
<1>10. Valid(zone, wall) = {i}
  BY <1>5, <1>9 DEF Valid
<1>11. fromWall(zone, wall) = i
  BY <1>6, <1>10, FromWallIs
<1> QED
  BY <1>1, <1>4, <1>5, <1>11

-----------------------------------------------------------------------------
\* What an expression names.

Match(cron, wall) ==
  /\ getMonth(wall) \in cron.months /\ dayMatches(cron, wall)
  /\ getHours(wall) \in cron.hours /\ getMinutes(wall) \in cron.minutes

LEMMA WeekdaysAre ==
  ASSUME NEW expression \in Expressions, NEW cron, cron = parseCron(expression)
  PROVE  {d % WeekDays : d \in cron.weekdays} = cron.weekdays
<1>1. WeekDays \in Nat \ {0}
  BY CalendarAssumption
<1>2. ASSUME NEW d \in Int
      PROVE  d % WeekDays \in Int /\ (d % WeekDays) % WeekDays = d % WeekDays
  <2>1. PICK r : r = d % WeekDays
    OBVIOUS
  <2>2. r \in Nat /\ r < WeekDays
    BY <1>1, <2>1, Divided
  <2>3. WeekDays * 0 <= r /\ r < WeekDays * 0 + WeekDays
    BY <1>1, <2>2
  <2>4. r \div WeekDays = 0
    BY <1>1, <2>2, <2>3, Quotient
  <2>5. r % WeekDays = r - WeekDays * 0
    BY <1>1, <2>2, <2>4, Divided
  <2>6. r % WeekDays = r
    BY <1>1, <2>2, <2>5
  <2> QED
    BY <2>1, <2>2, <2>6
<1> DEFINE named == parseField(expression.weekdays, "weekdays")
<1>3. ASSUME NEW item \in expression.weekdays
      PROVE  values(item, FIELDS["weekdays"]) \subseteq Int
  <2>1. item.from \in Int /\ item.to \in Int
    BY ExpressionsAssumption
  <2>2. FIELDS["weekdays"].min = 0 /\ FIELDS["weekdays"].max = WeekDays /\ FIELDS["weekdays"].star = WeekDays - 1
    BY DEF FIELDS
  <2>3. PICK field : field = FIELDS["weekdays"]
    OBVIOUS
  <2> QED
    BY <1>1, <2>1, <2>2, <2>3 DEF values, Unsaid
<1>4. named \subseteq Int
  BY <1>3 DEF parseField
<1>5. cron.weekdays = {d % WeekDays : d \in named}
  BY DEF parseCron
<1> HIDE DEF named
<1>6. ASSUME NEW d \in cron.weekdays
      PROVE  d % WeekDays = d
  <2>1. PICK e \in named : d = e % WeekDays
    BY <1>5
  <2> QED
    BY <1>2, <1>4, <2>1
<1> QED
  BY <1>6

LEMMA DueIs ==
  ASSUME NEW expression \in Expressions, NEW cron, cron = parseCron(expression), NEW zone, NEW i
  PROVE  IsDue(cron, zone, i) <=> i % MINUTE = 0 /\ Match(cron, toWall(zone, i))
<1>1. PICK wall : wall = toWall(zone, i)
  OBVIOUS
<1>2. {d % WeekDays : d \in cron.weekdays} = cron.weekdays
  BY WeekdaysAre
<1>3. (cron.anyDay \/ ~ cron.anyDay) /\ (cron.anyWeekday \/ ~ cron.anyWeekday)
  OBVIOUS
<1>4. dayMatches(cron, wall) <=>
        \/ getDate(wall) \in cron.days /\ getDay(wall) \in cron.weekdays
        \/ ~ cron.anyDay /\ ~ cron.anyWeekday /\ (getDate(wall) \in cron.days \/ getDay(wall) \in cron.weekdays)
  BY DEF dayMatches
<1> QED
  BY <1>1, <1>2, <1>4 DEF IsDue, Match

-----------------------------------------------------------------------------
\* The walk.

\* What the walk of next() is over.
Walks(zone, at, end) ==
  /\ ZoneOK(zone) /\ at \in Nat /\ Whole(end) /\ end <= DAY * Days
Top(end) == end + DAY * Longest
Path(end) == 0 .. Top(end)

\* A minute of the wall clock that next() stops at.
Stops(cron, zone, at, wall) == Match(cron, wall) /\ fromWall(zone, wall) # Never /\ fromWall(zone, wall) > at
Hit(cron, zone, at, wall) == Whole(wall) /\ Stops(cron, zone, at, wall)

\* The next multiple.
LEMMA Skipped ==
  ASSUME NEW n \in Nat \ {0}, n % MINUTE = 0, NEW wall \in Nat, NEW there, there = (wall \div n + 1) * n
  PROVE  /\ Whole(there) /\ wall < there /\ there <= wall + n
         /\ there = n * (wall \div n) + n
<1>1. PICK q : q = wall \div n
  OBVIOUS
<1>2. q \in Int /\ n * q <= wall /\ wall < n * q + n /\ n * q \in Int
  BY <1>1, Divided, Product
<1>3. there = n * q + n
  <2>1. q + 1 \in Int /\ there = (q + 1) * n
    BY <1>1, <1>2
  <2>2. (q + 1) * n = n * (q + 1)
    BY <2>1, Reassoc
  <2>3. n * (q + 1) = n * q + n
    BY <1>2
  <2> QED
    BY <2>1, <2>2, <2>3
<1>5. Whole(there)
  <2>1. MINUTE \in Nat \ {0} /\ MINUTE \in Int /\ n \in Int /\ there \in Int
    BY <1>2, <1>3, Scale
  <2>2. PICK k \in Int : n = MINUTE * k
    BY <2>1, Multiple, Zenon
  <2>3. PICK r \in Int : there = n * r
    <3>1. q + 1 \in Int /\ there = n * (q + 1)
      BY <1>2, <1>3
    <3> QED
      BY <3>1
  <2>4. k * r \in Int /\ there = MINUTE * (k * r)
    <3>1. k * r \in Int /\ (MINUTE * k) * r = MINUTE * (k * r)
      BY <2>1, Reassoc
    <3> QED
      BY <2>2, <2>3, <3>1, Zenon
  <2>5. there % MINUTE = 0
    BY <2>1, <2>4, Multiple, Zenon
  <2> QED
    BY <2>1, <2>5 DEF Whole
<1> QED
  BY <1>1, <1>2, <1>3, <1>5

\* What lies before it has the same quotient.
LEMMA Alike ==
  ASSUME NEW n \in Nat \ {0}, NEW wall \in Nat, NEW x \in Int, wall <= x, x < n * (wall \div n) + n
  PROVE  x \div n = wall \div n
<1>1. PICK q : q = wall \div n
  OBVIOUS
<1>2. q \in Int /\ n * q <= wall /\ n * q \in Int
  BY <1>1, Divided, Product
<1>3. n * q <= x /\ x < n * q + n
  BY <1>1, <1>2
<1> QED
  BY <1>1, <1>2, <1>3, Quotient

LEMMA PathIs ==
  ASSUME NEW zone, NEW at, NEW end, Walks(zone, at, end), NEW wall \in Path(end)
  PROVE  /\ wall \in Nat /\ end \in Int /\ DAY * Longest \in Nat /\ DAY <= DAY * Longest /\ Top(end) \in Int
         /\ wall <= Top(end)
         /\ wall < end => wall \div DAY \in Nat /\ wall \div DAY < Days
<1>1. end \in Int
  BY DEF Walks, Whole
<1>2. DAY * Longest \in Nat /\ DAY <= DAY * Longest
  <2>1. ASSUME NEW a \in Nat \ {0}, NEW b \in Nat \ {0}
        PROVE  a * b \in Nat /\ a <= a * b
    OBVIOUS
  <2> QED
    BY <2>1, Scale, LongestIs
<1>3. Top(end) \in Int
  BY <1>1, <1>2 DEF Top
<1>4. wall \in Nat /\ wall <= Top(end)
  BY <1>3 DEF Path
<1>5. ASSUME wall < end
      PROVE  wall \div DAY \in Nat /\ wall \div DAY < Days
  <2>1. PICK d : d = wall \div DAY
    OBVIOUS
  <2>2. d \in Int /\ DAY * d <= wall /\ wall < DAY * d + DAY /\ DAY \in Nat \ {0}
    BY <1>4, <2>1, Divided, Scale
  <2>3. d >= 0
    BY <1>4, <2>1, Scale
  <2>4. DAY * Days \in Int /\ DAY * d \in Int /\ Days \in Int
    BY <2>2, DaysAre, Product
  <2>5. DAY * d < DAY * Days
    BY <1>1, <1>4, <1>5, <2>2, <2>4 DEF Walks
  <2>6. ~ (Days <= d)
    BY <2>2, <2>4, <2>5, Product
  <2> QED
    BY <2>1, <2>2, <2>3, <2>4, <2>6
<1> QED
  BY <1>1, <1>2, <1>3, <1>4, <1>5

\* Wall-clock times of one day, hour or month that next() skips share what it looks at.
LEMMA SameDate ==
  ASSUME NEW cron, NEW wall, NEW x, x \div DAY = wall \div DAY
  PROVE  dayMatches(cron, x) <=> dayMatches(cron, wall)
<1>1. MonthOf(x) = MonthOf(wall)
  BY DEF MonthOf
<1>2. getDate(x) = getDate(wall) /\ getDay(x) = getDay(wall)
  BY <1>1 DEF getDate, getDay
<1> QED
  BY <1>2 DEF dayMatches

LEMMA SameHour ==
  ASSUME NEW wall, NEW x, x \div HOUR = wall \div HOUR
  PROVE  getHours(x) = getHours(wall)
BY DEF getHours

LEMMA NextMonth ==
  ASSUME NEW wall \in Nat, wall \div DAY \in Nat, wall \div DAY < Days,
         NEW there, there = MonthStarts[MonthOf(wall) + 1] * DAY
  PROVE  /\ Whole(there) /\ wall < there /\ there <= wall + DAY * Longest
         /\ \A x \in Int : wall <= x /\ x < there => getMonth(x) = getMonth(wall)
<1>1. PICK d, m : d = wall \div DAY /\ m = MonthOf(wall)
  OBVIOUS
<1>2. d \in Nat /\ DAY \in Nat \ {0} /\ DAY * d <= wall /\ wall < DAY * d + DAY /\ DAY * d \in Int
  BY <1>1, Divided, Scale
<1>3. m \in 1 .. Months /\ MonthStarts[m] <= d /\ d < MonthStarts[m + 1]
  BY <1>1, MonthHolds
<1>4. m \in 1 .. Months + 1 /\ m + 1 \in 1 .. Months + 1
  BY <1>3, MonthsAre
<1>5. PICK first, last : first = MonthStarts[m] /\ last = MonthStarts[m + 1]
  OBVIOUS
<1>6. /\ first \in Nat /\ last \in Nat /\ last = first + MonthDays[m] /\ MonthDays[m] \in Nat /\ MonthDays[m] <= Longest
      /\ Longest \in Nat /\ last <= Days /\ Days \in Nat
  BY <1>3, <1>4, <1>5, StartsGrow, MonthsAre, LongestIs, DaysAre DEF Days
<1>7. d + 1 <= last /\ last <= d + Longest
  BY <1>2, <1>3, <1>5, <1>6
<1>8. there = DAY * last /\ there \in Int
  <2>1. there = last * DAY
    BY <1>1, <1>5
  <2> QED
    BY <1>2, <1>6, <2>1, Reassoc
<1>9. DAY * d + DAY <= there /\ there <= DAY * d + DAY * Longest
  <2>1. DAY * (d + 1) <= DAY * last /\ DAY * (d + 1) = DAY * d + DAY
    BY <1>2, <1>6, <1>7, Product
  <2>2. DAY * last <= DAY * (d + Longest) /\ DAY * (d + Longest) = DAY * d + DAY * Longest
    BY <1>2, <1>6, <1>7, Product
  <2> QED
    BY <1>8, <2>1, <2>2
<1>10. DAY * Longest \in Int
  BY <1>2, <1>6, Product
<1>11. wall < there /\ there <= wall + DAY * Longest
  BY <1>2, <1>8, <1>9, <1>10
<1>12. Whole(there)
  <2>1. MINUTE \in Nat \ {0} /\ MINUTE \in Int /\ DAY \in Int /\ last \in Int /\ DAY % MINUTE = 0
    BY <1>6, Scale
  <2>2. PICK k \in Int : DAY = MINUTE * k
    BY <2>1, Multiple, Zenon
  <2>3. k * last \in Int /\ (MINUTE * k) * last = MINUTE * (k * last)
    BY <2>1, Reassoc
  <2>4. there = MINUTE * (k * last)
    BY <1>8, <2>2, <2>3, Zenon
  <2>5. there % MINUTE = 0
    BY <1>8, <2>1, <2>3, <2>4, Multiple, Zenon
  <2> QED
    BY <1>8, <2>5 DEF Whole
<1>13. ASSUME NEW x \in Int, wall <= x, x < there
       PROVE  getMonth(x) = getMonth(wall)
  <2>1. PICK e : e = x \div DAY
    OBVIOUS
  <2>2. e \in Int /\ DAY * e <= x /\ x < DAY * e + DAY /\ DAY * e \in Int
    BY <1>2, <2>1, Divided
  <2>3. d <= e
    <3>1. DAY * d < DAY * e + DAY
      BY <1>2, <1>13, <2>2
    <3> QED
      BY <1>2, <2>2, <3>1, ProductStrict
  <2>4. e < last
    <3>1. DAY * e < DAY * last /\ DAY * last \in Int
      BY <1>8, <1>13, <2>2
    <3>2. ~ (last <= e)
      BY <1>2, <1>6, <2>2, <3>1, Product
    <3> QED
      BY <1>6, <2>2, <3>2
  <2>5. e \in Nat /\ first <= e
    BY <1>2, <1>3, <1>5, <1>6, <2>2, <2>3
  <2>6. MonthOf(x) = m
    BY <1>3, <1>5, <2>1, <2>4, <2>5, MonthKnown
  <2> QED
    BY <1>1, <2>6 DEF getMonth
<1> QED
  BY <1>11, <1>12, <1>13

\* One turn of the loop stops at the time it is at, or goes on past times no hit is among.
LEMMA Turns ==
  ASSUME NEW cron, NEW zone, NEW at, NEW end, Walks(zone, at, end), NEW wall \in Path(end), wall < end
  PROVE  \/ /\ Stops(cron, zone, at, wall)
            /\ \A f : walkFrom(cron, zone, at, end, f, wall) = fromWall(zone, wall)
         \/ \E there \in Path(end) :
              /\ wall < there
              /\ \A f : walkFrom(cron, zone, at, end, f, wall) = f[there]
              /\ Whole(wall) => Whole(there)
              /\ \A x \in Int : wall <= x /\ x < there /\ Whole(wall) => ~ Hit(cron, zone, at, x)
<1>1. /\ wall \in Nat /\ end \in Int /\ DAY * Longest \in Nat /\ DAY <= DAY * Longest /\ Top(end) = end + DAY * Longest
      /\ wall \div DAY \in Nat /\ wall \div DAY < Days
  BY PathIs DEF Top
<1>2. DAY \in Nat \ {0} /\ HOUR \in Nat \ {0} /\ MINUTE \in Nat \ {0} /\ HOUR <= DAY /\ MINUTE <= DAY
      /\ DAY % MINUTE = 0 /\ HOUR % MINUTE = 0
  BY Scale
<1>3. ~ (wall >= end)
  BY <1>1
<1>4. ASSUME NEW there \in Int, wall < there, there <= wall + DAY * Longest
      PROVE  there \in Path(end)
  BY <1>1, <1>4 DEF Path
<1>5. CASE getMonth(wall) \notin cron.months
  <2>1. PICK there : there = MonthStarts[MonthOf(wall) + 1] * DAY
    OBVIOUS
  <2>2. /\ Whole(there) /\ wall < there /\ there <= wall + DAY * Longest
        /\ \A x \in Int : wall <= x /\ x < there => getMonth(x) = getMonth(wall)
    BY <1>1, <2>1, NextMonth
  <2>3. there \in Path(end)
    BY <1>4, <2>2 DEF Whole
  <2>4. \A f : walkFrom(cron, zone, at, end, f, wall) = f[there]
    BY <1>3, <1>5, <2>1 DEF walkFrom
  <2>5. \A x \in Int : wall <= x /\ x < there => ~ Hit(cron, zone, at, x)
    BY <1>5, <2>2 DEF Hit, Stops, Match
  <2> QED
    BY <2>2, <2>3, <2>4, <2>5
<1>6. CASE getMonth(wall) \in cron.months /\ ~ dayMatches(cron, wall)
  <2>1. PICK there : there = (wall \div DAY + 1) * DAY
    OBVIOUS
  <2>6. DAY \in Nat \ {0} /\ DAY % MINUTE = 0 /\ wall \in Nat
    BY <1>1, <1>2
  <2>2. Whole(there) /\ wall < there /\ there <= wall + DAY /\ there = DAY * (wall \div DAY) + DAY
    BY <2>1, <2>6, Skipped, Zenon
  <2>7. ASSUME NEW x \in Int, wall <= x, x < there
        PROVE  x \div DAY = wall \div DAY
    BY <2>2, <2>6, <2>7, Alike
  <2>3. there \in Path(end)
    BY <1>1, <1>2, <1>4, <2>2 DEF Whole
  <2>4. \A f : walkFrom(cron, zone, at, end, f, wall) = f[there]
    BY <1>3, <1>6, <2>1 DEF walkFrom
  <2>5. \A x \in Int : wall <= x /\ x < there => ~ Hit(cron, zone, at, x)
    BY <1>6, <2>7, SameDate DEF Hit, Stops, Match
  <2> QED
    BY <2>2, <2>3, <2>4, <2>5
<1>7. CASE getMonth(wall) \in cron.months /\ dayMatches(cron, wall) /\ getHours(wall) \notin cron.hours
  <2>1. PICK there : there = (wall \div HOUR + 1) * HOUR
    OBVIOUS
  <2>6. HOUR \in Nat \ {0} /\ HOUR % MINUTE = 0 /\ wall \in Nat
    BY <1>1, <1>2
  <2>2. Whole(there) /\ wall < there /\ there <= wall + HOUR /\ there = HOUR * (wall \div HOUR) + HOUR
    BY <2>1, <2>6, Skipped, Zenon
  <2>7. ASSUME NEW x \in Int, wall <= x, x < there
        PROVE  x \div HOUR = wall \div HOUR
    BY <2>2, <2>6, <2>7, Alike
  <2>3. there \in Path(end)
    BY <1>1, <1>2, <1>4, <2>2 DEF Whole
  <2>4. \A f : walkFrom(cron, zone, at, end, f, wall) = f[there]
    BY <1>3, <1>7, <2>1 DEF walkFrom
  <2>5. \A x \in Int : wall <= x /\ x < there => ~ Hit(cron, zone, at, x)
    BY <1>7, <2>7, SameHour DEF Hit, Stops, Match
  <2> QED
    BY <2>2, <2>3, <2>4, <2>5
<1>8. CASE /\ getMonth(wall) \in cron.months /\ dayMatches(cron, wall) /\ getHours(wall) \in cron.hours
           /\ ~ Stops(cron, zone, at, wall)
  <2>1. PICK there : there = wall + MINUTE
    OBVIOUS
  <2>2. there \in Int /\ wall < there /\ there <= wall + DAY
    BY <1>1, <1>2, <2>1
  <2>3. there \in Path(end)
    BY <1>1, <1>2, <1>4, <2>2
  <2>4. \A f : walkFrom(cron, zone, at, end, f, wall) = f[there]
    BY <1>3, <1>8, <2>1 DEF walkFrom, Stops, Match
  <2>5. Whole(MINUTE)
    <3>1. MINUTE * 1 <= MINUTE /\ MINUTE < MINUTE * 1 + MINUTE /\ MINUTE \in Int
      BY <1>2
    <3>2. MINUTE = MINUTE * 1
      BY <1>2
    <3> QED
      BY <1>2, <3>1, <3>2, Multiple DEF Whole
  <2>6. Whole(wall) => Whole(there)
    BY <2>1, <2>5, WholeSums
  <2>7. \A x \in Int : wall <= x /\ x < there /\ Whole(wall) => ~ Hit(cron, zone, at, x)
    <3> SUFFICES ASSUME NEW x \in Int, wall <= x, x < there, Whole(wall), Whole(x) PROVE x = wall
      BY <1>8 DEF Hit
    <3>1. wall < x => wall + MINUTE <= x
      BY WholeSums
    <3> QED
      BY <1>1, <1>2, <2>1, <3>1
  <2> QED
    BY <2>2, <2>3, <2>4, <2>6, <2>7
<1>9. CASE Stops(cron, zone, at, wall)
  BY <1>3, <1>9 DEF walkFrom, Stops, Match
<1> QED
  BY <1>5, <1>6, <1>7, <1>8, <1>9 DEF Stops, Match

LEMMA WalkHas ==
  ASSUME NEW cron, NEW zone, NEW at, NEW end, Walks(zone, at, end)
  PROVE  \E f : f = [wall \in Path(end) |-> walkFrom(cron, zone, at, end, f, wall)]
<1> DEFINE S == Path(end)
           V == {Never} \cup {fromWall(zone, wall) : wall \in S}
           Turn(f, wall) == walkFrom(cron, zone, at, end, f, wall)
           Body == [f \in [S -> V] |-> [wall \in S |-> Turn(f, wall)]]
           rank == [wall \in S |-> Top(end) - wall]
<1>1. ASSUME NEW wall \in S, wall >= end
      PROVE  \A f : Turn(f, wall) = Never
  BY <1>1 DEF walkFrom
<1>2. ASSUME NEW wall \in S
      PROVE  wall \in Int /\ end \in Int /\ Top(end) \in Int /\ wall <= Top(end)
  BY PathIs
<1>3. ASSUME NEW f \in [S -> V], NEW wall \in S
      PROVE  Turn(f, wall) \in V
  <2>1. CASE wall >= end
    BY <1>1, <2>1
  <2>2. CASE ~ (wall >= end)
    <3>1. wall < end
      BY <1>2, <2>2
    <3>2. Turn(f, wall) = fromWall(zone, wall) \/ \E there \in S : Turn(f, wall) = f[there]
      BY <3>1, Turns
    <3> QED
      BY <3>2
  <2> QED
    BY <2>1, <2>2
<1>4. ASSUME NEW f \in [S -> V], NEW g \in [S -> V], NEW wall \in S, \A x \in S : rank[x] < rank[wall] => f[x] = g[x]
      PROVE  Turn(f, wall) = Turn(g, wall)
  <2>1. CASE wall >= end
    BY <1>1, <2>1
  <2>2. CASE ~ (wall >= end)
    <3>1. wall < end
      BY <1>2, <2>2
    <3>4. \/ /\ Stops(cron, zone, at, wall)
             /\ \A h : walkFrom(cron, zone, at, end, h, wall) = fromWall(zone, wall)
          \/ \E there \in Path(end) :
               /\ wall < there
               /\ \A h : walkFrom(cron, zone, at, end, h, wall) = h[there]
               /\ Whole(wall) => Whole(there)
               /\ \A x \in Int : wall <= x /\ x < there /\ Whole(wall) => ~ Hit(cron, zone, at, x)
      BY <3>1, Turns, Zenon
    <3>2. \/ \A h : Turn(h, wall) = fromWall(zone, wall)
          \/ \E there \in S : wall < there /\ \A h : Turn(h, wall) = h[there]
      BY <3>4, Zenon
    <3>3. ASSUME NEW there \in S, wall < there
          PROVE  f[there] = g[there]
      <4>1. rank[there] < rank[wall]
        BY <1>2, <3>3
      <4> QED
        BY <1>4, <4>1
    <3> QED
      BY <3>2, <3>3
  <2> QED
    BY <2>1, <2>2
<1>5. rank \in [S -> Nat]
  BY <1>2
<1> HIDE DEF Turn
<1>6. Body \in [[S -> V] -> [S -> V]] /\ V # {}
  BY <1>3
<1>7. \A f, g \in [S -> V], x \in S : (\A y \in S : rank[y] < rank[x] => f[y] = g[y]) => Body[f][x] = Body[g][x]
  BY <1>4
<1>8. \E f \in [S -> V] : f = Body[f]
  <2>1. WellFounded(S, V, rank, Body)
    BY <1>5, <1>6, <1>7 DEF WellFounded
  <2> HIDE DEF S, V, rank, Body
  <2> QED
    BY <2>1, RecursionHolds
<1>9. PICK f \in [S -> V] : f = [wall \in S |-> Turn(f, wall)]
  BY <1>8
<1> QED
  BY <1>9 DEF Turn

\* The walk stops at the first hit there is.
First(cron, zone, at, from, wall) ==
  Hit(cron, zone, at, wall) /\ from <= wall /\ \A x \in Int : from <= x /\ x < wall => ~ Hit(cron, zone, at, x)

LEMMA WalkFinds ==
  ASSUME NEW cron, NEW zone, NEW at, NEW end, Walks(zone, at, end), NEW f,
         f = [wall \in Path(end) |-> walkFrom(cron, zone, at, end, f, wall)],
         NEW start \in Path(end), Whole(start),
         NEW hit, Hit(cron, zone, at, hit), start <= hit, hit < end
  PROVE  \E wall : First(cron, zone, at, start, wall) /\ wall <= hit /\ f[start] = fromWall(zone, wall)
<1> DEFINE Found(from) == \E wall : First(cron, zone, at, from, wall) /\ wall <= hit /\ f[from] = fromWall(zone, wall)
           T == {n \in Nat : \A from \in Path(end) : Top(end) - from = n /\ Whole(from) /\ from <= hit => Found(from)}
<1>1. hit \in Int
  BY DEF Hit, Whole
<1>2. ASSUME NEW from \in Path(end), Whole(from), from <= hit,
             \A x \in Path(end) : from < x /\ Whole(x) /\ x <= hit => Found(x)
      PROVE  Found(from)
  <2>1. from \in Int /\ end \in Int
    BY PathIs
  <2>2. from < end
    BY <1>1, <1>2, <2>1
  <2>3. f[from] = walkFrom(cron, zone, at, end, f, from)
    OBVIOUS
  <2>4. CASE Stops(cron, zone, at, from) /\ \A g : walkFrom(cron, zone, at, end, g, from) = fromWall(zone, from)
    <3>1. f[from] = fromWall(zone, from)
      BY <2>3, <2>4
    <3>2. Hit(cron, zone, at, from)
      BY <1>2, <2>4 DEF Hit
    <3>3. First(cron, zone, at, from, from)
      BY <2>1, <3>2 DEF First
    <3> QED
      BY <1>2, <3>1, <3>3
  <2>5. ASSUME NEW there \in Path(end), from < there, \A g : walkFrom(cron, zone, at, end, g, from) = g[there], Whole(there),
               \A x \in Int : from <= x /\ x < there => ~ Hit(cron, zone, at, x)
        PROVE  Found(from)
    <3>1. there \in Int
      BY PathIs
    <3>2. there <= hit
      BY <1>1, <1>2, <2>5, <3>1
    <3>3. PICK wall : First(cron, zone, at, there, wall) /\ wall <= hit /\ f[there] = fromWall(zone, wall)
      BY <1>2, <2>5, <3>2
    <3>4. wall \in Int /\ there <= wall /\ Hit(cron, zone, at, wall)
      BY <3>3 DEF First, Hit, Whole
    <3>5. \A x \in Int : from <= x /\ x < wall => ~ Hit(cron, zone, at, x)
      <4> SUFFICES ASSUME NEW x \in Int, from <= x, x < wall PROVE ~ Hit(cron, zone, at, x)
        OBVIOUS
      <4>1. x < there \/ there <= x
        BY <3>1
      <4> QED
        BY <2>5, <3>3, <4>1 DEF First
    <3>6. First(cron, zone, at, from, wall)
      BY <2>1, <2>5, <3>1, <3>4, <3>5 DEF First
    <3>7. f[from] = fromWall(zone, wall)
      BY <2>3, <2>5, <3>3
    <3> QED
      BY <3>3, <3>6, <3>7
  <2> HIDE DEF Found
  <2> QED
    BY <1>2, <2>2, <2>4, <2>5, Turns
<1> HIDE DEF Found
<1>3. ASSUME NEW n \in Nat, \A m \in Nat : m < n => m \in T
      PROVE  n \in T
  <2> SUFFICES ASSUME NEW from \in Path(end), Top(end) - from = n, Whole(from), from <= hit PROVE Found(from)
    OBVIOUS
  <2>1. ASSUME NEW x \in Path(end), from < x, Whole(x), x <= hit
        PROVE  Found(x)
    <3>1. Top(end) - x \in Nat /\ Top(end) - x < n
      BY <2>1, PathIs
    <3> QED
      BY <1>3, <2>1, <3>1
  <2> QED
    BY <1>2, <2>1
<1>4. Nat \subseteq T
  <2> HIDE DEF T
  <2> QED
    BY <1>3, Climb
<1>5. Top(end) - start \in Nat
  BY PathIs
<1>6. Found(start)
  BY <1>4, <1>5
<1> QED
  BY <1>6 DEF Found

\* What next() comes to.
LEMMA NextFinds ==
  ASSUME NEW expression \in Expressions, NEW cron, cron = parseCron(expression), NEW zone \in ZoneSet, NEW at \in Starts
  PROVE  \E wall :
           /\ First(cron, zone, at, toWall(zone, at) + MINUTE, wall)
           /\ next(cron, zone, at) = fromWall(zone, wall)
           /\ \E slot \in at + 1 .. at + HORIZON_MS - 2 * DAY :
                IsDue(cron, zone, slot) /\ ~ Repeated(zone, slot) /\ wall <= toWall(zone, slot)
<1> DEFINE end == toWall(zone, at + HORIZON_MS)
           start == toWall(zone, at) + MINUTE
<1>1. at \in Nat /\ HORIZON_MS \in Nat /\ DAY \in Nat \ {0} /\ MINUTE \in Nat \ {0} /\ MINUTE <= DAY /\ ZoneOK(zone)
  BY SchedulesAssumption, CalendarAssumption, Scale, ZonesOK
<1>2. PICK half \in Nat : half = Half /\ half + MINUTE <= DAY
  BY HalfIs
<1>3. PICK later : later = at + HORIZON_MS /\ later \in Int
  BY <1>1
<1>4. Whole(end) /\ later + offset(zone, later) < end + MINUTE /\ end \in Int /\ offset(zone, later) \in Int /\ -half <= offset(zone, later)
  BY <1>1, <1>2, <1>3, WallIs, OffsetIs DEF Whole
<1>5. /\ Whole(toWall(zone, at)) /\ toWall(zone, at) <= at + offset(zone, at) /\ toWall(zone, at) \in Int
      /\ offset(zone, at) \in Int /\ offset(zone, at) <= DAY
  BY <1>1, WallIs, OffsetIs DEF Whole
<1>6. 0 <= toWall(zone, at) /\ end <= Days * DAY
  BY ZonesAssumption DEF Days, Months
<1>7. PICK slot \in at + 2 * DAY .. at + HORIZON_MS - 2 * DAY :
        IsDue(cron, zone, slot) /\ offset(zone, slot - 2 * DAY) = offset(zone, slot + 2 * DAY)
  BY ExpressionsAssumption
<1>8. slot \in Int /\ at + 2 * DAY <= slot /\ slot <= later - 2 * DAY
  BY <1>1, <1>3, <1>7
<1>9. Whole(slot) /\ Match(cron, toWall(zone, slot))
  BY <1>7, <1>8, DueIs DEF Whole
<1>10. /\ toWall(zone, slot) = slot + offset(zone, slot) /\ Whole(toWall(zone, slot)) /\ toWall(zone, slot) \in Int
       /\ offset(zone, slot) \in Int /\ -half <= offset(zone, slot) /\ offset(zone, slot) <= DAY
  BY <1>1, <1>2, <1>8, <1>9, WallIs, OffsetIs DEF Whole
<1>11. /\ fromWall(zone, toWall(zone, slot)) = slot
       /\ \A t \in Int : slot - 2 * DAY <= t /\ t <= slot + 2 * DAY => offset(zone, t) = offset(zone, slot)
  BY <1>1, <1>7, <1>9, FromWallSettled
<1>12. slot # Never /\ slot > at /\ slot \in at + 1 .. at + HORIZON_MS - 2 * DAY
  BY <1>1, <1>3, <1>8 DEF Never
<1>13. Hit(cron, zone, at, toWall(zone, slot))
  BY <1>9, <1>10, <1>11, <1>12 DEF Hit, Stops
<1>14. ~ Repeated(zone, slot)
  <2> SUFFICES ASSUME NEW t \in slot - DAY .. slot - 1, toWall(zone, t) = toWall(zone, slot), t % MINUTE = 0 PROVE FALSE
    BY DEF Repeated
  <2>1. t \in Int /\ slot - 2 * DAY <= t /\ t <= slot + 2 * DAY /\ t < slot
    BY <1>1, <1>8
  <2>2. Whole(t)
    BY <2>1 DEF Whole
  <2>3. toWall(zone, t) = t + offset(zone, t) /\ offset(zone, t) = offset(zone, slot)
    BY <1>1, <1>11, <2>1, <2>2, WallIs
  <2> QED
    BY <1>8, <1>10, <2>1, <2>3
<1>15. Whole(MINUTE)
  <2>1. MINUTE = MINUTE * 1 /\ MINUTE \in Int
    BY <1>1
  <2> QED
    BY <1>1, <2>1, Multiple DEF Whole
<1>16. Whole(start) /\ start \in Int /\ 0 <= start
  <2>1. Whole(start)
    BY <1>5, <1>15, WholeSums
  <2> QED
    BY <1>1, <1>5, <1>6, <2>1
<1>17. toWall(zone, at) < toWall(zone, slot)
  BY <1>1, <1>2, <1>5, <1>8, <1>10
<1>18. start <= toWall(zone, slot)
  BY <1>5, <1>10, <1>17, WholeSums
<1>19. toWall(zone, slot) < end
  BY <1>1, <1>2, <1>3, <1>4, <1>8, <1>10
<1> HIDE DEF end, start
<1>20. Walks(zone, at, end)
  <2>1. Days * DAY = DAY * Days
    BY <1>1, DaysAre, Reassoc
  <2> QED
    BY <1>1, <1>4, <1>6, <2>1 DEF Walks
<1>21. start \in Path(end)
  <2>1. DAY * Longest \in Nat
    BY <1>1, LongestIs, Product
  <2> QED
    BY <1>4, <1>10, <1>16, <1>18, <1>19, <2>1 DEF Path, Top
<1> DEFINE f == CHOOSE f : f = [wall \in Path(end) |-> walkFrom(cron, zone, at, end, f, wall)]
<1>22. f = [wall \in Path(end) |-> walkFrom(cron, zone, at, end, f, wall)]
  BY <1>20, WalkHas
<1>23. next(cron, zone, at) = f[start]
  BY DEF next, Path, Top, Longest, end, start
<1> HIDE DEF f
<1>24. PICK wall : First(cron, zone, at, start, wall) /\ wall <= toWall(zone, slot) /\ f[start] = fromWall(zone, wall)
  BY <1>13, <1>16, <1>18, <1>19, <1>20, <1>21, <1>22, WalkFinds
<1> QED
  BY <1>7, <1>12, <1>14, <1>23, <1>24 DEF start

-----------------------------------------------------------------------------
\* The first instant, in a zone near UTC.

\* Later times of the wall clock happen later, if each is taken the first time.
LEMMA FirstsOrdered ==
  ASSUME NEW zone, ZoneOK(zone), Near(zone), NEW wall, Whole(wall), NEW slot, slot = fromWall(zone, wall),
         Whole(slot), toWall(zone, slot) = wall, NEW s, Whole(s), wall <= toWall(zone, s)
  PROVE  slot <= s
<1>1. slot \in Int /\ s \in Int /\ wall \in Int
  BY DEF Whole
<1>2. PICK c, b, a : c = zone.change /\ b = zone.before /\ a = zone.after /\ c \in Int /\ b \in Int /\ a \in Int
  BY DEF ZoneOK, Whole
<1>3. wall = slot + offset(zone, slot) /\ toWall(zone, s) = s + offset(zone, s)
  BY <1>1, WallIs
<1>4. /\ slot < c => offset(zone, slot) = b
      /\ ~ (slot < c) => offset(zone, slot) = a
      /\ s < c => offset(zone, s) = b
      /\ ~ (s < c) => offset(zone, s) = a
  BY <1>1, <1>2, OffsetIs
<1>5. CASE ~ (slot < c) /\ s < c
  <2>1. PICK i : i = wall - b
    OBVIOUS
  <2>2. Whole(i) /\ i \in Int
    BY <1>2, <2>1, WholeSums DEF ZoneOK, Whole
  <2>3. i <= s
    BY <1>1, <1>2, <1>3, <1>4, <1>5, <2>1
  <2>4. offset(zone, i) = b
    BY <1>1, <1>2, <1>5, <2>2, <2>3, OffsetIs
  <2>5. toWall(zone, i) = wall
    BY <1>1, <1>2, <2>1, <2>2, <2>4, WallIs
  <2>6. slot <= i
    BY <2>2, <2>5, FromWallFirst
  <2> QED
    BY <1>1, <2>2, <2>3, <2>6
<1>6. CASE ~ (~ (slot < c) /\ s < c)
  BY <1>1, <1>2, <1>3, <1>4, <1>6
<1> QED
  BY <1>5, <1>6

\* How far offsets near UTC can be apart.
LEMMA OffsetsApart ==
  ASSUME NEW zone, ZoneOK(zone), Near(zone), NEW i \in Int, NEW k \in Int
  PROVE  /\ offset(zone, i) \in Int /\ offset(zone, k) \in Int
         /\ offset(zone, i) - offset(zone, k) <= DAY
<1>1. PICK half : half = Half /\ half \in Nat /\ half + half <= DAY
  BY HalfIs
<1>2. zone.before \in Int /\ -half <= zone.before /\ zone.before <= half
      /\ zone.after \in Int /\ -half <= zone.after /\ zone.after <= half
  BY <1>1 DEF ZoneOK, Near, Whole
<1> QED
  BY <1>1, <1>2, Scale DEF offset

\* A slot that is not a repetition is the first instant of its wall-clock time ...
LEMMA FirstFound ==
  ASSUME NEW zone, ZoneOK(zone), Near(zone), NEW s, Whole(s), ~ Repeated(zone, s)
  PROVE  fromWall(zone, toWall(zone, s)) = s
<1>1. PICK i : i = fromWall(zone, toWall(zone, s))
  OBVIOUS
<1>2. Whole(i) /\ i \in Int /\ s \in Int /\ toWall(zone, i) = toWall(zone, s) /\ i <= s
  BY <1>1, FromWallFirst DEF Whole
<1>3. i + offset(zone, i) = s + offset(zone, s)
  BY <1>2, WallIs
<1>4. offset(zone, i) \in Int /\ offset(zone, s) \in Int /\ offset(zone, i) - offset(zone, s) <= DAY /\ DAY \in Nat
  BY <1>2, OffsetsApart, Scale
<1>5. s - DAY <= i
  BY <1>2, <1>3, <1>4
<1>6. i < s => i \in s - DAY .. s - 1
  BY <1>2, <1>4, <1>5
<1>7. ~ (i < s)
  BY <1>2, <1>6 DEF Repeated, Whole
<1> QED
  BY <1>1, <1>2, <1>7

\* ... and conversely.
LEMMA FirstIsNew ==
  ASSUME NEW zone, ZoneOK(zone), Near(zone), NEW wall, NEW slot, slot = fromWall(zone, wall),
         Whole(slot), toWall(zone, slot) = wall
  PROVE  ~ Repeated(zone, slot)
<1> SUFFICES ASSUME NEW t \in slot - DAY .. slot - 1, toWall(zone, t) = toWall(zone, slot), t % MINUTE = 0 PROVE FALSE
  BY DEF Repeated
<1>1. slot \in Int /\ DAY \in Nat
  BY Scale DEF Whole
<1>2. t \in Int /\ t < slot
  BY <1>1
<1>3. Whole(t)
  BY <1>2 DEF Whole
<1>4. slot <= t
  BY <1>3, FromWallFirst
<1> QED
  BY <1>1, <1>2, <1>4

\* A slot after an instant is one after it by the wall clock as well.
LEMMA LaterOnTheWall ==
  ASSUME NEW zone, ZoneOK(zone), Near(zone), NEW at \in Nat, NEW s, Whole(s), at < s, ~ Repeated(zone, s)
  PROVE  toWall(zone, at) < toWall(zone, s)
<1>1. PICK u, v, wall : u = offset(zone, at) /\ v = offset(zone, s) /\ wall = toWall(zone, s)
  OBVIOUS
<1>2. s \in Int /\ u \in Int /\ v \in Int /\ wall = s + v /\ toWall(zone, at) \in Int /\ toWall(zone, at) <= at + u
  BY <1>1, OffsetIs, WallIs DEF Whole
<1> SUFFICES ASSUME wall <= toWall(zone, at) PROVE FALSE
  BY <1>1, <1>2
<1>3. PICK c : c = zone.change /\ c \in Int
  BY DEF ZoneOK, Whole
<1>4. v < u
  BY <1>2
<1>5. at < c
  <2>1. ~ (at < c) => ~ (s < c)
    BY <1>2, <1>3
  <2>2. ~ (at < c) => u = v
    BY <1>1, <1>2, <1>3, <2>1, OffsetIs
  <2> QED
    BY <1>2, <1>4, <2>2
<1>6. u = zone.before /\ Whole(u)
  BY <1>1, <1>3, <1>5, OffsetIs
<1>7. PICK i : i = wall - u
  OBVIOUS
<1>8. Whole(wall)
  BY <1>1, <1>2, WallIs
<1>9. Whole(i) /\ i \in Int /\ i <= at
  <2>1. Whole(i)
    BY <1>6, <1>7, <1>8, WholeSums
  <2> QED
    BY <1>2, <1>7, <2>1 DEF Whole
<1>10. toWall(zone, i) = wall
  <2>1. offset(zone, i) = u
    BY <1>3, <1>5, <1>6, <1>9, OffsetIs
  <2> QED
    BY <1>2, <1>7, <1>9, <2>1, WallIs
<1>11. u - v <= DAY /\ DAY \in Nat
  BY <1>1, <1>2, OffsetsApart, Scale
<1>12. i \in s - DAY .. s - 1
  BY <1>2, <1>4, <1>7, <1>9, <1>11
<1> QED
  BY <1>1, <1>9, <1>10, <1>12 DEF Repeated, Whole

LEMMA MinIs ==
  ASSUME NEW T, T \subseteq Nat, NEW x \in T, \A y \in T : x <= y
  PROVE  Min(T) = x
<1>1. PICK m : m = Min(T)
  OBVIOUS
<1>2. m \in T /\ m <= x
  BY <1>1, LeastOf
<1> QED
  BY <1>1, <1>2

\* What next() returns.
LEMMA NextIs ==
  ASSUME NEW expression \in Expressions, NEW zone \in ZoneSet, NEW cron, cron = parseCron(expression), NEW at \in Starts,
         NEW slot, slot = next(cron, zone, at)
  PROVE  /\ slot \in Nat /\ slot > at /\ IsDue(cron, zone, slot)
         /\ Max({zone.before, zone.after}) <= DAY \div 2 =>
              slot = Min({s \in Slots(cron, zone, Min(Starts) .. Max(Starts) + HORIZON_MS - DAY) : s > at})
<1>1. /\ at \in Nat /\ ZoneOK(zone) /\ DAY \in Nat \ {0} /\ HORIZON_MS \in Nat
      /\ Min(Starts) \in Int /\ Max(Starts) \in Int /\ at <= Max(Starts)
  BY SchedulesAssumption, CalendarAssumption, ZonesOK, Scale
<1>2. PICK wall, s0 :
        /\ First(cron, zone, at, toWall(zone, at) + MINUTE, wall)
        /\ next(cron, zone, at) = fromWall(zone, wall)
        /\ s0 \in at + 1 .. at + HORIZON_MS - 2 * DAY
        /\ IsDue(cron, zone, s0) /\ ~ Repeated(zone, s0) /\ wall <= toWall(zone, s0)
  BY NextFinds
<1>3. Whole(wall) /\ Match(cron, wall) /\ slot = fromWall(zone, wall) /\ slot # Never /\ slot > at
  BY <1>2 DEF First, Hit, Stops
<1>4. Whole(slot) /\ toWall(zone, slot) = wall
  BY <1>1, <1>3, FromWallSound
<1>5. slot \in Nat /\ IsDue(cron, zone, slot)
  <2>1. slot \in Int /\ slot % MINUTE = 0
    BY <1>4 DEF Whole
  <2> QED
    BY <1>1, <1>3, <1>4, <2>1, DueIs
<1>6. ASSUME Max({zone.before, zone.after}) <= DAY \div 2
      PROVE  slot = Min({s \in Slots(cron, zone, Min(Starts) .. Max(Starts) + HORIZON_MS - DAY) : s > at})
  <2> DEFINE instants == Min(Starts) .. Max(Starts) + HORIZON_MS - DAY
             T == {s \in Slots(cron, zone, instants) : s > at}
  <2>1. Near(zone)
    BY <1>1, <1>6, NearIs
  <2>2. Min(Starts) <= at
    BY SchedulesAssumption, LeastOf
  <2>3. s0 \in Int /\ Whole(s0) /\ s0 <= Max(Starts) + HORIZON_MS - DAY
    <3>1. s0 \in Int /\ s0 <= Max(Starts) + HORIZON_MS - DAY
      BY <1>1, <1>2
    <3> QED
      BY <1>2, <3>1 DEF IsDue, Whole
  <2>4. slot <= s0
    BY <1>1, <1>2, <1>3, <1>4, <2>1, <2>3, FirstsOrdered
  <2>5. slot \in instants
    BY <1>1, <1>3, <1>5, <2>2, <2>3, <2>4
  <2>6. slot \in T
    BY <1>1, <1>3, <1>4, <1>5, <2>1, <2>5, FirstIsNew DEF Slots
  <2>7. ASSUME NEW s \in T
        PROVE  s \in Nat /\ slot <= s
    <3>1. s \in Int /\ s > at /\ IsDue(cron, zone, s) /\ ~ Repeated(zone, s)
      BY DEF Slots
    <3>2. Whole(s) /\ Match(cron, toWall(zone, s))
      BY <3>1, DueIs DEF Whole
    <3>3. fromWall(zone, toWall(zone, s)) = s /\ s # Never
      BY <1>1, <2>1, <3>1, <3>2, FirstFound DEF Never
    <3>4. Whole(toWall(zone, s)) /\ toWall(zone, s) \in Int /\ Whole(toWall(zone, at)) /\ toWall(zone, at) \in Int
      BY <1>1, <3>1, WallIs DEF Whole
    <3>5. toWall(zone, at) < toWall(zone, s)
      BY <1>1, <2>1, <3>1, <3>2, LaterOnTheWall
    <3>6. toWall(zone, at) + MINUTE <= toWall(zone, s)
      BY <3>4, <3>5, WholeSums
    <3>7. Hit(cron, zone, at, toWall(zone, s))
      BY <3>1, <3>2, <3>3, <3>4 DEF Hit, Stops
    <3>8. ~ (toWall(zone, s) < wall)
      BY <1>2, <3>4, <3>6, <3>7 DEF First
    <3>9. wall <= toWall(zone, s)
      BY <1>3, <3>4, <3>8 DEF Whole
    <3>10. slot <= s
      BY <1>1, <1>3, <1>4, <2>1, <3>2, <3>9, FirstsOrdered
    <3> QED
      BY <1>1, <3>1, <3>10
  <2> HIDE DEF T
  <2>8. Min(T) = slot
    BY <2>6, <2>7, MinIs
  <2> QED
    BY <2>8 DEF T
<1> QED
  BY <1>3, <1>5, <1>6

\* The next slot of a schedule is the first instant after the given one that its expression
\* names, whatever the calendar's scale, the zones and the expressions (cron.ts, next and fromWall).
THEOREM NextCorrect == NextIsFirst
<1> SUFFICES ASSUME NEW expression \in Expressions, NEW zone \in ZoneSet, NEW at \in Starts
             PROVE  LET cron == parseCron(expression)
                        slot == next(cron, zone, at)
                    IN /\ slot \in Nat /\ slot > at /\ IsDue(cron, zone, slot)
                       /\ Max({zone.before, zone.after}) <= DAY \div 2 =>
                            slot = Min({s \in Slots(cron, zone, Min(Starts) .. Max(Starts) + HORIZON_MS - DAY) : s > at})
  BY ZenonT(30) DEF NextIsFirst
<1> QED
  BY NextIs, ZenonT(40)

-----------------------------------------------------------------------------
\* Schedules: the invariant.

PlannerAt == {"new", "armed", "dispatching", "answered", "idle", "crashed"}
Planner == [pc : PlannerAt, slot : Int, due : Int, stopping : BOOLEAN, since : Int, steady : BOOLEAN]
SlotJob == [state : {"none", "pending", "completed"}, finishedAt : Int]
TimetableOf(t) == [cron |-> parseCron(t.expression), zone |-> t.zone]

SchedulesTypeOK ==
  /\ \E t \in Timetables : timetable = TimetableOf(t)
  /\ elapsed \in Dawning .. Dusk /\ upsets \in 0 .. MaxUpsets
  /\ drift \in [Planners -> Int] /\ planner \in [Planners -> Planner]
  /\ slotJob \in [SlotTimes -> SlotJob] /\ dispatched \in [SlotTimes -> Nat]

\* How far apart the clocks have been so far.
Apart == upsets * Leap
Between(lo, hi) ==
  /\ lo <= 0 /\ 0 <= hi /\ hi - lo <= Apart
  /\ \A p \in Planners : lo <= drift[p] /\ drift[p] <= hi

\* A slot is dispatched no later than by the clock that was furthest behind, a late timer and a
\* slow dispatch.
OnTime(q, lo) ==
  /\ q.pc = "armed" => Dawning - Spread <= q.slot /\ q.due <= q.slot - lo /\ elapsed <= q.due + Lag
  /\ q.pc = "dispatching" => q.slot \in SlotTimes /\ q.due <= q.slot - lo + Lag /\ elapsed <= q.due + Takes
  /\ q.pc = "answered" => elapsed <= q.due + Takes

\* When a slot's job is forgotten no clock can come to the slot any more.
SlotOK(s, lo) ==
  /\ dispatched[s] = 0 => slotJob[s] = NoJob
  /\ slotJob[s].state = "completed" => s <= slotJob[s].finishedAt
  /\ slotJob[s] = NoJob /\ dispatched[s] > 0 => s + KeepMs < elapsed + lo + Apart
  /\ Lag + Takes + Spread <= KeepMs => dispatched[s] <= 1

ClocksAre(lo, hi) ==
  /\ Between(lo, hi)
  /\ \A p \in Planners : OnTime(planner[p], lo)
  /\ \A s \in SlotTimes : SlotOK(s, lo)

\* What a worker whose clock runs evenly has seen to, and that nothing comes while it is at a slot.
DueSlots == Slots(timetable.cron, timetable.zone, Observed)
SeenTo(q, to) == \A s \in DueSlots : s \in SlotTimes /\ q.since < s /\ s <= to => dispatched[s] > 0
Alone(slot) == \A s \in DueSlots : slot < s => slot + Lag + Takes < s

Punctual(p, q) ==
  /\ q.pc = "new" => drift[p] = 0
  /\ q.steady /\ q.pc \in {"armed", "dispatching", "answered"} =>
       /\ drift[p] = 0 /\ Dawning <= q.since
       /\ q.pc = "armed" => q.due <= q.slot
       /\ q.pc = "dispatching" => q.due <= q.slot + Lag
       /\ q.pc \in {"armed", "dispatching"} => SeenTo(q, q.slot - 1) /\ Alone(q.slot)
       /\ q.pc = "answered" => SeenTo(q, q.due + Takes)

SchedulesInv ==
  /\ SchedulesTypeOK
  /\ \E lo, hi \in Int : ClocksAre(lo, hi)
  /\ FarApart => \A p \in Planners : Punctual(p, planner[p])

LEMMA SchedulesNumbers ==
  /\ Leap \in Nat /\ Lag \in Nat /\ Takes \in Nat /\ LongestTimer \in Nat /\ MaxUpsets \in Nat
  /\ Dawning \in Nat /\ Dusk \in Nat /\ KeepMs \in Int /\ Dawning <= Dusk /\ Spread \in Nat
BY SchedulesAssumption DEF Spread

\* As many jumps as there may be take the clocks as far apart as they can be.
LEMMA ApartGrows ==
  ASSUME NEW u \in Nat
  PROVE  /\ u * Leap \in Nat /\ (u + 1) * Leap = u * Leap + Leap
         /\ u <= MaxUpsets => u * Leap <= Spread
<1>1. Leap \in Nat /\ MaxUpsets \in Nat
  BY SchedulesNumbers
<1>2. ASSUME NEW a \in Nat, NEW b \in Nat
      PROVE  a * b \in Nat /\ (a + 1) * b = a * b + b
  OBVIOUS
<1>3. ASSUME u <= MaxUpsets
      PROVE  u * Leap <= Spread
  <2>1. PICK rest \in Nat : MaxUpsets = u + rest
    <3>1. MaxUpsets - u \in Nat /\ MaxUpsets = u + (MaxUpsets - u)
      BY <1>1, <1>3
    <3> QED
      BY <3>1
  <2>2. ASSUME NEW a \in Nat, NEW b \in Nat, NEW c \in Nat
        PROVE  (a + b) * c = a * c + b * c
    OBVIOUS
  <2>3. MaxUpsets * Leap = u * Leap + rest * Leap
    BY <1>1, <2>1, <2>2
  <2>4. u * Leap \in Nat /\ rest * Leap \in Nat
    BY <1>1, <1>2
  <2> QED
    BY <2>3, <2>4 DEF Spread
<1> QED
  BY <1>1, <1>2, <1>3

LEMMA MinOfTwo ==
  ASSUME NEW a \in Nat, NEW b \in Nat
  PROVE  Min({a, b}) \in Nat /\ Min({a, b}) <= a
<1>1. {a, b} \subseteq Nat /\ {a, b} # {}
  OBVIOUS
<1>2. Min({a, b}) \in {a, b} /\ \A y \in {a, b} : Min({a, b}) <= y
  BY <1>1, LeastOf
<1>3. PICK least : least = Min({a, b})
  OBVIOUS
<1>4. least \in {a, b} /\ least <= a
  BY <1>2, <1>3
<1> QED
  BY <1>3, <1>4

\* Where a clock is, if clocks are no further apart than they may be.
LEMMA ClockIs ==
  ASSUME SchedulesTypeOK, NEW lo \in Int, NEW hi \in Int, Between(lo, hi), NEW p \in Planners
  PROVE  /\ clock(p) \in Int /\ clock(p) \in Starts /\ drift[p] \in Int /\ elapsed \in Nat
         /\ elapsed + lo <= clock(p) /\ clock(p) <= elapsed + hi
         /\ Dawning - Spread <= clock(p) /\ clock(p) <= Dusk + Spread
         /\ Dawning <= elapsed /\ elapsed <= Dusk
<1>1. elapsed \in Dawning .. Dusk /\ drift[p] \in Int /\ upsets \in Nat /\ upsets <= MaxUpsets
  BY SchedulesNumbers DEF SchedulesTypeOK
<1>2. Apart <= Spread /\ Apart \in Nat
  BY <1>1, ApartGrows DEF Apart
<1>3. lo <= 0 /\ 0 <= hi /\ hi - lo <= Apart /\ lo <= drift[p] /\ drift[p] <= hi
  BY DEF Between
<1>4. elapsed \in Nat /\ Dawning <= elapsed /\ elapsed <= Dusk
  BY <1>1, SchedulesNumbers
<1>5. clock(p) = elapsed + drift[p]
  BY DEF clock
<1>6. clock(p) \in Dawning - Spread .. Dusk + Spread
  BY <1>1, <1>2, <1>3, <1>4, <1>5, SchedulesNumbers
<1>7. clock(p) \in Starts
  BY <1>6, SchedulesAssumption
<1> QED
  BY <1>1, <1>3, <1>4, <1>5, <1>6, <1>7, SchedulesNumbers

\* What next() promises a worker.
SlotAfter(at) == next(timetable.cron, timetable.zone, at)

LEMMA NextFacts ==
  ASSUME SchedulesTypeOK, NEW at \in Starts
  PROVE  /\ SlotAfter(at) \in Nat /\ at \in Nat /\ at < SlotAfter(at)
         /\ FarApart /\ Dawning <= at => /\ \A s \in DueSlots : at < s => SlotAfter(at) <= s
                                         /\ Alone(SlotAfter(at))
<1>1. PICK t \in Timetables : timetable = TimetableOf(t)
  BY DEF SchedulesTypeOK
<1> DEFINE cron == parseCron(t.expression)
           zone == t.zone
           slots == Slots(cron, zone, Min(Starts) .. Max(Starts) + HORIZON_MS - DAY)
           T == {s \in slots : s > at}
<1>2. t.expression \in Expressions /\ t.zone \in ZoneSet
  BY SchedulesAssumption
<1>3. PICK slot : slot = next(cron, zone, at)
  OBVIOUS
<1>4. /\ slot \in Nat /\ slot > at /\ IsDue(cron, zone, slot)
      /\ Max({zone.before, zone.after}) <= DAY \div 2 => slot = Min(T)
  BY <1>2, <1>3, NextCorrect DEF NextIsFirst
<1>5. SlotAfter(at) = slot /\ DueSlots = Slots(cron, zone, Observed)
  BY <1>1, <1>3 DEF SlotAfter, DueSlots, TimetableOf
<1>6. at \in Nat
  BY SchedulesAssumption
<1>7. ASSUME FarApart, Dawning <= at
      PROVE  /\ \A s \in DueSlots : at < s => slot <= s
             /\ Alone(slot)
  <2>1. slot = Min(T) /\ \A s, later \in DueSlots : s < later => s + Lag + Takes < later
    BY <1>4, <1>5, <1>7 DEF FarApart
  <2>2. \A s \in DueSlots : s \in Int /\ Dawning <= s /\ s <= Dusk + Lag + Takes /\ IsDue(cron, zone, s) /\ ~ Repeated(zone, s)
    <3>1. \A s \in Observed : s \in Int /\ Dawning <= s /\ s <= Dusk + Lag + Takes
      BY SchedulesNumbers DEF Observed
    <3> QED
      BY <1>5, <3>1 DEF Slots
  <2>3. \A s \in DueSlots : at < s => s \in T
    <3> SUFFICES ASSUME NEW s \in DueSlots, at < s PROVE s \in T
      OBVIOUS
    <3>1. s \in Min(Starts) .. Max(Starts) + HORIZON_MS - DAY
      <4>1. PICK from, to : from = Min(Starts) /\ to = Max(Starts) + HORIZON_MS - DAY
        OBVIOUS
      <4>2. from \in Int /\ to \in Int /\ from <= Dawning /\ Dusk + Lag + Takes <= to
        BY <4>1, SchedulesAssumption
      <4>3. s \in from .. to
        BY <2>2, <4>2, SchedulesNumbers
      <4> QED
        BY <4>1, <4>3
    <3> QED
      BY <1>6, <2>2, <3>1 DEF Slots
  <2>4. \A s \in T : s \in slots /\ s > at /\ s \in Nat
    <3>1. \A s \in slots : s \in Int
      BY DEF Slots
    <3> QED
      BY <1>6, <3>1
  <2> HIDE DEF T, slots
  <2>5. \A s \in DueSlots : at < s => slot <= s /\ slot \in T
    BY <2>1, <2>3, <2>4, LeastOf
  <2>6. Alone(slot)
    <3> SUFFICES ASSUME NEW s \in DueSlots, slot < s PROVE slot + Lag + Takes < s
      BY DEF Alone
    <3>1. at < s /\ slot \in T /\ s <= Dusk + Lag + Takes
      BY <1>4, <1>6, <2>2, <2>5
    <3>2. slot \in Observed
      BY <1>4, <1>6, <1>7, <2>2, <3>1, SchedulesNumbers DEF Observed
    <3>3. slot \in DueSlots
      <4>1. slot \in slots
        BY <2>4, <3>1
      <4> QED
        BY <1>5, <3>2, <4>1 DEF slots, Slots
    <3> QED
      BY <2>1, <3>3
  <2> QED
    BY <2>5, <2>6
<1> QED
  BY <1>4, <1>5, <1>6, <1>7

LEMMA RestingPlanner ==
  ASSUME NEW pc \in {"new", "idle", "crashed"}, NEW stopping \in BOOLEAN
  PROVE  Resting(pc, stopping) \in Planner /\ Resting(pc, stopping).pc = pc
BY DEF Resting, Planner, PlannerAt, Never

\* A worker that arms its timer.
LEMMA ArmedFacts ==
  ASSUME SchedulesTypeOK, NEW lo \in Int, NEW hi \in Int, Between(lo, hi), NEW p \in Planners,
         NEW q, q = armed(p, clock(p))
  PROVE  /\ q \in Planner /\ q.pc = "armed" /\ q.slot = SlotAfter(clock(p))
         /\ q.stopping = planner[p].stopping /\ q.since = planner[p].since /\ q.steady = planner[p].steady
         /\ q.due <= q.slot - drift[p] /\ OnTime(q, lo)
<1>1. planner[p] \in Planner
  BY DEF SchedulesTypeOK
<1>2. PICK at : at = clock(p)
  OBVIOUS
<1>3. /\ at \in Int /\ at \in Starts /\ drift[p] \in Int /\ elapsed \in Nat /\ at = elapsed + drift[p]
      /\ Dawning - Spread <= at /\ lo <= drift[p]
  BY <1>2, ClockIs DEF clock, Between
<1>4. PICK slot : slot = SlotAfter(at)
  OBVIOUS
<1>5. slot \in Nat /\ at \in Nat /\ at < slot
  BY <1>3, <1>4, NextFacts
<1>6. PICK wait : wait = Min({slot - at, LongestTimer})
  OBVIOUS
<1>7. wait \in Nat /\ wait <= slot - at
  <2>1. slot - at \in Nat /\ LongestTimer \in Nat
    BY <1>5, SchedulesNumbers
  <2>2. Min({slot - at, LongestTimer}) \in Nat /\ Min({slot - at, LongestTimer}) <= slot - at
    BY <2>1, MinOfTwo
  <2> QED
    BY <1>6, <2>2
<1>8. q = [planner[p] EXCEPT !.pc = "armed", !.slot = slot, !.due = elapsed + wait]
  BY <1>2, <1>4, <1>6 DEF armed, SlotAfter
<1>9. elapsed + wait \in Int /\ slot \in Int
  BY <1>3, <1>5, <1>7
<1>10. /\ q \in Planner /\ q.pc = "armed" /\ q.slot = slot /\ q.due = elapsed + wait
       /\ q.stopping = planner[p].stopping /\ q.since = planner[p].since /\ q.steady = planner[p].steady
  BY <1>1, <1>8, <1>9 DEF Planner, PlannerAt
<1>11. q.due <= slot - drift[p]
  BY <1>3, <1>5, <1>7, <1>10
<1>12. OnTime(q, lo)
  <2>1. Dawning - Spread <= slot /\ q.due <= slot - lo /\ elapsed <= q.due + Lag
    BY <1>3, <1>5, <1>7, <1>10, <1>11, SchedulesNumbers
  <2> QED
    BY <1>10, <2>1 DEF OnTime
<1> QED
  BY <1>2, <1>4, <1>10, <1>11, <1>12

\* What it has seen to when it has armed its timer, if it had seen to all until now.
LEMMA ArmedPunctual ==
  ASSUME SchedulesTypeOK, NEW lo \in Int, NEW hi \in Int, Between(lo, hi), NEW p \in Planners,
         NEW q, q.pc = "armed", q.slot = SlotAfter(clock(p)), q.due <= q.slot - drift[p], FarApart,
         q.steady => drift[p] = 0 /\ Dawning <= q.since /\ SeenTo(q, clock(p))
  PROVE  Punctual(p, q)
<1> SUFFICES ASSUME q.steady PROVE q.due <= q.slot /\ SeenTo(q, q.slot - 1) /\ Alone(q.slot)
  BY DEF Punctual
<1>1. PICK at : at = clock(p)
  OBVIOUS
<1>2. at \in Starts /\ Dawning <= at /\ at \in Int
  BY <1>1, ClockIs DEF clock
<1>3. /\ q.slot \in Nat /\ Alone(q.slot)
      /\ \A s \in DueSlots : at < s => q.slot <= s
  BY <1>1, <1>2, NextFacts
<1>4. \A s \in DueSlots : s \in Int
  BY DEF DueSlots, Slots, Observed
<1>5. SeenTo(q, q.slot - 1)
  <2> SUFFICES ASSUME NEW s \in DueSlots, s \in SlotTimes, q.since < s, s <= q.slot - 1 PROVE dispatched[s] > 0
    BY DEF SeenTo
  <2>1. s <= at
    BY <1>2, <1>3, <1>4
  <2> QED
    BY <1>1, <2>1 DEF SeenTo
<1>6. q.due <= q.slot
  <2>1. drift[p] = 0
    OBVIOUS
  <2> QED
    BY <1>3, <2>1
<1> QED
  BY <1>3, <1>5, <1>6

\* A step of one worker that leaves the jobs and the clocks as they are.
LEMMA PlannerMoves ==
  ASSUME SchedulesTypeOK, NEW lo \in Int, NEW hi \in Int, ClocksAre(lo, hi),
         FarApart => \A r \in Planners : Punctual(r, planner[r]),
         NEW p \in Planners, NEW q \in Planner, planner' = [planner EXCEPT ![p] = q],
         OnTime(q, lo), FarApart => Punctual(p, q),
         UNCHANGED <<timetable, elapsed, drift, slotJob, dispatched>>,
         upsets' = upsets \/ (upsets < MaxUpsets /\ upsets' = upsets + 1)
  PROVE  SchedulesInv'
<1>1. \A r \in Planners : planner'[r] = IF r = p THEN q ELSE planner[r]
  BY DEF SchedulesTypeOK
<1>2. SchedulesTypeOK'
  <2>1. upsets' \in 0 .. MaxUpsets
    BY SchedulesNumbers DEF SchedulesTypeOK
  <2>2. planner' \in [Planners -> Planner]
    BY DEF SchedulesTypeOK
  <2> QED
    BY <2>1, <2>2 DEF SchedulesTypeOK
<1>3. Apart \in Int /\ Apart' \in Int /\ Apart <= Apart'
  <2>1. upsets \in Nat
    BY SchedulesNumbers DEF SchedulesTypeOK
  <2>2. Apart \in Nat /\ (upsets + 1) * Leap = Apart + Leap /\ Leap \in Nat
    BY <2>1, ApartGrows, SchedulesNumbers DEF Apart
  <2>3. Apart' = Apart \/ Apart' = Apart + Leap
    BY <2>2 DEF Apart
  <2> QED
    BY <2>2, <2>3
<1>4. ClocksAre(lo, hi)'
  <2>1. Between(lo, hi)'
    BY <1>3 DEF ClocksAre, Between
  <2>2. \A r \in Planners : OnTime(planner[r], lo)'
    BY <1>1 DEF ClocksAre, OnTime
  <2>3. ASSUME NEW s \in SlotTimes
        PROVE  SlotOK(s, lo)'
    <3>1. SlotOK(s, lo)
      BY DEF ClocksAre
    <3>2. s \in Int /\ elapsed \in Int /\ KeepMs \in Int
      BY SchedulesNumbers DEF SlotTimes, SchedulesTypeOK
    <3>3. s + KeepMs < elapsed + lo + Apart => s + KeepMs < elapsed + lo + Apart'
      <4>1. PICK old, new : old = Apart /\ new = Apart'
        OBVIOUS
      <4>2. old \in Int /\ new \in Int /\ old <= new
        BY <1>3, <4>1
      <4>3. s + KeepMs < elapsed + lo + old => s + KeepMs < elapsed + lo + new
        BY <3>2, <4>2
      <4> QED
        BY <4>1, <4>3
    <3> QED
      BY <3>1, <3>3 DEF SlotOK
  <2> QED
    BY <2>1, <2>2, <2>3 DEF ClocksAre
<1>5. FarApart => \A r \in Planners : Punctual(r, planner[r])'
  <2> SUFFICES ASSUME FarApart, NEW r \in Planners PROVE Punctual(r, planner[r])'
    OBVIOUS
  <2>1. PICK now : now = planner'[r]
    OBVIOUS
  <2>2. Punctual(r, now)
    BY <1>1, <2>1
  <2>3. Punctual(r, now)'
    BY <2>2 DEF Punctual, SeenTo, Alone, DueSlots
  <2> QED
    BY <2>1, <2>3
<1> QED
  BY <1>2, <1>4, <1>5 DEF SchedulesInv

\* What the invariant gives a step of one worker.
LEMMA OnePlanner ==
  ASSUME SchedulesTypeOK, NEW lo \in Int, NEW hi \in Int, ClocksAre(lo, hi), NEW p \in Planners
  PROVE  /\ planner[p] \in Planner /\ OnTime(planner[p], lo) /\ Between(lo, hi)
         /\ clock(p) = elapsed + drift[p] /\ elapsed \in Nat /\ drift[p] \in Int /\ lo <= drift[p]
         /\ clock(p) \in Int /\ Dawning <= elapsed /\ elapsed <= Dusk /\ clock(p) <= Dusk + Spread
<1>1. Between(lo, hi)
  BY DEF ClocksAre
<1>2. PICK at : at = clock(p)
  OBVIOUS
<1>3. /\ at \in Int /\ drift[p] \in Int /\ elapsed \in Nat /\ Dawning <= elapsed /\ elapsed <= Dusk /\ at <= Dusk + Spread
  BY <1>1, <1>2, ClockIs
<1>4. planner[p] \in Planner /\ OnTime(planner[p], lo) /\ lo <= drift[p]
  BY <1>1 DEF SchedulesTypeOK, ClocksAre, Between
<1> QED
  BY <1>1, <1>2, <1>3, <1>4 DEF clock

LEMMA RestingKeeps ==
  ASSUME SchedulesTypeOK, NEW lo \in Int, NEW hi \in Int, ClocksAre(lo, hi),
         FarApart => \A r \in Planners : Punctual(r, planner[r]),
         NEW p \in Planners, NEW pc \in {"idle", "crashed"}, planner' = [planner EXCEPT ![p] = Resting(pc, TRUE)],
         UNCHANGED <<timetable, elapsed, drift, slotJob, dispatched>>,
         upsets' = upsets \/ (upsets < MaxUpsets /\ upsets' = upsets + 1)
  PROVE  SchedulesInv'
<1>1. PICK q : q = Resting(pc, TRUE)
  OBVIOUS
<1>2. q \in Planner /\ q.pc \in {"idle", "crashed"}
  BY <1>1, RestingPlanner
<1>3. OnTime(q, lo) /\ Punctual(p, q)
  BY <1>2 DEF OnTime, Punctual
<1> QED
  BY <1>1, <1>2, <1>3, PlannerMoves

LEMMA StartKeeps ==
  ASSUME SchedulesTypeOK, NEW lo \in Int, NEW hi \in Int, ClocksAre(lo, hi),
         FarApart => \A r \in Planners : Punctual(r, planner[r]), NEW p \in Planners, StartPlanner(p)
  PROVE  SchedulesInv'
<1>1. PICK now : now = armed(p, clock(p))
  OBVIOUS
<1>2. PICK q : q = [now EXCEPT !.since = clock(p)]
  OBVIOUS
<1>3. PICK at : at = clock(p)
  OBVIOUS
<1>4. /\ planner[p] \in Planner /\ Between(lo, hi) /\ at = elapsed + drift[p] /\ elapsed \in Nat /\ drift[p] \in Int
      /\ at \in Int /\ Dawning <= elapsed
  BY <1>3, OnePlanner
<1>5. /\ now \in Planner /\ now.pc = "armed" /\ now.slot = SlotAfter(clock(p)) /\ OnTime(now, lo)
      /\ now.due <= now.slot - drift[p]
  BY <1>1, <1>4, ArmedFacts
<1>6. q \in Planner /\ q.pc = "armed" /\ q.slot = now.slot /\ q.due = now.due /\ q.since = at
  BY <1>2, <1>3, <1>4, <1>5 DEF Planner
<1>7. OnTime(q, lo)
  BY <1>5, <1>6 DEF OnTime
<1>8. /\ planner[p].pc = "new" /\ planner' = [planner EXCEPT ![p] = q]
      /\ UNCHANGED <<timetable, elapsed, drift, slotJob, dispatched, upsets>>
  BY <1>1, <1>2 DEF StartPlanner
<1>9. ASSUME FarApart
      PROVE  Punctual(p, q)
  <2>1. drift[p] = 0
    BY <1>8, <1>9 DEF Punctual
  <2>2. Dawning <= q.since
    BY <1>4, <1>6, <2>1
  <2>3. SeenTo(q, at)
    <3>1. \A s \in DueSlots : s \in Int
      BY DEF DueSlots, Slots, Observed
    <3> QED
      BY <1>4, <1>6, <3>1 DEF SeenTo
  <2>4. q.slot = SlotAfter(clock(p)) /\ q.due <= q.slot - drift[p] /\ SeenTo(q, clock(p))
    BY <1>3, <1>5, <1>6, <2>3
  <2> QED
    BY <1>4, <1>6, <1>9, <2>1, <2>2, <2>4, ArmedPunctual
<1> QED
  BY <1>6, <1>7, <1>8, <1>9, PlannerMoves

\* A worker arms its timer again, having seen to all slots until now.
LEMMA RearmKeeps ==
  ASSUME SchedulesTypeOK, NEW lo \in Int, NEW hi \in Int, ClocksAre(lo, hi),
         FarApart => \A r \in Planners : Punctual(r, planner[r]), NEW p \in Planners,
         planner' = [planner EXCEPT ![p] = armed(p, clock(p))],
         planner[p].pc \in {"armed", "dispatching", "answered"},
         FarApart /\ planner[p].steady => SeenTo(planner[p], clock(p)),
         UNCHANGED <<timetable, elapsed, drift, slotJob, dispatched, upsets>>
  PROVE  SchedulesInv'
<1>1. PICK q : q = armed(p, clock(p))
  OBVIOUS
<1>2. Between(lo, hi)
  BY OnePlanner
<1>3. /\ q \in Planner /\ q.pc = "armed" /\ q.slot = SlotAfter(clock(p)) /\ q.since = planner[p].since
      /\ q.steady = planner[p].steady /\ q.due <= q.slot - drift[p] /\ OnTime(q, lo)
  BY <1>1, <1>2, ArmedFacts
<1>4. ASSUME FarApart
      PROVE  Punctual(p, q)
  <2>1. ASSUME q.steady
        PROVE  drift[p] = 0 /\ Dawning <= q.since /\ SeenTo(q, clock(p))
    <3>1. drift[p] = 0 /\ Dawning <= planner[p].since
      BY <1>3, <1>4, <2>1 DEF Punctual
    <3>2. SeenTo(planner[p], clock(p))
      BY <1>3, <1>4, <2>1
    <3> QED
      BY <1>3, <3>1, <3>2 DEF SeenTo
  <2> QED
    BY <1>2, <1>3, <1>4, <2>1, ArmedPunctual
<1> QED
  BY <1>1, <1>3, <1>4, PlannerMoves

LEMMA FireKeeps ==
  ASSUME SchedulesTypeOK, NEW lo \in Int, NEW hi \in Int, ClocksAre(lo, hi),
         FarApart => \A r \in Planners : Punctual(r, planner[r]), NEW p \in Planners, FireTimer(p)
  PROVE  SchedulesInv'
<1> DEFINE was == planner[p]
<1>1. PICK at : at = clock(p)
  OBVIOUS
<1>2. /\ was \in Planner /\ OnTime(was, lo) /\ at = elapsed + drift[p] /\ elapsed \in Nat /\ drift[p] \in Int
      /\ at \in Int /\ at <= Dusk + Spread
  BY <1>1, OnePlanner
<1>3. /\ was.pc = "armed" /\ was.slot \in Int /\ was.due \in Int
      /\ Dawning - Spread <= was.slot /\ was.due <= was.slot - lo /\ elapsed <= was.due + Lag
  BY <1>2 DEF FireTimer, OnTime, Planner
<1>4. UNCHANGED <<timetable, elapsed, drift, slotJob, dispatched, upsets>>
  BY DEF FireTimer
<1>5. CASE was.stopping
  <2>1. planner' = [planner EXCEPT ![p] = Resting("idle", TRUE)]
    BY <1>5 DEF FireTimer
  <2> QED
    BY <1>4, <2>1, RestingKeeps
<1>6. CASE ~ was.stopping /\ at >= was.slot
  <2>1. PICK q : q = [was EXCEPT !.pc = "dispatching", !.due = elapsed]
    OBVIOUS
  <2>2. planner' = [planner EXCEPT ![p] = q]
    BY <1>1, <1>6, <2>1 DEF FireTimer
  <2>3. /\ q \in Planner /\ q.pc = "dispatching" /\ q.slot = was.slot /\ q.due = elapsed
        /\ q.steady = was.steady /\ q.since = was.since
    <3>1. PICK old, now : old = was /\ now = elapsed
      OBVIOUS
    <3>2. old \in Planner /\ now \in Int /\ q = [old EXCEPT !.pc = "dispatching", !.due = now]
      BY <1>2, <2>1, <3>1
    <3>3. /\ q \in Planner /\ q.pc = "dispatching" /\ q.slot = old.slot /\ q.due = now
          /\ q.steady = old.steady /\ q.since = old.since
      BY <3>2 DEF Planner, PlannerAt
    <3> QED
      BY <3>1, <3>3
  <2>4. OnTime(q, lo)
    <3>1. q.slot \in SlotTimes
      BY <1>2, <1>3, <1>6, <2>3, SchedulesNumbers DEF SlotTimes
    <3>2. q.due <= q.slot - lo + Lag /\ elapsed <= q.due + Takes
      BY <1>2, <1>3, <2>3, SchedulesNumbers
    <3> QED
      BY <2>3, <3>1, <3>2 DEF OnTime
  <2>5. ASSUME FarApart
        PROVE  Punctual(p, q)
    <3> SUFFICES ASSUME q.steady
                 PROVE  drift[p] = 0 /\ Dawning <= q.since /\ q.due <= q.slot + Lag /\ SeenTo(q, q.slot - 1) /\ Alone(q.slot)
      BY <2>3 DEF Punctual
    <3>1. drift[p] = 0 /\ Dawning <= was.since /\ was.due <= was.slot /\ SeenTo(was, was.slot - 1) /\ Alone(was.slot)
      BY <1>3, <2>3, <2>5 DEF Punctual
    <3>2. q.due <= q.slot + Lag
      BY <1>2, <1>3, <2>3, <3>1, SchedulesNumbers
    <3> QED
      BY <2>3, <3>1, <3>2 DEF SeenTo
  <2> QED
    BY <1>4, <2>2, <2>3, <2>4, <2>5, PlannerMoves
<1>7. CASE ~ was.stopping /\ ~ (at >= was.slot)
  <2>1. planner' = [planner EXCEPT ![p] = armed(p, clock(p))]
    BY <1>1, <1>7 DEF FireTimer
  <2>2. ASSUME FarApart, was.steady
        PROVE  SeenTo(was, at)
    <3>1. SeenTo(was, was.slot - 1)
      BY <1>3, <2>2 DEF Punctual
    <3>2. \A s \in DueSlots : s \in Int
      BY DEF DueSlots, Slots, Observed
    <3>3. \A s \in DueSlots : s <= at => s <= was.slot - 1
      BY <1>2, <1>3, <1>7, <3>2
    <3> QED
      BY <3>1, <3>3 DEF SeenTo
  <2> QED
    BY <1>1, <1>3, <1>4, <2>1, <2>2, RearmKeeps
<1> QED
  BY <1>5, <1>6, <1>7

\* A slot seen to stays seen to.
LEMMA StaysPunctual ==
  ASSUME NEW r, NEW now, Punctual(r, now), UNCHANGED <<timetable, drift>>,
         \A s \in SlotTimes : dispatched[s] > 0 => dispatched'[s] > 0
  PROVE  Punctual(r, now)'
<1>1. ASSUME NEW to, SeenTo(now, to)
      PROVE  SeenTo(now, to)'
  BY <1>1 DEF SeenTo, DueSlots
<1>2. ASSUME NEW slot, Alone(slot)
      PROVE  Alone(slot)'
  BY <1>2 DEF Alone, DueSlots
<1>3. CASE ~ (now.steady /\ now.pc \in {"armed", "dispatching", "answered"})
  BY <1>3 DEF Punctual
<1>4. CASE now.steady /\ now.pc \in {"armed", "dispatching"}
  <2>1. SeenTo(now, now.slot - 1) /\ Alone(now.slot)
    BY <1>4 DEF Punctual
  <2>2. SeenTo(now, now.slot - 1)' /\ Alone(now.slot)'
    BY <1>1, <1>2, <2>1
  <2> QED
    BY <1>4, <2>2 DEF Punctual
<1>5. CASE now.steady /\ now.pc = "answered"
  <2>1. SeenTo(now, now.due + Takes)
    BY <1>5 DEF Punctual
  <2>2. SeenTo(now, now.due + Takes)'
    BY <1>1, <2>1
  <2> QED
    BY <1>5, <2>2 DEF Punctual
<1> QED
  BY <1>3, <1>4, <1>5

LEMMA EnqueueKeeps ==
  ASSUME SchedulesTypeOK, NEW lo \in Int, NEW hi \in Int, ClocksAre(lo, hi),
         FarApart => \A r \in Planners : Punctual(r, planner[r]), NEW p \in Planners, EnqueueSlot(p)
  PROVE  SchedulesInv'
<1>1. PICK was : was = planner[p]
  OBVIOUS
<1>2. PICK slot : slot = was.slot
  OBVIOUS
<1>3. PICK q : q = [was EXCEPT !.pc = "answered", !.slot = Never]
  OBVIOUS
<1>4. /\ was \in Planner /\ was.pc = "dispatching" /\ OnTime(was, lo) /\ Between(lo, hi) /\ elapsed \in Nat
  BY <1>1, OnePlanner DEF EnqueueSlot
<1>5. /\ slot \in SlotTimes /\ slot \in Int /\ was.due \in Int
      /\ was.due <= slot - lo + Lag /\ elapsed <= was.due + Takes
  BY <1>2, <1>4, SchedulesNumbers DEF OnTime, Planner, SlotTimes
<1>6. q \in Planner /\ q.pc = "answered" /\ q.due = was.due /\ q.since = was.since /\ q.steady = was.steady
  <2>1. PICK never : never = Never
    OBVIOUS
  <2>2. never \in Int /\ q = [was EXCEPT !.pc = "answered", !.slot = never]
    BY <1>3, <2>1 DEF Never
  <2> QED
    BY <1>4, <2>2 DEF Planner, PlannerAt
<1>7. /\ planner' = [planner EXCEPT ![p] = q]
      /\ slotJob' = IF slotJob[slot] = NoJob THEN [slotJob EXCEPT ![slot].state = "pending"] ELSE slotJob
      /\ dispatched' = IF slotJob[slot] = NoJob THEN [dispatched EXCEPT ![slot] = @ + 1] ELSE dispatched
      /\ UNCHANGED <<timetable, elapsed, drift, upsets>>
  BY <1>1, <1>2, <1>3 DEF EnqueueSlot
<1>8. slotJob \in [SlotTimes -> SlotJob] /\ dispatched \in [SlotTimes -> Nat]
  BY DEF SchedulesTypeOK
<1>9. \A r \in Planners : planner'[r] = IF r = p THEN q ELSE planner[r]
  BY <1>7 DEF SchedulesTypeOK
<1>10. ASSUME NEW s \in SlotTimes, s # slot \/ slotJob[slot] # NoJob
       PROVE  slotJob'[s] = slotJob[s] /\ dispatched'[s] = dispatched[s]
  BY <1>7, <1>8, <1>10
<1>11. ASSUME slotJob[slot] = NoJob
       PROVE  /\ dispatched'[slot] = dispatched[slot] + 1 /\ slotJob'[slot].state = "pending"
              /\ slotJob' \in [SlotTimes -> SlotJob] /\ dispatched' \in [SlotTimes -> Nat]
  <2>1. dispatched' = [dispatched EXCEPT ![slot] = dispatched[slot] + 1] /\ dispatched[slot] \in Nat
    BY <1>5, <1>7, <1>8, <1>11
  <2>2. dispatched'[slot] = dispatched[slot] + 1 /\ dispatched' \in [SlotTimes -> Nat]
    BY <1>5, <1>8, <2>1
  <2>3. PICK job : job = [slotJob[slot] EXCEPT !.state = "pending"]
    OBVIOUS
  <2>4. job \in SlotJob /\ job.state = "pending"
    BY <1>5, <1>8, <2>3 DEF SlotJob
  <2>5. slotJob' = [slotJob EXCEPT ![slot] = job]
    BY <1>7, <1>11, <2>3
  <2> QED
    BY <1>5, <1>8, <2>2, <2>4, <2>5
<1>12. \A s \in SlotTimes : dispatched[s] \in Nat /\ dispatched'[s] \in Nat /\ (dispatched[s] > 0 => dispatched'[s] > 0)
  BY <1>5, <1>8, <1>10, <1>11
<1>13. dispatched'[slot] > 0
  <2>1. SlotOK(slot, lo)
    BY <1>5 DEF ClocksAre
  <2> QED
    BY <1>5, <1>8, <1>10, <1>11, <2>1 DEF SlotOK
<1>14. SchedulesTypeOK'
  <2>1. planner' \in [Planners -> Planner]
    BY <1>6, <1>7 DEF SchedulesTypeOK
  <2>2. slotJob' \in [SlotTimes -> SlotJob] /\ dispatched' \in [SlotTimes -> Nat]
    BY <1>7, <1>8, <1>11
  <2> QED
    BY <1>7, <2>1, <2>2 DEF SchedulesTypeOK
<1>15. PICK apart : apart = Apart
  OBVIOUS
<1>16. apart \in Nat /\ apart <= Spread
  <2>1. upsets \in Nat /\ upsets <= MaxUpsets
    BY SchedulesNumbers DEF SchedulesTypeOK
  <2> QED
    BY <1>15, <2>1, ApartGrows DEF Apart
<1>17. ASSUME slotJob[slot] = NoJob, Lag + Takes + Spread <= KeepMs
       PROVE  dispatched[slot] = 0
  <2>1. dispatched[slot] > 0 => slot + KeepMs < elapsed + lo + apart
    BY <1>5, <1>15, <1>17 DEF ClocksAre, SlotOK
  <2>2. ~ (slot + KeepMs < elapsed + lo + apart)
    BY <1>4, <1>5, <1>16, <1>17, SchedulesNumbers
  <2> QED
    BY <1>5, <1>8, <2>1, <2>2
<1>18. ClocksAre(lo, hi)'
  <2>1. Between(lo, hi)'
    BY <1>4, <1>7 DEF Between, Apart
  <2>2. ASSUME NEW r \in Planners
        PROVE  OnTime(planner[r], lo)'
    <3>1. OnTime(q, lo)
      BY <1>4, <1>5, <1>6 DEF OnTime
    <3>2. PICK now : now = planner'[r]
      OBVIOUS
    <3>3. OnTime(now, lo)
      BY <1>9, <3>1, <3>2 DEF ClocksAre
    <3> QED
      BY <1>7, <3>2, <3>3 DEF OnTime
  <2>3. ASSUME NEW s \in SlotTimes
        PROVE  SlotOK(s, lo)'
    <3>1. SlotOK(s, lo)
      BY DEF ClocksAre
    <3>2. Apart' = Apart
      BY <1>7 DEF Apart
    <3>3. CASE s # slot \/ slotJob[slot] # NoJob
      BY <1>7, <1>10, <3>1, <3>2, <3>3 DEF SlotOK
    <3>4. CASE s = slot /\ slotJob[slot] = NoJob
      <4>1. dispatched'[s] = dispatched[s] + 1 /\ slotJob'[s].state = "pending" /\ dispatched[s] \in Nat
        BY <1>8, <1>11, <3>4
      <4>2. slotJob'[s] # NoJob
        BY <4>1 DEF NoJob
      <4>3. Lag + Takes + Spread <= KeepMs => dispatched'[s] <= 1
        BY <1>17, <3>4, <4>1
      <4> QED
        BY <4>1, <4>2, <4>3 DEF SlotOK
    <3> QED
      BY <3>3, <3>4
  <2> QED
    BY <2>1, <2>2, <2>3 DEF ClocksAre
<1>19. ASSUME FarApart, NEW r \in Planners
       PROVE  Punctual(r, planner[r])'
  <2>1. CASE r # p
    <3>1. PICK now : now = planner[r]
      OBVIOUS
    <3>2. Punctual(r, now)
      BY <1>19, <3>1
    <3>3. Punctual(r, now)'
      BY <1>7, <1>12, <3>2, StaysPunctual
    <3> QED
      BY <1>9, <2>1, <3>1, <3>3
  <2>2. CASE r = p
    <3>1. Punctual(p, was)
      BY <1>1, <1>19
    <3>2. ASSUME was.steady
          PROVE  drift[p] = 0 /\ Dawning <= q.since /\ SeenTo(q, q.due + Takes)'
      <4>1. /\ drift[p] = 0 /\ Dawning <= was.since /\ was.due <= slot + Lag
            /\ SeenTo(was, slot - 1) /\ Alone(slot)
        BY <1>2, <1>4, <3>1, <3>2 DEF Punctual
      <4>2. ASSUME NEW s \in DueSlots, s \in SlotTimes, was.since < s, s <= was.due + Takes
            PROVE  dispatched'[s] > 0
        <5>1. s \in Int
          BY SchedulesNumbers, <4>2 DEF SlotTimes
        <5>2. CASE s <= slot - 1
          BY <1>12, <4>1, <4>2, <5>2 DEF SeenTo
        <5>3. CASE s = slot
          BY <1>13, <5>3
        <5>4. CASE slot < s
          <6>1. slot + Lag + Takes < s
            BY <4>1, <5>4 DEF Alone
          <6> QED
            BY <1>5, <4>1, <4>2, <5>1, <6>1, SchedulesNumbers
        <5> QED
          BY <1>5, <5>1, <5>2, <5>3, <5>4
      <4>3. DueSlots' = DueSlots
        BY <1>7 DEF DueSlots
      <4> QED
        BY <1>6, <4>1, <4>2, <4>3 DEF SeenTo
    <3>3. Punctual(p, q)'
      BY <1>6, <1>7, <3>2 DEF Punctual
    <3> QED
      BY <1>9, <2>2, <3>3
  <2> QED
    BY <2>1, <2>2
<1> QED
  BY <1>14, <1>18, <1>19 DEF SchedulesInv

LEMMA AnsweredKeeps ==
  ASSUME SchedulesTypeOK, NEW lo \in Int, NEW hi \in Int, ClocksAre(lo, hi),
         FarApart => \A r \in Planners : Punctual(r, planner[r]), NEW p \in Planners, SlotAnswered(p)
  PROVE  SchedulesInv'
<1>1. PICK was : was = planner[p]
  OBVIOUS
<1>2. /\ was.pc = "answered" /\ was \in Planner /\ OnTime(was, lo)
      /\ UNCHANGED <<timetable, elapsed, drift, slotJob, dispatched, upsets>>
  BY <1>1, OnePlanner DEF SlotAnswered
<1>3. CASE was.stopping
  <2>1. planner' = [planner EXCEPT ![p] = Resting("idle", TRUE)]
    BY <1>1, <1>3 DEF SlotAnswered, rearmed
  <2> QED
    BY <1>2, <2>1, RestingKeeps
<1>4. CASE ~ was.stopping
  <2>1. planner' = [planner EXCEPT ![p] = armed(p, clock(p))]
    BY <1>1, <1>4 DEF SlotAnswered, rearmed
  <2>2. ASSUME FarApart, was.steady
        PROVE  SeenTo(was, clock(p))
    <3>1. Punctual(p, was)
      BY <1>1, <2>2
    <3>2. drift[p] = 0 /\ SeenTo(was, was.due + Takes)
      BY <1>2, <2>2, <3>1 DEF Punctual
    <3>3. PICK at : at = clock(p)
      OBVIOUS
    <3>4. at = elapsed /\ elapsed \in Nat
      <4>1. at = elapsed + drift[p] /\ elapsed \in Nat
        BY <3>3, OnePlanner
      <4> QED
        BY <3>2, <4>1
    <3>5. elapsed <= was.due + Takes /\ was.due + Takes \in Int
      BY <1>2, SchedulesNumbers DEF OnTime, Planner
    <3>6. \A s \in DueSlots : s \in Int
      BY DEF DueSlots, Slots, Observed
    <3>7. \A s \in DueSlots : s <= at => s <= was.due + Takes
      BY <3>4, <3>5, <3>6
    <3>8. SeenTo(was, at)
      BY <3>2, <3>7 DEF SeenTo
    <3> QED
      BY <3>3, <3>8
  <2>3. FarApart /\ planner[p].steady => SeenTo(planner[p], clock(p))
    BY <1>1, <2>2
  <2> QED
    BY <1>1, <1>2, <2>1, <2>3, RearmKeeps
<1> QED
  BY <1>3, <1>4

LEMMA FailsKeeps ==
  ASSUME SchedulesTypeOK, NEW lo \in Int, NEW hi \in Int, ClocksAre(lo, hi),
         FarApart => \A r \in Planners : Punctual(r, planner[r]), NEW p \in Planners, DispatchFails(p)
  PROVE  SchedulesInv'
<1>1. PICK now : now = rearmed(p)
  OBVIOUS
<1>2. PICK q : q = [now EXCEPT !.steady = FALSE]
  OBVIOUS
<1>3. /\ planner' = [planner EXCEPT ![p] = q]
      /\ UNCHANGED <<timetable, elapsed, drift, slotJob, dispatched>> /\ upsets < MaxUpsets /\ upsets' = upsets + 1
  BY <1>1, <1>2 DEF DispatchFails
<1>4. Between(lo, hi)
  BY OnePlanner
<1>5. now \in Planner /\ now.pc \in {"armed", "idle"} /\ OnTime(now, lo)
  <2>1. CASE planner[p].stopping
    <3>1. now = Resting("idle", TRUE)
      BY <1>1, <2>1 DEF rearmed
    <3>2. now \in Planner /\ now.pc = "idle"
      BY <3>1, RestingPlanner
    <3> QED
      BY <3>2 DEF OnTime
  <2>2. CASE ~ planner[p].stopping
    <3>1. now = armed(p, clock(p))
      BY <1>1, <2>2 DEF rearmed
    <3> QED
      BY <1>4, <3>1, ArmedFacts
  <2> QED
    BY <2>1, <2>2
<1>6. /\ q \in Planner /\ q.pc = now.pc /\ q.slot = now.slot /\ q.due = now.due /\ ~ q.steady
  BY <1>2, <1>5 DEF Planner
<1>7. OnTime(q, lo) /\ Punctual(p, q)
  BY <1>5, <1>6 DEF OnTime, Punctual
<1> QED
  BY <1>3, <1>6, <1>7, PlannerMoves

LEMMA StopKeeps ==
  ASSUME SchedulesTypeOK, NEW lo \in Int, NEW hi \in Int, ClocksAre(lo, hi),
         FarApart => \A r \in Planners : Punctual(r, planner[r]), NEW p \in Planners, StopPlanner(p)
  PROVE  SchedulesInv'
<1>1. PICK was : was = planner[p]
  OBVIOUS
<1>2. /\ was \in Planner /\ OnTime(was, lo)
      /\ UNCHANGED <<timetable, elapsed, drift, slotJob, dispatched>> /\ upsets < MaxUpsets /\ upsets' = upsets + 1
  BY <1>1, OnePlanner DEF StopPlanner
<1>3. CASE was.pc = "armed"
  <2>1. planner' = [planner EXCEPT ![p] = Resting("idle", TRUE)]
    BY <1>1, <1>3 DEF StopPlanner
  <2> QED
    BY <1>2, <2>1, RestingKeeps
<1>4. CASE was.pc # "armed"
  <2>1. PICK q : q = [was EXCEPT !.stopping = TRUE]
    OBVIOUS
  <2>2. planner' = [planner EXCEPT ![p] = q]
    BY <1>1, <1>4, <2>1 DEF StopPlanner
  <2>3. /\ q \in Planner /\ q.pc = was.pc /\ q.slot = was.slot /\ q.due = was.due /\ q.since = was.since
        /\ q.steady = was.steady
    BY <1>2, <2>1 DEF Planner
  <2>4. OnTime(q, lo)
    BY <1>2, <2>3 DEF OnTime
  <2>5. ASSUME FarApart
        PROVE  Punctual(p, q)
    <3>1. Punctual(p, was)
      BY <1>1, <2>5
    <3>2. \A to : SeenTo(was, to) => SeenTo(q, to)
      BY <2>3 DEF SeenTo
    <3> QED
      BY <2>3, <3>1, <3>2 DEF Punctual
  <2> QED
    BY <1>2, <2>2, <2>3, <2>4, <2>5, PlannerMoves
<1> QED
  BY <1>3, <1>4

LEMMA CrashKeeps ==
  ASSUME SchedulesTypeOK, NEW lo \in Int, NEW hi \in Int, ClocksAre(lo, hi),
         FarApart => \A r \in Planners : Punctual(r, planner[r]), NEW p \in Planners, PlannerCrashes(p)
  PROVE  SchedulesInv'
BY RestingKeeps DEF PlannerCrashes

\* A step that leaves the workers and the clocks as they are.
LEMMA JobsMove ==
  ASSUME SchedulesTypeOK, NEW lo \in Int, NEW hi \in Int, ClocksAre(lo, hi),
         FarApart => \A r \in Planners : Punctual(r, planner[r]),
         UNCHANGED <<timetable, elapsed, drift, planner, dispatched, upsets>>,
         slotJob' \in [SlotTimes -> SlotJob], \A s \in SlotTimes : SlotOK(s, lo)'
  PROVE  SchedulesInv'
<1>1. SchedulesTypeOK'
  BY DEF SchedulesTypeOK
<1>2. ClocksAre(lo, hi)'
  <2>1. Between(lo, hi)'
    BY DEF ClocksAre, Between, Apart
  <2>2. \A r \in Planners : OnTime(planner[r], lo)'
    BY DEF ClocksAre, OnTime
  <2> QED
    BY <2>1, <2>2 DEF ClocksAre
<1>3. ASSUME FarApart, NEW r \in Planners
      PROVE  Punctual(r, planner[r])'
  <2>1. PICK now : now = planner[r]
    OBVIOUS
  <2>2. Punctual(r, now)
    BY <1>3, <2>1
  <2>3. Punctual(r, now)'
    BY <2>2, StaysPunctual
  <2> QED
    BY <2>1, <2>3
<1> QED
  BY <1>1, <1>2, <1>3 DEF SchedulesInv

LEMMA RunKeeps ==
  ASSUME SchedulesTypeOK, NEW lo \in Int, NEW hi \in Int, ClocksAre(lo, hi),
         FarApart => \A r \in Planners : Punctual(r, planner[r]), NEW p \in Planners, RunSlotJob(p)
  PROVE  SchedulesInv'
<1>1. PICK at : at = clock(p)
  OBVIOUS
<1>2. at \in Int
  BY <1>1, OnePlanner
<1>3. PICK slot \in SlotTimes :
        /\ slotJob[slot].state = "pending" /\ slot <= at
        /\ slotJob' = [slotJob EXCEPT ![slot] = [state |-> "completed", finishedAt |-> at]]
  BY <1>1 DEF RunSlotJob
<1>4. UNCHANGED <<timetable, elapsed, drift, planner, dispatched, upsets>>
  BY DEF RunSlotJob
<1>5. PICK job : job = [state |-> "completed", finishedAt |-> at]
  OBVIOUS
<1>6. job \in SlotJob /\ job.state = "completed" /\ job.finishedAt = at /\ job # NoJob
  BY <1>2, <1>5 DEF SlotJob, NoJob
<1>7. slotJob \in [SlotTimes -> SlotJob] /\ slotJob' = [slotJob EXCEPT ![slot] = job]
  BY <1>3, <1>5 DEF SchedulesTypeOK
<1>8. slotJob' \in [SlotTimes -> SlotJob] /\ \A s \in SlotTimes : slotJob'[s] = IF s = slot THEN job ELSE slotJob[s]
  BY <1>6, <1>7
<1>9. ASSUME NEW s \in SlotTimes
      PROVE  SlotOK(s, lo)'
  <2>1. SlotOK(s, lo) /\ Apart' = Apart
    BY <1>4 DEF ClocksAre, Apart
  <2>2. CASE s # slot
    <3>1. slotJob'[s] = slotJob[s]
      BY <1>8, <2>2
    <3> QED
      BY <1>4, <2>1, <3>1 DEF SlotOK
  <2>3. CASE s = slot
    <3>1. slotJob[s] # NoJob
      BY <1>3, <2>3 DEF NoJob
    <3>2. slotJob'[s] = job /\ s <= at /\ dispatched[s] # 0
      BY <1>3, <1>8, <2>1, <2>3, <3>1 DEF SlotOK
    <3> QED
      BY <1>4, <1>6, <2>1, <3>2 DEF SlotOK
  <2> QED
    BY <2>2, <2>3
<1> QED
  BY <1>4, <1>8, <1>9, JobsMove

LEMMA PurgeKeeps ==
  ASSUME SchedulesTypeOK, NEW lo \in Int, NEW hi \in Int, ClocksAre(lo, hi),
         FarApart => \A r \in Planners : Punctual(r, planner[r]), NEW p \in Planners, PurgeSlotJobs(p)
  PROVE  SchedulesInv'
<1>1. PICK at : at = clock(p)
  OBVIOUS
<1>2. PICK apart : apart = Apart
  OBVIOUS
<1>3. /\ at \in Int /\ elapsed \in Nat /\ at = elapsed + drift[p] /\ drift[p] \in Int
  BY <1>1, OnePlanner
<1>4. drift[p] <= hi /\ hi - lo <= apart /\ apart \in Int
  <2>1. Between(lo, hi) /\ upsets \in Nat
    BY SchedulesNumbers DEF ClocksAre, SchedulesTypeOK
  <2> QED
    BY <1>2, <2>1, ApartGrows DEF Between, Apart
<1>5. /\ UNCHANGED <<timetable, elapsed, drift, planner, dispatched, upsets>>
      /\ slotJob' = [s \in SlotTimes |->
           IF slotJob[s].state = "completed" /\ slotJob[s].finishedAt < at - KeepMs THEN NoJob ELSE slotJob[s]]
  BY <1>1 DEF PurgeSlotJobs
<1>6. slotJob \in [SlotTimes -> SlotJob] /\ NoJob \in SlotJob /\ NoJob.state = "none"
  BY DEF SchedulesTypeOK, SlotJob, NoJob, Never
<1>7. ASSUME NEW s \in SlotTimes
      PROVE  /\ slotJob'[s] \in SlotJob
             /\ \/ slotJob'[s] = slotJob[s]
                \/ slotJob'[s] = NoJob /\ slotJob[s].state = "completed" /\ slotJob[s].finishedAt < at - KeepMs
  BY <1>5, <1>6
<1>8. slotJob' \in [SlotTimes -> SlotJob]
  BY <1>5, <1>7
<1>9. ASSUME NEW s \in SlotTimes
      PROVE  SlotOK(s, lo)'
  <2>1. SlotOK(s, lo) /\ Apart' = Apart
    BY <1>5 DEF ClocksAre, Apart
  <2>2. CASE slotJob'[s] = slotJob[s]
    BY <1>5, <2>1, <2>2 DEF SlotOK
  <2>3. CASE slotJob'[s] = NoJob /\ slotJob[s].state = "completed" /\ slotJob[s].finishedAt < at - KeepMs
    <3>1. PICK done : done = slotJob[s].finishedAt
      OBVIOUS
    <3>2. done \in Int /\ s \in Int /\ s <= done /\ done < at - KeepMs
      BY <1>6, <2>1, <2>3, <3>1, SchedulesNumbers DEF SlotOK, SlotJob, SlotTimes
    <3>3. s + KeepMs < elapsed + lo + apart
      BY <1>3, <1>4, <3>2, SchedulesNumbers
    <3> QED
      BY <1>2, <1>5, <1>6, <2>1, <2>3, <3>3 DEF SlotOK
  <2> QED
    BY <1>7, <2>2, <2>3
<1> QED
  BY <1>5, <1>8, <1>9, JobsMove

\* A clock that is set takes the clocks at most Leap further apart.
LEMMA JumpKeeps ==
  ASSUME SchedulesTypeOK, NEW lo \in Int, NEW hi \in Int, ClocksAre(lo, hi),
         FarApart => \A r \in Planners : Punctual(r, planner[r]), NEW p \in Planners, ClockJumps(p)
  PROVE  SchedulesInv'
<1>1. PICK jump \in Jumps : drift' = [drift EXCEPT ![p] = drift[p] + jump]
  BY DEF ClockJumps
<1>2. PICK was, q : was = planner[p] /\ q = [was EXCEPT !.steady = FALSE]
  OBVIOUS
<1>3. /\ planner' = [planner EXCEPT ![p] = q] /\ upsets < MaxUpsets /\ upsets' = upsets + 1
      /\ UNCHANGED <<timetable, elapsed, slotJob, dispatched>> /\ was.pc # "new"
  BY <1>2 DEF ClockJumps, Up
<1>4. jump \in Int /\ Leap \in Nat /\ -Leap <= jump /\ jump <= Leap
  BY SchedulesAssumption, SchedulesNumbers
<1>5. was \in Planner /\ OnTime(was, lo) /\ Between(lo, hi) /\ drift[p] \in Int /\ elapsed \in Nat
  BY <1>2, OnePlanner
<1>6. /\ q \in Planner /\ q.pc = was.pc /\ q.slot = was.slot /\ q.due = was.due /\ ~ q.steady
  BY <1>2, <1>5 DEF Planner
<1>7. \A r \in Planners : /\ planner'[r] = IF r = p THEN q ELSE planner[r]
                          /\ drift'[r] = IF r = p THEN drift[p] + jump ELSE drift[r]
  BY <1>1, <1>3 DEF SchedulesTypeOK
<1>8. PICK apart, later : apart = Apart /\ later = Apart'
  OBVIOUS
<1>9. apart \in Nat /\ later = apart + Leap
  <2>1. upsets \in Nat
    BY SchedulesNumbers DEF SchedulesTypeOK
  <2> QED
    BY <1>3, <1>8, <2>1, ApartGrows DEF Apart
<1>10. PICK low \in Int, high \in Int : low <= lo /\ hi <= high /\ high - low <= hi - lo + Leap /\ lo - Leap <= low
                                        /\ low <= drift[p] + jump /\ drift[p] + jump <= high
  <2>1. lo <= drift[p] /\ drift[p] <= hi
    BY <1>5 DEF Between
  <2>2. CASE jump >= 0
    <3>1. hi + Leap \in Int /\ lo <= drift[p] + jump /\ drift[p] + jump <= hi + Leap
      BY <1>4, <1>5, <2>1, <2>2
    <3> QED
      BY <1>4, <3>1
  <2>3. CASE jump < 0
    <3>1. lo - Leap \in Int /\ lo - Leap <= drift[p] + jump /\ drift[p] + jump <= hi
      BY <1>4, <1>5, <2>1, <2>3
    <3> QED
      BY <1>4, <3>1
  <2> QED
    BY <1>4, <2>2, <2>3
<1>11. SchedulesTypeOK'
  <2>1. drift' \in [Planners -> Int]
    BY <1>1, <1>4, <1>5 DEF SchedulesTypeOK
  <2>2. planner' \in [Planners -> Planner]
    BY <1>3, <1>6 DEF SchedulesTypeOK
  <2>3. upsets' \in 0 .. MaxUpsets
    BY <1>3, SchedulesNumbers DEF SchedulesTypeOK
  <2> QED
    BY <1>3, <2>1, <2>2, <2>3 DEF SchedulesTypeOK
<1>12. ClocksAre(low, high)'
  <2>1. Between(low, high)'
    <3>1. lo <= 0 /\ 0 <= hi /\ hi - lo <= apart /\ \A r \in Planners : lo <= drift[r] /\ drift[r] <= hi
      BY <1>5, <1>8 DEF Between
    <3>2. low <= 0 /\ 0 <= high /\ high - low <= later
      BY <1>4, <1>9, <1>10, <3>1
    <3>3. ASSUME NEW r \in Planners
          PROVE  low <= drift'[r] /\ drift'[r] <= high
      <4>1. drift[r] \in Int /\ lo <= drift[r] /\ drift[r] <= hi
        BY <3>1 DEF SchedulesTypeOK
      <4>2. PICK now : now = drift'[r]
        OBVIOUS
      <4>3. low <= now /\ now <= high
        BY <1>7, <1>10, <4>1, <4>2
      <4> QED
        BY <4>2, <4>3
    <3> QED
      BY <1>8, <3>2, <3>3 DEF Between
  <2>2. ASSUME NEW r \in Planners
        PROVE  OnTime(planner[r], low)'
    <3>1. PICK now : now = planner'[r]
      OBVIOUS
    <3>2. OnTime(now, lo) /\ now \in Planner
      BY <1>5, <1>6, <1>7, <3>1 DEF ClocksAre, OnTime, SchedulesTypeOK
    <3>3. now.due \in Int /\ now.slot \in Int
      BY <3>2 DEF Planner
    <3>4. /\ now.due <= now.slot - lo => now.due <= now.slot - low
          /\ now.due <= now.slot - lo + Lag => now.due <= now.slot - low + Lag
      BY <1>10, <3>3, SchedulesNumbers
    <3>5. OnTime(now, low)
      BY <3>2, <3>4 DEF OnTime
    <3> QED
      BY <1>3, <3>1, <3>5 DEF OnTime
  <2>3. ASSUME NEW s \in SlotTimes
        PROVE  SlotOK(s, low)'
    <3>1. SlotOK(s, lo)
      BY DEF ClocksAre
    <3>2. s \in Int
      BY SchedulesNumbers DEF SlotTimes
    <3>3. s + KeepMs < elapsed + lo + apart => s + KeepMs < elapsed + low + later
      BY <1>4, <1>5, <1>9, <1>10, <3>2, SchedulesNumbers
    <3> QED
      BY <1>3, <1>8, <3>1, <3>3 DEF SlotOK
  <2> QED
    BY <2>1, <2>2, <2>3 DEF ClocksAre
<1>13. ASSUME FarApart, NEW r \in Planners
       PROVE  Punctual(r, planner[r])'
  <2>1. CASE r = p
    <3>1. planner'[r].pc # "new" /\ ~ planner'[r].steady
      BY <1>3, <1>6, <1>7, <2>1
    <3> QED
      BY <3>1 DEF Punctual
  <2>2. CASE r # p
    <3>1. PICK now : now = planner[r]
      OBVIOUS
    <3>2. Punctual(r, now) /\ now = planner'[r] /\ drift'[r] = drift[r]
      BY <1>7, <1>13, <2>2, <3>1
    <3>3. \A slot, to : /\ SeenTo(now, to) => SeenTo(now, to)'
                        /\ Alone(slot) => Alone(slot)'
      BY <1>3 DEF SeenTo, Alone, DueSlots
    <3>4. Punctual(r, now)'
      BY <3>2, <3>3 DEF Punctual
    <3> QED
      BY <3>2, <3>4
  <2> QED
    BY <2>1, <2>2
<1> QED
  BY <1>11, <1>12, <1>13 DEF SchedulesInv

\* Time waits for a timer that is late and for a dispatch that is slow.
LEMMA TimeKeeps ==
  ASSUME SchedulesTypeOK, NEW lo \in Int, NEW hi \in Int, ClocksAre(lo, hi),
         FarApart => \A r \in Planners : Punctual(r, planner[r]), TimePasses
  PROVE  SchedulesInv'
<1>1. /\ elapsed < Dusk /\ elapsed' = elapsed + 1
      /\ UNCHANGED <<timetable, drift, planner, slotJob, dispatched, upsets>>
  BY DEF TimePasses
<1>2. elapsed \in Nat /\ Dawning <= elapsed
  BY SchedulesNumbers DEF SchedulesTypeOK
<1>3. PICK now, then : now = elapsed /\ then = elapsed'
  OBVIOUS
<1>4. now \in Nat /\ then = now + 1 /\ then \in Dawning .. Dusk
  BY <1>1, <1>2, <1>3, SchedulesNumbers
<1>5. SchedulesTypeOK'
  <2>1. elapsed' \in Dawning .. Dusk
    BY <1>3, <1>4
  <2> QED
    BY <1>1, <2>1 DEF SchedulesTypeOK
<1>6. ClocksAre(lo, hi)'
  <2>1. Between(lo, hi)'
    BY <1>1 DEF ClocksAre, Between, Apart
  <2>2. ASSUME NEW r \in Planners
        PROVE  OnTime(planner[r], lo)'
    <3>1. PICK q : q = planner[r]
      OBVIOUS
    <3>2. OnTime(q, lo) /\ q \in Planner /\ q.due \in Int
      BY <3>1 DEF ClocksAre, SchedulesTypeOK, Planner
    <3>3. /\ q.pc = "armed" => now < q.due + Lag
          /\ q.pc \in {"dispatching", "answered"} => now < q.due + Takes
      <4>1. q.pc \in DOMAIN Patience => now < q.due + Patience[q.pc]
        BY <1>3, <3>1 DEF TimePasses
      <4>2. /\ DOMAIN Patience = {"armed", "dispatching", "answered"}
            /\ Patience["armed"] = Lag /\ Patience["dispatching"] = Takes /\ Patience["answered"] = Takes
        BY DEF Patience
      <4> QED
        BY <4>1, <4>2
    <3>4. /\ q.pc = "armed" => then <= q.due + Lag
          /\ q.pc \in {"dispatching", "answered"} => then <= q.due + Takes
      BY <1>4, <3>2, <3>3, SchedulesNumbers
    <3> QED
      BY <1>1, <1>3, <3>1, <3>2, <3>4 DEF OnTime
  <2>3. ASSUME NEW s \in SlotTimes
        PROVE  SlotOK(s, lo)'
    <3>1. SlotOK(s, lo) /\ Apart' = Apart
      BY <1>1 DEF ClocksAre, Apart
    <3>2. PICK apart : apart = Apart
      OBVIOUS
    <3>3. apart \in Int /\ s \in Int
      <4>1. upsets \in Nat
        BY SchedulesNumbers DEF SchedulesTypeOK
      <4> QED
        BY <3>2, <4>1, ApartGrows, SchedulesNumbers DEF Apart, SlotTimes
    <3>4. s + KeepMs < now + lo + apart => s + KeepMs < then + lo + apart
      BY <1>4, <3>3, SchedulesNumbers
    <3> QED
      BY <1>1, <1>3, <3>1, <3>2, <3>4 DEF SlotOK
  <2> QED
    BY <2>1, <2>2, <2>3 DEF ClocksAre
<1>7. ASSUME FarApart, NEW r \in Planners
      PROVE  Punctual(r, planner[r])'
  <2>1. PICK q : q = planner[r]
    OBVIOUS
  <2>2. Punctual(r, q)
    BY <1>7, <2>1
  <2>3. Punctual(r, q)'
    BY <1>1, <2>2, StaysPunctual
  <2> QED
    BY <1>1, <2>1, <2>3
<1> QED
  BY <1>5, <1>6, <1>7 DEF SchedulesInv

LEMMA SchedulesInitInv == SchedulesInit => SchedulesInv
<1> SUFFICES ASSUME SchedulesInit PROVE SchedulesInv
  OBVIOUS
<1>1. /\ elapsed = Dawning /\ upsets = 0 /\ \A p \in Planners : drift[p] = 0 /\ planner[p] = Resting("new", FALSE)
      /\ \A s \in SlotTimes : slotJob[s] = NoJob /\ dispatched[s] = 0
  BY DEF SchedulesInit
<1>2. Resting("new", FALSE) \in Planner /\ Resting("new", FALSE).pc = "new"
  BY RestingPlanner
<1>3. SchedulesTypeOK
  <2>1. \E t \in Timetables : timetable = TimetableOf(t)
    BY DEF SchedulesInit, TimetableOf
  <2>2. elapsed \in Dawning .. Dusk /\ upsets \in 0 .. MaxUpsets
    BY <1>1, SchedulesNumbers
  <2>3. drift \in [Planners -> Int] /\ planner \in [Planners -> Planner]
    <3>1. drift = [p \in Planners |-> 0] /\ planner = [p \in Planners |-> Resting("new", FALSE)]
      BY DEF SchedulesInit
    <3>2. drift \in [Planners -> Int]
      BY <3>1
    <3> QED
      BY <1>2, <3>1, <3>2
  <2>4. NoJob \in SlotJob
    BY DEF NoJob, SlotJob, Never
  <2>5. slotJob \in [SlotTimes -> SlotJob] /\ dispatched \in [SlotTimes -> Nat]
    BY <2>4 DEF SchedulesInit
  <2> QED
    BY <2>1, <2>2, <2>3, <2>5 DEF SchedulesTypeOK
<1>4. ClocksAre(0, 0)
  <2>1. Apart = 0
    BY <1>1, SchedulesNumbers DEF Apart
  <2>2. Between(0, 0)
    <3>1. ASSUME NEW p \in Planners
          PROVE  0 <= drift[p] /\ drift[p] <= 0
      <4>1. PICK off : off = drift[p]
        OBVIOUS
      <4>2. off = 0
        BY <1>1, <4>1
      <4>3. 0 <= off /\ off <= 0
        BY <4>2
      <4> QED
        BY <4>1, <4>3
    <3> QED
      BY <2>1, <3>1 DEF Between
  <2>3. \A p \in Planners : OnTime(planner[p], 0)
    BY <1>1, <1>2 DEF OnTime
  <2>4. NoJob.state = "none"
    BY DEF NoJob
  <2>5. \A s \in SlotTimes : SlotOK(s, 0)
    BY <1>1, <2>4 DEF SlotOK
  <2> QED
    BY <2>2, <2>3, <2>5 DEF ClocksAre
<1>5. \A p \in Planners : Punctual(p, planner[p])
  BY <1>1, <1>2 DEF Punctual
<1> QED
  BY <1>3, <1>4, <1>5 DEF SchedulesInv

LEMMA SchedulesInvStep ==
  ASSUME SchedulesInv, [SchedulesNext]_scheduleVars
  PROVE  SchedulesInv'
<1>1. PICK lo, hi \in Int : ClocksAre(lo, hi)
  BY DEF SchedulesInv
<1>2. SchedulesTypeOK /\ (FarApart => \A r \in Planners : Punctual(r, planner[r]))
  BY DEF SchedulesInv
<1>3. ASSUME NEW p \in Planners, StartPlanner(p)
      PROVE  SchedulesInv'
  BY <1>1, <1>2, <1>3, StartKeeps
<1>4. ASSUME NEW p \in Planners, FireTimer(p)
      PROVE  SchedulesInv'
  BY <1>1, <1>2, <1>4, FireKeeps
<1>5. ASSUME NEW p \in Planners, EnqueueSlot(p)
      PROVE  SchedulesInv'
  BY <1>1, <1>2, <1>5, EnqueueKeeps
<1>6. ASSUME NEW p \in Planners, SlotAnswered(p)
      PROVE  SchedulesInv'
  BY <1>1, <1>2, <1>6, AnsweredKeeps
<1>7. ASSUME NEW p \in Planners, DispatchFails(p)
      PROVE  SchedulesInv'
  BY <1>1, <1>2, <1>7, FailsKeeps
<1>8. ASSUME NEW p \in Planners, StopPlanner(p)
      PROVE  SchedulesInv'
  BY <1>1, <1>2, <1>8, StopKeeps
<1>9. ASSUME NEW p \in Planners, PlannerCrashes(p)
      PROVE  SchedulesInv'
  BY <1>1, <1>2, <1>9, CrashKeeps
<1>10. ASSUME NEW p \in Planners, RunSlotJob(p)
       PROVE  SchedulesInv'
  BY <1>1, <1>2, <1>10, RunKeeps
<1>11. ASSUME NEW p \in Planners, PurgeSlotJobs(p)
       PROVE  SchedulesInv'
  BY <1>1, <1>2, <1>11, PurgeKeeps
<1>12. ASSUME NEW p \in Planners, ClockJumps(p)
       PROVE  SchedulesInv'
  BY <1>1, <1>2, <1>12, JumpKeeps
<1>13. CASE TimePasses
  BY <1>1, <1>2, <1>13, TimeKeeps
<1>14. CASE UNCHANGED scheduleVars
  <2>1. UNCHANGED <<timetable, elapsed, drift, planner, dispatched, upsets, slotJob>>
    BY <1>14 DEF scheduleVars
  <2>2. slotJob' \in [SlotTimes -> SlotJob]
    BY <1>2, <2>1 DEF SchedulesTypeOK
  <2>3. \A s \in SlotTimes : SlotOK(s, lo)'
    BY <1>1, <2>1 DEF ClocksAre, SlotOK, Apart
  <2> QED
    BY <1>1, <1>2, <2>1, <2>2, <2>3, JobsMove
<1> QED
  BY <1>3, <1>4, <1>5, <1>6, <1>7, <1>8, <1>9, <1>10, <1>11, <1>12, <1>13, <1>14 DEF SchedulesNext

LEMMA SchedulesInvHolds ==
  ASSUME SchedulesInv
  PROVE  SchedulesHold
<1>1. PICK lo, hi \in Int : ClocksAre(lo, hi)
  BY DEF SchedulesInv
<1>2. SchedulesTypeOK
  BY DEF SchedulesInv
<1>3. OncePerSlot
  BY <1>1 DEF OncePerSlot, ClocksAre, SlotOK
<1>4. EverySlotServed
  <2> SUFFICES ASSUME FarApart, NEW p \in Planners, planner[p].pc \in DOMAIN Patience, planner[p].steady,
                      NEW s \in Slots(timetable.cron, timetable.zone, planner[p].since + 1 .. clock(p) - Lag - Takes - 1)
               PROVE  dispatched[s] > 0
    BY DEF EverySlotServed
  <2>1. PICK q, at : q = planner[p] /\ at = clock(p)
    OBVIOUS
  <2>2. Punctual(p, q) /\ q.pc \in {"armed", "dispatching", "answered"} /\ q.steady
    BY <2>1 DEF SchedulesInv, Patience
  <2>3. q \in Planner /\ OnTime(q, lo) /\ at = elapsed + drift[p] /\ elapsed \in Nat /\ elapsed <= Dusk
    BY <1>1, <1>2, <2>1, OnePlanner
  <2>4. drift[p] = 0 /\ Dawning <= q.since
    BY <2>2 DEF Punctual
  <2>5. at = elapsed
    BY <2>3, <2>4
  <2>6. q.since \in Int /\ q.due \in Int /\ q.slot \in Int
    BY <2>3 DEF Planner
  <2>7. /\ s \in q.since + 1 .. at - Lag - Takes - 1
        /\ IsDue(timetable.cron, timetable.zone, s) /\ ~ Repeated(timetable.zone, s)
    BY <2>1 DEF Slots
  <2>8. s \in Int /\ q.since < s /\ s < elapsed - Lag - Takes
    BY <2>3, <2>5, <2>6, <2>7, SchedulesNumbers, SMTT(30)
  <2>9. s \in SlotTimes /\ s \in Observed
    BY <2>3, <2>4, <2>6, <2>8, SchedulesNumbers, SMTT(30) DEF SlotTimes, Observed
  <2>10. s \in DueSlots
    BY <2>7, <2>9 DEF DueSlots, Slots
  <2>11. CASE q.pc = "armed"
    <3>1. q.due <= q.slot /\ SeenTo(q, q.slot - 1) /\ elapsed <= q.due + Lag
      BY <2>2, <2>3, <2>11 DEF Punctual, OnTime
    <3>2. s <= q.slot - 1
      BY <2>3, <2>6, <2>8, <3>1, SchedulesNumbers
    <3> QED
      BY <2>8, <2>9, <2>10, <3>1, <3>2 DEF SeenTo
  <2>12. CASE q.pc = "dispatching"
    <3>1. q.due <= q.slot + Lag /\ SeenTo(q, q.slot - 1) /\ elapsed <= q.due + Takes
      BY <2>2, <2>3, <2>12 DEF Punctual, OnTime
    <3>2. s <= q.slot - 1
      BY <2>3, <2>6, <2>8, <3>1, SchedulesNumbers, SMTT(30)
    <3> QED
      BY <2>8, <2>9, <2>10, <3>1, <3>2 DEF SeenTo
  <2>13. CASE q.pc = "answered"
    <3>1. SeenTo(q, q.due + Takes) /\ elapsed <= q.due + Takes
      BY <2>2, <2>3, <2>13 DEF Punctual, OnTime
    <3>2. s <= q.due + Takes
      BY <2>3, <2>6, <2>8, <3>1, SchedulesNumbers
    <3> QED
      BY <2>8, <2>9, <2>10, <3>1, <3>2 DEF SeenTo
  <2> QED
    BY <2>2, <2>11, <2>12, <2>13
<1> QED
  BY <1>3, <1>4, NextCorrect DEF SchedulesHold

\* Whatever the workers do with their timers, clocks, jobs and stops, each slot is dispatched once
\* and by a punctual worker always (worker.ts, schedule and arm).
THEOREM SchedulesCorrect == SchedulesSpec => []SchedulesHold
<1>1. SchedulesInit => SchedulesInv
  BY SchedulesInitInv
<1>2. SchedulesInv /\ [SchedulesNext]_scheduleVars => SchedulesInv'
  BY SchedulesInvStep
<1>3. SchedulesInv => SchedulesHold
  BY SchedulesInvHolds
<1> QED
  BY <1>1, <1>2, <1>3, PTL DEF SchedulesSpec

=============================================================================

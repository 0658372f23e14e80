----------------------------- MODULE RateLimit -----------------------------
(***************************************************************************)
(* rateLimit() (packages/rate-limit/src/middleware.ts) over its two stores *)
(* (stores.ts): the memory store of one process, of one limiter or shared  *)
(* with limiters whose windows differ, under a clock that may step back;   *)
(* and the Redis store that several instances share, each with its own     *)
(* clock.  A call that takes long to the store, and an instance whose      *)
(* clock stepped back, is one more instance, whose clock is behind.        *)
(* Weights are kept as integers: an amount times WindowMs.                 *)
(***************************************************************************)
EXTENDS Integers, Sequences, FiniteSetsExt

CONSTANTS
  Limit, WindowMs,
  Visitors, Instances,  \* rate limit keys; processes
  MaxSkew,              \* how far an instance's clock may run ahead
  RateEnd,              \* bound: the clock's last reading
  Lapses                \* bound: live counters of a visitor swept away in a window

ASSUME RateAssumption ==
  Limit \in Nat /\ WindowMs \in Nat \ {0} /\ MaxSkew \in Nat /\ RateEnd \in Nat /\ Lapses \in Nat

VARIABLES
  shop,       \* "memory", "shared" (a memory store of several limiters) or "redis"
  counters,   \* memory: [Visitors -> [index, current, previous], or index = Unset]
  redisCount, \* Redis: [Visitors -> [window index -> its counter]]
  redisUntil, \* Redis: [Visitors -> [window index -> instant its key expires]]
  skew,       \* [Instances -> its clock minus the time]
  moment,     \* the time
  furthest,   \* the latest reading there was
  stepped,    \* history: whether the clock has ever stepped back
  admitted,   \* history: [Visitors -> the clock readings, since it last stepped back, at
              \* which its requests were let through]
  forgotten,  \* history: [Visitors -> [window -> how many sweeps in it, since then, dropped
              \* a counter that a decision could still read]]
  last        \* the last decision: who, when, and the remaining it was told

rateVars == <<shop, counters, redisCount, redisUntil, skew, moment, furthest, stepped,
              admitted, forgotten, last>>

Unset == -1
Readings == 0 .. RateEnd + MaxSkew
Windows == 0 .. (RateEnd + MaxSkew) \div WindowMs
Fresh == [index |-> Unset, current |-> 0, previous |-> 0]
Untold == [visitor |-> CHOOSE v \in Visitors : TRUE, now |-> Unset, remaining |-> 0]

\* windowPosition: the window's number, and the weight of the one before it.
windowOf(now) == now \div WindowMs
previousWeight(now) == WindowMs - (now % WindowMs)

\* decide: one more request has to fit beside the estimate.
estimate(current, previous, now) == previous * previousWeight(now) + current * WindowMs
allowed(current, previous, now) == estimate(current, previous, now) + WindowMs <= Limit * WindowMs
remaining(current, previous, now) ==
  LET used == estimate(IF allowed(current, previous, now) THEN current + 1 ELSE current, previous, now)
  IN Max({0, (Limit * WindowMs - used) \div WindowMs})

RateInit ==
  /\ shop \in {"memory", "shared", "redis"}
  /\ counters = [v \in Visitors |-> Fresh]
  /\ redisCount = [v \in Visitors |-> [w \in Windows |-> 0]]
  /\ redisUntil = [v \in Visitors |-> [w \in Windows |-> 0]]
  /\ skew \in [Instances -> 0 .. MaxSkew]
  /\ shop # "redis" => \A i \in Instances : skew[i] = 0
  /\ moment = 0 /\ furthest = 0 /\ stepped = FALSE
  /\ admitted = [v \in Visitors |-> <<>>]
  /\ forgotten = [v \in Visitors |-> [w \in Windows |-> 0]]
  /\ last = Untold

-----------------------------------------------------------------------------
\* MemoryRateLimitStore.
shift(c, at) ==
  IF c.index = Unset \/ c.index < at - 1 THEN [index |-> at, current |-> 0, previous |-> 0]
  ELSE IF c.index = at - 1 THEN [index |-> at, current |-> 0, previous |-> c.current]
  ELSE c

consumeMemory(v, now) ==
  LET c == shift(counters[v], windowOf(now))
  IN /\ counters' = [counters EXCEPT ![v] =
          IF allowed(c.current, c.previous, now) THEN [c EXCEPT !.current = @ + 1] ELSE c]
     /\ last' = [visitor |-> v, now |-> now, remaining |-> remaining(c.current, c.previous, now)]
     /\ admitted' = IF allowed(c.current, c.previous, now)
                    THEN [admitted EXCEPT ![v] = Append(@, now)] ELSE admitted
     /\ UNCHANGED <<redisCount, redisUntil>>

\* sweep(): drops the keys two windows behind the newest, which may be the key of
\* somebody else, of a limiter with shorter windows (at least a millisecond each) or of
\* a reading before the clock stepped back.  Mutant: the window before goes as well.
outdatedEarly(c, newest) == c.index < newest
outdated(c, newest) == c.index < newest - 1

Newest == 0 .. (IF shop = "shared" THEN furthest ELSE windowOf(furthest))
live(v) == counters[v].index # Unset /\ counters[v].index >= windowOf(moment) - 1

RateSweep ==
  /\ shop # "redis"
  /\ \E newest \in Newest :
       LET gone == {v \in Visitors : outdated(counters[v], newest)}
           at == windowOf(moment)
       IN /\ \A v \in Visitors : counters[v].index <= newest
          /\ \A v \in gone : live(v) => forgotten[v][at] < Lapses
          /\ counters' = [v \in Visitors |-> IF v \in gone THEN Fresh ELSE counters[v]]
          /\ forgotten' = [v \in Visitors |->
               IF v \in gone /\ live(v) THEN [forgotten[v] EXCEPT ![at] = @ + 1] ELSE forgotten[v]]
  /\ last' = Untold
  /\ UNCHANGED <<shop, redisCount, redisUntil, skew, moment, furthest, stepped, admitted>>

\* CONSUME_SCRIPT, one step: read both counters, refuse, or count and set the expiry.
read(v, w) == IF w \in Windows /\ moment < redisUntil[v][w] THEN redisCount[v][w] ELSE 0

consumeRedis(v, now) ==
  LET at == windowOf(now)
      current == read(v, at)
      previous == read(v, at - 1)
      fits == allowed(current, previous, now)
      counted == IF fits THEN current + 1 ELSE current
      left == Limit * WindowMs - estimate(counted, previous, now)
  IN /\ redisCount' = IF fits THEN [redisCount EXCEPT ![v] = [@ EXCEPT ![at] = counted]] ELSE redisCount
     /\ redisUntil' = IF fits THEN [redisUntil EXCEPT ![v] = [@ EXCEPT ![at] = moment + 2 * WindowMs]] ELSE redisUntil
     /\ last' = [visitor |-> v, now |-> now, remaining |-> Max({0, left \div WindowMs})]
     /\ admitted' = IF fits THEN [admitted EXCEPT ![v] = Append(@, now)] ELSE admitted
     /\ UNCHANGED counters

\* The middleware: one request; the decision is the store's, in one step.
Visit(i, v) ==
  LET now == moment + skew[i]
  IN /\ IF shop = "redis" THEN consumeRedis(v, now) ELSE consumeMemory(v, now)
     /\ UNCHANGED <<shop, skew, moment, furthest, stepped, forgotten>>

\* The store fails: the request passes or not (failClosed), and is not counted.
StoreError ==
  /\ shop = "redis"
  /\ last' = Untold
  /\ UNCHANGED <<shop, counters, redisCount, redisUntil, skew, moment, furthest, stepped,
                 admitted, forgotten>>

RateTick ==
  /\ moment < RateEnd /\ moment' = moment + 1 /\ last' = Untold
  /\ furthest' = Max({furthest, moment'})
  /\ UNCHANGED <<shop, counters, redisCount, redisUntil, skew, stepped, admitted, forgotten>>

\* The clock of a memory store's process steps back.  What its readings have been so far
\* says nothing of those to come: the history starts anew, the counters stay.
StepBack ==
  /\ shop # "redis"
  /\ moment' \in 0 .. moment - 1
  /\ stepped' = TRUE /\ last' = Untold
  /\ admitted' = [v \in Visitors |-> <<>>]
  /\ forgotten' = [v \in Visitors |-> [w \in Windows |-> 0]]
  /\ UNCHANGED <<shop, counters, redisCount, redisUntil, skew, furthest>>

RateNext ==
  \/ \E i \in Instances, v \in Visitors : Visit(i, v)
  \/ StoreError \/ RateSweep \/ RateTick \/ StepBack

RateSpec == RateInit /\ [][RateNext]_rateVars

-----------------------------------------------------------------------------
\* Properties.

Within(log, from, to) == {n \in DOMAIN log : log[n] \in from .. to}
Admitted(v, from, to) == Cardinality(Within(admitted[v], from, to))

\* Since its clock last stepped back, no window lets more than the limit through, and as
\* much again for each sweep in it that dropped a live counter; through Redis while the
\* readings that reach the store at a time are at most a window apart: a counter is kept
\* for two windows after its last hit (stores.ts:93), and who is further behind comes to
\* the window when its counter is gone.  Counters of readings before the step, which may
\* lie windows ahead, only let through less.
OneClock == \A i \in Instances : skew[i] = 0
ClocksClose == \A i, j \in Instances : skew[i] <= skew[j] + WindowMs
WindowLimit ==
  ClocksClose => \A v \in Visitors, w \in Windows :
    Admitted(v, w * WindowMs, (w + 1) * WindowMs - 1) <= Limit * (1 + forgotten[v][w])

\* With one clock, the WindowMs milliseconds up to any reading let the limit through,
\* and beyond it at most what the estimate takes for gone: the share of the limit
\* that the elapsed part of the window stands for.  So no burst of twice the limit
\* at a window's edge (window.ts:30), unless a sweep in the window or in the one before
\* it dropped a live counter.
Unswept(v, w) == w \in Windows => forgotten[v][w] = 0
SlidingLimit ==
  OneClock =>
    \A v \in Visitors, t \in Readings :
      Unswept(v, windowOf(t)) /\ Unswept(v, windowOf(t) - 1)
      => WindowMs * Admitted(v, t - WindowMs + 1, t) <= Limit * (WindowMs + (t % WindowMs))

\* A sweep drops a live counter only in a store that limiters share (stores.ts:42 compares
\* the windows of all of them), or once the clock has stepped back.
SweepsSpare ==
  shop # "shared" /\ ~stepped => \A v \in Visitors, w \in Windows : forgotten[v][w] = 0

\* What a client is told to have left is what the store would decide: at the same
\* reading, with no sweep since, one more request passes if and only if something remains.  The two
\* stores compute it by different formulas (window.ts:51, stores.ts:102).
RemainingIsTrue ==
  last.now # Unset =>
    LET v == last.visitor
        at == windowOf(last.now)
        c == shift(counters[v], at)
        fits == IF shop = "redis" THEN allowed(read(v, at), read(v, at - 1), last.now)
                ELSE allowed(c.current, c.previous, last.now)
    IN fits <=> last.remaining >= 1

\* What both stores promise.
LimitsHold == WindowLimit /\ SlidingLimit /\ SweepsSpare /\ RemainingIsTrue
=============================================================================

------------------------------ MODULE MCWorkers ------------------------------
(* Two workers over one store, one part per behaviour: the jobs they run, and *)
(* the schedule they both dispatch.                                           *)
EXTENDS MCWorkerPool, Schedules

\* A day of three hours of two minutes of two instants, a week of three days, and years
\* of two months with a leap day in every other one.
MCMonthDays == <<2, 3, 2, 2, 2, 3, 2, 2, 2, 3, 2, 2, 2, 3, 2, 2, 2, 3, 2, 2>>

Just(S) == {Item(v, Unsaid, Unsaid) : v \in S}
Cron5(m, h, d, mo, w) == [minutes |-> m, hours |-> h, days |-> d, months |-> mo, weekdays |-> w]
EveryHour == Cron5(Just({1}), Star, Star, Star, Star)
MCExpressions ==
  {EveryHour, Cron5(Star, Star, Star, Star, Star), Cron5(Just({0}), Just({1}), Star, Star, Star),
   Cron5({Item(1, Unsaid, 2)}, Just({2}), Just({2}), Star, {Item(2, 3, Unsaid)}),
   Cron5(Just({0}), Just({0}), Just({3}), Just({2}), Star),
   Cron5(Just({1}), {Item(Unsaid, Unsaid, 2)}, Star, Just({1}), {Item(1, Unsaid, 2)})}

\* Clocks put forward and back by an hour and by a minute, east and west, and two zones
\* further from UTC than half a day.
Zone(c, b, a) == [change |-> c, before |-> b, after |-> a]
MCZones == {Zone(0, 0, 0), Zone(36, 0, 4), Zone(40, 0, 4), Zone(40, 4, 0), Zone(44, 6, 2), Zone(40, -2, -6), Zone(40, -6, -2),
            Zone(48, 2, 4), Zone(48, 4, 2), Zone(40, 10, 6), Zone(40, 12, 8)}
MCStarts == 24 .. 72
MCTimetables == {[expression |-> EveryHour, zone |-> Zone(36, 0, 4)]}
MCJumps == {-2, 2}

\* What OncePerSlot and EverySlotServed ask for is so here.
ASSUME MCFits == Lag + Takes + Spread <= KeepMs /\ FarApart

\* The part that moves in this behaviour; the other stays as it began.
VARIABLE part

MCInit == part \in {"pool", "schedule"} /\ Init /\ SchedulesInit

MCNext ==
  /\ UNCHANGED part
  /\ \/ part = "pool" /\ Next /\ UNCHANGED scheduleVars
     \/ part = "schedule" /\ SchedulesNext /\ UNCHANGED vars

\* What Fairness asks, for the part that moves.
MCFairness ==
  /\ WF_vars(part = "pool" /\ Tick)
  /\ \A w \in Workers :
       /\ WF_vars(part = "pool" /\ ClaimStep(w)) /\ WF_vars(part = "pool" /\ Wake(w))
       /\ WF_vars(part = "pool" /\ Maintain(w)) /\ WF_vars(part = "pool" /\ RenewStep(w))
       /\ WF_vars(part = "pool" /\ StopStep(w))
       /\ \A j \in Ids : WF_vars(part = "pool" /\ \E r \in RunsOf(w) : r.j = j /\ RunStep(r))

MCSpec == MCInit /\ [][MCNext]_<<part, vars, scheduleVars>> /\ MCFairness
=============================================================================

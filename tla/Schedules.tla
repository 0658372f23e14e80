------------------------------ MODULE Schedules ------------------------------
(***************************************************************************)
(* worker.schedule() (packages/queue/src/worker.ts): several workers run   *)
(* one schedule, each by its own clock and its own timer, and dispatch its *)
(* job with the slot as idempotency key.                                   *)
(***************************************************************************)
EXTENDS Cron

CONSTANTS
  Planners,        \* workers with the schedule
  Timetables,      \* [expression, zone] of the schedule
  Expressions, ZoneSet, Starts,  \* of NextIsFirst: expressions, zones and instants
  LongestTimer,    \* what setTimeout holds
  Jumps, Leap,     \* what a clock may be set by, and at most
  Lag, Takes,      \* how late a timer fires; how long a dispatch takes
  KeepMs,          \* idempotencyWindow
  MaxUpsets,       \* bound: jumps, failed dispatches, stops and crashes
  Dawning, Dusk    \* bound: first and last instant

\* How far clocks can be apart.
Spread == MaxUpsets * Leap

ASSUME SchedulesAssumption ==
  /\ {Leap, Lag, Takes, LongestTimer, MaxUpsets, Dawning, Dusk} \subseteq Nat /\ KeepMs \in Int /\ Dawning <= Dusk
  /\ Jumps \subseteq -Leap .. Leap
  /\ \A t \in Timetables : t.expression \in Expressions /\ t.zone \in ZoneSet
  /\ Starts \subseteq Nat /\ Dawning - Spread .. Dusk + Spread \subseteq Starts
  /\ {Min(Starts), Max(Starts)} \subseteq Int /\ \A at \in Starts : at <= Max(Starts)
  /\ Min(Starts) <= Dawning /\ Dusk + Lag + Takes <= Max(Starts) + HORIZON_MS - DAY

\* Zones are whole minutes from UTC, half a day west to a day east, and the calendar holds
\* every time a walk comes to.
ASSUME ZonesAssumption ==
  \A zone \in ZoneSet :
    /\ {zone.change, zone.before, zone.after} \subseteq {t \in Int : t % MINUTE = 0}
    /\ {zone.before, zone.after} \subseteq -(DAY \div 2) .. DAY
    /\ \A at \in Starts :
         0 <= toWall(zone, at) /\ toWall(zone, at + HORIZON_MS) <= MonthStarts[Len(MonthDays) + 1] * DAY

\* What an expression lists are numbers, and it names a minute within the horizon, two days from
\* either end of it and from a change of the clock (parseCron refuses one that never matches).
ASSUME ExpressionsAssumption ==
  \A expression \in Expressions :
    /\ \A item \in expression.weekdays : {item.from, item.to, item.step} \subseteq Int
    /\ \A zone \in ZoneSet, at \in Starts :
         \E slot \in at + 2 * DAY .. at + HORIZON_MS - 2 * DAY :
           /\ IsDue(parseCron(expression), zone, slot)
           /\ offset(zone, slot - 2 * DAY) = offset(zone, slot + 2 * DAY)

VARIABLES
  timetable,   \* the schedule's cron, parsed, and its zone
  elapsed,     \* the time
  drift,       \* [Planners -> clock minus time]
  planner,     \* [Planners -> [pc, slot, due, stopping, since, steady]]
  slotJob,     \* [slots -> state of the job stored for it]
  dispatched,  \* history: [slots -> jobs stored for it]
  upsets

scheduleVars == <<timetable, elapsed, drift, planner, slotJob, dispatched, upsets>>

SlotTimes == Dawning - Spread .. Dusk + Spread
NoJob == [state |-> "none", finishedAt |-> Never]
clock(p) == elapsed + drift[p]
Resting(pc, stopping) ==
  [pc |-> pc, slot |-> Never, due |-> 0, stopping |-> stopping, since |-> 0, steady |-> TRUE]
Up(p) == planner[p].pc \notin {"new", "crashed"}

SchedulesInit ==
  /\ timetable \in {[cron |-> parseCron(t.expression), zone |-> t.zone] : t \in Timetables}
  /\ elapsed = Dawning
  /\ drift = [p \in Planners |-> 0]
  /\ planner = [p \in Planners |-> Resting("new", FALSE)]
  /\ slotJob = [s \in SlotTimes |-> NoJob]
  /\ dispatched = [s \in SlotTimes |-> 0]
  /\ upsets = 0

-----------------------------------------------------------------------------
\* arm: the next slot by this worker's clock, and a timer for it or for as long as a timer holds.
armed(p, at) ==
  LET slot == next(timetable.cron, timetable.zone, at)
  IN [planner[p] EXCEPT !.pc = "armed", !.slot = slot,
                        !.due = elapsed + Min({slot - at, LongestTimer})]

\* start(), or schedule() on a running worker; a stop() before it does not keep it from arming.
StartPlanner(p) ==
  /\ planner[p].pc = "new"
  /\ planner' = [planner EXCEPT ![p] = [armed(p, clock(p)) EXCEPT !.since = clock(p)]]
  /\ UNCHANGED <<timetable, elapsed, drift, slotJob, dispatched, upsets>>

\* The timer's callback, up to the dispatch.
FireTimer(p) ==
  /\ planner[p].pc = "armed" /\ planner[p].due <= elapsed
  /\ planner' = [planner EXCEPT ![p] =
       IF @.stopping THEN Resting("idle", TRUE)
       ELSE IF clock(p) >= @.slot THEN [@ EXCEPT !.pc = "dispatching", !.due = elapsed]
       ELSE armed(p, clock(p))]
  /\ UNCHANGED <<timetable, elapsed, drift, slotJob, dispatched, upsets>>

\* The store takes the job, unless one with the slot's key is there.
EnqueueSlot(p) ==
  LET slot == planner[p].slot
  IN /\ planner[p].pc = "dispatching"
     /\ planner' = [planner EXCEPT ![p].pc = "answered", ![p].slot = Never]
     /\ slotJob' = IF slotJob[slot] = NoJob THEN [slotJob EXCEPT ![slot].state = "pending"] ELSE slotJob
     /\ dispatched' = IF slotJob[slot] = NoJob THEN [dispatched EXCEPT ![slot] = @ + 1] ELSE dispatched
     /\ UNCHANGED <<timetable, elapsed, drift, upsets>>

rearmed(p) == IF planner[p].stopping THEN Resting("idle", TRUE) ELSE armed(p, clock(p))

\* The dispatch is answered, rightly or with an error that is logged.
SlotAnswered(p) ==
  /\ planner[p].pc = "answered"
  /\ planner' = [planner EXCEPT ![p] = rearmed(p)]
  /\ UNCHANGED <<timetable, elapsed, drift, slotJob, dispatched, upsets>>

DispatchFails(p) ==
  /\ planner[p].pc = "dispatching" /\ upsets < MaxUpsets
  /\ planner' = [planner EXCEPT ![p] = [rearmed(p) EXCEPT !.steady = FALSE]]
  /\ upsets' = upsets + 1
  /\ UNCHANGED <<timetable, elapsed, drift, slotJob, dispatched>>

\* stop(): clears the timer; a dispatch under way ends by itself.
StopPlanner(p) ==
  /\ planner[p].pc # "crashed" /\ ~planner[p].stopping /\ upsets < MaxUpsets
  /\ planner' = [planner EXCEPT ![p] = IF @.pc = "armed" THEN Resting("idle", TRUE) ELSE [@ EXCEPT !.stopping = TRUE]]
  /\ upsets' = upsets + 1
  /\ UNCHANGED <<timetable, elapsed, drift, slotJob, dispatched>>

PlannerCrashes(p) ==
  /\ Up(p) /\ upsets < MaxUpsets
  /\ planner' = [planner EXCEPT ![p] = Resting("crashed", TRUE)]
  /\ upsets' = upsets + 1
  /\ UNCHANGED <<timetable, elapsed, drift, slotJob, dispatched>>

-----------------------------------------------------------------------------
\* The workers' other duties: a slot's job is run when it is due, and forgotten.

RunSlotJob(p) ==
  /\ Up(p) /\ ~planner[p].stopping
  /\ \E s \in SlotTimes :
       /\ slotJob[s].state = "pending" /\ s <= clock(p)
       /\ slotJob' = [slotJob EXCEPT ![s] = [state |-> "completed", finishedAt |-> clock(p)]]
  /\ UNCHANGED <<timetable, elapsed, drift, planner, dispatched, upsets>>

PurgeSlotJobs(p) ==
  /\ Up(p) /\ ~planner[p].stopping
  /\ slotJob' = [s \in SlotTimes |->
       IF slotJob[s].state = "completed" /\ slotJob[s].finishedAt < clock(p) - KeepMs THEN NoJob ELSE slotJob[s]]
  /\ slotJob' # slotJob
  /\ UNCHANGED <<timetable, elapsed, drift, planner, dispatched, upsets>>

\* Time: a clock is set; and time passes, while no timer is later and no dispatch slower than they may be.
ClockJumps(p) ==
  /\ upsets < MaxUpsets /\ Up(p)
  /\ \E jump \in Jumps : drift' = [drift EXCEPT ![p] = @ + jump]
  /\ planner' = [planner EXCEPT ![p].steady = FALSE]
  /\ upsets' = upsets + 1
  /\ UNCHANGED <<timetable, elapsed, slotJob, dispatched>>

Patience == [armed |-> Lag, dispatching |-> Takes, answered |-> Takes]
TimePasses ==
  /\ elapsed < Dusk
  /\ \A p \in Planners : planner[p].pc \in DOMAIN Patience => elapsed < planner[p].due + Patience[planner[p].pc]
  /\ elapsed' = elapsed + 1
  /\ UNCHANGED <<timetable, drift, planner, slotJob, dispatched, upsets>>

SchedulesNext ==
  \/ \E p \in Planners :
       \/ StartPlanner(p) \/ FireTimer(p) \/ EnqueueSlot(p) \/ SlotAnswered(p) \/ DispatchFails(p)
       \/ StopPlanner(p) \/ PlannerCrashes(p) \/ RunSlotJob(p) \/ PurgeSlotJobs(p) \/ ClockJumps(p)
  \/ TimePasses

SchedulesSpec == SchedulesInit /\ [][SchedulesNext]_scheduleVars

-----------------------------------------------------------------------------
\* Properties.

\* Within half a day of UTC, next() is the first minute after the given instant whose wall
\* clock the expression names: not one it skips, of a repeated hour only the first, and the
\* leap day from any start (cron.ts:42, :123).  Further out an instant it returns is still due.
NextIsFirst ==
  \A expression \in Expressions, zone \in ZoneSet :
    LET cron == parseCron(expression)
        slots == Slots(cron, zone, Min(Starts) .. Max(Starts) + HORIZON_MS - DAY)
    IN \A after \in Starts :
         LET slot == next(cron, zone, after)
         IN /\ slot \in Nat /\ slot > after /\ IsDue(cron, zone, slot)
            /\ Max({zone.before, zone.after}) <= DAY \div 2 =>
                 slot = Min({s \in slots : s > after})

\* However the workers' clocks differ, jump and whichever of them is late, each slot's job is
\* stored once, as long as its key is kept longer than they are apart (worker.ts, schedule).
OncePerSlot == Lag + Takes + Spread <= KeepMs => \A s \in SlotTimes : dispatched[s] <= 1

\* Slots lie further apart than a timer is late and a dispatch slow, in a zone near UTC.
Observed == Dawning .. Dusk + Lag + Takes
FarApart ==
  \A t \in Timetables :
    /\ Max({t.zone.before, t.zone.after}) <= DAY \div 2
    /\ \A s, later \in Slots(parseCron(t.expression), t.zone, Observed) : s < later => s + Lag + Takes < later

\* A worker whose clock runs evenly and whose dispatches succeed sees to every slot since
\* it started, if they lie far enough apart.
EverySlotServed ==
  FarApart =>
    \A p \in Planners :
      planner[p].pc \in DOMAIN Patience /\ planner[p].steady /\ ~planner[p].stopping =>
        \A s \in Slots(timetable.cron, timetable.zone, planner[p].since + 1 .. clock(p) - Lag - Takes - 1) :
          dispatched[s] > 0

\* What a schedule promises.
SchedulesHold == NextIsFirst /\ OncePerSlot /\ EverySlotServed
=============================================================================

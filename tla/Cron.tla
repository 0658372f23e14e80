-------------------------------- MODULE Cron --------------------------------
(***************************************************************************)
(* Cron expressions (packages/queue/src/cron.ts) on a calendar of any      *)
(* scale: when a schedule is due next, in a zone whose clock changes once. *)
(* A wall-clock time is written as if it were UTC, as in the code.         *)
(***************************************************************************)
EXTENDS Integers, Sequences, FiniteSetsExt

CONSTANTS
  MINUTE, HourMinutes, DayHours, WeekDays,  \* the calendar's scale
  MonthDays,   \* the days of each month, one year after the other
  YearMonths,
  HORIZON_MS

ASSUME CalendarAssumption ==
  /\ {MINUTE, HourMinutes, DayHours, WeekDays, YearMonths} \subseteq Nat \ {0} /\ HORIZON_MS \in Nat
  /\ MonthDays \in Seq(Nat \ {0}) /\ MonthDays # <<>>
  /\ ((MINUTE * HourMinutes * DayHours) \div 2) % MINUTE = 0

HOUR == MINUTE * HourMinutes
DAY == HOUR * DayHours
Never == -1

\* The date of a wall-clock time.
MonthStarts[m \in 1 .. Len(MonthDays) + 1] == IF m = 1 THEN 0 ELSE MonthStarts[m - 1] + MonthDays[m - 1]
MonthOf(wall) == CHOOSE m \in DOMAIN MonthDays :
                   MonthStarts[m] <= wall \div DAY /\ wall \div DAY < MonthStarts[m + 1]
getMinutes(wall) == (wall \div MINUTE) % HourMinutes
getHours(wall) == (wall \div HOUR) % DayHours
getDate(wall) == wall \div DAY - MonthStarts[MonthOf(wall)] + 1
getMonth(wall) == ((MonthOf(wall) - 1) % YearMonths) + 1
getDay(wall) == (wall \div DAY) % WeekDays

-----------------------------------------------------------------------------
\* Parsing.  A field is a set of items "from-to/step"; what an item leaves out is Unsaid.

FIELDS == [minutes  |-> [min |-> 0, max |-> HourMinutes - 1, star |-> HourMinutes - 1],
           hours    |-> [min |-> 0, max |-> DayHours - 1, star |-> DayHours - 1],
           days     |-> LET longest == Max({MonthDays[m] : m \in DOMAIN MonthDays})
                        IN [min |-> 1, max |-> longest, star |-> longest],
           months   |-> [min |-> 1, max |-> YearMonths, star |-> YearMonths],
           weekdays |-> [min |-> 0, max |-> WeekDays, star |-> WeekDays - 1]]
Unsaid == -1
Item(from, to, step) == [from |-> from, to |-> to, step |-> step]
Star == {Item(Unsaid, Unsaid, Unsaid)}

values(item, field) ==
  LET step == IF item.step = Unsaid THEN 1 ELSE item.step
      from == IF item.from = Unsaid THEN field.min ELSE item.from
      to == IF item.from = Unsaid THEN field.star
            ELSE IF item.to # Unsaid THEN item.to
            ELSE IF item.step = Unsaid THEN from ELSE field.max
  IN {v \in from .. to : (v - from) % step = 0}
parseField(text, name) == UNION {values(item, FIELDS[name]) : item \in text}

parseCron(expression) ==
  [minutes |-> parseField(expression.minutes, "minutes"), hours |-> parseField(expression.hours, "hours"),
   days |-> parseField(expression.days, "days"), months |-> parseField(expression.months, "months"),
   weekdays |-> {d % WeekDays : d \in parseField(expression.weekdays, "weekdays")},
   anyDay |-> expression.days = Star, anyWeekday |-> expression.weekdays = Star]

dayMatches(cron, wall) ==
  LET dayOfMonth == getDate(wall) \in cron.days
      dayOfWeek == getDay(wall) \in cron.weekdays
  IN IF cron.anyDay \/ cron.anyWeekday THEN dayOfMonth /\ dayOfWeek ELSE dayOfMonth \/ dayOfWeek

-----------------------------------------------------------------------------
\* Zones: an offset that changes once.

offset(zone, instant) == IF instant < zone.change THEN zone.before ELSE zone.after
toWall(zone, instant) == ((instant + offset(zone, instant)) \div MINUTE) * MINUTE

\* The two offsets in effect half a day around this time; a wall time valid under both is repeated.
\* Mutant: only the offset of the half day before.
fromWallBefore(zone, wall) ==
  LET instant == wall - offset(zone, wall - DAY \div 2)
  IN IF toWall(zone, instant) = wall THEN instant ELSE Never
fromWall(zone, wall) ==
  LET offsets == {toWall(zone, t) - t : t \in {wall - DAY \div 2, wall + DAY \div 2}}
      instants == {i \in {wall - o : o \in offsets} : toWall(zone, i) = wall}
  IN IF instants = {} THEN Never ELSE Min(instants)

\* schedule.next: walk the wall clock, skipping whole months, days and hours.
walkFrom(cron, zone, after, end, walk, wall) ==
  IF wall >= end THEN Never
  ELSE IF getMonth(wall) \notin cron.months THEN walk[MonthStarts[MonthOf(wall) + 1] * DAY]
  ELSE IF ~dayMatches(cron, wall) THEN walk[(wall \div DAY + 1) * DAY]
  ELSE IF getHours(wall) \notin cron.hours THEN walk[(wall \div HOUR + 1) * HOUR]
  ELSE IF getMinutes(wall) \notin cron.minutes THEN walk[wall + MINUTE]
  ELSE LET instant == fromWall(zone, wall)
       IN IF instant # Never /\ instant > after THEN instant ELSE walk[wall + MINUTE]
next(cron, zone, after) ==
  LET end == toWall(zone, after + HORIZON_MS)
      walk[wall \in 0 .. end + DAY * Max({MonthDays[m] : m \in DOMAIN MonthDays})] ==
        walkFrom(cron, zone, after, end, walk, wall)
  IN walk[toWall(zone, after) + MINUTE]

-----------------------------------------------------------------------------
\* The reference: the minutes a schedule is due at, each told by its wall clock alone.

IsDue(cron, zone, instant) ==
  LET wall == toWall(zone, instant)
      onDay == getDate(wall) \in cron.days
      onWeekday == getDay(wall) \in {d % WeekDays : d \in cron.weekdays}
  IN /\ instant % MINUTE = 0
     /\ getMinutes(wall) \in cron.minutes /\ getHours(wall) \in cron.hours /\ getMonth(wall) \in cron.months
     /\ \/ onDay /\ onWeekday
        \/ ~cron.anyDay /\ ~cron.anyWeekday /\ (onDay \/ onWeekday)

\* A wall-clock time that is repeated counts the first time.
Repeated(zone, instant) ==
  \E earlier \in instant - DAY .. instant - 1 : toWall(zone, earlier) = toWall(zone, instant) /\ earlier % MINUTE = 0
Slots(cron, zone, instants) == {i \in instants : IsDue(cron, zone, i) /\ ~Repeated(zone, i)}
=============================================================================

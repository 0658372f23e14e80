CONSTANTS
  w1 = w1
  w2 = w2
  k1 = k1
  none = none
  nobody = nobody
  Ids = {1}
  Workers = {w1, w2}
  Keys = {k1}
  NoKey = none
  KeyOf <- MCOneUnkeyed
  Priority <- MCOnePriority
  MaxAttempts <- MCOneTwoTries
  Serves <- MCServes
  Nobody = nobody
  Concurrency <- MCAlone
  Lease = 2
  RenewEvery = 1
  RoundTrip = 0
  Timeout = 1
  Backoff = 0
  Grace = 1
  PollMax = 2
  IdemWindow = 0
  DeadRetention = 0
  Delays = {0}
  Spare = {}
  Mortal = {w1}
  Faults = {"crash", "claim", "renew", "claimReply", "complete"}
  MaxFaults = 1
  MaxRevivals = 0
  Horizon = 14
  MINUTE = 2
  HourMinutes = 2
  DayHours = 3
  WeekDays = 3
  MonthDays <- MCMonthDays
  YearMonths = 2
  HORIZON_MS = 240
  Planners = {w1, w2}
  Timetables <- MCTimetables
  Expressions <- MCExpressions
  ZoneSet <- MCZones
  Starts <- MCStarts
  LongestTimer = 3
  Jumps <- MCJumps
  Leap = 2
  Lag = 1
  Takes = 1
  KeepMs = 4
  MaxUpsets = 1
  Dawning = 33
  Dusk = 41
SPECIFICATION MCSpec
INVARIANT SchedulesHold
CHECK_DEADLOCK FALSE
PROPERTIES JobsFinish StopsEnd

CONSTANTS
  Built = 1
  Top = 3
  Faulty = {2}
  PubSub = TRUE
  Failures = {}
  EarlyStop = TRUE
  MaxLoad = 1
SPECIFICATION Spec
CHECK_DEADLOCK FALSE
INVARIANTS StopIsFinal

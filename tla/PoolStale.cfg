CONSTANTS
  w1 = w1
  w2 = w2
  k1 = k1
  none = none
  nobody = nobody
  Ids = {1}
  Workers = {w1}
  Keys = {k1}
  NoKey = none
  KeyOf <- MCOneUnkeyed
  Priority <- MCOnePriority
  MaxAttempts <- MCOneTwoTries
  Serves <- MCServes
  Nobody = nobody
  Concurrency <- MCPair
  Lease = 2
  RenewEvery = 1
  RoundTrip = 0
  Timeout = 4
  Backoff = 0
  Grace = 1
  PollMax = 2
  IdemWindow = 1
  DeadRetention = 1
  Delays = {0}
  Spare = {}
  Mortal = {w1}
  Faults = {"renew"}
  MaxFaults = 3
  MaxRevivals = 0
  Horizon = 8
SPECIFICATION Spec
CHECK_DEADLOCK FALSE
PROPERTY StaleResultDiscarded

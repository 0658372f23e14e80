CONSTANTS
  w1 = w1
  w2 = w2
  k1 = k1
  none = none
  nobody = nobody
  Ids <- MCIds
  Workers = {w1}
  Keys = {k1}
  NoKey = none
  KeyOf <- MCKeyed
  Priority <- MCPriority
  MaxAttempts <- MCOneTry
  Serves <- MCServes
  Nobody = nobody
  Concurrency <- MCPair
  Lease = 2
  RenewEvery = 1
  RoundTrip = 0
  Timeout = 3
  Backoff = 0
  Grace = 1
  PollMax = 2
  IdemWindow = 1
  DeadRetention = 2
  Delays = {0}
  Spare = {}
  Mortal = {}
  Faults = {"claimReply", "renew", "complete"}
  MaxFaults = 1
  MaxRevivals = 1
  Horizon = 3
SPECIFICATION Spec
CHECK_DEADLOCK FALSE
PROPERTY KeyRunsOnce

CONSTANTS
  w1 = w1
  w2 = w2
  k1 = k1
  none = none
  nobody = nobody
  Ids = {1}
  Workers = {w1, w2}
  Keys = {k1}
  NoKey = none
  KeyOf <- MCOneUnkeyed
  Priority <- MCOnePriority
  MaxAttempts <- MCOneTwoTries
  Serves <- MCServes
  Nobody = nobody
  Concurrency <- MCPair
  Lease = 5
  RenewEvery = 1
  RoundTrip = 1
  Timeout = 4
  Backoff = 1
  Grace = 1
  PollMax = 2
  IdemWindow = 1
  DeadRetention = 1
  Delays = {0}
  Spare = {w2}
  Mortal = {w1}
  Faults = {"crash", "claimReply", "complete"}
  MaxFaults = 1
  MaxRevivals = 1
  Horizon = 6
SPECIFICATION Spec
CHECK_DEADLOCK FALSE
INVARIANTS HoldsLease MapIsExact TriesLeft StopIsPrompt
PROPERTIES NothingLost ImplementsLifecycle
CONSTRAINT MCRevivedAlone

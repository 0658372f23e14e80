CONSTANTS
  w1 = w1
  k1 = k1
  t1 = t1
  t2 = t2
  none = none
  nobody = nobody
  alone = alone
  Ids <- MCIds
  Workers = {w1}
  Keys = {k1}
  NoKey = none
  KeyOf <- MCKeyOf
  Priority <- MCPriority
  MaxAttempts <- MCMaxAttempts
  Serves <- MCServes
  Nobody = nobody
  Txs = {t1, t2}
  Alone = alone
  SingleWriter = FALSE
  Times = {0, 1}
  Limits = {1, 2}
  c1 = c1
  c2 = c2
  Clients = {c1, c2}
  StorageKeys = {1, 2}
  Bodies = {1, 2}
  Nothing = none
  PageSize = 1
  Second = 3
  MaxOps = 3
  MaxErrors = 1
  v1 = v1
  v2 = v2
  p1 = p1
  p2 = p2
  junk = junk
  a1 = a1
  Visitors = {v1, v2}
  KeyIds = {p1, p2}
  Junk = junk
  ApiKeyIds = {a1}
  Refresh = 2
  TouchAfter = 1
  AuthEnd = 3
  MaxVisits = 3
  MaxRotations = 1
SPECIFICATION MCSpec
CONSTRAINT MCAttempts
INVARIANTS ColumnsAgree OneJobPerKey JobsFollowTheirTransaction StorageHolds AuthHolds
PROPERTY ImplementsLifecycle
CHECK_DEADLOCK FALSE

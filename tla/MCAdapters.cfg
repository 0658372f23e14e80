CONSTANTS
  w1 = w1
  w2 = w2
  k1 = k1
  none = none
  nobody = nobody
  Ids <- MCIds
  Workers <- MCWorkers
  Keys = {k1}
  NoKey = none
  KeyOf <- MCKeyOf
  Priority <- MCPriority
  MaxAttempts <- MCMaxAttempts
  Serves <- MCServes
  Nobody = nobody
  Times <- MCTimes
  Limits <- MCLimits
  r1 = r1
  r2 = r2
  nothing = nothing
  SessionIds = {1, 2}
  Requests = {r1, r2}
  NoOne = nothing
  IdleMs = 1
  AbsoluteMs = 3
  TouchMs = 1
  Dawn = 3
  Limit = 2
  WindowMs = 3
  Visitors = {"a"}
  p1 = p1
  p2 = p2
  Instances = {p1, p2}
  MaxSkew = 3
  RateEnd = 8
  Lapses = 1
  s1 = s1
  root = root
  Tokens = {"a", "b", "c"}
  Wirings <- MCWirings
  Lifetimes <- MCLifetimes
  ScopeIds = {s1}
  Root = root
  Replaced = {"c"}
  MaxInstances = 3
  b1 = b1
  b2 = b2
  l1 = l1
  l2 = l2
  d1 = d1
  d2 = d2
  c1 = c1
  c2 = c2
  Buses = {b1, b2}
  LocalOn <- MCLocalOn
  DurableOn <- MCDurableOn
  ListensOn <- MCListensOn
  Sends = {s1}
  NoListener = nothing
SPECIFICATION MCSpec
CONSTRAINT MCBounds
INVARIANTS ColumnsAgree OneJobPerKey LimitsHold ScopesHold BusHolds
PROPERTIES ImplementsLifecycle SessionsEnd
CHECK_DEADLOCK FALSE
SYMMETRY MCSymmetry

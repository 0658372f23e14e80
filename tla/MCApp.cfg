CONSTANTS
  Built = 2
  Top = 4
  Faulty = {3}
  PubSub = TRUE
  Failures = {"hook", "bind", "subscribe"}
  EarlyStop = FALSE
  MaxLoad = 3
  c1 = c1
  c2 = c2
  none = none
  CacheKeys = {"a", "b"}
  Callers = {c1, c2}
  Nowhere = none
  MaxEntries = 1
  Ttl = 1
  Versions = 2
  Written = {"a"}
  CacheEnd = 1
  app = app
  r1 = r1
  r2 = r2
  Routers = {app, r1, r2}
  Root = app
  Params = {":x", ":y"}
  Malformed = "%"
  Offered <- MCOffered
  Asked <- MCAsked
  MountPaths <- MCMountPaths
  MaxChanges = 2
  Incoming <- MCIncoming
  Settings <- MCSettings
  MaxBody = 3
  RouteLimit = 2
SPECIFICATION MCSpec
CHECK_DEADLOCK FALSE
INVARIANTS ClosedExactlyOnce RoutesHold RequestsHold
PROPERTIES ClosedInOrder ClosedAfterDrain StopEnds CacheCoherent

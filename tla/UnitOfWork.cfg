CONSTANTS
  i1 = i1
  i2 = i2
  Instances = {i1, i2}
  Early = {2}
  Late = {1, 3}
  Broken = {3}
  OneWay = {2}
  nobody = nobody
  NoInstance = nobody
  MaxCalls = 3
  MaxLosses = 1
  f1 = f1
  job = job
  event = event
  other = other
  Flows = {f1}
  Items = {job, event, other}
  Events = {event, other}
  Listeners = {1}
  MaxScopes = 3
  Additions <- MCAdditions
  Removals <- MCRemovals
  Generated <- MCGenerated
  Edited = {"src/platform/cache.ts", "src/platform/index.ts", "src/shared/permissions.ts"}
  MaxCommands = 2
  MaxEdits = 1
  MaxFaults = 1
SPECIFICATION MCSpec
CHECK_DEADLOCK FALSE
INVARIANTS OnlyAfterCommit InOrder ClosedQuietly FeaturesHold MigrationsHold
PROPERTIES KeptRuns IdleReturns

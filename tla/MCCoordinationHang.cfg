SPECIFICATION GoroutinesSpec
CONSTANTS
  Clients = {c1, c2}
  RequestCount = 1
  MayBeUnknown = TRUE
  Throttle = TRUE
  kv = kv
  pd = pd
  Pods = {kv, pd}
  Component <- MCComponent
  Names = {"x"}
  MaxDrift = 2
  Operations <- MCOperations
  Generators <- MCGenerators
  NilOps <- MCNilOps
  Unregistered = {}
  RetryCount = 2
  Handover = FALSE
  Stores = {1, 2, 3}
  Replicas = 2
  MaxRegions = 2
  MaxDown = 1
  Servers = {kv, pd}
  TicksPerSecond = 2
  LogLimit = 1
  MaxTicks = 5
  MaxLines = 2
  TiDBs = 2
  Signatures = {"known", "new"}
  Template <- MCTemplate
  LeakMinutes = 1
PROPERTY NemesisEnds
CHECK_DEADLOCK FALSE

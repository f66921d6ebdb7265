SPECIFICATION GoroutinesSpec
CONSTANTS
  Clients = {c1, c2}
  RequestCount = 1
  MayBeUnknown = TRUE
  Throttle = TRUE
  kv = kv
  pd = pd
  Pods = {kv, pd}
  Component <- MCComponent
  Names = {"x"}
  MaxDrift = 2
  Operations <- MCOperations
  Generators <- MCGenerators
  NilOps <- MCNilOps
  Unregistered = {}
  RetryCount = 2
  Handover = TRUE
  Stores = {1, 2, 3}
  Replicas = 2
  MaxRegions = 2
  MaxDown = 1
  Servers = {kv, pd}
  TicksPerSecond = 2
  LogLimit = 1
  MaxTicks = 4
  MaxLines = 2
  TiDBs = 2
  Signatures = {"known", "new"}
  Template <- MCTemplate
  LeakMinutes = 1
INVARIANTS FaultsFollowTheClient ReplicasKept NoPanicSlipsThrough
PROPERTIES RoundEnds LeftoverExplained NemesisEnds GeneratorsRotate LeakIsReported
CHECK_DEADLOCK FALSE

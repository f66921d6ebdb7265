SPECIFICATION ControllerSpec
CONSTANTS
  o1 = o1
  Clients = {c1, c2}
  Nodes = {n1}
  Modes = {"standard", "onSchedule", "sequential"}
  RunRound = 2
  RequestCount = 1
  MayBeUnknown = TRUE
  Throttle = FALSE
  Operations = {o1}
  Generators <- OneGenerator
  NilOps = {}
  Unregistered = {}
  RetryCount = 1
INVARIANT WritersHaveFile
INVARIANT VerdictReached
INVARIANT TearDownQuiet
PROPERTY RunEnds

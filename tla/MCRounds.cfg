SPECIFICATION ControllerSpec
CONSTANTS
  o1 = o1
  Clients = {c1, c2}
  Nodes = {n1}
  Modes = {"onSchedule"}
  RunRound = 1
  RequestCount = 2
  MayBeUnknown = TRUE
  Throttle = FALSE
  Operations = {o1}
  Generators <- NoGenerators
  NilOps = {}
  Unregistered = {}
  RetryCount = 1
SYMMETRY Interchangeable
INVARIANTS HistorySequential RecordedOrderIsReal OutcomesRecorded EventsAreTheHistory
PROPERTY ImplementsHistory

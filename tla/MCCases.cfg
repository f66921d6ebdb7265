SPECIFICATION Spec
CONSTANTS
  Breakable = {"tso", "resolve-lock", "ttl", "stale-read", "bank-case", "bank2", "ledger", "cdc-bank"}
  DCLocations <- TwoDCs
  Members <- TwoEach
  TSORequests = 1
  Round = 1
  MaxErrs = 1
  SoundCalls = 1
  Regions = {r1, r2}
  LockPerRegion = 2
  ScanLimit = 2
  MaxRounds = 2
  EnableGreenGC = TRUE
  MaxLogical = 1
  RetryGC = 2
  Concurrency = 1
  TTLCandidates = {0,4,7}
  ToleranceOfTTL = 1
  ZeroTTLVerifyDelay = 3
  Modulus = 65536
  MaxCases = 2
  TotalRows = 2
  Loaders = 1
  Flush = 3
  MaxUpdates = 2
  Clients = 2
  MaxOps <- OpsOf
  MoneyAccounts = {0, 1, 2}
  MoneyInitial = 1
  MoneyAmounts = {1}
  TiFlashDataReplicas = 1
  VerifyTimeout = 1
  Conns = {"c1", "c2"}
  Validators = {"v1"}
  CdcAccounts = {0, 1}
  CdcInitial = 2
  MaxAmount = 2
  DDLEvery = 2
  MaxCount = 4
INVARIANTS  DamageIsNoticed NothingOverdrawn
 
CHECK_DEADLOCK FALSE

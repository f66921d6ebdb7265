SPECIFICATION Spec
CONSTANTS
  Breakable = {"bank", "long-fork"}
  Clients = 2
  MaxOps <- OpsOf
  Keys = {1}
  Values = {1, 2}
  Accounts = {0, 1}
  InitBalance = 1
  Amount = 1
  VBAccounts = {0, 1}
  VBInitialBalance = 4
  VBCreateInitialBalance = 2
  VBCreateMinimum = 1
  VBAmounts = {2}
  UpdateInPlace = FALSE
  LFGroupSize = 2
  LFKeys = {0, 1}
INVARIANT UnknownIsFine
CHECK_DEADLOCK FALSE

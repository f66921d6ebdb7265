SPECIFICATION Spec
CONSTANTS
  Keys = {"x", "y"}
  AppendShapes <- SmallAppends
  AppendTxns <- FewTxns
  Shapes <- SmallWrites
  MaxTxns <- FewTxns
  MaxErrors = 1
INVARIANT OnlyProhibitedFails

CONSTANTS
  N = 4
  Rel = {"ww", "wr", "rw", "process"}
  Linkable <- FewEdges
  MaxLinks = 1
  EdgeSets <- Braid
  p1 = p1
  p2 = p2
  p3 = p3
  Process = {p1, p2, p3}
  MaxEvents = 2
SPECIFICATION Spec
INVARIANT EveryComponentIsReported
CHECK_DEADLOCK FALSE

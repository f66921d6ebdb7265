CONSTANTS
  N = 4
  Rel = {"ww", "wr", "rw", "process"}
  Linkable <- FewEdges
  MaxLinks = 3
  EdgeSets <- SmallGraphs
  p1 = p1
  p2 = p2
  p3 = p3
  Process = {p1, p2, p3}
  MaxEvents = 6
SPECIFICATION Spec
SYMMETRY Sym
INVARIANTS CombinedIsExact ComponentsAreExact ReportedIsReal ShortestIsFound PathsAreRealTime EdgesAreTheCovers
PROPERTY FilterKeepsTheRelations
CHECK_DEADLOCK FALSE

----------------------------- MODULE GraphBuild -----------------------------
(***************************************************************************)
(* How the Elle checker comes to the graphs it searches: analyzers Link    *)
(* transactions, core.Combine merges their graphs with DigraphUnion, and   *)
(* the cycle search looks at FilterRelationships of the result             *)
(* (pkg/elle/core/depend.go, pkg/elle/txn/helper_fn.go).                   *)
(***************************************************************************)
EXTENDS DirectedGraph

CONSTANTS
  Linkable,   \* bound: the edges the analyzers may link
  MaxLinks    \* bound: how many they link

VARIABLES
  graph,      \* the graph the current analyzer is building
  combined,   \* cg of Combine: the union of the graphs built so far
  filtered,   \* what the cycle search looks at
  kept,       \* the relations of that last FilterRelationships
  linked,     \* history: every edge linked and not unlinked since
  links       \* how often Link was called

graphVars == <<graph, combined, filtered, kept, linked, links>>

GraphInit ==
  /\ graph = NewDirectedGraph
  /\ combined = NewDirectedGraph
  /\ filtered = NewDirectedGraph
  /\ kept = {}
  /\ linked = {}
  /\ links = 0

(* An analyzer enters a dependency. *)
AnalyzerLinks(a, b, r) ==
  /\ links < MaxLinks
  /\ links' = links + 1
  /\ graph' = Link(graph, a, b, r)
  /\ linked' = linked \cup {<<a, b, r>>}
  /\ UNCHANGED <<combined, filtered, kept>>

(* versionGraph2TransactionGraph drops the loops it has just linked. *)
AnalyzerUnLinksSelf(xs) ==
  /\ graph' = UnLinkSelfEdges(graph, xs)
  /\ linked' = {e \in linked : ~ (e[1] = e[2] /\ e[1] \in xs /\ e \notin combined.outs)}
  /\ UNCHANGED <<combined, filtered, kept, links>>

(* Combine takes the analyzer's graph in, and the next analyzer starts. *)
Combine ==
  /\ graph.verts # {}
  /\ combined' = DigraphUnion(combined, graph)
  /\ graph' = NewDirectedGraph
  /\ UNCHANGED <<filtered, kept, linked, links>>

Filter(rels) ==
  /\ filtered' = FilterRelationships(combined, rels)
  /\ kept' = rels
  /\ UNCHANGED <<graph, combined, linked, links>>

GraphNext ==
  \/ \E e \in Linkable : AnalyzerLinks(e[1], e[2], e[3])
  \/ \E xs \in SUBSET {e[1] : e \in Linkable} : AnalyzerUnLinksSelf(xs)
  \/ Combine
  \/ \E rels \in (SUBSET {e[3] : e \in Linkable}) \ {{}} : Filter(rels)

-----------------------------------------------------------------------------
(* The graph the components and cycles are searched in has exactly the     *)
(* dependencies the analyzers entered (the loops they dropped again        *)
(* excepted), and its two copies of the edges agree: DigraphUnion rebuilds *)
(* Ins from Outs, so what UnLink left behind in Ins is gone.               *)
CombinedIsExact ==
  /\ combined.outs \cup graph.outs = linked
  /\ \A a, b \in Vertex : a \in In(combined, b) <=> b \in Out(combined, a)

(* After FilterRelationships an edge carries exactly the kept relations    *)
(* the combined graph had for it when it was filtered.                     *)
FilterKeepsTheRelations ==
  [][filtered' # filtered =>
        \A a, b \in Vertex : Edges(filtered', a, b) = Edges(combined, a, b) \cap kept']_graphVars

=============================================================================

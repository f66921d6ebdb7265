---------------------------- MODULE CycleSearch -----------------------------
(***************************************************************************)
(* From a dependency graph to reported anomalies (pkg/elle/core and txn):  *)
(* the strongly connected components, and the search of each for cycles.   *)
(***************************************************************************)
EXTENDS DirectedGraph
-----------------------------------------------------------------------------
(***************************************************************************)
(* DirectedGraph.StronglyConnectedComponents (pkg/elle/core/graph.go): a   *)
(* depth-first search with an explicit call stack s1.  Every time a vertex *)
(* is on top of s1 its successors are ranged over again, in the random     *)
(* order of a Go map, up to the first one not yet visited: which visited   *)
(* successors are looked at before it is a nondeterministic choice.        *)
(***************************************************************************)
LOCAL INSTANCE Graphs

CONSTANT EdgeSets   \* the graphs that are searched, as sets of edges

(* A dependency is between two transactions, and a transaction comes after *)
(* the earlier ones of its process.                                        *)
PossibleEdges ==
  {e \in Vertex \X Vertex \X Rel : e[1] # e[2] /\ (e[3] = "process" => e[1] < e[2])}

ASSUME EdgeSetsAssumption == \A E \in EdgeSets : E \subseteq PossibleEdges

VARIABLES
  full,     \* the graph of the analysis
  todo,     \* vertices the outer loop has not come to
  s1,       \* the call stack, top last
  s2,       \* visited and not yet assigned to a component, top last
  dfn,      \* visiting number, 0 when not visited
  low,      \* lowest dfn known to be reachable
  onStack,  \* the map `in'
  tag,      \* pairs <<x, next>>: next was visited from x
  cnt,      \* components found
  belong,   \* component of a vertex, 0 when it has none
  sccs      \* the result, or NoResult before the function returns

sccVars == <<full, todo, s1, s2, dfn, low, onStack, tag, cnt, belong, sccs>>

NoResult == {{}}
Succ(x) == Out(full, x)

SCCInit ==
  /\ \E E \in EdgeSets : full = LinkEach(NewDirectedGraph, E)
  /\ todo = full.verts
  /\ s1 = << >> /\ s2 = << >>
  /\ dfn = [v \in Vertex |-> 0]
  /\ low = [v \in Vertex |-> 0]
  /\ onStack = {} /\ tag = {}
  /\ cnt = 0
  /\ belong = [v \in Vertex |-> 0]
  /\ sccs = NoResult

(* The next vertex of the outer loop; the search starts there unless an    *)
(* earlier search has been there.                                          *)
NextVertex(v) ==
  /\ s1 = << >> /\ v \in todo
  /\ \A w \in todo : v <= w
  /\ todo' = todo \ {v}
  /\ s1' = IF dfn[v] = 0 THEN <<v>> ELSE << >>
  /\ UNCHANGED <<full, s2, dfn, low, onStack, tag, cnt, belong, sccs>>

(* x is popped from s1; on its first visit it is numbered and pushed on    *)
(* s2.  These are the values of the maps after that.                       *)
FirstVisit(x) == dfn[x] = 0
Index == Cardinality({v \in Vertex : dfn[v] # 0})
Dfn(x) == IF FirstVisit(x) THEN [dfn EXCEPT ![x] = Index + 1] ELSE dfn
Low(x) == IF FirstVisit(x) THEN [low EXCEPT ![x] = Index + 1] ELSE low
Stack(x) == IF FirstVisit(x) THEN Append(s2, x) ELSE s2
On(x) == IF FirstVisit(x) THEN onStack \cup {x} ELSE onStack

(* low[x] after looking at the visited successors in S. *)
LowOver(x, S) == Min({Low(x)[x]} \cup {Dfn(x)[n] : n \in S \cap On(x)})

(* An unvisited successor is met after those in `seen': it is visited next *)
(* and x comes back on top after it.                                       *)
Descend(next, seen) ==
  /\ s1 # << >>
  /\ LET x == Last(s1) IN
       /\ next \in Succ(x) /\ Dfn(x)[next] = 0
       /\ seen \subseteq {n \in Succ(x) : Dfn(x)[n] # 0}
       /\ s1' = s1 \o <<next>>
       /\ s2' = Stack(x)
       /\ dfn' = Dfn(x)
       /\ low' = [Low(x) EXCEPT ![x] = LowOver(x, seen)]
       /\ onStack' = On(x)
       /\ tag' = tag \cup {<<x, next>>}
  /\ UNCHANGED <<full, todo, cnt, belong, sccs>>

(* Mutant: forget the vertices visited from x. *)
LowWithoutTags(x) == LowOver(x, Succ(x))

(* low[x] at the end: also what the vertices visited from x can reach. *)
LowAtFinish(x) ==
  Min({LowOver(x, Succ(x))} \cup {Low(x)[n] : n \in {m \in Succ(x) : <<x, m>> \in tag}})

(* The part of s2 from x on. *)
Popped(x) ==
  LET st == Stack(x)
      at == CHOOSE i \in DOMAIN st : st[i] = x
  IN SubSeq(st, at, Len(st))

(* All successors of x are visited: x leaves s1 and, when nothing below it *)
(* is reachable, a component ends here.                                    *)
Finish ==
  /\ s1 # << >>
  /\ LET x == Last(s1)
         l == LowAtFinish(x)
         root == l = Dfn(x)[x]
         comp == ToSet(Popped(x))
     IN
       /\ \A n \in Succ(x) : Dfn(x)[n] # 0
       /\ s1' = Front(s1)
       /\ dfn' = Dfn(x)
       /\ low' = [Low(x) EXCEPT ![x] = l]
       /\ s2' = IF root THEN SubSeq(Stack(x), 1, Len(Stack(x)) - Len(Popped(x))) ELSE Stack(x)
       /\ onStack' = IF root THEN On(x) \ comp ELSE On(x)
       /\ cnt' = IF root THEN cnt + 1 ELSE cnt
       /\ belong' = IF root THEN [v \in Vertex |-> IF v \in comp THEN cnt + 1 ELSE belong[v]]
                            ELSE belong
  /\ UNCHANGED <<full, todo, tag, sccs>>

(* The components with two or more vertices are returned. *)
SCCReturn ==
  /\ s1 = << >> /\ todo = {} /\ sccs = NoResult
  /\ sccs' = {c \in {{v \in Vertex : belong[v] = i} : i \in 1 .. cnt} : Cardinality(c) >= 2}
  /\ UNCHANGED <<full, todo, s1, s2, dfn, low, onStack, tag, cnt, belong>>

SCCNext ==
  \/ \E v \in Vertex : NextVertex(v)
  \/ \E next \in Vertex, seen \in SUBSET Vertex : Descend(next, seen)
  \/ Finish
  \/ SCCReturn
-----------------------------------------------------------------------------
Reaches == ConnectionsIn([node |-> Vertex, edge |-> {<<e[1], e[2]>> : e \in full.outs}])

(* StronglyConnectedComponents returns exactly the classes of mutually     *)
(* reachable transactions that have two or more members, for every graph   *)
(* and every order in which the maps are ranged over.                      *)
ComponentsAreExact ==
  sccs # NoResult =>
    LET R == Reaches IN
    sccs = {c \in {{w \in Vertex : R[v, w] /\ R[w, v]} : v \in Vertex} : Cardinality(c) >= 2}
-----------------------------------------------------------------------------
(***************************************************************************)
(* checkHelper, CycleCases and CycleCasesInScc (pkg/elle/core/core.go and  *)
(* txn/txn.go): each strongly connected component (module SCC) is searched *)
(* for each of the anomalies of CycleAnomalySpecs, in the graph filtered   *)
(* to the relations the anomaly is made of; the cycle found is explained,  *)
(* classified, and reported unless the spec's filter drops it.  FindCycle, *)
(* FindCycleWith and FindCycleStartingWith (core/graph.go) take, for every *)
(* start, the breadth-first shortest way back from every successor         *)
(* (core/bfs.go).                                                          *)
(*                                                                         *)
(* "process" stands for whichever of process and realtime AdditionalGraphs *)
(* adds; it adds one of them, and the specs treat them alike.              *)
(***************************************************************************)

(* bfs() walks Ins from `start', inside the component only. *)
Mark(b, cur, v, scc) ==
  IF v \notin scc \/ v \in DOMAIN b.distTo THEN b
  ELSE [queue  |-> Append(b.queue, v),
        edgeTo |-> [u \in DOMAIN b.edgeTo \cup {v} |-> IF u = v THEN cur ELSE b.edgeTo[u]],
        distTo |-> [u \in DOMAIN b.distTo \cup {v} |->
                      IF u = v THEN b.distTo[cur] + 1 ELSE b.distTo[u]]]

Visit(g, b, scc) ==
  IF b.queue = << >> THEN b
  ELSE LET cur == Head(b.queue) IN
       FoldLeft(LAMBDA c, v : Mark(c, cur, v, scc), [b EXCEPT !.queue = Tail(@)], g.ins[cur])

(* A vertex is queued once, so |scc| rounds empty the queue. *)
NewBFSPath(g, start, scc) ==
  FoldLeft(LAMBDA b, i : Visit(g, b, scc),
           [queue |-> <<start>>, edgeTo |-> << >>, distTo |-> [u \in {start} |-> 0]],
           [i \in 1 .. Cardinality(scc) |-> i])

HasPathFrom(b, v) == v \in DOMAIN b.distTo

(* Mutant: stop before the start. *)
PathFromOpen(b, v) ==
  LET p[i \in 1 .. b.distTo[v]] == IF i = 1 THEN v ELSE b.edgeTo[p[i - 1]]
  IN p

(* The vertices from v to the start of the search. *)
PathFrom(b, v) ==
  LET p[i \in 1 .. b.distTo[v] + 1] == IF i = 1 THEN v ELSE b.edgeTo[p[i - 1]]
  IN p

(* The relations on the steps of a cycle, as graph g has them. *)
Trace(g, cycle) == [i \in 1 .. Len(cycle) - 1 |-> Edges(g, cycle[i], cycle[i + 1])]

StartsWith(trace, first, rest) ==
  /\ Len(trace) >= 2
  /\ first \in trace[1]
  /\ \A i \in 2 .. Len(trace) : IntersectionRel(trace[i], rest) # {}

nonadjacentRW(trace) ==
  LET rw(i) == trace[i] = {"rw"} IN
  /\ Len(trace) >= 2
  /\ ~ rw(1)
  /\ \A i \in 1 .. Len(trace) - 1 : ~ (rw(i) /\ rw(i + 1))
  /\ Cardinality({i \in DOMAIN trace : rw(i)}) > 1
-----------------------------------------------------------------------------
(* CycleAnomalySpecs.  `only' is what buildFilterExByType keeps. *)
FromRels(name, only, rels) ==
  [name |-> name, find |-> "any", rels |-> rels, first |-> "", rest |-> {}, only |-> only]
FromRelsAndWith(name, rels) == [FromRels(name, "", rels) EXCEPT !.find = "nonadjacent"]
FromFirstRelAndRest(name, only, first, rest) ==
  [name |-> name, find |-> "first", rels |-> {first} \cup rest,
   first |-> first, rest |-> rest, only |-> only]

CycleAnomalySpecs ==
  << FromRels("G0", "", {"ww"}),
     FromFirstRelAndRest("G1c", "", "wr", {"ww", "wr"}),
     FromFirstRelAndRest("G-single", "", "rw", {"ww", "wr"}),
     FromRelsAndWith("G-nonadjacent", {"ww", "wr", "rw"}),
     FromFirstRelAndRest("G2-item", "G2-item", "rw", {"ww", "wr", "rw"}),
     FromRels("G0-process", "G0-process", {"ww", "process"}),
     FromFirstRelAndRest("G1c-process", "G1c-process", "wr", {"ww", "wr", "process"}),
     FromFirstRelAndRest("G-single-process", "G-single-process", "rw", {"ww", "wr", "process"}),
     FromFirstRelAndRest("G2-item-process", "G2-item-process", "rw",
                         {"ww", "wr", "rw", "process"}) >>

(* Which traces a spec is content with. *)
IsWith(spec, trace) ==
  CASE spec.find = "any"         -> TRUE
    [] spec.find = "nonadjacent" -> nonadjacentRW(trace)
    [] spec.find = "first"       -> StartsWith(trace, spec.first, spec.rest)

(* CombinedExplainer asks the explainers in this order, and the first that *)
(* knows of a dependency gives the step its type.                          *)
StepType(rels) ==
  CASE "ww" \in rels -> "ww"
    [] "ww" \notin rels /\ "wr" \in rels -> "wr"
    [] rels \cap {"ww", "wr"} = {} /\ "rw" \in rels -> "rw"
    [] OTHER -> "process"

(* ExplainCycle's classification of a cycle of g. *)
ExplainCycle(g, cycle) ==
  LET n == Len(cycle) - 1
      step == [i \in 1 .. n |-> StepType(Edges(g, cycle[i], cycle[i + 1]))]
      Freq(t) == Cardinality({i \in 1 .. n : step[i] = t})
      rwAdj == \E i \in 1 .. n : step[i] = "rw" /\ step[IF i = 1 THEN n ELSE i - 1] = "rw"
      dataDepType ==
        CASE Freq("rw") = 1 -> "G-single"
          [] Freq("rw") > 1 /\ rwAdj -> "G2-item"
          [] Freq("rw") > 1 /\ ~ rwAdj -> "G-nonadjacent"
          [] Freq("rw") = 0 /\ Freq("wr") > 0 -> "G1c"
          [] Freq("rw") = 0 /\ Freq("wr") = 0 /\ Freq("ww") > 0 -> "G0"
          [] OTHER -> "panic"
  IN <<dataDepType, IF Freq("process") > 0 THEN "-process" ELSE "">>

TypeName(t) == CASE t[2] = "" -> t[1]
                 [] t = <<"G0", "-process">> -> "G0-process"
                 [] t = <<"G1c", "-process">> -> "G1c-process"
                 [] t = <<"G-single", "-process">> -> "G-single-process"
                 [] t = <<"G-nonadjacent", "-process">> -> "G-nonadjacent-process"
                 [] t = <<"G2-item", "-process">> -> "G2-item-process"
                 [] OTHER -> "panic"
-----------------------------------------------------------------------------
VARIABLES
  left,     \* the components still to be searched
  scc,      \* the component that is searched
  at,       \* the spec that is searched for, 0 for explainSCC's FindCycle
  runtime,  \* the graph filtered for that spec
  starts,   \* start vertices still to be tried
  length,   \* a cycle must be shorter than this to replace the one found
  dest,     \* the cycle found so far, << >> when none
  found,    \* history: what the specs that are done found in scc
  cases     \* the types reported for scc so far

cycleVars == <<left, scc, at, runtime, starts, length, dest, found, cases>>
searchVars == <<sccVars, cycleVars>>

(* What is searched for, and where. *)
SpecAt(i) == IF i = 0 THEN FromRels("", "", Rel) ELSE CycleAnomalySpecs[i]
GraphFor(i) == IF i = 0 THEN full ELSE FilterRelationships(full, CycleAnomalySpecs[i].rels)

Cur == SpecAt(at)
IsDone == at > Len(CycleAnomalySpecs)

SearchInit ==
  /\ SCCInit
  /\ left = NoResult /\ scc = {} /\ starts = {}
  /\ at = Len(CycleAnomalySpecs) + 1
  /\ runtime = NewDirectedGraph
  /\ length = 0
  /\ dest = << >> /\ found = << >> /\ cases = {}

(* Start the search for spec i in component c. *)
BeginSpec(i, c) ==
  /\ at' = i
  /\ IF i > Len(CycleAnomalySpecs) THEN UNCHANGED <<runtime, starts, length, dest>>
     ELSE /\ runtime' = GraphFor(i)
          /\ starts' = c
          /\ length' = Cardinality(c) + 1
          /\ dest' = << >>

(* The loops over sccs of checkHelper, which explains each component, and  *)
(* of CycleCases; the components do not affect each other.                 *)
BeginComponent(c) ==
  /\ sccs # NoResult /\ IsDone
  /\ c \in (IF left = NoResult THEN sccs ELSE left)
  /\ left' = (IF left = NoResult THEN sccs ELSE left) \ {c}
  /\ scc' = c
  /\ BeginSpec(0, c)
  /\ found' = << >> /\ cases' = {}
  /\ UNCHANGED sccVars

(* The cycles of g through start and one of its successors that are        *)
(* shorter than len and that the spec accepts.                             *)
Candidates(g, spec, start, len) ==
  LET b == NewBFSPath(g, start, scc)
      nexts == {n \in Out(g, start) \cap scc : HasPathFrom(b, n) /\ b.distTo[n] + 1 < len}
  IN {c \in {<<start>> \o PathFrom(b, n) : n \in nexts} : IsWith(spec, Trace(g, c))}

(* Mutant: length is the distance, without the first step. *)
TryStartOff ==
  /\ ~ IsDone /\ starts # {}
  /\ LET start == Min(starts)
         B == Candidates(runtime, Cur, start, length)
     IN /\ starts' = starts \ {start}
        /\ IF B = {} THEN UNCHANGED <<length, dest>>
           ELSE \E c \in {d \in B : \A e \in B : Len(d) <= Len(e)} :
                  dest' = c /\ length' = Len(c) - 2
  /\ UNCHANGED <<sccVars, left, scc, at, runtime, found, cases>>

(* One round of the loop over scc.Vertices.  The successors come in the    *)
(* random order of a map, each replacing a longer cycle: what is left at   *)
(* the end is one of the shortest.                                         *)
TryStart ==
  /\ ~ IsDone /\ starts # {}
  /\ LET start == Min(starts)
         B == Candidates(runtime, Cur, start, length)
     IN /\ starts' = starts \ {start}
        /\ IF B = {} THEN UNCHANGED <<length, dest>>
           ELSE \E c \in {d \in B : \A e \in B : Len(d) <= Len(e)} :
                  dest' = c /\ length' = Len(c) - 1
  /\ UNCHANGED <<sccVars, left, scc, at, runtime, found, cases>>

(* The cycle is explained and, if the filter lets it through, reported;    *)
(* then the next spec is searched for.  explainSCC only renders its cycle. *)
Report ==
  /\ ~ IsDone /\ starts = {}
  /\ found' = IF at = 0 THEN found ELSE Append(found, dest)
  /\ cases' = IF dest = << >> \/ at = 0 THEN cases
              ELSE LET t == TypeName(ExplainCycle(full, dest)) IN
                   IF Cur.only \in {"", t} THEN cases \cup {t} ELSE cases
  /\ BeginSpec(at + 1, scc)
  /\ UNCHANGED <<sccVars, left, scc>>

(* Every component has been searched. *)
SearchOver == sccs # NoResult /\ IsDone /\ (sccs = {} \/ left = {})

SearchNext ==
  \/ SCCNext /\ UNCHANGED cycleVars
  \/ \E c \in SUBSET Vertex : BeginComponent(c)
  \/ TryStart \/ Report
  \/ SearchOver /\ UNCHANGED searchVars

-----------------------------------------------------------------------------
AnomalyNames == {"G0", "G1c", "G-single", "G-nonadjacent", "G2-item", "G0-process", "G1c-process",
                 "G-single-process", "G-nonadjacent-process", "G2-item-process"}

(* The paths of g inside the component, by length. *)
HasWalk(g, a, b, n) ==
  \E w \in [1 .. n + 1 -> scc] :
     /\ w[1] = a /\ w[n + 1] = b
     /\ \A i \in 1 .. n : w[i + 1] \in Out(g, w[i])

(* Where the filtered graph is consistent (FilterRelationships left no     *)
(* slot in Ins behind) and the remaining edges may be what the first one   *)
(* is, a cycle that the spec describes is found whenever there is one, and *)
(* none is shorter.  In particular explainSCC always has a cycle to        *)
(* explain ("don't find a cycle, the code may has bug" is never met).      *)
ShortestIsFound ==
  /\ ~ IsDone /\ starts = {}
  /\ \A v, w \in Vertex : v \in In(runtime, w) <=> w \in Out(runtime, v)
  /\ Cur.find = "any" \/ Cur.first \in Cur.rest
  => /\ at = 0 => dest # << >>
     /\ \A n \in 2 .. Cardinality(scc) :
          ( \E a, b \in scc : /\ b \in Out(runtime, a)
                              /\ Cur.find = "first" => Cur.first \in Edges(runtime, a, b)
                              /\ HasWalk(runtime, b, a, n - 1) )
          => dest # << >> /\ Len(dest) - 1 <= n

(* How bad a kind of cycle is.                                             *)
Severity(name) ==
  CASE name \in {"G0", "G0-process"} -> 1
    [] name \in {"G1c", "G1c-process"} -> 2
    [] name \in {"G-single", "G-single-process"} -> 3
    [] name \in {"G-nonadjacent", "G-nonadjacent-process"} -> 4
    [] OTHER -> 5

(* Whatever a search returns is a cycle of dependencies, no transaction    *)
(* passed twice, so that neither NewCircle nor ExplainCycle panics; and    *)
(* one found for G1c, G-single or G-nonadjacent, which no filter           *)
(* re-examines, is never reported as worse than what was searched for,     *)
(* although its steps are explained from the whole graph.                  *)
ReportedIsReal ==
  /\ cases \subseteq AnomalyNames
  /\ \A i \in DOMAIN found : found[i] # << >> =>
       LET c == found[i]
           spec == CycleAnomalySpecs[i]
       IN /\ Len(c) >= 3 /\ Head(c) = Last(c)
          /\ ToSet(c) \subseteq scc /\ IsInjective(Front(c))
          /\ \A k \in 1 .. Len(c) - 1 : Edges(full, c[k], c[k + 1]) # {}
          /\ spec.find # "any" /\ spec.only = "" =>
               Severity(TypeName(ExplainCycle(full, c))) <= Severity(spec.name)

(* "CycleCasesInScc searches a single SCC for cycle anomalies": a          *)
(* component is a set of transactions with a cycle through them, so the    *)
(* search of a component reports an anomaly.                               *)
EveryComponentIsReported == IsDone /\ scc # {} => cases # {}
=============================================================================

--------------------------- MODULE DirectedGraph ---------------------------
(***************************************************************************)
(* The dependency graph of the Elle checker (pkg/elle/core/graph.go), as   *)
(* values and the functions on them.                                       *)
(*                                                                         *)
(* A graph keeps its edges twice, and the two copies are used by different *)
(* code: Outs (a map of maps to relations) by the component search and to  *)
(* leave a vertex, Ins (a slice in which a predecessor may occur several   *)
(* times) by the breadth-first search.                                     *)
(***************************************************************************)
EXTENDS Integers, Sequences, FiniteSets, FiniteSetsExt, SequencesExt

CONSTANTS
  N,      \* how many transactions there are
  Rel     \* the relations an edge may carry (ww, wr, rw, process, ...)

(* Transactions are named by their Op index, which is the order Vertices() *)
(* returns them in.                                                        *)
Vertex == 1 .. N
Pairs == Vertex \X Vertex

(* A graph: its vertices (the keys of Outs), its edges <<from, to, rel>>   *)
(* (Outs), and the slices Ins.                                             *)
GraphType == [verts : SUBSET Vertex, outs : SUBSET (Vertex \X Vertex \X Rel),
              ins : [Vertex -> Seq(Vertex)]]

NewDirectedGraph == [verts |-> {}, outs |-> {}, ins |-> [v \in Vertex |-> << >>]]

In(g, v) == ToSet(g.ins[v])
Out(g, v) == {w \in Vertex : \E r \in Rel : <<v, w, r>> \in g.outs}
Edges(g, a, b) == {r \in Rel : <<a, b, r>> \in g.outs}

(* The slot in Ins is added whether or not the edge was there already. *)
Link(g, v, succ, rel) ==
  [verts |-> g.verts \cup {v, succ},
   outs  |-> g.outs \cup {<<v, succ, rel>>},
   ins   |-> [g.ins EXCEPT ![succ] = Append(@, v)]]

(* The slice without its first `a', if it holds one. *)
CutFirst(slice, a) ==
  IF a \in ToSet(slice) THEN RemoveAt(slice, SelectInSeq(slice, LAMBDA x : x = a)) ELSE slice

(* The edge goes with all its relations, but only one slot of Ins goes. *)
UnLink(g, a, b) ==
  [g EXCEPT !.outs = {e \in @ : e[1] # a \/ e[2] # b},
            !.ins[b] = CutFirst(@, a)]

UnLinkSelfEdges(g, xs) == FoldSet(LAMBDA x, h : UnLink(h, x, x), g, xs)

(* Linking every edge of E once, sources in the order of Vertices(); the   *)
(* order of the targets and relations of one source cannot be seen.        *)
LinkEach(g, E) ==
  FoldLeft(LAMBDA h, e : Link(h, e[1], e[2], e[3]), g,
           SetToSortSeq(E, LAMBDA e, f : e[1] < f[1]))

Fork(g) == LinkEach(NewDirectedGraph, g.outs)

(* Mutant: merge the two copies of the edges separately. *)
UnionOfCopies(g1, g2) ==
  [verts |-> g1.verts \cup g2.verts,
   outs  |-> g1.outs \cup g2.outs,
   ins   |-> [v \in Vertex |-> g1.ins[v] \o g2.ins[v]]]

DigraphUnion(g1, g2) == LinkEach(LinkEach(NewDirectedGraph, g1.outs), g2.outs)

(* Mutant: keep the whole edge when it intersects. *)
IntersectsRel(rels1, rels2) == IF rels1 \cap rels2 = {} THEN {} ELSE rels1

IntersectionRel(rels1, rels2) == rels1 \cap rels2

(* Replace the edge x -> y of fg by the relations that are kept of g's. *)
Refilter(g, fg, x, y, rels) ==
  LinkEach(UnLink(fg, x, y),
           {<<x, y, r>> : r \in IntersectionRel(Edges(g, x, y), rels)})

FilterRelationships(g, rels) ==
  FoldLeft(LAMBDA fg, p : Refilter(g, fg, p[1], p[2], rels), Fork(g),
           SetToSortSeq({p \in Pairs : p[2] \in Out(g, p[1])}, LAMBDA p, q : p[1] < q[1]))
=============================================================================

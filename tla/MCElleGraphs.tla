---------------------------- MODULE MCElleGraphs ----------------------------
(***************************************************************************)
(* The graph library of the Elle checker (pkg/elle/core) at its three      *)
(* tasks: building and filtering the dependency graph (GraphBuild),        *)
(* searching it for cycles (CycleSearch) and deriving the realtime order   *)
(* of a history (RealtimeGraph).  They share no state: a check calls one   *)
(* after the other on values it passes on.                                 *)
(***************************************************************************)
EXTENDS GraphBuild, CycleSearch, RealtimeGraph

VARIABLE task   \* which of them is looked at

elleVars == <<task, graphVars, searchVars, rtVars>>

Init ==
  /\ task \in {"build", "search", "order"}
  /\ GraphInit /\ SearchInit /\ RTInit
  /\ task # "search" => full = NewDirectedGraph

Next ==
  \/ task = "build"  /\ GraphNext  /\ UNCHANGED <<task, searchVars, rtVars>>
  \/ task = "search" /\ SearchNext /\ UNCHANGED <<task, graphVars, rtVars>>
  \/ task = "order"  /\ RTNext     /\ UNCHANGED <<task, graphVars, searchVars>>

Spec == Init /\ [][Next]_elleVars
-----------------------------------------------------------------------------
(* Small graphs, exhaustively, and one in particular; the histories of     *)
(* three processes.                                                        *)

CONSTANTS p1, p2, p3

Sym == Permutations(Process)

(* Two transactions and their loops, with two relations. *)
FewEdges == {1, 2} \X {1, 2} \X {"ww", "rw"}

(* The possible edges among the first n transactions with given relations. *)
Among(n, rels) == {e \in PossibleEdges : e[1] <= n /\ e[2] <= n /\ e[3] \in rels}

UpTo(m, S) == UNION {kSubset(k, S) : k \in 2 .. m}

(* All graphs of up to three edges on three transactions with the          *)
(* dependencies, of up to four with wr and rw, and on four transactions of *)
(* up to three with rw and process and of up to five with rw; and the      *)
(* empty one.                                                              *)
SmallGraphs ==
  {{}} \cup UpTo(3, Among(3, Rel \ {"process"})) \cup UpTo(4, Among(3, {"wr", "rw"}))
  \cup UpTo(3, Among(4, {"rw", "process"})) \cup UpTo(5, Among(4, {"rw"}))

(* Transactions 2 and 3 read what 1 wrote, and 3 overwrites what 1 read; 4 *)
(* reads what 3 wrote and overwrites what 2 read; 1 overwrites what 4 read. *)
Braid == {{}, {<<1, 2, "wr">>, <<1, 3, "wr">>, <<1, 3, "rw">>, <<2, 4, "rw">>,
               <<3, 4, "wr">>, <<4, 1, "rw">>}}
=============================================================================

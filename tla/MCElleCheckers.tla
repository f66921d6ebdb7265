--------------------------- MODULE MCElleCheckers ---------------------------
(***************************************************************************)
(* The two checkers of pkg/elle that infer dependencies from what          *)
(* transactions read, each with the workload that feeds it.  A process     *)
(* runs one of them.                                                       *)
(***************************************************************************)
EXTENDS RWRegister

CONSTANTS AppendShapes, AppendTxns   \* what Shapes and MaxTxns are to ListAppend

VARIABLE checker   \* "list-append" or "rw-register"

L == INSTANCE ListAppend WITH Shapes <- AppendShapes, MaxTxns <- AppendTxns

vars == <<checker, kind, store, clock, tx, history, result>>

Init ==
  \/ checker = "list-append" /\ L!Init
  \/ checker = "rw-register" /\ RWInit

Next ==
  /\ \/ checker = "list-append" /\ L!Next
     \/ checker = "rw-register" /\ RWNext
  /\ UNCHANGED checker

Spec == Init /\ [][Next]_vars
-----------------------------------------------------------------------------
Appending == checker = "list-append"
Registering == checker = "rw-register"


(* Every ww, wr and rw edge of the two graph functions is a dependency of  *)
(* the database's own order of commits and snapshots, and the explainers   *)
(* that classify a cycle find the micro-operations that show it.           *)
EdgesFollowTheStore ==
  /\ Appending => L!EdgesFollowTheStore /\ L!EdgesAreExplained
  /\ Registering => RegisterEdgesFollow /\ RegisterEdgesExplained

(* graph of list_append misses no dependency that the reads reveal.        *)
DependenciesAreFound == Appending => L!DependenciesAreFound

(* A read that finds a register empty after its first version was written  *)
(* closes a cycle in the transaction graph of rw_register.                 *)
EmptyAfterWriteIsFound == Registering => RegisterEmptinessIsFound

(* Whatever the database did: where Check finds nothing, the ok reads are  *)
(* consistent with each other, with the writers' fates and with their own  *)
(* transactions, as far as each checker looks.                             *)
PassedReadsAreConsistent ==
  /\ Appending => L!PassedReadsAreConsistent
  /\ Registering => PassedValuesAreConsistent

(* ResultMap turns every anomaly into a report, with the weakest models    *)
(* that it rules out.                                                      *)
AnomaliesAreReported == Registering => RegisterAnomaliesAreReported

(* "Anomalies worth reporting on, even if they don't cause the test to     *)
(* fail" (cycle.go): a history that is not valid has a prohibited anomaly. *)
OnlyProhibitedFails == Registering => RegisterFailsIfProhibited
-----------------------------------------------------------------------------
(* Three transactions where the store keeps its promise: the ones that     *)
(* skew, some with two writes.  Two, of those that read and write one key, *)
(* where it may do anything.                                               *)

FewTxns == [snapshot |-> 3, faulty |-> 2]

A(k) == <<"append", k>>
Rd(k) == <<"r", k>>
W(k) == <<"w", k>>

SmallAppends ==
  [snapshot |-> {<<Rd("x"), A("y")>>, <<Rd("y"), A("x"), A("x")>>},
   faulty |-> {<<A("x"), A("x")>>, <<Rd("x"), A("x")>>, <<A("x"), Rd("x")>>}]

SmallWrites ==
  [snapshot |-> {<<Rd("x"), W("y")>>, <<Rd("y"), W("x")>>},
   faulty |-> {<<W("x"), W("x"), Rd("x")>>, <<Rd("x"), W("x")>>, <<Rd("x"), Rd("x")>>}]
=============================================================================

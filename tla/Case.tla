-------------------------------- MODULE Case --------------------------------
(***************************************************************************)
(* What the test cases share that schedule themselves                      *)
(* (core.StandardClientExtensions): the controller sets the client up,     *)
(* calls Start with a context that ends after the run time, and ends the   *)
(* process when Start returns an error (TransferControlToClient,           *)
(* pkg/control/control.go).  One process runs one case.  The system under  *)
(* test is external; it may once break one of the promises the case tests, *)
(* which the ghost variable broken records.                                *)
(***************************************************************************)
EXTENDS Integers, FiniteSets

CONSTANT Breakable   \* bound: the cases in which it may do so

VARIABLES
  case,      \* the case this process runs
  ctx,       \* the context of Start: "live" or "done"
  broken,    \* the promises the system has broken
  outcome    \* "running"; "returned": Start returned nil; "failed": an error
             \* of the environment; "alarm": the case blames the system

caseVars == <<case, ctx, broken, outcome>>

CaseInit(cases) ==
  /\ case \in cases
  /\ ctx = "live"
  /\ broken = {}
  /\ outcome = "running"

(* The timeout of nCtx, or a signal that cancels c.ctx. *)
Expire ==
  /\ outcome = "running" /\ ctx = "live"
  /\ ctx' = "done"
  /\ UNCHANGED <<case, broken, outcome>>

(* Start returns, or log.Fatal ends the process. *)
End(result) == outcome' = result /\ UNCHANGED <<case, ctx>>
Continue == UNCHANGED <<case, ctx, outcome>>

(* The system under test may break a promise now. *)
MayBreak == broken = {} /\ case \in Breakable

Running(c) == case = c /\ outcome = "running"
=============================================================================

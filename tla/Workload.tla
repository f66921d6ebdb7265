------------------------------ MODULE Workload ------------------------------
(***************************************************************************)
(* What the smaller workloads share.  Each keeps its state in one record;  *)
(* the helpers below say how a step of theirs leaves the process.          *)
(***************************************************************************)
EXTENDS Case, Sequences, SequencesExt

VARIABLE st    \* the state of the case this process runs

workVars == <<caseVars, st>>

Go(next) == st' = next /\ Continue /\ UNCHANGED broken
Break(promise, next) ==
  MayBreak /\ broken' = {promise} /\ st' = next /\ Continue
Quit(result) == End(result) /\ UNCHANGED <<broken, st>>
=============================================================================

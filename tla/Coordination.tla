---------------------------- MODULE Coordination ----------------------------
(***************************************************************************)
(* core.NemesisControl: a test client decides when the controller starts a *)
(* nemesis and when it rolls it back.  The client installs one round of    *)
(* generators whose generator (nemesis.coordinationKillGenerator) waits in *)
(* Generate for the client, then calls Start and Rollback; controller and  *)
(* client meet in the atomic integer s.  The client runs under the same    *)
(* context as the dispatcher (TransferControlToClient).                    *)
(***************************************************************************)
EXTENDS NemesisDispatch

CONSTANT Handover   \* the context outlives the client's Start

VARIABLES
  s,      \* NemesisControl.s: 0 before WaitForStart stores waitForStart
  cl      \* where the client stands, "absent" without one

waitForStart == 1
enableStart == 2
starting == 3
enableRollback == 4

cvars == <<nvars, s, cl>>

CoordinationInit ==
  /\ NemesisInit("check")
  /\ s = 0
  /\ cl \in {"absent", "start"}

(* OneRoundNemesisGenerators has its generator once and cannot be reset:   *)
(* then the loop sleeps and turns.                                         *)
NextOnce ==
  /\ npc = "next"
  /\ IF idx = 0 THEN gen' = 1 /\ idx' = 1 /\ npc' = "generate"
                ELSE npc' = "check" /\ UNCHANGED <<idx, gen>>
  /\ UNCHANGED <<opVars, nctxDone, unrecorded, recorderVars, s, cl>>

(* coordinationKillGenerator.Generate up to WaitForStart's Store. *)
GenerateStore ==
  /\ npc = "generate"
  /\ s' = waitForStart
  /\ npc' = "waitStart"
  /\ UNCHANGED <<cl, idx, gen, opVars, nctxDone, unrecorded, recorderVars>>

(* WaitForStart polls CAS(enableStart, starting), without a context; then  *)
(* the operations are spawned.                                             *)
WaitForStart ==
  /\ npc = "waitStart"
  /\ s = enableStart
  /\ s' = starting
  /\ Spawn(gen)
  /\ npc' = "wait"
  /\ UNCHANGED <<cl, idx, gen, nctxDone, unrecorded, recorderVars>>

(* Mutant of WaitForRollback: it returns as soon as the nemesis runs. *)
RollbackUnasked(o) ==
  /\ opc[o] = "running"
  /\ OpGoto(o, "recover")
  /\ UNCHANGED <<s, cl, npc, idx, gen, tries, injected, nctxDone, unrecorded, recorderVars>>

(* onNemesis waits for the client instead of for RunTime. *)
WaitForRollback(o) ==
  /\ opc[o] = "running"
  /\ nctxDone \/ s = enableRollback
  /\ OpGoto(o, "recover")
  /\ UNCHANGED <<s, cl, npc, idx, gen, tries, injected, nctxDone, unrecorded, recorderVars>>

(* Start and Rollback poll; each gives up once the context is done. *)
ClientStart ==
  /\ cl = "start"
  /\ \/ nctxDone /\ cl' = "gaveUp" /\ UNCHANGED s
     \/ s = waitForStart /\ s' = enableStart /\ cl' = "working"
  /\ UNCHANGED nvars

ClientWork ==
  /\ cl = "working"
  /\ cl' = "rollback"
  /\ UNCHANGED <<nvars, s>>

ClientRollback ==
  /\ cl = "rollback"
  /\ \/ nctxDone /\ cl' = "gaveUp" /\ UNCHANGED s
     \/ s = starting /\ s' = enableRollback /\ cl' = "done"
  /\ UNCHANGED nvars

Dispatcher ==
  \/ (DispatchCheck \/ DispatchWait) /\ UNCHANGED <<s, cl>>
  \/ NextOnce \/ GenerateStore \/ WaitForStart

Client == ClientStart \/ ClientWork \/ ClientRollback

CoordinationContextDone ==
  /\ Handover => cl # "start"
  /\ NemesisContextDone
  /\ UNCHANGED <<s, cl>>
-----------------------------------------------------------------------------
(* Faults last exactly as long as the client asked for: no operation is   *)
(* spawned before the client's Start, and while the client works, Recover  *)
(* is not tried until its Rollback or the end of the context.              *)
FaultsFollowTheClient ==
  \A o \in Operations :
    /\ opc[o] # "none" \/ injected[o] => cl # "start"
    /\ cl # "absent" /\ opc[o] \in {"recover", "pause"} => nctxDone \/ s = enableRollback

=============================================================================

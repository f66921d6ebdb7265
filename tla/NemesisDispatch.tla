-------------------------- MODULE NemesisDispatch --------------------------
(***************************************************************************)
(* The nemesis side of the controller (pkg/control/control.go): the loop   *)
(* of dispatchNemesis, dispatchNemesisWithRecord for one generator, the    *)
(* goroutine onNemesis runs for each operation, recovery through util.Run- *)
(* WithRetry, and the generator iterator of pkg/core/nemesis.go.  What the  *)
(* operations do to the cluster is in module Nemeses.                      *)
(***************************************************************************)
EXTENDS Recorder, FiniteSets

CONSTANTS
  Operations,     \* names of nemesis operations
  Generators,     \* the generators: for each, the sets Generate may return
  NilOps,         \* operations that are nil pointers
  Unregistered,   \* operations whose nemesis is not registered
  RetryCount      \* RunWithRetry's retryCnt

ASSUME GeneratorsAssumption ==
  /\ IsFiniteSet(Operations)
  /\ Generators \in Seq(SUBSET SUBSET Operations)
  /\ NilOps \subseteq Operations /\ Unregistered \subseteq Operations
ASSUME RetryCountAssumption == RetryCount \in Nat \ {0}

VARIABLES
  npc,        \* where the dispatching goroutine stands
  idx,        \* the iterator: generators already taken
  gen,        \* the generator in use, 0 before the first
  opc,        \* where each operation's goroutine stands
  tries,      \* calls of Recover its RunWithRetry has made
  injected,   \* the fault is in the cluster
  unrecorded, \* a record of this round's nemesis could not be written
  nctxDone    \* the context given to the dispatcher is done

opVars == <<opc, tries, injected>>
nemesisVars == <<npc, idx, gen, opVars, nctxDone, unrecorded>>

NemesisInit(start) ==
  /\ npc = start
  /\ idx = 0 /\ gen = 0
  /\ opc = [o \in Operations |-> "none"]
  /\ tries = [o \in Operations |-> 0]
  /\ injected = [o \in Operations |-> FALSE]
  /\ nctxDone = FALSE
  /\ unrecorded = FALSE

OpsOf(g) == UNION Generators[g]

(* The operations of the generator in use have all returned: g.Wait(). *)
AllReturned == \A o \in Operations : opc[o] = "none"

OpGoto(o, l) == opc' = [opc EXCEPT ![o] = l]
-----------------------------------------------------------------------------
(* Mutant of DispatchCheck: the loop does not look at its context. *)
DispatchNoCheck ==
  /\ npc = "check"
  /\ npc' = "next"
  /\ UNCHANGED <<idx, gen, opVars, nctxDone, unrecorded, recorderVars>>

(* dispatchNemesis: the context is looked at once per turn, before the     *)
(* iterator.                                                               *)
DispatchCheck ==
  /\ npc = "check"
  /\ npc' = IF nctxDone THEN "exit" ELSE "next"
  /\ UNCHANGED <<idx, gen, opVars, nctxDone, unrecorded, recorderVars>>

(* Mutant of DispatchNext: Reset does not reset. *)
DispatchNoReset ==
  /\ npc = "next"
  /\ IF idx < Len(Generators)
     THEN gen' = idx + 1 /\ idx' = idx + 1 /\ npc' = "generate"
     ELSE npc' = "check" /\ UNCHANGED <<idx, gen>>
  /\ UNCHANGED <<opVars, nctxDone, unrecorded, recorderVars>>

(* HasNext, Next and Reset. *)
DispatchNext ==
  /\ npc = "next"
  /\ IF idx < Len(Generators)
     THEN gen' = idx + 1 /\ idx' = idx + 1 /\ npc' = "generate"
     ELSE idx' = 0 /\ npc' = "check" /\ UNCHANGED gen
  /\ UNCHANGED <<opVars, nctxDone, unrecorded, recorderVars>>

(* gen.Generate, which picks at random, and one goroutine per operation. *)
Spawn(g) ==
  /\ \E ops \in Generators[g] :
       opc' = [o \in Operations |-> IF o \in ops THEN "spawned" ELSE opc[o]]
  /\ UNCHANGED <<tries, injected>>

DispatchGenerate ==
  /\ npc = "generate"
  /\ Spawn(gen)
  /\ npc' = "wait"
  /\ UNCHANGED <<idx, gen, nctxDone, unrecorded, recorderVars>>

DispatchWait ==
  /\ npc = "wait"
  /\ AllReturned
  /\ npc' = "check"
  /\ UNCHANGED <<idx, gen, opVars, nctxDone, unrecorded, recorderVars>>

DispatchStep ==
  DispatchCheck \/ DispatchNext \/ DispatchGenerate \/ DispatchWait
-----------------------------------------------------------------------------
(* dispatchNemesisWithRecord(ctx, gen, recorder): a record that cannot be  *)
(* written is only logged.  Generate, which comes first in the code, has   *)
(* no effect and is read off at the spawning of its operations.            *)
RecordOrLog(rec, l) ==
  /\ npc' = l
  /\ \/ rec /\ UNCHANGED unrecorded
     \/ UNCHANGED recorderVars /\ unrecorded' = TRUE
  /\ UNCHANGED <<idx, gen, opVars, nctxDone>>

RecordedInvoke ==
  /\ npc = "recInvoke"
  /\ RecordOrLog(RecordInvokeNemesis, "recGenerate")

RecordedGenerate ==
  /\ npc = "recGenerate"
  /\ Spawn(gen)
  /\ npc' = "recWait"
  /\ UNCHANGED <<idx, gen, nctxDone, unrecorded, recorderVars>>

(* Mutant of RecordedWait: the recovery is not recorded. *)
RecordedWaitSilent ==
  /\ npc = "recWait"
  /\ AllReturned
  /\ npc' = "exit"
  /\ UNCHANGED <<idx, gen, opVars, nctxDone, unrecorded, recorderVars>>

RecordedWait ==
  /\ npc = "recWait"
  /\ AllReturned
  /\ RecordOrLog(RecordRecoverNemesis, "exit")

RecordedStep == RecordedInvoke \/ RecordedGenerate \/ RecordedWait
-----------------------------------------------------------------------------
(* onNemesis returns at once for a nil operation; for one whose nemesis is *)
(* not registered it sleeps 30 s first, whatever its context says.         *)
OpSkip(o) ==
  /\ opc[o] = "spawned"
  /\ o \in NilOps \cup Unregistered
  /\ OpGoto(o, "none")
  /\ UNCHANGED <<npc, idx, gen, tries, injected, nctxDone, unrecorded, recorderVars>>

(* nemesis.Invoke: an error does not say that nothing was injected. *)
OpInvoke(o) ==
  /\ opc[o] = "spawned"
  /\ o \notin NilOps \cup Unregistered
  /\ \E b \in BOOLEAN : injected' = [injected EXCEPT ![o] = @ \/ b]
  /\ OpGoto(o, "running")
  /\ UNCHANGED <<npc, idx, gen, tries, nctxDone, unrecorded, recorderVars>>

(* select { case <-time.After(op.RunTime): case <-ctx.Done(): } *)
OpRunTime(o) ==
  /\ opc[o] = "running"
  /\ OpGoto(o, "recover")
  /\ UNCHANGED <<npc, idx, gen, tries, injected, nctxDone, unrecorded, recorderVars>>

RecoverReturns(o, err) ==
  /\ OpGoto(o, IF err THEN "pause" ELSE "none")
  /\ tries' = [tries EXCEPT ![o] = IF err THEN @ + 1 ELSE 0]

(* One call of Recover by RunWithRetry, which runs under context.TODO();   *)
(* neither an error nor its absence says what is left of the fault.        *)
(* After a failed call a done context ends the retries with a nil error;   *)
(* otherwise the interval passes and the next call follows, RetryCount in  *)
(* all.                                                                    *)
OpRecover(o) ==
  /\ opc[o] = "recover"
  /\ \E b \in BOOLEAN : injected' = [injected EXCEPT ![o] = b]
  /\ \E err \in BOOLEAN : RecoverReturns(o, err)
  /\ UNCHANGED <<npc, idx, gen, nctxDone, unrecorded, recorderVars>>

OpPause(o) ==
  /\ opc[o] = "pause"
  /\ \/ tries[o] < RetryCount /\ OpGoto(o, "recover") /\ UNCHANGED tries
     \/ /\ nctxDone \/ tries[o] >= RetryCount
        /\ OpGoto(o, "none")
        /\ tries' = [tries EXCEPT ![o] = 0]
  /\ UNCHANGED <<npc, idx, gen, injected, nctxDone, unrecorded, recorderVars>>

OpStep(o) ==
  OpSkip(o) \/ OpInvoke(o) \/ OpRunTime(o) \/ OpRecover(o) \/ OpPause(o)

NemesisContextDone ==
  /\ ~ nctxDone
  /\ nctxDone' = TRUE
  /\ UNCHANGED <<npc, idx, gen, opVars, unrecorded, recorderVars>>
-----------------------------------------------------------------------------
(* dispatchNemesis by itself: no file. *)
nvars == <<nemesisVars, recorderVars>>
-----------------------------------------------------------------------------
(* Cancelling the context ends the dispatcher, recoveries included: what   *)
(* the controller relies on when it cancels and waits for nemesisWg.       *)
NemesisEnds == nctxDone ~> npc = "exit"
=============================================================================

-------------------------- MODULE ControllerProofs --------------------------
(***************************************************************************)
(* Proofs about Controller.Run in its three modes, for any nodes, clients, *)
(* rounds, generators and operations: who may still run where Run stands,  *)
(* and what the rounds' histories are when nemeses record in them too.     *)
(***************************************************************************)
EXTENDS Controller, ClientLoopProofs, FiniteSetTheorems

SettingUp == {"setUpDB", "setUpClient"}
TearingDown == {"tearDownClient", "tearDownDB", "done"}
Recording == {"recInvoke", "recGenerate", "recWait"}
Dispatching == {"check", "next", "generate", "wait"}

(* Where Run may stand in a mode. *)
Stationed ==
  /\ mode \in {"standard", "onSchedule", "sequential"}
  /\ round \in Nat /\ (cpc \in SettingUp => round = 0)
  /\ mode = "standard" =>
       cpc \in SettingUp \cup TearingDown \cup {"clients", "waitNemesis"}
  /\ mode = "onSchedule" =>
       cpc \in SettingUp \cup TearingDown \cup
               {"round", "dump", "clients", "close", "verify", "waitNemesis"}
  /\ mode = "sequential" =>
       cpc \in SettingUp \cup TearingDown \cup
               {"nextGen", "round", "dump", "clients", "waitRound", "close", "verify"}

(* Which dispatcher there is, and until when. *)
DispatcherInv ==
  /\ mode # "sequential" => npc \in Dispatching \cup {"exit"}
  /\ mode = "sequential" => npc \in Recording \cup {"exit"}
  /\ npc \in Recording => cpc \in {"clients", "waitRound"}
  /\ cpc \in SettingUp \cup TearingDown => npc = "exit"

(* Outside g.Wait() no operation has a goroutine. *)
OperationsInv ==
  /\ opc \in [Operations -> {"none", "spawned", "running", "recover", "pause"}]
  /\ npc \notin {"wait", "recWait"} => AllReturned

FileInv ==
  isOpen <=> mode # "standard" /\ cpc \in {"dump", "clients", "waitRound", "close"}

(* The loops have returned, or none has begun. *)
LoopsInv ==
  /\ cpc \in {"waitRound", "close", "verify", "waitNemesis"} => LoopsDone
  /\ cpc = "round" /\ round > 0 => LoopsDone
  /\ cpc \in TearingDown /\ mode # "sequential" => LoopsDone
  /\ cpc # "clients" => \A c \in Clients : pc[c] \in {"start", "done"}

Life ==
  ~ fatal => Stationed /\ DispatcherInv /\ OperationsInv /\ FileInv /\ LoopsInv

LEMMA LifeInit == ControllerInit => Life
<1> SUFFICES ASSUME ControllerInit PROVE Life
  OBVIOUS
<1>1. /\ mode \in {"standard", "onSchedule", "sequential"}
      /\ cpc = "setUpDB" /\ round = 0 /\ isOpen = FALSE /\ npc = "exit"
      /\ opc = [o \in Operations |-> "none"]
      /\ \A c \in Clients : pc[c] = "start"
  BY ModesAssumption DEF ControllerInit, RoundInit, NemesisInit
<1>2. QED
  BY <1>1 DEF Life, Stationed, DispatcherInv, OperationsInv, FileInv, LoopsInv, AllReturned,
              SettingUp, TearingDown, Recording, Dispatching

(* log.Fatalf ends everything. *)
LEMMA FatalIsFinal == fatal /\ [ControllerNext]_allVars => UNCHANGED allVars
  BY DEF ControllerNext, Run, ExecWait, NextGen, RoundStart, RoundsOver, DumpState,
         ClientsWait, WaitRoundNemesis, CloseAndVerify, Verifying, VerifyEnd, WaitNemesis,
         Exec, Loop, LoopStep, TickerStep, Start, Draw, Token, Request, InvokeBegin,
         InvokeEnd, Response, Renew, Poll, TickerWake, TickerTick, TickerDone, At, CAt,
         StandardStart, Dispatch, Op, Signal, RoundTimeout, NemesisTimeout, RunOver

(* A loop's step leaves the file open or closed as it is. *)
LEMMA LoopKeepsOpen ==
  ASSUME NEW c \in Clients, LoopStep(c) \/ TickerStep(c)
  PROVE  isOpen' = isOpen
  BY DEF LoopStep, TickerStep, Start, Draw, Token, Request, InvokeBegin, InvokeEnd, Response,
         Renew, Poll, TickerWake, TickerTick, TickerDone, recorderVars, RecordRequest,
         RecordResponse, record

LEMMA LifeNext == Life /\ TypeOK /\ [ControllerNext]_allVars => Life'
<1> SUFFICES ASSUME Life, TypeOK, [ControllerNext]_allVars, ~ fatal' PROVE Life'
  BY DEF Life
<1>0. ~ fatal
  BY FatalIsFinal DEF allVars, clientVars
<1>a. /\ Stationed /\ DispatcherInv /\ OperationsInv /\ FileInv /\ LoopsInv
      /\ pc \in [Clients -> Labels]
  BY <1>0 DEF Life, TypeOK
<1> DEFINE Goal == Stationed' /\ DispatcherInv' /\ OperationsInv' /\ FileInv' /\ LoopsInv'
<1> SUFFICES Goal
  BY DEF Life
<1> USE <1>a DEF SettingUp, TearingDown, Recording, Dispatching, CAt, recorderVars, loopVars,
        tickerVars, ghostVars, clientVars, nemesisVars, opVars, controllerVars, AllReturned,
        LoopsDone
<1>1. CASE ExecWait
  <2>1. /\ cpc = "setUpDB" => cpc' = "setUpClient"
        /\ cpc = "setUpClient" => cpc' = IF mode = "standard" THEN "clients"
                                 ELSE IF mode = "onSchedule" THEN "round" ELSE "nextGen"
        /\ cpc = "tearDownClient" => cpc' = "tearDownDB"
        /\ cpc = "tearDownDB" => cpc' = "done"
    BY <1>1, Zenon DEF ExecWait, AfterExec
  <2>2. QED
    BY <1>1, <2>1 DEF ExecWait, Stationed, DispatcherInv, OperationsInv, FileInv, LoopsInv
<1>2. CASE NextGen
  BY <1>2 DEF NextGen, Stationed, DispatcherInv, OperationsInv, FileInv, LoopsInv
<1>3. CASE RoundStart
  BY <1>3 DEF RoundStart, Fatal, NewRecorder,
              Stationed, DispatcherInv, OperationsInv, FileInv, LoopsInv
<1>4. CASE RoundsOver
  BY <1>4, RunRoundAssumption
     DEF RoundsOver, Stationed, DispatcherInv, OperationsInv, FileInv, LoopsInv
<1>5. CASE DumpState
  <2>1. /\ cpc = "dump" /\ cpc' = "clients" /\ isOpen' = isOpen
        /\ npc' = IF mode = "sequential" THEN "recInvoke" ELSE npc
        /\ UNCHANGED <<mode, round, opc>>
    BY <1>5 DEF DumpState, Fatal, RecordState, record
  <2>2. QED
    BY <2>1 DEF Stationed, DispatcherInv, OperationsInv, FileInv, LoopsInv
<1>6. CASE ClientsWait
  <2>1. /\ cpc = "clients" /\ LoopsDone
        /\ mode = "standard" => cpc' = "waitNemesis"
        /\ mode = "sequential" => cpc' = "waitRound"
        /\ mode = "onSchedule" => cpc' = "close"
    BY <1>6, Zenon DEF ClientsWait, Fatal
  <2>2. UNCHANGED <<mode, round, opc, npc, isOpen, pc>>
    BY <1>6 DEF ClientsWait
  <2>3. QED
    BY <2>1, <2>2 DEF Stationed, DispatcherInv, OperationsInv, FileInv, LoopsInv
<1>7. CASE WaitRoundNemesis \/ WaitNemesis
  BY <1>7 DEF WaitRoundNemesis, WaitNemesis,
              Stationed, DispatcherInv, OperationsInv, FileInv, LoopsInv
<1>8. CASE CloseAndVerify
  BY <1>8 DEF CloseAndVerify, Close,
              Stationed, DispatcherInv, OperationsInv, FileInv, LoopsInv
<1>9. CASE Verifying
  BY <1>9 DEF Verifying, VerifyStep,
              Stationed, DispatcherInv, OperationsInv, FileInv, LoopsInv
<1>10. CASE VerifyEnd
  BY <1>10 DEF VerifyEnd, Fatal,
               Stationed, DispatcherInv, OperationsInv, FileInv, LoopsInv
<1>11. ASSUME NEW m \in Nodes \cup Clients, Exec(m) PROVE Goal
  BY <1>11 DEF Exec, Stationed, DispatcherInv, OperationsInv, FileInv, LoopsInv
<1>12. ASSUME NEW c \in Clients, Loop(c) PROVE Goal
  <2>1. isOpen' = isOpen
    BY <1>12, LoopKeepsOpen DEF Loop
  <2>2. QED
    BY <1>12, <2>1 DEF Loop, Stationed, DispatcherInv, OperationsInv, FileInv, LoopsInv
<1>13. ASSUME NEW c \in Clients, StandardStart(c) PROVE Goal
  BY <1>13 DEF StandardStart, Stationed, DispatcherInv, OperationsInv, FileInv, LoopsInv
<1>14. CASE Dispatch
  <2>1. /\ isOpen' = isOpen
        /\ UNCHANGED <<mode, cpc, round, pc>>
        /\ \/ /\ npc \in {"check", "next"} /\ npc' \in {"exit", "next", "generate", "check"}
              /\ opc' = opc
           \/ /\ npc = "generate" /\ npc' = "wait"
              /\ \E s : opc' = [o \in Operations |-> IF o \in s THEN "spawned" ELSE opc[o]]
           \/ npc = "wait" /\ npc' = "check" /\ opc' = opc /\ AllReturned
           \/ npc = "recInvoke" /\ npc' = "recGenerate" /\ opc' = opc
           \/ /\ npc = "recGenerate" /\ npc' = "recWait"
              /\ \E s : opc' = [o \in Operations |-> IF o \in s THEN "spawned" ELSE opc[o]]
           \/ npc = "recWait" /\ npc' = "exit" /\ opc' = opc /\ AllReturned
    BY <1>14 DEF Dispatch, DispatchStep, DispatchCheck, DispatchNext, DispatchGenerate,
                 DispatchWait, RecordedStep, RecordedInvoke, RecordedGenerate, RecordedWait,
                 RecordOrLog, RecordInvokeNemesis, RecordRecoverNemesis, record, Spawn
  <2>2. opc' \in [Operations -> {"none", "spawned", "running", "recover", "pause"}]
    BY <2>1 DEF OperationsInv
  <2>3. QED
    BY <2>1, <2>2 DEF Stationed, DispatcherInv, OperationsInv, FileInv, LoopsInv
<1>15. ASSUME NEW o \in Operations, Op(o) PROVE Goal
  <2>1. /\ UNCHANGED <<mode, cpc, round, pc, npc, isOpen>>
        /\ opc[o] # "none"
        /\ \E l \in {"none", "running", "recover", "pause"} : opc' = [opc EXCEPT ![o] = l]
    BY <1>15 DEF Op, OpStep, OpSkip, OpInvoke, OpRunTime, OpRecover, RecoverReturns, OpPause,
                 OpGoto
  <2>2. npc \in {"wait", "recWait"}
    BY <2>1 DEF OperationsInv
  <2>3. QED
    BY <2>1, <2>2 DEF Stationed, DispatcherInv, OperationsInv, FileInv, LoopsInv
<1>16. CASE Signal \/ RoundTimeout
  BY <1>16 DEF Signal, RoundTimeout,
               Stationed, DispatcherInv, OperationsInv, FileInv, LoopsInv
<1>17. CASE NemesisTimeout
  BY <1>17 DEF NemesisTimeout, NemesisContextDone,
               Stationed, DispatcherInv, OperationsInv, FileInv, LoopsInv
<1>18. CASE UNCHANGED allVars
  BY <1>18 DEF allVars, Stationed, DispatcherInv, OperationsInv, FileInv, LoopsInv
<1>19. QED
  BY <1>1, <1>2, <1>3, <1>4, <1>5, <1>6, <1>7, <1>8, <1>9, <1>10, <1>11, <1>12, <1>13,
     <1>14, <1>15, <1>16, <1>17, <1>18 DEF ControllerNext, Run, RunOver
-----------------------------------------------------------------------------
(* The rounds.  In standard mode there is no history; in the others the    *)
(* invariants of one round hold of each, whatever the nemesis records.     *)
Histories == SeqInv /\ OrderInv /\ CallsAnswered

RoundsInv ==
  /\ TypeOK /\ cancelled \in BOOLEAN
  /\ mode = "standard" => file = << >>
  /\ mode # "standard" => Histories
  /\ ~ fatal /\ cpc = "dump" => file = << >>

(* A file in which no client has written yet. *)
LEMMA FreshFile ==
  ASSUME \A i \in 1 .. Len(file') : file'[i].action = "dump",
         \A c \in Clients : pc'[c] \in {"start", "done"},
         DistinctProcIDs'
  PROVE  Histories'
<1>1. \A i \in 1 .. Len(file') : ~ IsClientRec(file'[i])
  BY DEF IsClientRec
<1>2. \A p, i : ~ Last(p, i)'
  BY <1>1 DEF Last, IsPrevious, Of
<1>3. RecordedIDsHandedOut' /\ InFlightHasCalled' /\ IdleHasReturned'
  BY <1>1, <1>2 DEF RecordedIDsHandedOut, InFlightHasCalled, IdleHasReturned
<1>4. HistorySequential'
  BY DEF HistorySequential, SequentialProcesses, SequentialAt
<1>5. OrderInv' /\ CallsAnswered'
  BY DEF OrderInv, ReturnsEnded, RecordedOrderIsReal, CallsAnswered
<1>6. QED
  BY <1>3, <1>4, <1>5 DEF Histories, SeqInv

(* A record of the nemesis belongs to no process. *)
LEMMA NemesisRecord ==
  ASSUME TypeOK, Histories, NEW r \in Records, ~ IsClientRec(r), file' = Append(file, r),
         UNCHANGED <<pc, proc, procID, req, ended, precedes>>
  PROVE  Histories'
<1>1. /\ file \in Seq(Records) /\ file' \in Seq(Records)
      /\ Len(file') = Len(file) + 1
      /\ \A i \in 1 .. Len(file) : file'[i] = file[i]
      /\ file'[Len(file) + 1] = r
  BY AppendAt DEF TypeOK
<1>2. /\ r.action # "call" /\ r.action # "return"
      /\ \A i \in 1 .. Len(file') :
           (i \in 1 .. Len(file) /\ file'[i] = file[i]) \/ file'[i] = r
  BY <1>1 DEF IsClientRec
<1>3. ASSUME NEW p, NEW i \in Int PROVE Last(p, i)' <=> Last(p, i)
  <2>1. IsPrevious(Append(file, r), p, Len(file) + 2, i) <=> IsPrevious(file, p, Len(file) + 1, i)
    BY <1>1, AppendLastOther
  <2>2. QED
    BY <1>1, <2>1 DEF Last
<1>4. ASSUME NEW p, NEW i \in Int, Last(p, i) PROVE i \in 1 .. Len(file) /\ file'[i] = file[i]
  BY <1>1, <1>4 DEF Last, IsPrevious, Of
<1>5. DistinctProcIDs'
  BY DEF Histories, SeqInv, DistinctProcIDs
<1>6. RecordedIDsHandedOut'
  BY <1>2 DEF Histories, SeqInv, RecordedIDsHandedOut
<1>7. InFlightHasCalled'
  <2> SUFFICES ASSUME NEW c \in Clients, pc[c] \in {"call", "wait", "response"}
               PROVE  \E i \in 1 .. Len(file') :
                        /\ Last(procID[c], i)'
                        /\ file'[i].action = "call" /\ file'[i].req = req[c]
    BY DEF InFlightHasCalled
  <2>1. PICK i \in 1 .. Len(file) : /\ Last(procID[c], i)
                                    /\ file[i].action = "call" /\ file[i].req = req[c]
    BY DEF Histories, SeqInv, InFlightHasCalled
  <2>2. i \in 1 .. Len(file') /\ i \in Int
    BY <1>1
  <2>3. QED
    BY <1>3, <1>4, <2>1, <2>2
<1>8. IdleHasReturned'
  <2> SUFFICES ASSUME NEW c \in Clients,
                      pc[c] \in {"head", "token", "request", "poll", "done"},
                      NEW i \in 1 .. Len(file'), Last(procID[c], i)'
               PROVE  file'[i].action = "return" /\ ~ file'[i].unknown
    BY DEF IdleHasReturned
  <2>1. i \in Int
    OBVIOUS
  <2>2. Last(procID[c], i)
    BY <1>3, <2>1
  <2>3. QED
    BY <1>4, <2>1, <2>2 DEF Histories, SeqInv, IdleHasReturned
<1>9. HistorySequential'
  <2>1. SequentialProcesses(Append(file, r))
    BY <1>1, <1>2, AppendSequential DEF Histories, SeqInv, HistorySequential
  <2>2. QED
    BY <2>1 DEF HistorySequential
<1>10. OrderInv'
  <2>1. ReturnsEnded'
    BY <1>2 DEF Histories, OrderInv, ReturnsEnded
  <2>2. RecordedOrderIsReal'
    BY <1>2 DEF Histories, OrderInv, RecordedOrderIsReal
  <2>3. QED
    BY <2>1, <2>2 DEF OrderInv
<1>11. CallsAnswered'
  <2> SUFFICES ASSUME NEW i \in 1 .. Len(file'), file'[i].action = "call"
               PROVE  \/ \E j \in i+1 .. Len(file') :
                           file'[j].action = "return" /\ file'[j].req = file'[i].req
                      \/ \E c \in Clients :
                           pc[c] \in {"call", "wait", "response"} /\ req[c] = file'[i].req
    BY DEF CallsAnswered
  <2>1. i \in 1 .. Len(file) /\ file'[i] = file[i]
    BY <1>2
  <2>2. ASSUME NEW j \in i+1 .. Len(file) PROVE j \in i+1 .. Len(file') /\ file'[j] = file[j]
    BY <1>1, <2>1
  <2>3. QED
    BY <2>1, <2>2 DEF Histories, CallsAnswered
<1>12. QED
  BY <1>5, <1>6, <1>7, <1>8, <1>9, <1>10, <1>11 DEF Histories, SeqInv

LEMMA RoundsInit == ControllerInit => RoundsInv
<1> SUFFICES ASSUME ControllerInit PROVE RoundsInv
  OBVIOUS
<1>1. file = << >> /\ \A c \in Clients : pc[c] = "start"
  BY DEF ControllerInit, RoundInit
<1>2. TypeOK
  <2>1. procID \in [Clients -> Nat] /\ \A c \in Clients : procID[c] <= proc
    BY DEF ControllerInit, RoundInit
  <2>2. /\ req \in [Clients -> Int]
        /\ requestCount \in Int
        /\ tpc \in [Clients -> {"sleep", "select", "send", "exited"}]
    BY RequestCountAssumption, ThrottleAssumption DEF ControllerInit, RoundInit, NoReq
  <2>3. file \in Seq(Records)
    BY <1>1
  <2>4. QED
    BY <1>1, <2>1, <2>2, <2>3 DEF ControllerInit, RoundInit, TypeOK, Labels
<1>3. Histories
  <2>1. 1 .. Len(file) = {}
    BY <1>1
  <2>2. RecordedIDsHandedOut /\ HistorySequential /\ RecordedOrderIsReal /\ CallsAnswered
    BY <2>1 DEF RecordedIDsHandedOut, HistorySequential, SequentialProcesses, RecordedOrderIsReal,
                CallsAnswered
  <2>3. DistinctProcIDs /\ InFlightHasCalled
    BY <1>1 DEF DistinctProcIDs, InFlightHasCalled
  <2>4. IdleHasReturned
    BY <2>1 DEF IdleHasReturned
  <2>5. ReturnsEnded
    BY <1>1, <2>1 DEF ReturnsEnded
  <2> QED BY <2>2, <2>3, <2>4, <2>5 DEF Histories, SeqInv, OrderInv
<1>4. QED
  BY <1>1, <1>2, <1>3 DEF RoundsInv, ControllerInit

(* A step of a loop is a step of the round. *)
LEMMA RoundsLoop ==
  ASSUME RoundsInv, NEW c \in Clients, Loop(c)
  PROVE  RoundsInv'
<1>1. [Next]_vars
  BY DEF Loop, Next
<1>2. TypeOK'
  BY <1>1, TypeNext DEF RoundsInv
<1>3. Histories'
  BY <1>1, <1>2, SeqNext, StepKinds, OrderNext, OutcomeNext DEF RoundsInv, Histories, Loop
<1>4. QED
  BY <1>2, <1>3 DEF RoundsInv, Loop, controllerVars

(* A step that leaves the loops and the file alone. *)
LEMMA RoundsQuiet ==
  ASSUME RoundsInv, UNCHANGED <<mode, file, loopVars, tickerVars, ghostVars>>,
         cpc' = cpc \/ cpc' # "dump",
         isOpen' \in BOOLEAN, fatal' \in BOOLEAN, ctxDone' \in BOOLEAN,
         cancelled' \in BOOLEAN, fatal => fatal'
  PROVE  RoundsInv'
<1> USE DEF loopVars, tickerVars, ghostVars
<1>1. TypeOK'
  BY DEF RoundsInv, TypeOK
<1>2. SeqInv => SeqInv'
  BY DEF SeqInv, DistinctProcIDs, RecordedIDsHandedOut, InFlightHasCalled,
         IdleHasReturned, HistorySequential, Last
<1>3. OrderInv /\ CallsAnswered => OrderInv' /\ CallsAnswered'
  <2>1. ReturnsEnded' <=> ReturnsEnded
    BY DEF ReturnsEnded
  <2>2. RecordedOrderIsReal' <=> RecordedOrderIsReal
    BY DEF RecordedOrderIsReal
  <2>3. CallsAnswered' <=> CallsAnswered
    BY DEF CallsAnswered
  <2> QED BY <2>1, <2>2, <2>3 DEF OrderInv
<1>4. QED
  BY <1>1, <1>2, <1>3 DEF RoundsInv, Histories

LEMMA RoundsNext == Life /\ RoundsInv /\ [ControllerNext]_allVars => RoundsInv'
<1> SUFFICES ASSUME Life, RoundsInv, [ControllerNext]_allVars PROVE RoundsInv'
  OBVIOUS
<1> USE DEF CAt, recorderVars, clientVars, nemesisVars, opVars, controllerVars
<1>0. /\ isOpen \in BOOLEAN /\ fatal \in BOOLEAN /\ ctxDone \in BOOLEAN
      /\ cancelled \in BOOLEAN
  BY DEF RoundsInv, TypeOK
<1>1. CASE UNCHANGED allVars
  BY <1>0, <1>1, RoundsQuiet DEF allVars
<1>2. CASE fatal
  BY <1>1, <1>2, FatalIsFinal
<1>3. CASE ~ fatal
  <2>0. Stationed /\ DispatcherInv /\ LoopsInv
    BY <1>3 DEF Life
  <2> USE <1>0, <1>3
  <2>1. CASE ExecWait
    <3>1. cpc' # "dump"
      BY <2>1, Zenon DEF ExecWait, AfterExec
    <3>2. QED
      BY <2>1, <3>1, RoundsQuiet DEF ExecWait
  <2>2. CASE NextGen \/ RoundsOver \/ WaitRoundNemesis \/ WaitNemesis
    BY <2>2, RoundsQuiet DEF NextGen, RoundsOver, WaitRoundNemesis, WaitNemesis
  <2>3. CASE RoundStart
    <3>1. CASE Fatal /\ UNCHANGED <<cpc, recorderVars, ctxDone, nctxDone>>
      BY <2>3, <3>1, RoundsQuiet DEF RoundStart, Fatal
    <3>2. CASE NewRecorder /\ ctxDone' = cancelled /\ UNCHANGED fatal
      <4>1. /\ file' = << >> /\ isOpen' = TRUE
            /\ UNCHANGED <<mode, cancelled, loopVars, tickerVars, ghostVars>>
        BY <2>3, <3>2 DEF RoundStart, NewRecorder
      <4>2. TypeOK'
        BY <3>2, <4>1 DEF RoundsInv, TypeOK, loopVars, tickerVars, ghostVars
      <4>3. mode # "standard"
        BY <2>0, <2>3 DEF RoundStart, Stationed, SettingUp, TearingDown
      <4>4. DistinctProcIDs'
        BY <4>1, <4>3 DEF RoundsInv, Histories, SeqInv, DistinctProcIDs, loopVars
      <4>5. \A c \in Clients : pc'[c] \in {"start", "done"}
        BY <2>0, <2>3, <4>1 DEF RoundStart, LoopsInv, loopVars
      <4>6. Len(file') = 0
        BY <4>1
      <4>7. Histories'
        BY <4>4, <4>5, <4>6, FreshFile
      <4>8. QED
        BY <4>1, <4>2, <4>7 DEF RoundsInv
    <3>3. QED
      BY <2>3, <3>1, <3>2 DEF RoundStart
  <2>4. CASE DumpState
    <3>1. CASE Fatal
      BY <2>4, <3>1, RoundsQuiet DEF DumpState, Fatal, RoundBegin
    <3>2. CASE ~ Fatal
      <4>1. /\ RoundBegin /\ UNCHANGED <<mode, cancelled, ctxDone, fatal>>
            /\ cpc = "dump" /\ cpc' = "clients"
            /\ RecordState \/ UNCHANGED recorderVars
        BY <2>4, <3>2 DEF DumpState
      <4>2. file = << >>
        BY <4>1 DEF RoundsInv
      <4>3. DumpRec \in Records /\ DumpRec.action = "dump"
        BY DEF DumpRec, Rec, Records, Actions, NoReq
      <4>4. file' = << >> \/ file' = << DumpRec >>
        BY <4>1, <4>2 DEF RecordState, record
      <4>5. /\ file' \in Seq(Records) /\ isOpen' \in BOOLEAN
            /\ \A i \in 1 .. Len(file') : file'[i].action = "dump"
        <5>1. << DumpRec >> \in Seq(Records) /\ << >> \in Seq(Records)
          BY <4>3
        <5>2. /\ \A i \in 1 .. Len(<< DumpRec >>) : << DumpRec >>[i].action = "dump"
              /\ \A i \in 1 .. Len(<< >>) : << >>[i].action = "dump"
          BY <4>3
        <5>3. isOpen' \in BOOLEAN
          BY <4>1 DEF RecordState, record
        <5>4. QED
          BY <4>4, <5>1, <5>2, <5>3
      <4>6. TypeOK'
        <5>1. procID' \in [Clients -> Nat] /\ \A c \in Clients : procID'[c] <= proc'
          BY <4>1 DEF RoundBegin
        <5>2. /\ req' \in [Clients -> Int]
              /\ requestCount' \in Int
              /\ tpc' \in [Clients -> {"sleep", "select", "send", "exited"}]
          BY <4>1, RequestCountAssumption, ThrottleAssumption DEF RoundBegin, NoReq
        <5>3. QED
          BY <4>1, <4>5, <5>1, <5>2 DEF RoundBegin, TypeOK, Labels
      <4>7. \A c \in Clients : pc'[c] = "start"
        BY <4>1 DEF RoundBegin
      <4>8. DistinctProcIDs'
        BY <4>7 DEF DistinctProcIDs
      <4>9. Histories'
        BY <4>5, <4>7, <4>8, FreshFile
      <4>10. mode # "standard"
        BY <2>0, <4>1 DEF Stationed, SettingUp, TearingDown
      <4>11. QED
        BY <4>1, <4>6, <4>9, <4>10 DEF RoundsInv
    <3>3. QED
      BY <3>1, <3>2
  <2>5. CASE ClientsWait
    <3>1. cpc' = cpc \/ cpc' # "dump"
      BY <2>5, Zenon DEF ClientsWait
    <3>2. QED
      BY <2>5, <3>1, RoundsQuiet DEF ClientsWait, Fatal
  <2>6. CASE CloseAndVerify \/ Verifying \/ VerifyEnd
    BY <2>6, RoundsQuiet DEF CloseAndVerify, Close, Verifying, VerifyStep, VerifyEnd, Fatal
  <2>7. ASSUME NEW m \in Nodes \cup Clients, Exec(m) PROVE RoundsInv'
    BY <2>7, RoundsQuiet DEF Exec
  <2>8. ASSUME NEW c \in Clients, StandardStart(c) PROVE RoundsInv'
    <3>1. /\ mode = "standard" /\ cpc = "clients"
          /\ UNCHANGED <<mode, cpc, cancelled, file>>
      BY <2>8 DEF StandardStart
    <3>2. TypeOK'
      BY <2>8 DEF StandardStart, Goto, RoundsInv, TypeOK, Labels, tickerVars, ghostVars
    <3>3. QED
      BY <3>1, <3>2 DEF RoundsInv
  <2>9. CASE Dispatch
    <3>1. CASE UNCHANGED recorderVars
      BY <2>9, <3>1, RoundsQuiet DEF Dispatch
    <3>2. CASE RecordInvokeNemesis \/ RecordRecoverNemesis
      <4>1. PICK a \in {"nemesis", "recover"} : record(Rec(a, -1, NoReq, FALSE))
        BY <3>2 DEF RecordInvokeNemesis, RecordRecoverNemesis
      <4> DEFINE r == Rec(a, -1, NoReq, FALSE)
      <4>2. r \in Records /\ ~ IsClientRec(r)
        BY DEF Rec, Records, Actions, NoReq, IsClientRec
      <4>3. isOpen /\ file' = Append(file, r) /\ isOpen' = isOpen
        BY <4>1 DEF record
      <4> HIDE DEF r
      <4>4. UNCHANGED <<mode, cpc, cancelled, clientVars>>
        BY <2>9 DEF Dispatch
      <4>5. TypeOK'
        BY <4>2, <4>3, <4>4, AppendAt DEF RoundsInv, TypeOK, loopVars, tickerVars, ghostVars
      <4>6. mode # "standard" /\ cpc # "dump"
        <5>1. file' # file
          BY <4>2, <4>3, AppendAt DEF RoundsInv, TypeOK
        <5>2. npc \in Recording
          BY <2>9, <5>1 DEF Dispatch, DispatchStep, DispatchCheck, DispatchNext,
                 DispatchGenerate, DispatchWait, RecordedStep, RecordedInvoke,
                 RecordedGenerate, RecordedWait, Recording
        <5>3. QED
          BY <2>0, <5>2 DEF DispatcherInv, Dispatching, Recording
      <4>7. Histories'
        BY <4>2, <4>3, <4>4, <4>6, NemesisRecord DEF RoundsInv, loopVars, ghostVars
      <4>8. QED
        BY <4>4, <4>5, <4>6, <4>7 DEF RoundsInv
    <3>3. QED
      BY <2>9, <3>1, <3>2
         DEF Dispatch, DispatchStep, DispatchCheck, DispatchNext, DispatchGenerate,
             DispatchWait, RecordedStep, RecordedInvoke, RecordedGenerate, RecordedWait,
             RecordOrLog
  <2>10. ASSUME NEW o \in Operations, Op(o) PROVE RoundsInv'
    BY <2>10, RoundsQuiet
       DEF Op, OpStep, OpSkip, OpInvoke, OpRunTime, OpRecover, OpPause
  <2>11. CASE Signal \/ RoundTimeout \/ NemesisTimeout
    BY <2>11, RoundsQuiet DEF Signal, RoundTimeout, NemesisTimeout, NemesisContextDone
  <2>12. QED
    BY <1>1, <2>1, <2>2, <2>3, <2>4, <2>5, <2>6, <2>7, <2>8, <2>9, <2>10, <2>11, RoundsLoop
       DEF ControllerNext, Run, RunOver
<1>4. QED
  BY <1>2, <1>3
-----------------------------------------------------------------------------
ControllerInv == Life /\ RoundsInv

LEMMA ControllerInvariant == ControllerSpec => []ControllerInv
<1>1. ControllerInit => ControllerInv
  BY LifeInit, RoundsInit DEF ControllerInv
<1>2. ControllerInv /\ [ControllerNext]_allVars => ControllerInv'
  BY LifeNext, RoundsNext DEF ControllerInv, RoundsInv
<1>3. QED
  BY <1>1, <1>2, PTL DEF ControllerSpec

(* In every mode, with any number of rounds, clients and operations, Run   *)
(* tears down only when the loops, the dispatcher and every recovery have  *)
(* ended and no history file is open.                                      *)
THEOREM TearDownIsQuiet == ControllerSpec => []TearDownQuiet
<1>1. ControllerInv => TearDownQuiet
  BY DEF ControllerInv, Life, DispatcherInv, OperationsInv, FileInv, LoopsInv, TearDownQuiet,
         TearingDown, SettingUp
<1>2. QED
  BY <1>1, ControllerInvariant, PTL

(* A loop or a recording nemesis never finds the file of its round closed. *)
THEOREM WritersAlwaysHaveFile == ControllerSpec => []WritersHaveFile
<1>1. ControllerInv => WritersHaveFile
  BY DEF ControllerInv, Life, DispatcherInv, FileInv, WritersHaveFile, CAt, Recording,
         Dispatching
<1>2. QED
  BY <1>1, ControllerInvariant, PTL

(* The histories of all rounds of a run, with the records of a nemesis     *)
(* among those of the clients, are sequential for every process.           *)
THEOREM EveryRoundIsSequential == ControllerSpec => []HistorySequential
<1>1. ControllerInv => HistorySequential
  BY DEF ControllerInv, RoundsInv, Histories, SeqInv, HistorySequential, SequentialProcesses
<1>2. QED
  BY <1>1, ControllerInvariant, PTL

(* In every round a return recorded before a call is the return of an      *)
(* Invoke that had ended before the called one began, also where nemesis   *)
(* records stand between the two.                                          *)
THEOREM EveryRoundIsOrdered == ControllerSpec => []RecordedOrderIsReal
<1>1. ControllerInv => RecordedOrderIsReal
  <2> SUFFICES ASSUME ControllerInv PROVE RecordedOrderIsReal
    OBVIOUS
  <2>1. CASE mode = "standard"
    <3>1. Len(file) = 0
      BY <2>1 DEF ControllerInv, RoundsInv
    <3>2. QED
      BY <3>1 DEF RecordedOrderIsReal
  <2>2. CASE mode # "standard"
    BY <2>2 DEF ControllerInv, RoundsInv, Histories, OrderInv
  <2>3. QED
    BY <2>1, <2>2
<1>2. QED
  BY <1>1, ControllerInvariant, PTL

(* When the loops of a round have returned, every call in its file has its *)
(* return.                                                                 *)
THEOREM EveryRoundHasOutcomes == ControllerSpec => []OutcomesRecorded
<1>1. ControllerInv => OutcomesRecorded
  BY DEF ControllerInv, RoundsInv, Histories, CallsAnswered, OutcomesRecorded, LoopsDone
<1>2. QED
  BY <1>1, ControllerInvariant, PTL
-----------------------------------------------------------------------------
(* The records of the nemesis come in pairs unless one was lost, and a     *)
(* dumped state stands at the head of the file or nowhere.                 *)
NemesisRecs == {i \in 1 .. Len(file) : file[i].action \in {"nemesis", "recover"}}

Halfway == npc \in {"recGenerate", "recWait"}

NemesisInv ==
  /\ \A i \in 1 .. Len(file) : file[i].action = "dump" => i = 1
  /\ ~ fatal /\ ~ unrecorded => Cardinality(NemesisRecs) % 2 = IF Halfway THEN 1 ELSE 0

(* What a step does to the file and to what its nemesis records say. *)
FileStays == file' = file /\ (unrecorded' = TRUE \/ (unrecorded' = unrecorded /\ (Halfway' <=> Halfway)))

ClientWrites ==
  /\ \E r \in Records : IsClientRec(r) /\ file' = Append(file, r)
  /\ UNCHANGED <<unrecorded, npc>>

NemesisWrites ==
  /\ \E r \in Records : r.action \in {"nemesis", "recover"} /\ file' = Append(file, r)
  /\ unrecorded' = unrecorded /\ (Halfway' <=> ~ Halfway)

FileIsNew ==
  /\ file' = << >> \/ file' = << DumpRec >>
  /\ ~ Halfway'

LEMMA FileKinds ==
  ASSUME ControllerInv, [ControllerNext]_allVars
  PROVE  FileStays \/ ClientWrites \/ NemesisWrites \/ FileIsNew
<1> USE DEF CAt, recorderVars, clientVars, nemesisVars, opVars, controllerVars
<1>1. CASE UNCHANGED allVars
  BY <1>1 DEF allVars, FileStays, Halfway
<1>2. CASE fatal
  BY <1>1, <1>2, FatalIsFinal
<1>3. CASE ~ fatal
  <2>0. Stationed /\ DispatcherInv
    BY <1>3 DEF ControllerInv, Life
  <2>1. CASE ExecWait
    <3>1. npc' = npc \/ (npc' = "check" /\ npc = "exit")
      BY <2>0, <2>1 DEF ExecWait, DispatcherInv, SettingUp
    <3>2. QED
      BY <2>1, <3>1 DEF ExecWait, FileStays, Halfway
  <2>2. CASE NextGen \/ RoundsOver \/ WaitRoundNemesis \/ WaitNemesis \/ ClientsWait
    BY <2>2 DEF NextGen, RoundsOver, WaitRoundNemesis, WaitNemesis, ClientsWait,
                FileStays, Halfway
  <2>3. CASE RoundStart
    <3>1. ~ Halfway
      BY <2>0, <2>3 DEF RoundStart, DispatcherInv, Recording, Halfway
    <3>2. QED
      BY <2>3, <3>1 DEF RoundStart, NewRecorder, FileStays, FileIsNew, Halfway
  <2>4. CASE DumpState
    <3>0. file = << >>
      BY <1>3, <2>4 DEF ControllerInv, RoundsInv, DumpState
    <3>1. ~ Halfway
      BY <2>0, <2>4 DEF DumpState, DispatcherInv, Recording, Halfway
    <3>2. CASE UNCHANGED <<file, npc, unrecorded>>
      BY <3>2 DEF FileStays, Halfway
    <3>3. CASE /\ RecordState \/ UNCHANGED recorderVars
               /\ npc' = IF mode = "sequential" THEN "recInvoke" ELSE npc
      <4>1. file' = << >> \/ file' = << DumpRec >>
        BY <3>0, <3>3 DEF RecordState, record
      <4>2. QED
        BY <3>1, <3>3, <4>1 DEF FileIsNew, Halfway
    <3>4. QED
      BY <2>4, <3>2, <3>3 DEF DumpState
  <2>5. CASE CloseAndVerify \/ Verifying \/ VerifyEnd
    BY <2>5 DEF CloseAndVerify, Close, Verifying, VerifyStep, VerifyEnd, FileStays, Halfway
  <2>6. ASSUME NEW m \in Nodes \cup Clients, Exec(m)
        PROVE  FileStays
    BY <2>6 DEF Exec, FileStays, Halfway
  <2>7. ASSUME NEW c \in Clients, StandardStart(c)
        PROVE  FileStays
    BY <2>7 DEF StandardStart, FileStays, Halfway
  <2>8. ASSUME NEW c \in Clients, Loop(c)
        PROVE  FileStays \/ ClientWrites
    <3>1. [Next]_vars /\ TypeOK /\ UNCHANGED <<npc, unrecorded>>
      BY <2>8 DEF Loop, Next, ControllerInv, RoundsInv
    <3>2. StepKind
      BY <3>1, StepKinds
    <3>3. file' = file \/ \E r \in Records : IsClientRec(r) /\ file' = Append(file, r)
      BY <3>2 DEF StepKind, Rests, Draws, Begins, Ends, Appends, IsClientRec
    <3>4. QED
      BY <3>1, <3>3 DEF FileStays, ClientWrites, Halfway
  <2>9. CASE Dispatch
    <3>1. CASE UNCHANGED recorderVars
      <4>1. file \in Seq(Records)
        BY DEF ControllerInv, RoundsInv, TypeOK
      <4>2. \A r : file # Append(file, r)
        BY <4>1
      <4>3. ~ RecordInvokeNemesis /\ ~ RecordRecoverNemesis
        BY <3>1, <4>2 DEF RecordInvokeNemesis, RecordRecoverNemesis, record
      <4>4. \/ unrecorded' = TRUE
            \/ unrecorded' = unrecorded /\ npc \notin {"recInvoke", "recWait"}
               /\ npc' \notin {"recInvoke", "recGenerate"}
               /\ (npc' = "recWait" <=> npc = "recGenerate")
        BY <2>9, <4>3
           DEF Dispatch, DispatchStep, DispatchCheck, DispatchNext, DispatchGenerate,
               DispatchWait, RecordedStep, RecordedInvoke, RecordedGenerate, RecordedWait,
               RecordOrLog
      <4>5. QED
        BY <3>1, <4>4 DEF FileStays, Halfway
    <3>2. CASE RecordInvokeNemesis \/ RecordRecoverNemesis
      <4>1. Rec("nemesis", -1, NoReq, FALSE) \in Records /\ Rec("recover", -1, NoReq, FALSE) \in Records
        BY DEF Rec, Records, Actions, NoReq
      <4>2. /\ Rec("nemesis", -1, NoReq, FALSE).action = "nemesis"
            /\ Rec("recover", -1, NoReq, FALSE).action = "recover"
        BY DEF Rec
      <4>3. \E r \in Records : r.action \in {"nemesis", "recover"} /\ file' = Append(file, r)
        BY <3>2, <4>1, <4>2 DEF RecordInvokeNemesis, RecordRecoverNemesis, record
      <4>4. QED
        BY <2>9, <3>1, <4>3
           DEF Dispatch, DispatchStep, DispatchCheck, DispatchNext, DispatchGenerate,
             DispatchWait, RecordedStep, RecordedInvoke, RecordedGenerate, RecordedWait,
             RecordOrLog, NemesisWrites, Halfway
    <3>3. QED
      BY <2>9, <3>1, <3>2
         DEF Dispatch, DispatchStep, DispatchCheck, DispatchNext, DispatchGenerate,
             DispatchWait, RecordedStep, RecordedInvoke, RecordedGenerate, RecordedWait,
             RecordOrLog
  <2>10. ASSUME NEW o \in Operations, Op(o) PROVE FileStays
    BY <2>10 DEF Op, OpStep, OpSkip, OpInvoke, OpRunTime, OpRecover, OpPause, FileStays, Halfway
  <2>11. CASE Signal \/ RoundTimeout \/ NemesisTimeout
    BY <2>11 DEF Signal, RoundTimeout, NemesisTimeout, NemesisContextDone, FileStays, Halfway
  <2>12. QED
    BY <1>1, <2>1, <2>2, <2>3, <2>4, <2>5, <2>6, <2>7, <2>8, <2>9, <2>10, <2>11
       DEF ControllerNext, Run, RunOver
<1>4. QED
  BY <1>2, <1>3

LEMMA RecsFinite ==
  ASSUME NEW h \in Seq(Records), NEW A
  PROVE  LET S == {i \in 1 .. Len(h) : h[i].action \in A}
         IN  IsFiniteSet(S) /\ Cardinality(S) \in Nat
<1> DEFINE S == {i \in 1 .. Len(h) : h[i].action \in A}
<1>1. IsFiniteSet(1 .. Len(h))
  BY FS_Interval
<1>2. S \in SUBSET (1 .. Len(h))
  OBVIOUS
<1>3. IsFiniteSet(S)
  BY <1>1, <1>2, FS_Subset
<1>4. QED
  BY <1>3, FS_CardinalityType

LEMMA NemesisNext == ControllerInv /\ NemesisInv /\ [ControllerNext]_allVars => NemesisInv'
<1> SUFFICES ASSUME ControllerInv, NemesisInv, [ControllerNext]_allVars PROVE NemesisInv'
  OBVIOUS
<1>0. file \in Seq(Records) /\ (fatal => fatal')
  BY FatalIsFinal DEF ControllerInv, RoundsInv, TypeOK, allVars, clientVars
<1>1. CASE FileStays
  <2>1. NemesisRecs' = NemesisRecs
    BY <1>1 DEF FileStays, NemesisRecs
  <2>2. QED
    BY <1>0, <1>1, <2>1 DEF FileStays, NemesisInv
<1>2. CASE FileIsNew
  <2>1. DumpRec.action = "dump"
    BY DEF DumpRec, Rec
  <2>2. Len(file') \in {0, 1} /\ \A i \in 1 .. Len(file') : file'[i].action = "dump" /\ i = 1
    BY <1>2, <2>1 DEF FileIsNew
  <2>3. NemesisRecs' = {}
    BY <2>2 DEF NemesisRecs
  <2>4. Cardinality(NemesisRecs') = 0
    BY <2>3, FS_EmptySet
  <2>5. QED
    BY <1>2, <2>2, <2>4 DEF FileIsNew, NemesisInv
<1>3. ASSUME NEW r \in Records, file' = Append(file, r)
      PROVE  /\ NemesisRecs' = NemesisRecs \cup
                  (IF r.action \in {"nemesis", "recover"} THEN {Len(file) + 1} ELSE {})
             /\ Len(file) + 1 \notin NemesisRecs
             /\ r.action # "dump" => \A i \in 1 .. Len(file') : file'[i].action = "dump" => i = 1
  <2>1. /\ Len(file') = Len(file) + 1
        /\ \A i \in 1 .. Len(file) : file'[i] = file[i]
        /\ file'[Len(file) + 1] = r
    BY <1>0, <1>3, AppendAt
  <2>2. \A i : i \in 1 .. Len(file') <=> i \in 1 .. Len(file) \/ i = Len(file) + 1
    BY <1>0, <2>1
  <2>3. QED
    BY <1>0, <2>1, <2>2 DEF NemesisRecs, NemesisInv
<1>4. CASE ClientWrites
  <2>1. PICK r \in Records : IsClientRec(r) /\ file' = Append(file, r)
    BY <1>4 DEF ClientWrites
  <2>2. NemesisRecs' = NemesisRecs
    BY <1>3, <2>1 DEF IsClientRec
  <2>3. \A i \in 1 .. Len(file') : file'[i].action = "dump" => i = 1
    BY <1>3, <2>1 DEF IsClientRec
  <2>4. QED
    BY <1>0, <1>4, <2>2, <2>3 DEF ClientWrites, NemesisInv, Halfway
<1>5. CASE NemesisWrites
  <2>1. PICK r \in Records : r.action \in {"nemesis", "recover"} /\ file' = Append(file, r)
    BY <1>5 DEF NemesisWrites
  <2>2. NemesisRecs' = NemesisRecs \cup {Len(file) + 1} /\ Len(file) + 1 \notin NemesisRecs
    BY <1>3, <2>1
  <2>3. \A i \in 1 .. Len(file') : file'[i].action = "dump" => i = 1
    BY <1>3, <2>1
  <2>4. IsFiniteSet(NemesisRecs) /\ Cardinality(NemesisRecs) \in Nat
    BY <1>0, RecsFinite DEF NemesisRecs
  <2>5. Cardinality(NemesisRecs') = Cardinality(NemesisRecs) + 1
    BY <2>2, <2>4, FS_AddElement
  <2>6. \A n \in Nat : (n % 2 = 0 => (n + 1) % 2 = 1) /\ (n % 2 = 1 => (n + 1) % 2 = 0)
    OBVIOUS
  <2>7. QED
    BY <1>0, <1>5, <2>3, <2>4, <2>5, <2>6 DEF NemesisWrites, NemesisInv
<1>6. QED
  BY <1>1, <1>2, <1>4, <1>5, FileKinds
=============================================================================

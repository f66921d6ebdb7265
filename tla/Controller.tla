----------------------------- MODULE Controller -----------------------------
(***************************************************************************)
(* control.Controller.Run in its three modes: set up the database and the  *)
(* clients, run rounds of client loops beside a nemesis dispatcher, close  *)
(* and verify each round's history, tear down.  A signal cancels c.ctx at  *)
(* any time; log.Fatalf ends the process and everything in it.             *)
(***************************************************************************)
EXTENDS ClientHistory, Verify, NemesisDispatch

CONSTANTS
  Nodes,        \* cfg.Nodes
  Modes,        \* what cfg.Mode may be
  RunRound      \* cfg.RunRound

ASSUME ModesAssumption == Modes \subseteq {"standard", "onSchedule", "sequential"}
ASSUME RunRoundAssumption == RunRound \in Nat \ {0}

VARIABLES
  mode,         \* cfg.Mode, which nothing changes
  cpc,          \* where Run stands
  up,           \* the nodes and clients whose goroutine has done its part
  round,        \* the round, counted from 1
  cancelled,    \* c.ctx is done
  startErr      \* a client's Start returned an error

controllerVars == <<mode, cpc, up, round, cancelled, startErr>>
allVars == <<controllerVars, recorderVars, clientVars, verifyVars, nemesisVars>>

ControllerInit ==
  /\ mode \in Modes
  /\ cpc = "setUpDB" /\ up = {} /\ round = 0
  /\ cancelled = FALSE /\ startErr = FALSE
  /\ file = << >> /\ isOpen = FALSE
  /\ RoundInit /\ ctxDone = FALSE /\ fatal = FALSE
  /\ VerifyIdle
  /\ NemesisInit("exit")

CAt(l) == ~ fatal /\ cpc = l
Fatal == fatal' = TRUE
-----------------------------------------------------------------------------
(* syncNodeExec and syncClientExec run one goroutine per member and wait   *)
(* for all of them.  Setting up may fail and end the process; a tear down  *)
(* that fails is logged.                                                   *)
ExecMembers ==
  CASE cpc \in {"setUpDB", "tearDownDB"} -> Nodes
    [] cpc \in {"setUpClient", "tearDownClient"} -> Clients
    [] OTHER -> {}

Exec(m) ==
  /\ ~ fatal
  /\ m \in ExecMembers \ up
  /\ up' = up \cup {m}
  /\ fatal' \in (IF cpc \in {"setUpDB", "setUpClient"} THEN BOOLEAN ELSE {FALSE})
  /\ UNCHANGED <<mode, cpc, round, cancelled, startErr, recorderVars, loopVars, tickerVars,
                 ctxDone, ghostVars, verifyVars, nemesisVars>>

(* After setUpClient come setUpPlugin and, except in sequential mode, the  *)
(* goroutine of dispatchNemesis.                                           *)
AfterExec ==
  CASE cpc = "setUpDB" -> "setUpClient"
    [] cpc = "setUpClient" -> (IF mode = "standard" THEN "clients"
                               ELSE IF mode = "onSchedule" THEN "round" ELSE "nextGen")
    [] cpc = "tearDownClient" -> "tearDownDB"
    [] cpc = "tearDownDB" -> "done"

ExecWait ==
  /\ ~ fatal
  /\ cpc \in {"setUpDB", "setUpClient", "tearDownClient", "tearDownDB"}
  /\ up = ExecMembers
  /\ up' = {}
  /\ cpc' = AfterExec
  /\ npc' = IF cpc = "setUpClient" /\ mode # "sequential" THEN "check" ELSE npc
  /\ nctxDone' = IF cpc = "setUpClient" THEN cancelled ELSE nctxDone
  /\ UNCHANGED <<mode, round, cancelled, startErr, recorderVars, clientVars, verifyVars,
                 idx, gen, opVars, unrecorded>>

(* RunWithNemesisSequential: the next generator, whose rounds start anew,  *)
(* or none.                                                                *)
NextGen ==
  /\ CAt("nextGen")
  /\ IF idx < Len(Generators)
     THEN idx' = idx + 1 /\ gen' = idx + 1 /\ cpc' = "round" /\ round' = 0
     ELSE cpc' = "tearDownClient" /\ UNCHANGED <<idx, gen, round>>
  /\ UNCHANGED <<mode, up, cancelled, startErr, recorderVars, clientVars, verifyVars,
                 npc, opVars, nctxDone, unrecorded>>

(* A round: its context, a new history file, its counters.  In sequential  *)
(* mode the round's context is also the nemesis's.                         *)
RoundStart ==
  /\ CAt("round")
  /\ round < RunRound
  /\ round' = round + 1
  /\ \/ /\ NewRecorder
        /\ ctxDone' = cancelled
        /\ nctxDone' = IF mode = "sequential" THEN cancelled ELSE nctxDone
        /\ cpc' = "dump"
        /\ UNCHANGED fatal
     \/ Fatal /\ UNCHANGED <<cpc, recorderVars, ctxDone, nctxDone>>
  /\ UNCHANGED <<mode, up, cancelled, startErr, loopVars, tickerVars, ghostVars, verifyVars,
                 npc, idx, gen, opVars, unrecorded>>

(* The last round is over: ncancel() and nemesisWg.Wait(), or the next     *)
(* generator.                                                              *)
RoundsOver ==
  /\ CAt("round")
  /\ round = RunRound
  /\ cpc' = IF mode = "onSchedule" THEN "waitNemesis" ELSE "nextGen"
  /\ nctxDone' = IF mode = "onSchedule" THEN TRUE ELSE nctxDone
  /\ UNCHANGED <<mode, up, round, cancelled, startErr, recorderVars, clientVars, verifyVars,
                 npc, idx, gen, opVars, unrecorded>>

(* dumpState polls until a DumpState succeeds, its context is done or half *)
(* an hour has passed; the last two end the process.  The error of Record- *)
(* State is not looked at.  Then the round's goroutines start.             *)
DumpState ==
  /\ CAt("dump")
  /\ \/ /\ RecordState \/ UNCHANGED recorderVars
        /\ RoundBegin
        /\ npc' = IF mode = "sequential" THEN "recInvoke" ELSE npc
        /\ unrecorded' = FALSE
        /\ cpc' = "clients"
        /\ UNCHANGED fatal
     \/ /\ Fatal
        /\ UNCHANGED <<cpc, recorderVars, loopVars, tickerVars, ghostVars, npc, unrecorded>>
  /\ UNCHANGED <<mode, up, round, cancelled, startErr, ctxDone, verifyVars,
                 idx, gen, opVars, nctxDone>>

(* The client goroutines.  In standard mode a client's Start takes over    *)
(* and returns some day; a client beyond ClientCount is one whose Start    *)
(* would return nil at once.                                               *)
Loop(c) ==
  /\ cpc = "clients" /\ mode # "standard"
  /\ LoopStep(c) \/ TickerStep(c)
  /\ UNCHANGED <<controllerVars, verifyVars, nemesisVars>>

StandardStart(c) ==
  /\ CAt("clients") /\ mode = "standard"
  /\ pc[c] = "start"
  /\ Goto(c, "done")
  /\ \E b \in BOOLEAN : startErr' = (startErr \/ b)
  /\ UNCHANGED <<mode, cpc, up, round, cancelled, recorderVars, proc, requestCount, procID, req,
                 isUnknown, tickerVars, ctxDone, fatal, ghostVars, verifyVars, nemesisVars>>

(* clientWg.Wait(), then cancel(); in standard mode g.Wait(), whose error  *)
(* ends the process, then nCancel().                                       *)
ClientsWait ==
  /\ CAt("clients")
  /\ LoopsDone
  /\ \/ /\ startErr
        /\ Fatal
        /\ UNCHANGED <<cpc, ctxDone, nctxDone>>
     \/ /\ ~ startErr
        /\ cpc' = CASE mode = "standard"   -> "waitNemesis"
                    [] mode = "sequential" -> "waitRound"
                    [] OTHER               -> "close"
        /\ ctxDone' = TRUE
        /\ nctxDone' = (nctxDone \/ mode # "onSchedule")
        /\ UNCHANGED fatal
  /\ UNCHANGED <<mode, up, round, cancelled, startErr, recorderVars, loopVars, tickerVars,
                 ghostVars, verifyVars, npc, idx, gen, opVars, unrecorded>>

(* Mutant of WaitRoundNemesis: the round's nemesis is not waited for. *)
SkipRoundNemesis ==
  /\ CAt("waitRound")
  /\ cpc' = "close"
  /\ UNCHANGED <<mode, up, round, cancelled, startErr, recorderVars, clientVars, verifyVars,
                 nemesisVars>>

(* nemesisWg.Wait() of a sequential round. *)
WaitRoundNemesis ==
  /\ CAt("waitRound")
  /\ npc = "exit"
  /\ cpc' = "close"
  /\ UNCHANGED <<mode, up, round, cancelled, startErr, recorderVars, clientVars, verifyVars,
                 nemesisVars>>

(* recorder.Close() and c.suit.Verify(historyFile). *)
CloseAndVerify ==
  /\ CAt("close")
  /\ Close
  /\ Begin
  /\ cpc' = "verify"
  /\ UNCHANGED <<mode, up, round, cancelled, startErr, clientVars, nemesisVars>>

Verifying ==
  /\ CAt("verify")
  /\ VerifyStep
  /\ UNCHANGED <<controllerVars, clientVars, nemesisVars>>

(* Verify returns only for a valid history.  Then c.ctx is looked at.      *)
VerifyEnd ==
  /\ CAt("verify")
  /\ vpc \in {"valid", "invalid", "error"}
  /\ \/ /\ vpc # "valid"
        /\ Fatal
        /\ UNCHANGED <<cpc, verifyVars>>
     \/ /\ vpc = "valid"
        /\ Return
        /\ cpc' = IF ~ cancelled THEN "round"
                  ELSE IF mode = "onSchedule" THEN "waitNemesis" ELSE "tearDownClient"
        /\ UNCHANGED fatal
  /\ UNCHANGED <<mode, up, round, cancelled, startErr, recorderVars, loopVars, tickerVars,
                 ctxDone, ghostVars, nemesisVars>>

(* Mutant of WaitNemesis: the dispatcher is not waited for. *)
SkipNemesis ==
  /\ CAt("waitNemesis")
  /\ cpc' = "tearDownClient"
  /\ UNCHANGED <<mode, up, round, cancelled, startErr, recorderVars, clientVars, verifyVars,
                 nemesisVars>>

(* nemesisWg.Wait() at the end of a run. *)
WaitNemesis ==
  /\ CAt("waitNemesis")
  /\ npc = "exit"
  /\ cpc' = "tearDownClient"
  /\ UNCHANGED <<mode, up, round, cancelled, startErr, recorderVars, clientVars, verifyVars,
                 nemesisVars>>
-----------------------------------------------------------------------------
Dispatch ==
  /\ ~ fatal
  /\ DispatchStep \/ RecordedStep
  /\ UNCHANGED <<controllerVars, clientVars, verifyVars>>

Op(o) ==
  /\ ~ fatal
  /\ OpStep(o)
  /\ UNCHANGED <<controllerVars, clientVars, verifyVars>>

(* A signal: c.Close() cancels c.ctx and every context made from it. *)
Signal ==
  /\ ~ fatal /\ ~ cancelled /\ cpc # "done"
  /\ cancelled' = TRUE /\ ctxDone' = TRUE /\ nctxDone' = TRUE
  /\ UNCHANGED <<mode, cpc, up, round, startErr, recorderVars, loopVars, tickerVars, fatal,
                 ghostVars, verifyVars, npc, idx, gen, opVars, unrecorded>>

(* RunTime has passed for the round, or RunTime * RunRound for the nemesis *)
(* context.                                                                *)
RoundTimeout ==
  /\ ~ fatal /\ ~ ctxDone
  /\ cpc \in {"dump", "clients"} /\ mode # "standard"
  /\ ctxDone' = TRUE
  /\ nctxDone' = (nctxDone \/ mode = "sequential")
  /\ UNCHANGED <<controllerVars, recorderVars, loopVars, tickerVars, fatal, ghostVars,
                 verifyVars, npc, idx, gen, opVars, unrecorded>>

NemesisTimeout ==
  /\ ~ fatal /\ mode # "sequential" /\ npc # "exit"
  /\ NemesisContextDone
  /\ UNCHANGED <<controllerVars, clientVars, verifyVars>>

Run ==
  \/ ExecWait \/ NextGen \/ RoundStart \/ RoundsOver \/ DumpState \/ ClientsWait
  \/ WaitRoundNemesis \/ CloseAndVerify \/ Verifying \/ VerifyEnd \/ WaitNemesis

RunOver == (fatal \/ cpc = "done") /\ UNCHANGED allVars

ControllerNext ==
  \/ Run
  \/ \E m \in Nodes \cup Clients : Exec(m)
  \/ \E c \in Clients : Loop(c) \/ StandardStart(c)
  \/ Dispatch
  \/ \E o \in Operations : Op(o)
  \/ Signal \/ RoundTimeout \/ NemesisTimeout
  \/ RunOver

(* Every goroutine that can run does; nothing is assumed of signals and    *)
(* timeouts.                                                               *)
ControllerFairness ==
  /\ WF_allVars(Run) /\ WF_allVars(Dispatch)
  /\ \A m \in Nodes \cup Clients : WF_allVars(Exec(m))
  /\ \A c \in Clients : WF_allVars(Loop(c)) /\ WF_allVars(StandardStart(c))
  /\ \A o \in Operations : WF_allVars(Op(o))

ControllerSpec == ControllerInit /\ [][ControllerNext]_allVars /\ ControllerFairness
-----------------------------------------------------------------------------
(* Nobody who still has something to record finds the file of its round    *)
(* closed: neither a client loop nor, in sequential mode, the nemesis.     *)
WritersHaveFile ==
  /\ CAt("clients") /\ mode # "standard" => isOpen
  /\ ~ fatal /\ npc \in {"recInvoke", "recGenerate", "recWait"} => isOpen

(* Verify gives up on a history ("missing return", "missing invoke",       *)
(* "history is not complete") only when a record of the nemesis was lost:  *)
(* the clients' records alone always make a history it can check.          *)
VerdictReached == vpc = "error" => unrecorded

(* The request and the recorded outcome behind an event. *)
CallOf(i) == {events[k].req : k \in {n \in 1 .. Len(events) :
                events[n].kind = "call" /\ events[n].id = i}}

Definite(q) == \E k \in 1 .. Len(file) :
  file[k].action = "return" /\ file[k].req = q /\ ~ file[k].unknown

Checked == vpc \in {"check", "valid", "invalid"}

(* Porcupine gets each recorded call once, with one later return, which is *)
(* the response to that request or the noop; and when it is told that a    *)
(* returned before b was called, a's Invoke had really returned, with a    *)
(* definite response, before b's began: an operation of unknown outcome    *)
(* stays concurrent with all that follows it.                              *)
EventsAreTheHistory ==
  Checked =>
    /\ {events[n].req : n \in {n \in 1 .. Len(events) : events[n].kind = "call"}}
         = {file[k].req : k \in {k \in 1 .. Len(file) : file[k].action = "call"}}
    /\ \A i \in 1 .. Len(events) :
         LET e == events[i]
             Partner(j) == /\ events[j].id = e.id /\ j # i
                           /\ events[j].kind # e.kind /\ events[j].client = e.client
                           /\ e.kind = "return" => j < i /\ e.req \in {events[j].req, NoReq}
         IN /\ \E j \in 1 .. Len(events) : Partner(j)
            /\ \A j \in 1 .. Len(events) : events[j].id = e.id => j = i \/ Partner(j)
            /\ e.kind = "return" => \A j \in i + 1 .. Len(events) : events[j].kind = "call" =>
                 \A a \in CallOf(e.id) : <<a, events[j].req>> \in precedes /\ Definite(a)

(* Tearing down starts only when every loop has returned, the dispatcher   *)
(* has, and no recovery is still going on.                                 *)
TearDownQuiet ==
  ~ fatal /\ cpc \in {"tearDownClient", "tearDownDB", "done"} =>
    /\ npc = "exit" /\ AllReturned
    /\ mode # "sequential" => LoopsDone
    /\ ~ isOpen

(* Whatever is injected, interrupted or timed out, Run returns or the      *)
(* process ends.                                                           *)
RunEnds == <>(fatal \/ cpc = "done")
=============================================================================

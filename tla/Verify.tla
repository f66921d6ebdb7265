------------------------------- MODULE Verify -------------------------------
(***************************************************************************)
(* verify.Suit.Verify with the porcupine checker: the history file is read *)
(* (ReadHistory), every operation in it is given a return (Complete-       *)
(* Operations), calls and returns are matched by process id and numbered   *)
(* (ConvertOperationsToEvents), and the events go to porcupine, which is a *)
(* library and answers either way here.  One action is one turn of a loop  *)
(* of the code.                                                            *)
(***************************************************************************)
EXTENDS Recorder, FiniteSets

VARIABLES
  vpc,        \* where Verify stands; "error" and the verdicts are final
  pos,        \* how much of its input the current loop has consumed
  ops,        \* the operations read from the file
  compOps,    \* the operations completed
  pending,    \* procID of CompleteOperations: processes with an open call
  events,     \* porcupine's events
  matchID,    \* procID of ConvertOperationsToEvents: set of <<process, id>>
  id          \* the next event id

scanVars == <<pos, ops, compOps, pending, events, matchID, id>>
verifyVars == <<vpc, scanVars>>

VerifyIdle ==
  /\ vpc = "idle"
  /\ pos = 0 /\ id = 0
  /\ ops = << >> /\ compOps = << >> /\ events = << >>
  /\ pending = {} /\ matchID = {}

(* Verify's variables are made at its call and gone at its return. *)
Fresh(l) ==
  /\ vpc' = l
  /\ pos' = 0 /\ id' = 0
  /\ ops' = << >> /\ compOps' = << >> /\ events' = << >>
  /\ pending' = {} /\ matchID' = {}

Begin == Fresh("read")
Return == Fresh("idle")

(* The loop over input h at label l has a turn left, or none. *)
Turn(l, h) == vpc = l /\ pos < Len(h)
Over(l, h) == vpc = l /\ pos = Len(h)
-----------------------------------------------------------------------------
(* ReadHistory: a dumped state is not an operation. *)
ReadRecord ==
  /\ Turn("read", file)
  /\ pos' = pos + 1
  /\ ops' = IF file[pos + 1].action = "dump" THEN ops
            ELSE Append(ops, file[pos + 1])
  /\ UNCHANGED <<vpc, compOps, pending, events, matchID, id>>

ReadEnd ==
  /\ Over("read", file)
  /\ vpc' = "complete" /\ pos' = 0
  /\ UNCHANGED <<ops, compOps, pending, events, matchID, id>>

(* CompleteOperations, one operation.  An unknown return is dropped and    *)
(* its process stays pending.                                              *)
CompleteCall(op) ==
  /\ op.action = "call"
  /\ IF op.proc \in pending
     THEN vpc' = "error" /\ UNCHANGED <<pending, compOps>>   \* missing return
     ELSE /\ pending' = pending \cup {op.proc}
          /\ compOps' = Append(compOps, op)
          /\ UNCHANGED vpc

(* Mutant of CompleteReturn: an unknown return completes its call. *)
CompleteReturnAny(op) ==
  /\ op.action = "return"
  /\ IF op.proc \notin pending
     THEN vpc' = "error" /\ UNCHANGED <<pending, compOps>>
     ELSE /\ pending' = pending \ {op.proc}
          /\ compOps' = Append(compOps, op)
          /\ UNCHANGED vpc

CompleteReturn(op) ==
  /\ op.action = "return"
  /\ vpc' = IF op.proc \notin pending THEN "error" ELSE vpc   \* missing invoke
  /\ IF op.proc \notin pending \/ op.unknown
     THEN UNCHANGED <<pending, compOps>>
     ELSE /\ pending' = pending \ {op.proc}
          /\ compOps' = Append(compOps, op)

CompleteOther(op) ==
  /\ ~ IsClientRec(op)
  /\ compOps' = Append(compOps, op)
  /\ UNCHANGED <<vpc, pending>>

CompleteOp ==
  /\ Turn("complete", ops)
  /\ pos' = pos + 1
  /\ LET op == ops[pos + 1]
     IN CompleteCall(op) \/ CompleteReturn(op) \/ CompleteOther(op)
  /\ UNCHANGED <<ops, events, matchID, id>>

(* The calls still open get p.OnNoopResponse(), in the order of their      *)
(* process ids.  The noop return has no request of its own.                *)
Noop(p) == Rec("return", p, NoReq, TRUE)

CompleteNoop ==
  /\ Over("complete", ops)
  /\ \E p \in pending :
       /\ \A q \in pending : p <= q
       /\ pending' = pending \ {p}
       /\ compOps' = Append(compOps, Noop(p))
  /\ UNCHANGED <<vpc, pos, ops, events, matchID, id>>

(* ... and then Checker.Check: an odd number of operations is refused      *)
(* before any is converted.                                                *)
CompleteEnd ==
  /\ Over("complete", ops)
  /\ pending = {}
  /\ vpc' = IF Len(compOps) % 2 # 0 THEN "error" ELSE "convert"
  /\ pos' = 0
  /\ UNCHANGED <<ops, compOps, pending, events, matchID, id>>

Event(kind, op, i) == [kind |-> kind, client |-> op.proc, id |-> i, req |-> op.req]

Without(p) == {m \in matchID : m[1] # p}

ConvertCall(op) ==
  /\ op.action = "call"
  /\ events' = Append(events, Event("call", op, id))
  /\ matchID' = Without(op.proc) \cup {<<op.proc, id>>}
  /\ id' = id + 1

(* The entry of a process that is not in the map reads as 0.  No parser of *)
(* the repository gives a response nil data, so none is skipped.           *)
ConvertReturn(op) ==
  LET ids == {m[2] : m \in matchID \ Without(op.proc)} IN
  /\ op.action = "return"
  /\ \E i \in (IF ids = {} THEN {0} ELSE ids) :
       events' = Append(events, Event("return", op, i))
  /\ matchID' = Without(op.proc)
  /\ UNCHANGED id

ConvertOp ==
  /\ Turn("convert", compOps)
  /\ pos' = pos + 1
  /\ LET op == compOps[pos + 1]
     IN \/ ConvertCall(op) \/ ConvertReturn(op)
        \/ ~ IsClientRec(op) /\ UNCHANGED <<events, matchID, id>>
  /\ UNCHANGED <<vpc, ops, compOps, pending>>

ConvertEnd ==
  /\ Over("convert", compOps)
  /\ vpc' = IF matchID # {} THEN "error" ELSE "check"
  /\ UNCHANGED scanVars

(* porcupine.CheckEventsVerbose *)
Check ==
  /\ vpc = "check"
  /\ vpc' \in {"valid", "invalid"}
  /\ UNCHANGED scanVars

VerifyStep ==
  /\ \/ ReadRecord \/ ReadEnd \/ CompleteOp \/ CompleteNoop \/ CompleteEnd
     \/ ConvertOp \/ ConvertEnd \/ Check
  /\ UNCHANGED recorderVars
-----------------------------------------------------------------------------
=============================================================================

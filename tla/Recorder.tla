------------------------------ MODULE Recorder ------------------------------
(***************************************************************************)
(* The history file of one round and the Recorder that appends to it       *)
(* (pkg/history/history.go).  A record keeps what the readers of the file  *)
(* tell apart: its action, the process id it is recorded under, and of the *)
(* data only which request it belongs to and whether a response IsUnknown. *)
(* JSON, time stamps and file names are left out; the mutex in record()    *)
(* makes one record one atomic append.                                     *)
(***************************************************************************)
EXTENDS Integers, Sequences

VARIABLES
  file,     \* the records written so far, oldest first
  isOpen    \* the *os.File of the current Recorder has not been closed

recorderVars == <<file, isOpen>>

(* The actions a record may carry: core.InvokeOperation, core.Return-      *)
(* Operation, dumpOperation, core.InvokeNemesis, core.RecoverNemesis.      *)
Actions == {"call", "return", "dump", "nemesis", "recover"}

(* The request number of a record that belongs to no request. *)
NoReq == -1

Rec(action, proc, req, unknown) ==
  [action |-> action, proc |-> proc, req |-> req, unknown |-> unknown]

DumpRec == Rec("dump", 0, NoReq, FALSE)

Records == [action : Actions, proc : Int, req : Int, unknown : BOOLEAN]

(* NewRecorder opens the file with O_TRUNC: what it held is gone. *)
NewRecorder ==
  /\ file' = << >>
  /\ isOpen' = TRUE

Close ==
  /\ isOpen' = FALSE
  /\ UNCHANGED file

(* record(): one line under the mutex.  Writing to a closed file is an     *)
(* error, so nothing is appended then.                                     *)
record(r) ==
  /\ isOpen
  /\ file' = Append(file, r)
  /\ UNCHANGED isOpen

RecordState           == record(DumpRec)
RecordRequest(p, q)   == record(Rec("call", p, q, FALSE))
RecordResponse(p, q, u) == record(Rec("return", p, q, u))
RecordInvokeNemesis   == record(Rec("nemesis", -1, NoReq, FALSE))
RecordRecoverNemesis  == record(Rec("recover", -1, NoReq, FALSE))
-----------------------------------------------------------------------------
(* Positions of the file at which process p has a record of its own. *)
IsClientRec(r) == r.action \in {"call", "return"}
Of(h, p, i) == i \in 1..Len(h) /\ IsClientRec(h[i]) /\ h[i].proc = p

(* i is the last position before n at which process p has a record. *)
IsPrevious(h, p, n, i) ==
  /\ i < n
  /\ Of(h, p, i)
  /\ \A k \in i+1 .. n-1 : ~ Of(h, p, k)

(* A process is logically single-threaded: it calls only when its last     *)
(* record, if it has one, is a definite return, and it returns only when   *)
(* its last record is the call of that very request.                       *)
SequentialAt(h, n) ==
  LET p == h[n].proc IN
  /\ h[n].action = "call" =>
       \A i \in 1 .. n-1 : IsPrevious(h, p, n, i) =>
            h[i].action = "return" /\ ~ h[i].unknown
  /\ h[n].action = "return" =>
       \E i \in 1 .. n-1 : /\ IsPrevious(h, p, n, i)
                           /\ h[i].action = "call"
                           /\ h[i].req = h[n].req

SequentialProcesses(h) == \A n \in 1 .. Len(h) : SequentialAt(h, n)
=============================================================================

-------------------------- MODULE ClientLoopProofs --------------------------
(***************************************************************************)
(* Proofs about one round of requests, for any set of clients, any budget  *)
(* and both kinds of loop.                                                 *)
(***************************************************************************)
EXTENDS ClientLoop, TLAPS

(* What appending one record does to the order of a process's records.     *)

(* A record of a known action with integer fields is a record. *)
LEMMA RecType ==
  ASSUME NEW a \in Actions, NEW p \in Int, NEW q \in Int, NEW u \in BOOLEAN
  PROVE  Rec(a, p, q, u) \in Records
  BY DEF Rec, Records

(* record() keeps the file a sequence of records. *)
LEMMA RecordType ==
  ASSUME file \in Seq(Records), isOpen \in BOOLEAN, NEW r \in Records, record(r)
  PROVE  file' \in Seq(Records) /\ isOpen' \in BOOLEAN
  BY DEF record

(* Appending adds one position and leaves the others as they were. *)
LEMMA AppendAt ==
  ASSUME NEW h \in Seq(Records), NEW r \in Records
  PROVE  /\ Append(h, r) \in Seq(Records)
         /\ Len(Append(h, r)) = Len(h) + 1
         /\ \A i \in 1 .. Len(h) : Append(h, r)[i] = h[i]
         /\ Append(h, r)[Len(h) + 1] = r
  OBVIOUS

(* Up to the old end of the file, which record precedes which is settled. *)
LEMMA AppendPrevious ==
  ASSUME NEW h \in Seq(Records), NEW r \in Records, NEW p,
         NEW n \in 1 .. Len(h) + 1, NEW i \in Int
  PROVE  IsPrevious(Append(h, r), p, n, i) <=> IsPrevious(h, p, n, i)
<1>1. \A k \in Int : k < n => (Of(Append(h, r), p, k) <=> Of(h, p, k))
  BY AppendAt DEF Of
<1>2. \A k \in i + 1 .. n - 1 : k \in Int /\ k < n
  OBVIOUS
<1>3. QED
  BY <1>1, <1>2 DEF IsPrevious

(* At the new end, the record just written is the last one of its process, *)
LEMMA AppendLastOwn ==
  ASSUME NEW h \in Seq(Records), NEW r \in Records, IsClientRec(r)
  PROVE  \A i \in Int : IsPrevious(Append(h, r), r.proc, Len(h) + 2, i)
                          <=> i = Len(h) + 1
<1> DEFINE m == Len(h) + 1
<1>1. Of(Append(h, r), r.proc, m)
  BY AppendAt DEF Of
<1>2. \A i \in Int : Of(Append(h, r), r.proc, i) => i \in 1 .. m
  BY AppendAt DEF Of
<1>3. m \in Int /\ Len(h) + 2 = m + 1
  OBVIOUS
<1>4. ASSUME NEW i \in Int, IsPrevious(Append(h, r), r.proc, m + 1, i)
      PROVE  i = m
  <2>1. i \in 1 .. m
    BY <1>2, <1>4 DEF IsPrevious
  <2>2. i # m => m \in i + 1 .. (m + 1) - 1
    BY <1>3, <2>1
  <2>3. QED
    BY <1>1, <1>4, <2>2 DEF IsPrevious
<1>5. IsPrevious(Append(h, r), r.proc, m + 1, m)
  BY <1>1, <1>3 DEF IsPrevious
<1>6. QED
  BY <1>3, <1>4, <1>5

(* and the last record of every other process is the one it was. *)
LEMMA AppendLastOther ==
  ASSUME NEW h \in Seq(Records), NEW r \in Records, NEW p,
         ~ (IsClientRec(r) /\ r.proc = p)
  PROVE  \A i \in Int : IsPrevious(Append(h, r), p, Len(h) + 2, i)
                          <=> IsPrevious(h, p, Len(h) + 1, i)
<1> SUFFICES ASSUME NEW i \in Int
             PROVE  IsPrevious(Append(h, r), p, Len(h) + 2, i)
                      <=> IsPrevious(h, p, Len(h) + 1, i)
  OBVIOUS
<1>1. \A k \in Int : Of(Append(h, r), p, k) <=> Of(h, p, k)
  BY AppendAt DEF Of
<1>2. \A k \in Int : Of(h, p, k) => k \in 1 .. Len(h)
  BY DEF Of
<1>3. QED
  BY <1>1, <1>2 DEF IsPrevious

(* Appending a call whose process is idle, or the return its process is    *)
(* waiting for, keeps every process sequential.                            *)
LEMMA AppendSequential ==
  ASSUME NEW h \in Seq(Records), SequentialProcesses(h), NEW r \in Records,
         r.action = "call" =>
           \A i \in 1 .. Len(h) : IsPrevious(h, r.proc, Len(h) + 1, i) =>
                            h[i].action = "return" /\ ~ h[i].unknown,
         r.action = "return" =>
           \E i \in 1 .. Len(h) : /\ IsPrevious(h, r.proc, Len(h) + 1, i)
                                /\ h[i].action = "call" /\ h[i].req = r.req
  PROVE  SequentialProcesses(Append(h, r))
<1> DEFINE g == Append(h, r)
<1> SUFFICES ASSUME NEW n \in 1 .. Len(g) PROVE SequentialAt(g, n)
  BY DEF SequentialProcesses
<1>1. \A p : \A i \in 1 .. n - 1 : IsPrevious(g, p, n, i) <=> IsPrevious(h, p, n, i)
  BY AppendAt, AppendPrevious
<1>2. \A i \in 1 .. n - 1 : g[i] = h[i]
  BY AppendAt
<1>3. CASE n \in 1 .. Len(h)
  <2>1. g[n] = h[n]
    BY <1>3, AppendAt
  <2>2. SequentialAt(h, n)
    BY <1>3 DEF SequentialProcesses
  <2>3. QED
    BY <1>1, <1>2, <2>1, <2>2 DEF SequentialAt
<1>4. CASE n = Len(h) + 1
  <2>1. g[n] = r
    BY <1>4, AppendAt
  <2>2. QED
    BY <1>1, <1>2, <1>4, <2>1 DEF SequentialAt
<1>5. QED
  BY <1>3, <1>4, AppendAt
-----------------------------------------------------------------------------
(* Every state of a round is well typed. *)
LEMMA TypeInit == Init => TypeOK
<1> SUFFICES ASSUME Init PROVE TypeOK
  OBVIOUS
<1>1. DumpRec \in Records
  BY DEF DumpRec, Rec, Records, Actions, NoReq
<1>2. file \in Seq(Records)
  BY <1>1 DEF Init
<1>3. procID \in [Clients -> Nat] /\ \A c \in Clients : procID[c] <= proc
  BY DEF Init, RoundInit
<1>4. /\ req \in [Clients -> Int]
      /\ requestCount \in Int
      /\ tpc \in [Clients -> {"sleep", "select", "send", "exited"}]
  BY RequestCountAssumption, ThrottleAssumption DEF Init, RoundInit, NoReq
<1>5. QED
  BY <1>2, <1>3, <1>4 DEF Init, RoundInit, TypeOK, Labels

LEMMA TypeNext == TypeOK /\ [Next]_vars => TypeOK'
<1> SUFFICES ASSUME TypeOK, [Next]_vars PROVE TypeOK'
  OBVIOUS
<1> USE DEF TypeOK, Labels, At, Goto, recorderVars, loopVars, tickerVars, ghostVars
<1>1. ASSUME NEW c \in Clients, Start(c) PROVE TypeOK'
  <2>1. procID' \in [Clients -> Nat] /\ proc' \in Nat
    BY <1>1 DEF Start
  <2>2. \A d \in Clients : procID'[d] <= proc'
    BY <1>1 DEF Start
  <2>3. QED
    BY <1>1, <2>1, <2>2 DEF Start
<1>2. ASSUME NEW c \in Clients, Draw(c) PROVE TypeOK'
  BY <1>2 DEF Draw
<1>3. ASSUME NEW c \in Clients, Token(c) PROVE TypeOK'
  BY <1>3 DEF Token
<1>4. ASSUME NEW c \in Clients, Request(c) PROVE TypeOK'
  <2>1. file' \in Seq(Records) /\ isOpen' \in BOOLEAN
    <3>1. Rec("call", procID[c], req[c], FALSE) \in Records
      <4>1. procID[c] \in Int /\ req[c] \in Int
        OBVIOUS
      <4>2. QED
        BY <4>1, RecType DEF Actions
    <3>2. QED
      BY <1>4, <3>1, RecordType DEF Request, RecordRequest
  <2>2. pc' \in [Clients -> Labels] /\ fatal' \in BOOLEAN
    BY <1>4 DEF Request, RecordRequest
  <2>3. QED
    BY <1>4, <2>1, <2>2 DEF Request, RecordRequest
<1>5. ASSUME NEW c \in Clients, InvokeBegin(c) PROVE TypeOK'
  BY <1>5 DEF InvokeBegin
<1>6. ASSUME NEW c \in Clients, InvokeEnd(c) PROVE TypeOK'
  <2>0. Outcomes \subseteq BOOLEAN
    BY DEF Outcomes
  <2>1. PICK u \in Outcomes : isUnknown' = [isUnknown EXCEPT ![c] = u]
    BY <1>6 DEF InvokeEnd
  <2>2. isUnknown' \in [Clients -> BOOLEAN]
    BY <2>0, <2>1
  <2>3. req[c] \in Int
    OBVIOUS
  <2>4. ended' \subseteq Int
    BY <1>6, <2>3 DEF InvokeEnd
  <2>5. QED
    BY <1>6, <2>2, <2>4 DEF InvokeEnd
<1>7. ASSUME NEW c \in Clients, Response(c) PROVE TypeOK'
  <2>1. file' \in Seq(Records) /\ isOpen' \in BOOLEAN
    <3>1. Rec("return", procID[c], req[c], isUnknown[c]) \in Records
      BY RecType DEF Actions
    <3>2. QED
      BY <1>7, <3>1, RecordType DEF Response, RecordResponse
  <2>2. pc' \in [Clients -> Labels] /\ fatal' \in BOOLEAN
    BY <1>7 DEF Response, RecordResponse
  <2>3. QED
    BY <1>7, <2>1, <2>2 DEF Response, RecordResponse
<1>8. ASSUME NEW c \in Clients, Renew(c) PROVE TypeOK'
  <2>1. procID' \in [Clients -> Nat] /\ proc' \in Nat
    BY <1>8 DEF Renew
  <2>2. \A d \in Clients : procID'[d] <= proc'
    BY <1>8 DEF Renew
  <2>3. QED
    BY <1>8, <2>1, <2>2 DEF Renew
<1>9. ASSUME NEW c \in Clients, Poll(c) PROVE TypeOK'
  BY <1>9 DEF Poll
<1>10. ASSUME NEW c \in Clients, TickerStep(c) PROVE TypeOK'
  BY <1>10 DEF TickerStep, TickerWake, TickerTick, TickerDone
<1>11. CASE ContextDone
  BY <1>11 DEF ContextDone
<1>12. CASE UNCHANGED vars
  BY <1>12 DEF vars, clientVars
<1>13. QED
  BY <1>1, <1>2, <1>3, <1>4, <1>5, <1>6, <1>7, <1>8, <1>9, <1>10, <1>11, <1>12
     DEF Next, LoopStep, Finished

(* Every state of a round is well typed. *)
THEOREM TypeCorrect == Spec => []TypeOK
  BY TypeInit, TypeNext, PTL DEF Spec
-----------------------------------------------------------------------------
(* HistorySequential is not inductive: it does not say what the loops are  *)
(* about to append.  What it needs is that process ids are never shared,   *)
(* that no record bears an id not yet handed out, and, for each loop, what *)
(* the last record of its process is.                                      *)
Last(p, i) == IsPrevious(file, p, Len(file) + 1, i)

DistinctProcIDs ==
  \A c, d \in Clients :
    c # d /\ pc[c] # "start" /\ pc[d] # "start" => procID[c] # procID[d]

RecordedIDsHandedOut ==
  \A i \in 1 .. Len(file) : IsClientRec(file[i]) => file[i].proc <= proc

InFlightHasCalled ==
  \A c \in Clients : pc[c] \in {"call", "wait", "response"} =>
    \E i \in 1 .. Len(file) : /\ Last(procID[c], i)
                              /\ file[i].action = "call" /\ file[i].req = req[c]

IdleHasReturned ==
  \A c \in Clients : pc[c] \in {"head", "token", "request", "poll", "done"} =>
    \A i \in 1 .. Len(file) : Last(procID[c], i) =>
      file[i].action = "return" /\ ~ file[i].unknown

SeqInv ==
  /\ DistinctProcIDs
  /\ RecordedIDsHandedOut
  /\ InFlightHasCalled
  /\ IdleHasReturned
  /\ HistorySequential

(* A process id no record can bear has no last record. *)
LEMMA FreshID ==
  ASSUME TypeOK, RecordedIDsHandedOut, NEW p \in Int, p > proc,
         NEW i \in 1 .. Len(file)
  PROVE  ~ Last(p, i)
<1>1. file[i] \in Records /\ proc \in Int
  BY DEF TypeOK
<1>2. file[i].proc \in Int
  BY <1>1 DEF Records
<1>3. ~ Of(file, p, i)
  BY <1>1, <1>2 DEF RecordedIDsHandedOut, Of
<1>4. QED
  BY <1>3 DEF Last, IsPrevious

LEMMA SeqInit == Init => SeqInv
<1> SUFFICES ASSUME Init PROVE SeqInv
  OBVIOUS
<1>1. /\ Len(file) = 1 /\ file[1] = DumpRec
      /\ \A c \in Clients : pc[c] = "start"
  BY DEF Init, RoundInit
<1>2. ~ IsClientRec(DumpRec) /\ DumpRec.action = "dump"
  BY DEF IsClientRec, DumpRec, Rec
<1>3. HistorySequential
  BY <1>1, <1>2 DEF HistorySequential, SequentialProcesses, SequentialAt
<1>4. QED
  BY <1>1, <1>2, <1>3
     DEF SeqInv, DistinctProcIDs, RecordedIDsHandedOut, InFlightHasCalled,
         IdleHasReturned

(* A loop that records its call or its return; d's records are its own.    *)
LEMMA SeqRecord ==
  ASSUME TypeOK, SeqInv, NEW c \in Clients, NEW r \in Records,
         record(r), IsClientRec(r), r.proc = procID[c], pc[c] # "start",
         UNCHANGED <<proc, procID, req>>,
         \A d \in Clients : d # c => pc'[d] = pc[d],
         \/ /\ pc[c] = "request" /\ pc'[c] = "call"
            /\ r.action = "call" /\ r.req = req[c]
         \/ /\ pc[c] = "response" /\ r.action = "return" /\ r.req = req[c]
            /\ pc'[c] = IF r.unknown THEN "renew" ELSE "poll"
  PROVE  SeqInv'
<1> USE DEF SeqInv
<1>1. /\ file \in Seq(Records) /\ file' = Append(file, r)
      /\ file' \in Seq(Records)
      /\ Len(file') = Len(file) + 1
      /\ \A i \in 1 .. Len(file) : file'[i] = file[i]
      /\ file'[Len(file) + 1] = r
  BY AppendAt DEF TypeOK, record
<1>2. procID[c] \in Nat /\ procID[c] <= proc /\ proc \in Nat
  BY DEF TypeOK
<1>3. \A i \in 1 .. Len(file) + 1 : Last(procID[c], i)' <=> i = Len(file) + 1
  <2>1. Len(file') + 1 = Len(file) + 2 /\ procID'[c] = r.proc
    BY <1>1
  <2>2. \A i \in Int : IsPrevious(file', r.proc, Len(file) + 2, i)
                         <=> i = Len(file) + 1
    BY <1>1, AppendLastOwn
  <2>3. QED
    BY <2>1, <2>2 DEF Last
<1>4. ASSUME NEW d \in Clients, d # c, pc[d] # "start"
      PROVE  \A i \in 1 .. Len(file) + 1 :
               Last(procID[d], i)' <=> Last(procID[d], i)
  <2>1. procID[d] # r.proc
    BY <1>4 DEF DistinctProcIDs
  <2>2. QED
    BY <1>1, <2>1, AppendLastOther DEF Last
<1>5. DistinctProcIDs'
  BY DEF DistinctProcIDs
<1>6. RecordedIDsHandedOut'
  BY <1>1, <1>2 DEF RecordedIDsHandedOut
<1>7. InFlightHasCalled'
  <2> SUFFICES ASSUME NEW d \in Clients, pc'[d] \in {"call", "wait", "response"}
               PROVE  \E i \in 1 .. Len(file') :
                        /\ Last(procID[d], i)'
                        /\ file'[i].action = "call" /\ file'[i].req = req[d]
    BY DEF InFlightHasCalled
  <2>1. CASE d = c
    BY <1>1, <1>3, <2>1
  <2>2. CASE d # c
    <3>1. PICK i \in 1 .. Len(file) : /\ Last(procID[d], i)
                                      /\ file[i].action = "call"
                                      /\ file[i].req = req[d]
      BY <2>2 DEF InFlightHasCalled
    <3>2. Last(procID[d], i)' /\ file'[i] = file[i] /\ i \in 1 .. Len(file')
      BY <1>1, <1>4, <2>2, <3>1
    <3>3. QED
      BY <3>1, <3>2
  <2>3. QED
    BY <2>1, <2>2
<1>8. IdleHasReturned'
  <2> SUFFICES ASSUME NEW d \in Clients,
                      pc'[d] \in {"head", "token", "request", "poll", "done"},
                      NEW i \in 1 .. Len(file'), Last(procID[d], i)'
               PROVE  file'[i].action = "return" /\ ~ file'[i].unknown
    BY DEF IdleHasReturned
  <2>1. CASE d = c
    BY <1>1, <1>3, <2>1
  <2>2. CASE d # c
    <3>1. Last(procID[d], i)
      BY <1>1, <1>4, <2>2
    <3>2. i \in 1 .. Len(file)
      BY <1>1, <3>1 DEF Last, IsPrevious, Of
    <3>3. QED
      BY <1>1, <2>2, <3>1, <3>2 DEF IdleHasReturned
  <2>3. QED
    BY <2>1, <2>2
<1>9. HistorySequential'
  <2>1. SequentialProcesses(Append(file, r))
    BY <1>1, AppendSequential
       DEF InFlightHasCalled, IdleHasReturned, HistorySequential, Last
  <2>2. QED
    BY <1>1, <2>1 DEF HistorySequential
<1>10. QED
  BY <1>5, <1>6, <1>7, <1>8, <1>9

(* A loop that takes a new process id, at its start or after an unknown    *)
(* response.                                                               *)
LEMMA SeqNewID ==
  ASSUME TypeOK, SeqInv, NEW c \in Clients, pc[c] \in {"start", "renew"},
         proc' = proc + 1,
         procID' = [procID EXCEPT ![c] = proc + 1],
         pc' \in [Clients -> Labels], pc'[c] \in {"head", "poll"},
         \A d \in Clients : d # c => pc'[d] = pc[d],
         UNCHANGED <<file, req>>
  PROVE  SeqInv'
<1> USE DEF SeqInv
<1>1. /\ procID'[c] = proc + 1
      /\ \A d \in Clients : d # c => procID'[d] = procID[d]
      /\ \A d \in Clients : procID[d] \in Nat /\ procID[d] <= proc
      /\ proc \in Nat
  BY DEF TypeOK
<1>2. DistinctProcIDs'
  BY <1>1 DEF DistinctProcIDs
<1>3. RecordedIDsHandedOut'
  <2>1. \A i \in 1 .. Len(file) : file[i] \in Records
    BY DEF TypeOK
  <2>2. \A i \in 1 .. Len(file) : file[i].proc \in Int
    BY <2>1 DEF Records
  <2>3. QED
    BY <1>1, <2>2 DEF RecordedIDsHandedOut
<1>4. InFlightHasCalled'
  BY <1>1 DEF InFlightHasCalled, Last
<1>5. IdleHasReturned'
  <2>1. \A i \in 1 .. Len(file) : ~ Last(proc + 1, i)
    BY <1>1, FreshID
  <2>2. QED
    BY <1>1, <2>1 DEF IdleHasReturned, Last
<1>6. HistorySequential'
  BY DEF HistorySequential
<1>7. QED
  BY <1>2, <1>3, <1>4, <1>5, <1>6

(* A step that writes nothing and leaves each loop between the same two    *)
(* records.                                                                *)
LEMMA SeqQuiet ==
  ASSUME SeqInv, UNCHANGED <<file, proc, procID>>,
         \A d \in Clients :
           \/ pc'[d] = pc[d] /\ req'[d] = req[d]
           \/ /\ pc[d] \in {"head", "token", "poll"}
              /\ pc'[d] \in {"head", "token", "request", "done"}
           \/ /\ pc[d] \in {"call", "wait"} /\ pc'[d] \in {"wait", "response"}
              /\ req'[d] = req[d]
  PROVE  SeqInv'
<1> USE DEF SeqInv
<1>1. DistinctProcIDs'
  BY DEF DistinctProcIDs
<1>2. RecordedIDsHandedOut'
  BY DEF RecordedIDsHandedOut
<1>3. InFlightHasCalled'
  BY DEF InFlightHasCalled, Last
<1>4. IdleHasReturned'
  BY DEF IdleHasReturned, Last
<1>5. HistorySequential'
  BY DEF HistorySequential
<1>6. QED
  BY <1>1, <1>2, <1>3, <1>4, <1>5

LEMMA SeqNext == TypeOK /\ TypeOK' /\ SeqInv /\ [Next]_vars => SeqInv'
<1> SUFFICES ASSUME TypeOK, TypeOK', SeqInv, [Next]_vars PROVE SeqInv'
  OBVIOUS
<1> USE DEF At, Goto, recorderVars, loopVars, tickerVars, ghostVars
<1>0. pc \in [Clients -> Labels] /\ pc' \in [Clients -> Labels] /\ req \in [Clients -> Int]
  BY DEF TypeOK
<1>1. ASSUME NEW c \in Clients, Start(c) PROVE SeqInv'
  BY <1>0, <1>1, SeqNewID DEF Start
<1>2. ASSUME NEW c \in Clients, Draw(c) PROVE SeqInv'
  BY <1>0, <1>2, SeqQuiet DEF Draw
<1>3. ASSUME NEW c \in Clients, Token(c) PROVE SeqInv'
  BY <1>0, <1>3, SeqQuiet DEF Token
<1>5. ASSUME NEW c \in Clients, InvokeBegin(c) PROVE SeqInv'
  BY <1>0, <1>5, SeqQuiet DEF InvokeBegin
<1>6. ASSUME NEW c \in Clients, InvokeEnd(c) PROVE SeqInv'
  BY <1>0, <1>6, SeqQuiet DEF InvokeEnd
<1>8. ASSUME NEW c \in Clients, Renew(c) PROVE SeqInv'
  BY <1>0, <1>8, SeqNewID DEF Renew
<1>9. ASSUME NEW c \in Clients, Poll(c) PROVE SeqInv'
  BY <1>0, <1>9, SeqQuiet DEF Poll
<1>10. ASSUME NEW c \in Clients, TickerStep(c) PROVE SeqInv'
  BY <1>10, SeqQuiet DEF TickerStep, TickerWake, TickerTick, TickerDone
<1>11. CASE ContextDone
  BY <1>11, SeqQuiet DEF ContextDone
<1>12. CASE UNCHANGED vars
  BY <1>12, SeqQuiet DEF vars, clientVars
<1>4. ASSUME NEW c \in Clients, Request(c) PROVE SeqInv'
  <2>1. CASE RecordRequest(procID[c], req[c]) /\ Goto(c, "call") /\ UNCHANGED fatal
    <3> DEFINE r == Rec("call", procID[c], req[c], FALSE)
    <3>1. procID[c] \in Int /\ req[c] \in Int
      BY DEF TypeOK
    <3>2. r \in Records
      BY <3>1, RecType DEF Actions
    <3>3. /\ record(r) /\ IsClientRec(r) /\ r.proc = procID[c]
          /\ r.action = "call" /\ r.req = req[c]
      BY <2>1 DEF RecordRequest, Rec, IsClientRec
    <3>4. pc[c] = "request" /\ pc'[c] = "call" /\ UNCHANGED <<proc, procID, req>>
      BY <1>0, <1>4, <2>1 DEF Request
    <3>5. \A d \in Clients : d # c => pc'[d] = pc[d]
      BY <1>0, <2>1
    <3> HIDE DEF r
    <3>6. QED
      BY <3>2, <3>3, <3>4, <3>5, SeqRecord
  <2>2. CASE UNCHANGED <<recorderVars, pc>>
    BY <1>4, <2>2, SeqQuiet DEF Request
  <2>3. QED
    BY <1>4, <2>1, <2>2 DEF Request
<1>7. ASSUME NEW c \in Clients, Response(c) PROVE SeqInv'
  <2>1. CASE /\ RecordResponse(procID[c], req[c], isUnknown[c])
             /\ Goto(c, IF isUnknown[c] THEN "renew" ELSE "poll") /\ UNCHANGED fatal
    <3> DEFINE r == Rec("return", procID[c], req[c], isUnknown[c])
    <3>1. procID[c] \in Int /\ req[c] \in Int /\ isUnknown[c] \in BOOLEAN
      BY DEF TypeOK
    <3>2. r \in Records
      BY <3>1, RecType DEF Actions
    <3>3. /\ record(r) /\ IsClientRec(r) /\ r.proc = procID[c]
          /\ r.action = "return" /\ r.req = req[c] /\ r.unknown = isUnknown[c]
      BY <2>1 DEF RecordResponse, Rec, IsClientRec
    <3>4. /\ pc[c] = "response"
          /\ pc'[c] = IF isUnknown[c] THEN "renew" ELSE "poll"
          /\ UNCHANGED <<proc, procID, req>>
      BY <1>0, <1>7, <2>1 DEF Response
    <3>5. \A d \in Clients : d # c => pc'[d] = pc[d]
      BY <1>0, <2>1
    <3> HIDE DEF r
    <3>6. QED
      BY <3>2, <3>3, <3>4, <3>5, SeqRecord
  <2>2. CASE UNCHANGED <<recorderVars, pc>>
    BY <1>7, <2>2, SeqQuiet DEF Response
  <2>3. QED
    BY <1>7, <2>1, <2>2 DEF Response
<1>13. QED
  BY <1>1, <1>2, <1>3, <1>4, <1>5, <1>6, <1>7, <1>8, <1>9, <1>10, <1>11, <1>12
     DEF Next, LoopStep, Finished

(* However the loops of a round interleave, the history they leave is      *)
(* sequential for every process: process ids are never shared, and an id   *)
(* is given up after an unknown response.                                  *)
THEOREM HistoryIsSequential == Spec => []HistorySequential
<1>1. Init => TypeOK /\ SeqInv
  BY TypeInit, SeqInit
<1>2. TypeOK /\ SeqInv /\ [Next]_vars => TypeOK' /\ SeqInv'
  BY TypeNext, SeqNext
<1>3. SeqInv => HistorySequential
  BY DEF SeqInv
<1>4. QED
  BY <1>1, <1>2, <1>3, PTL DEF Spec
-----------------------------------------------------------------------------
(* The budget.  Draws go down, so a new draw is below every number that a  *)
(* loop holds or the file has; two loops never hold the same number, and a *)
(* number still to be recorded is not in the file.                         *)
Holds(c) == pc[c] \in {"token", "request", "call", "wait", "response"}

HeldFromBudget ==
  \A c \in Clients : Holds(c) => req[c] >= requestCount /\ req[c] \in 0 .. RequestCount - 1

HeldDistinct ==
  \A c, d \in Clients : c # d /\ Holds(c) /\ Holds(d) => req[c] # req[d]

HeldUnrecorded ==
  \A c \in Clients : pc[c] \in {"token", "request"} =>
    \A i \in 1 .. Len(file) : file[i].action = "call" => file[i].req # req[c]

RecordedFromBudget ==
  \A i \in 1 .. Len(file) : file[i].action = "call" => file[i].req >= requestCount

BudgetInv ==
  /\ requestCount <= RequestCount
  /\ HeldFromBudget
  /\ HeldDistinct
  /\ HeldUnrecorded
  /\ RecordedFromBudget
  /\ BudgetRespected

(* The real order.  A recorded return is the return of an Invoke that has  *)
(* ended.                                                                  *)
ReturnsEnded ==
  /\ \A i \in 1 .. Len(file) : file[i].action = "return" => file[i].req \in ended
  /\ \A c \in Clients : pc[c] = "response" => req[c] \in ended

OrderInv == ReturnsEnded /\ RecordedOrderIsReal

(* Outcomes.  A call without a return is held by a loop in flight. *)
CallsAnswered ==
  \A i \in 1 .. Len(file) : file[i].action = "call" =>
    \/ \E j \in i+1 .. Len(file) : file[j].action = "return" /\ file[j].req = file[i].req
    \/ \E c \in Clients : pc[c] \in {"call", "wait", "response"} /\ req[c] = file[i].req

LEMMA RecordsInit ==
  ASSUME Init
  PROVE  /\ Len(file) = 1 /\ file[1].action = "dump"
         /\ \A c \in Clients : pc[c] = "start"
  BY DEF Init, RoundInit, DumpRec, Rec

LEMMA InvInit == Init => BudgetInv /\ OrderInv /\ CallsAnswered
<1> SUFFICES ASSUME Init PROVE BudgetInv /\ OrderInv /\ CallsAnswered
  OBVIOUS
<1>1. /\ Len(file) = 1 /\ file[1].action = "dump"
      /\ \A c \in Clients : pc[c] = "start"
  BY RecordsInit
<1>2. requestCount <= RequestCount
  BY RequestCountAssumption DEF Init, RoundInit
<1>3. \A i \in 1 .. Len(file) : file[i].action = "dump"
  BY <1>1
<1>4. BudgetInv
  BY <1>1, <1>2, <1>3
     DEF BudgetInv, Holds, HeldFromBudget, HeldDistinct, HeldUnrecorded,
         RecordedFromBudget, BudgetRespected
<1>5. OrderInv /\ CallsAnswered
  BY <1>1, <1>3 DEF OrderInv, ReturnsEnded, RecordedOrderIsReal, CallsAnswered
<1>6. QED
  BY <1>4, <1>5

(* What a step is to these three invariants: a call or a return appended,  *)
(* a draw, an Invoke begun or ended, or none of these.                     *)
OthersStay(c) == \A d \in Clients : d # c => pc'[d] = pc[d]

Appends(c, a, from, to) ==
  /\ pc[c] = from /\ pc'[c] \in to /\ OthersStay(c)
  /\ \E r \in Records : r.action = a /\ r.req = req[c] /\ file' = Append(file, r)
  /\ UNCHANGED <<requestCount, req, ended, precedes>>

Draws(c) ==
  /\ pc[c] = "head" /\ OthersStay(c)
  /\ requestCount' = requestCount - 1
  /\ req' = [req EXCEPT ![c] = requestCount - 1]
  /\ pc'[c] \in (IF requestCount - 1 < 0 THEN {"done"} ELSE {"token", "request"})
  /\ UNCHANGED <<file, ended, precedes>>

Begins(c) ==
  /\ pc[c] = "call" /\ pc'[c] = "wait" /\ OthersStay(c)
  /\ precedes' = precedes \cup (ended \X {req[c]})
  /\ UNCHANGED <<file, requestCount, req, ended>>

Ends(c) ==
  /\ pc[c] = "wait" /\ pc'[c] = "response" /\ OthersStay(c)
  /\ ended' = ended \cup {req[c]}
  /\ UNCHANGED <<file, requestCount, req, precedes>>

Rests ==
  /\ UNCHANGED <<file, requestCount, req, ended, precedes>>
  /\ \A c \in Clients :
       \/ pc'[c] = pc[c]
       \/ pc[c] = "token" /\ pc'[c] \in {"request", "done"}
       \/ pc[c] \in {"start", "renew", "poll"} /\ pc'[c] \in {"head", "poll", "done"}

StepKind ==
  \/ Rests
  \/ \E c \in Clients :
       \/ Draws(c) \/ Begins(c) \/ Ends(c)
       \/ Appends(c, "call", "request", {"call"})
       \/ Appends(c, "return", "response", {"renew", "poll"})

LEMMA StepKinds == TypeOK /\ [Next]_vars => StepKind
<1> SUFFICES ASSUME TypeOK, [Next]_vars PROVE StepKind
  OBVIOUS
<1> USE DEF At, Goto, recorderVars, loopVars, tickerVars, ghostVars, OthersStay
<1>0. pc \in [Clients -> Labels] /\ Throttle \in BOOLEAN
  BY ThrottleAssumption DEF TypeOK
<1>1. ASSUME NEW c \in Clients, Start(c) \/ Renew(c) \/ Poll(c) \/ Token(c) PROVE Rests
  BY <1>0, <1>1 DEF Start, Renew, Poll, Token, Rests
<1>2. ASSUME NEW c \in Clients, Draw(c) PROVE Draws(c)
  BY <1>0, <1>2 DEF Draw, Draws
<1>3. ASSUME NEW c \in Clients, InvokeBegin(c) PROVE Begins(c)
  BY <1>0, <1>3 DEF InvokeBegin, Begins
<1>4. ASSUME NEW c \in Clients, InvokeEnd(c) PROVE Ends(c)
  BY <1>0, <1>4 DEF InvokeEnd, Ends
<1>5. ASSUME NEW c \in Clients, Request(c)
      PROVE  Rests \/ Appends(c, "call", "request", {"call"})
  <2>1. procID[c] \in Int /\ req[c] \in Int
    BY DEF TypeOK
  <2>2. Rec("call", procID[c], req[c], FALSE) \in Records
    BY <2>1, RecType DEF Actions
  <2>3. CASE RecordRequest(procID[c], req[c]) /\ Goto(c, "call") /\ UNCHANGED fatal
    BY <1>0, <1>5, <2>2, <2>3 DEF Request, RecordRequest, record, Rec, Appends
  <2>4. CASE UNCHANGED <<recorderVars, pc>>
    BY <1>5, <2>4 DEF Request, Rests
  <2>5. QED
    BY <1>5, <2>3, <2>4 DEF Request
<1>6. ASSUME NEW c \in Clients, Response(c)
      PROVE  Rests \/ Appends(c, "return", "response", {"renew", "poll"})
  <2>1. procID[c] \in Int /\ req[c] \in Int /\ isUnknown[c] \in BOOLEAN
    BY DEF TypeOK
  <2>2. Rec("return", procID[c], req[c], isUnknown[c]) \in Records
    BY <2>1, RecType DEF Actions
  <2>3. CASE /\ RecordResponse(procID[c], req[c], isUnknown[c])
             /\ Goto(c, IF isUnknown[c] THEN "renew" ELSE "poll") /\ UNCHANGED fatal
    BY <1>0, <1>6, <2>2, <2>3 DEF Response, RecordResponse, record, Rec, Appends
  <2>4. CASE UNCHANGED <<recorderVars, pc>>
    BY <1>6, <2>4 DEF Response, Rests
  <2>5. QED
    BY <1>6, <2>3, <2>4 DEF Response
<1>7. ASSUME NEW c \in Clients, TickerStep(c) PROVE Rests
  BY <1>7 DEF TickerStep, TickerWake, TickerTick, TickerDone, Rests
<1>8. CASE ContextDone
  BY <1>8 DEF ContextDone, Rests, StepKind
<1>9. CASE UNCHANGED vars
  BY <1>9 DEF vars, clientVars, Rests, StepKind
<1>10. QED
  BY <1>1, <1>2, <1>3, <1>4, <1>5, <1>6, <1>7, <1>8, <1>9
     DEF Next, LoopStep, Finished, StepKind

LEMMA OrderNext ==
  TypeOK /\ TypeOK' /\ OrderInv /\ StepKind => OrderInv'
<1> SUFFICES ASSUME TypeOK, TypeOK', OrderInv, StepKind PROVE OrderInv'
  OBVIOUS
<1> USE DEF OrderInv, OthersStay
<1>0. file \in Seq(Records) /\ file' \in Seq(Records)
  BY DEF TypeOK
<1>1. CASE Rests
  BY <1>1 DEF Rests, ReturnsEnded, RecordedOrderIsReal
<1>2. ASSUME NEW c \in Clients, Draws(c) PROVE OrderInv'
  <2>1. \A d \in Clients : pc'[d] \in {"response", "call"} => req'[d] = req[d] /\ pc'[d] = pc[d]
    BY <1>2 DEF Draws, TypeOK
  <2>2. \A d \in Clients : pc[d] = "call" => req'[d] = req[d] /\ pc'[d] = pc[d]
    BY <1>2 DEF Draws, TypeOK
  <2>3. QED
    BY <1>2, <2>1, <2>2 DEF Draws, ReturnsEnded, RecordedOrderIsReal
<1>3. ASSUME NEW c \in Clients, Begins(c) PROVE OrderInv'
  <2>1. ReturnsEnded'
    BY <1>3 DEF Begins, ReturnsEnded
  <2>2. RecordedOrderIsReal'
    BY <1>3 DEF Begins, RecordedOrderIsReal
  <2>3. QED
    BY <2>1, <2>2
<1>4. ASSUME NEW c \in Clients, Ends(c) PROVE OrderInv'
  BY <1>4 DEF Ends, ReturnsEnded, RecordedOrderIsReal
<1>5. ASSUME NEW c \in Clients, Appends(c, "call", "request", {"call"}) PROVE OrderInv'
  <2>1. PICK r \in Records : r.action = "call" /\ r.req = req[c] /\ file' = Append(file, r)
    BY <1>5 DEF Appends
  <2>2. /\ Len(file') = Len(file) + 1
        /\ \A i \in 1 .. Len(file) : file'[i] = file[i]
        /\ file'[Len(file) + 1] = r
    BY <1>0, <2>1, AppendAt
  <2>3. ReturnsEnded'
    BY <1>0, <1>5, <2>1, <2>2 DEF Appends, ReturnsEnded
  <2>4. RecordedOrderIsReal'
    <3> SUFFICES ASSUME NEW i \in 1 .. Len(file'), NEW j \in 1 .. Len(file'),
                        i < j, file'[i].action = "return", file'[j].action = "call"
                 PROVE  \/ <<file'[i].req, file'[j].req>> \in precedes'
                        \/ \E d \in Clients : /\ pc'[d] = "call" /\ req'[d] = file'[j].req
                                              /\ file'[i].req \in ended'
      BY DEF RecordedOrderIsReal
    <3>1. i \in 1 .. Len(file) /\ file'[i] = file[i]
      BY <1>0, <2>2
    <3>2. CASE j \in 1 .. Len(file)
      BY <1>5, <2>2, <3>1, <3>2 DEF Appends, RecordedOrderIsReal
    <3>3. CASE j = Len(file) + 1
      BY <1>5, <2>1, <2>2, <3>1, <3>3 DEF Appends, ReturnsEnded
    <3>4. QED
      BY <1>0, <2>2, <3>2, <3>3
  <2>5. QED
    BY <2>3, <2>4
<1>6. ASSUME NEW c \in Clients, Appends(c, "return", "response", {"renew", "poll"}) PROVE OrderInv'
  <2>1. PICK r \in Records : r.action = "return" /\ r.req = req[c] /\ file' = Append(file, r)
    BY <1>6 DEF Appends
  <2>2. /\ Len(file') = Len(file) + 1
        /\ \A i \in 1 .. Len(file) : file'[i] = file[i]
        /\ file'[Len(file) + 1] = r
    BY <1>0, <2>1, AppendAt
  <2>3. ReturnsEnded'
    BY <1>0, <1>6, <2>1, <2>2 DEF Appends, ReturnsEnded
  <2>4. \A j \in 1 .. Len(file') : file'[j].action = "call" =>
          j \in 1 .. Len(file) /\ file'[j] = file[j]
    BY <1>0, <2>1, <2>2
  <2>5. RecordedOrderIsReal'
    <3> SUFFICES ASSUME NEW i \in 1 .. Len(file'), NEW j \in 1 .. Len(file'),
                        i < j, file'[i].action = "return", file'[j].action = "call"
                 PROVE  \/ <<file'[i].req, file'[j].req>> \in precedes'
                        \/ \E d \in Clients : /\ pc'[d] = "call" /\ req'[d] = file'[j].req
                                              /\ file'[i].req \in ended'
      BY DEF RecordedOrderIsReal
    <3>1. j \in 1 .. Len(file) /\ file'[j] = file[j]
      BY <2>4
    <3>2. i \in 1 .. Len(file) /\ file'[i] = file[i]
      BY <1>0, <2>2, <3>1
    <3>3. \A d \in Clients : pc[d] = "call" => pc'[d] = "call"
      BY <1>6 DEF Appends
    <3>4. QED
      BY <1>6, <3>1, <3>2, <3>3 DEF Appends, RecordedOrderIsReal
  <2>6. QED
    BY <2>3, <2>5
<1>7. QED
  BY <1>1, <1>2, <1>3, <1>4, <1>5, <1>6 DEF StepKind

(* The order of returns and calls in the file is the order in which the    *)
(* Invokes really returned and began, for any number of loops.             *)
THEOREM OrderIsReal == Spec => []RecordedOrderIsReal
<1>1. Init => TypeOK /\ OrderInv
  BY TypeInit, InvInit
<1>2. TypeOK /\ OrderInv /\ [Next]_vars => TypeOK' /\ OrderInv'
  BY TypeNext, StepKinds, OrderNext
<1>3. OrderInv => RecordedOrderIsReal
  BY DEF OrderInv
<1>4. QED
  BY <1>1, <1>2, <1>3, PTL DEF Spec

LEMMA OutcomeNext ==
  TypeOK /\ TypeOK' /\ CallsAnswered /\ StepKind => CallsAnswered'
<1> SUFFICES ASSUME TypeOK, TypeOK', CallsAnswered, StepKind,
                    NEW i \in 1 .. Len(file'), file'[i].action = "call"
             PROVE  \/ \E j \in i+1 .. Len(file') :
                         file'[j].action = "return" /\ file'[j].req = file'[i].req
                    \/ \E c \in Clients :
                         pc'[c] \in {"call", "wait", "response"} /\ req'[c] = file'[i].req
  BY DEF CallsAnswered
<1> USE DEF OthersStay
<1>0. file \in Seq(Records) /\ file' \in Seq(Records)
  BY DEF TypeOK
<1>1. CASE Rests
  BY <1>1 DEF Rests, CallsAnswered
<1>2. ASSUME NEW c \in Clients, Draws(c) PROVE CallsAnswered'
  <2>1. \A d \in Clients : pc[d] \in {"call", "wait", "response"} =>
                             req'[d] = req[d] /\ pc'[d] = pc[d]
    BY <1>2 DEF Draws, TypeOK
  <2>2. QED
    BY <1>2, <2>1 DEF Draws, CallsAnswered
<1>3. ASSUME NEW c \in Clients, Begins(c) \/ Ends(c) PROVE CallsAnswered'
  <2>1. \A d \in Clients : pc[d] \in {"call", "wait", "response"} =>
                             pc'[d] \in {"call", "wait", "response"}
    BY <1>3 DEF Begins, Ends
  <2>2. QED
    BY <1>3, <2>1 DEF Begins, Ends, CallsAnswered
<1>4. ASSUME NEW c \in Clients, Appends(c, "call", "request", {"call"})
      PROVE  \/ \E j \in i+1 .. Len(file') :
                  file'[j].action = "return" /\ file'[j].req = file'[i].req
             \/ \E d \in Clients :
                  pc'[d] \in {"call", "wait", "response"} /\ req'[d] = file'[i].req
  <2>1. PICK r \in Records : r.action = "call" /\ r.req = req[c] /\ file' = Append(file, r)
    BY <1>4 DEF Appends
  <2>2. /\ Len(file') = Len(file) + 1
        /\ \A k \in 1 .. Len(file) : file'[k] = file[k]
        /\ file'[Len(file) + 1] = r
    BY <1>0, <2>1, AppendAt
  <2>3. CASE i = Len(file) + 1
    BY <1>4, <2>1, <2>2, <2>3 DEF Appends
  <2>4. CASE i \in 1 .. Len(file)
    <3>1. file'[i] = file[i] /\ file[i].action = "call"
      BY <2>2, <2>4
    <3>2. CASE \E j \in i+1 .. Len(file) : file[j].action = "return" /\ file[j].req = file[i].req
      <4>1. PICK j \in i+1 .. Len(file) : file[j].action = "return" /\ file[j].req = file[i].req
        BY <3>2
      <4>2. j \in i+1 .. Len(file') /\ file'[j] = file[j]
        BY <1>0, <2>2, <2>4, <4>1
      <4>3. QED
        BY <3>1, <4>1, <4>2
    <3>3. CASE \E d \in Clients : pc[d] \in {"call", "wait", "response"} /\ req[d] = file[i].req
      BY <1>4, <3>1, <3>3 DEF Appends
    <3>4. QED
      BY <2>4, <3>1, <3>2, <3>3 DEF CallsAnswered
  <2>5. QED
    BY <1>0, <2>2, <2>3, <2>4
<1>5. ASSUME NEW c \in Clients, Appends(c, "return", "response", {"renew", "poll"})
      PROVE  \/ \E j \in i+1 .. Len(file') :
                  file'[j].action = "return" /\ file'[j].req = file'[i].req
             \/ \E d \in Clients :
                  pc'[d] \in {"call", "wait", "response"} /\ req'[d] = file'[i].req
  <2>1. PICK r \in Records : r.action = "return" /\ r.req = req[c] /\ file' = Append(file, r)
    BY <1>5 DEF Appends
  <2>2. /\ Len(file') = Len(file) + 1
        /\ \A k \in 1 .. Len(file) : file'[k] = file[k]
        /\ file'[Len(file) + 1] = r
    BY <1>0, <2>1, AppendAt
  <2>3. i \in 1 .. Len(file) /\ file'[i] = file[i] /\ file[i].action = "call"
    BY <1>0, <2>1, <2>2
  <2>4. CASE \E j \in i+1 .. Len(file) : file[j].action = "return" /\ file[j].req = file[i].req
    <3>1. PICK j \in i+1 .. Len(file) : file[j].action = "return" /\ file[j].req = file[i].req
      BY <2>4
    <3>2. j \in i+1 .. Len(file') /\ file'[j] = file[j]
      BY <1>0, <2>2, <2>3, <3>1
    <3>3. QED
      BY <2>3, <3>1, <3>2
  <2>5. CASE req[c] = file[i].req
    <3>1. Len(file) + 1 \in i+1 .. Len(file')
      BY <1>0, <2>2, <2>3
    <3>2. QED
      BY <2>1, <2>2, <2>3, <2>5, <3>1
  <2>6. CASE \E d \in Clients : d # c /\ pc[d] \in {"call", "wait", "response"} /\ req[d] = file[i].req
    BY <1>5, <2>3, <2>6 DEF Appends
  <2>7. QED
    BY <2>3, <2>4, <2>5, <2>6 DEF CallsAnswered
<1>6. QED
  BY <1>1, <1>2, <1>3, <1>4, <1>5 DEF StepKind, CallsAnswered

(* When every loop has returned, every recorded call has its outcome in    *)
(* the file.                                                               *)
THEOREM OutcomesAreRecorded == Spec => []OutcomesRecorded
<1>1. Init => TypeOK /\ CallsAnswered
  BY TypeInit, InvInit
<1>2. TypeOK /\ CallsAnswered /\ [Next]_vars => TypeOK' /\ CallsAnswered'
  BY TypeNext, StepKinds, OutcomeNext
<1>3. CallsAnswered => OutcomesRecorded
  BY DEF CallsAnswered, OutcomesRecorded, LoopsDone
<1>4. QED
  BY <1>1, <1>2, <1>3, PTL DEF Spec

LEMMA BudgetNext ==
  TypeOK /\ TypeOK' /\ BudgetInv /\ StepKind => BudgetInv'
<1> SUFFICES ASSUME TypeOK, TypeOK', BudgetInv, StepKind PROVE BudgetInv'
  OBVIOUS
<1> USE DEF BudgetInv, OthersStay, Holds
<1>0. /\ file \in Seq(Records) /\ file' \in Seq(Records)
      /\ requestCount \in Int /\ req \in [Clients -> Int] /\ RequestCount \in Nat
  BY RequestCountAssumption DEF TypeOK
<1>a. \A i \in 1 .. Len(file) : file[i].req \in Int
  <2>1. \A i \in 1 .. Len(file) : file[i] \in Records
    BY <1>0
  <2>2. QED
    BY <2>1 DEF Records
<1>1. ASSUME /\ UNCHANGED <<file, requestCount, req>>
             /\ \A c \in Clients :
                  /\ Holds(c)' => Holds(c)
                  /\ pc'[c] \in {"token", "request"} => pc[c] \in {"token", "request"}
      PROVE  BudgetInv'
  BY <1>1 DEF HeldFromBudget, HeldDistinct, HeldUnrecorded, RecordedFromBudget,
              BudgetRespected
<1>2. CASE Rests
  BY <1>1, <1>2 DEF Rests
<1>3. ASSUME NEW c \in Clients, Begins(c) \/ Ends(c) PROVE BudgetInv'
  BY <1>1, <1>3 DEF Begins, Ends
<1>4. ASSUME NEW c \in Clients, Draws(c) PROVE BudgetInv'
  <2>1. /\ requestCount' = requestCount - 1 /\ req'[c] = requestCount - 1
        /\ \A d \in Clients : d # c => req'[d] = req[d] /\ pc'[d] = pc[d]
        /\ Holds(c)' => requestCount - 1 >= 0
        /\ file' = file
    BY <1>0, <1>4 DEF Draws
  <2>2. HeldFromBudget'
    BY <1>0, <2>1 DEF HeldFromBudget
  <2>3. HeldDistinct'
    BY <1>0, <2>1 DEF HeldFromBudget, HeldDistinct
  <2>4. HeldUnrecorded'
    BY <1>0, <1>a, <2>1 DEF HeldUnrecorded, RecordedFromBudget
  <2>5. RecordedFromBudget'
    BY <1>0, <1>a, <2>1 DEF RecordedFromBudget
  <2>6. BudgetRespected' /\ (requestCount <= RequestCount)'
    BY <1>0, <2>1 DEF BudgetRespected
  <2>7. QED
    BY <2>2, <2>3, <2>4, <2>5, <2>6
<1>5. ASSUME NEW c \in Clients, Appends(c, "call", "request", {"call"}) PROVE BudgetInv'
  <2>1. PICK r \in Records : r.action = "call" /\ r.req = req[c] /\ file' = Append(file, r)
    BY <1>5 DEF Appends
  <2>2. /\ Len(file') = Len(file) + 1
        /\ \A k \in 1 .. Len(file) : file'[k] = file[k]
        /\ file'[Len(file) + 1] = r
    BY <1>0, <2>1, AppendAt
  <2>3. /\ UNCHANGED <<requestCount, req>>
        /\ pc[c] = "request" /\ pc'[c] = "call"
        /\ \A d \in Clients : d # c => pc'[d] = pc[d]
    BY <1>5 DEF Appends
  <2>4. HeldFromBudget'
    BY <2>3 DEF HeldFromBudget
  <2>5. HeldDistinct'
    BY <2>3 DEF HeldDistinct
  <2>6. HeldUnrecorded'
    BY <1>0, <2>1, <2>2, <2>3 DEF HeldUnrecorded, HeldDistinct
  <2>7. RecordedFromBudget'
    BY <1>0, <2>1, <2>2, <2>3 DEF RecordedFromBudget, HeldFromBudget
  <2>8. BudgetRespected'
    <3>1. \A k \in 1 .. Len(file) : file[k].action = "call" => file[k].req # r.req
      BY <2>1, <2>3 DEF HeldUnrecorded
    <3>2. r.req \in 0 .. RequestCount - 1
      BY <2>1, <2>3 DEF HeldFromBudget
    <3>3. \A k \in 1 .. Len(file') :
             \/ k \in 1 .. Len(file) /\ file'[k] = file[k]
             \/ k = Len(file) + 1 /\ file'[k] = r
      BY <1>0, <2>2
    <3>4. \A i \in 1 .. Len(file') :
            file'[i].action = "call" => file'[i].req \in 0 .. RequestCount - 1
      BY <3>2, <3>3 DEF BudgetRespected
    <3>5. \A i, j \in 1 .. Len(file') :
            file'[i].action = "call" /\ file'[j].action = "call" /\ i # j =>
              file'[i].req # file'[j].req
      BY <3>1, <3>3 DEF BudgetRespected
    <3>6. QED
      BY <3>4, <3>5 DEF BudgetRespected
  <2>9. QED
    BY <2>3, <2>4, <2>5, <2>6, <2>7, <2>8
<1>6. ASSUME NEW c \in Clients, Appends(c, "return", "response", {"renew", "poll"})
      PROVE  BudgetInv'
  <2>1. PICK r \in Records : r.action = "return" /\ r.req = req[c] /\ file' = Append(file, r)
    BY <1>6 DEF Appends
  <2>2. \A k \in 1 .. Len(file') : file'[k].action = "call" =>
          k \in 1 .. Len(file) /\ file'[k] = file[k]
    BY <1>0, <2>1, AppendAt
  <2>3. /\ UNCHANGED <<requestCount, req>>
        /\ pc'[c] \in {"renew", "poll"}
        /\ \A d \in Clients : d # c => pc'[d] = pc[d]
    BY <1>6 DEF Appends
  <2>4. HeldFromBudget' /\ HeldDistinct'
    BY <2>3 DEF HeldFromBudget, HeldDistinct
  <2>5. HeldUnrecorded' /\ RecordedFromBudget' /\ BudgetRespected'
    BY <2>2, <2>3 DEF HeldUnrecorded, RecordedFromBudget, BudgetRespected
  <2>6. QED
    BY <2>3, <2>4, <2>5
<1>7. QED
  BY <1>2, <1>3, <1>4, <1>5, <1>6 DEF StepKind

(* No request number of the budget is used twice and none beyond it: at    *)
(* most RequestCount requests are sent in a round, whatever the number of  *)
(* loops that draw on it.                                                  *)
THEOREM BudgetIsRespected == Spec => []BudgetRespected
<1>1. Init => TypeOK /\ BudgetInv
  BY TypeInit, InvInit
<1>2. TypeOK /\ BudgetInv /\ [Next]_vars => TypeOK' /\ BudgetInv'
  BY TypeNext, StepKinds, BudgetNext
<1>3. BudgetInv => BudgetRespected
  BY DEF BudgetInv
<1>4. QED
  BY <1>1, <1>2, <1>3, PTL DEF Spec
=============================================================================

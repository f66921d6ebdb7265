--------------------------- MODULE HistoryProofs ---------------------------
(***************************************************************************)
(* Proof that the client loops implement History, for any set of clients,  *)
(* any budget and both kinds of loop.                                      *)
(***************************************************************************)
EXTENDS ClientHistory, ClientLoopProofs

(* A call appended to a history opens its request and changes nothing else. *)
LEMMA CallOpens ==
  ASSUME NEW h \in Seq(Records), NEW r \in Records, r.action = "call"
  PROVE  /\ OpenIn(Append(h, r)) = OpenIn(h) \cup {<<r.proc, r.req>>}
         /\ RetiredIn(Append(h, r)) = RetiredIn(h)
         /\ CalledIn(Append(h, r)) = CalledIn(h) \cup {r.req}
<1> DEFINE g == Append(h, r)
           n == Len(h) + 1
<1>1. /\ Len(g) = n /\ n \in Nat /\ Len(h) \in Nat
      /\ \A i \in 1 .. Len(h) : g[i] = h[i]
      /\ g[n] = r
  BY AppendAt
<1> HIDE DEF g
<1>2. \A i \in 1 .. Len(h) : Answered(g, i) <=> Answered(h, i)
  BY <1>1 DEF Answered
<1>3. ~ Answered(g, n)
  BY <1>1 DEF Answered
<1>4. \A i \in 1 .. Len(g) : i \in 1 .. Len(h) \/ i = n
  BY <1>1
<1>5. n \in 1 .. Len(g) /\ \A i \in 1 .. Len(h) : i \in 1 .. Len(g)
  BY <1>1
<1> HIDE DEF n
<1>6. OpenIn(g) = OpenIn(h) \cup {<<r.proc, r.req>>}
  BY <1>1, <1>2, <1>3, <1>4, <1>5 DEF OpenIn
<1>7. RetiredIn(g) = RetiredIn(h)
  BY <1>1, <1>4, <1>5 DEF RetiredIn
<1>8. CalledIn(g) = CalledIn(h) \cup {r.req}
  BY <1>1, <1>4, <1>5 DEF CalledIn
<1>9. QED
  BY <1>6, <1>7, <1>8 DEF g

(* A return appended closes the request of its process; if it is unknown   *)
(* the process is retired.                                                 *)
LEMMA ReturnCloses ==
  ASSUME NEW h \in Seq(Records), NEW r \in Records, r.action = "return"
  PROVE  /\ OpenIn(Append(h, r)) = OpenIn(h) \ {<<r.proc, r.req>>}
         /\ RetiredIn(Append(h, r)) =
              RetiredIn(h) \cup (IF r.unknown THEN {r.proc} ELSE {})
         /\ CalledIn(Append(h, r)) = CalledIn(h)
<1> DEFINE g == Append(h, r)
           n == Len(h) + 1
<1>1. /\ Len(g) = n /\ n \in Nat /\ Len(h) \in Nat
      /\ \A i \in 1 .. Len(h) : g[i] = h[i]
      /\ g[n] = r
  BY AppendAt
<1> HIDE DEF g
<1>2. \A i \in 1 .. Len(h) :
        Answered(g, i) <=> Answered(h, i) \/ <<h[i].proc, h[i].req>> = <<r.proc, r.req>>
  <2> SUFFICES ASSUME NEW i \in 1 .. Len(h)
               PROVE  Answered(g, i) <=>
                        Answered(h, i) \/ (h[i].proc = r.proc /\ h[i].req = r.req)
    OBVIOUS
  <2>1. ASSUME Answered(g, i)
        PROVE  Answered(h, i) \/ (h[i].proc = r.proc /\ h[i].req = r.req)
    BY <1>1, <2>1 DEF Answered
  <2>2. ASSUME Answered(h, i) PROVE Answered(g, i)
    BY <1>1, <2>2 DEF Answered
  <2>3. ASSUME h[i].proc = r.proc, h[i].req = r.req PROVE Answered(g, i)
    <3>1. n \in i + 1 .. Len(g) /\ g[n].action = "return"
      BY <1>1
    <3>2. QED
      BY <1>1, <2>3, <3>1 DEF Answered
  <2>4. QED
    BY <2>1, <2>2, <2>3
<1>3. \A i \in 1 .. Len(g) : i \in 1 .. Len(h) \/ i = n
  BY <1>1
<1>4. n \in 1 .. Len(g) /\ \A i \in 1 .. Len(h) : i \in 1 .. Len(g)
  BY <1>1
<1> HIDE DEF n
<1>5. OpenIn(g) = OpenIn(h) \ {<<r.proc, r.req>>}
  BY <1>1, <1>2, <1>3, <1>4 DEF OpenIn
<1>6. RetiredIn(g) = RetiredIn(h) \cup (IF r.unknown THEN {r.proc} ELSE {})
  BY <1>1, <1>3, <1>4 DEF RetiredIn
<1>7. CalledIn(g) = CalledIn(h)
  BY <1>1, <1>3, <1>4 DEF CalledIn
<1>8. QED
  BY <1>5, <1>6, <1>7 DEF g
-----------------------------------------------------------------------------
(* The invariant of the refinement: what is open in the file is what the   *)
(* loops have in flight, no loop that may still call bears a retired id,   *)
(* and ids are not shared.                                                 *)
InFlight(c) == pc[c] \in {"call", "wait", "response"}

OpenIsInFlight ==
  /\ \A e \in OpenIn(file) :
       \E c \in Clients : InFlight(c) /\ e = <<procID[c], req[c]>>
  /\ \A c \in Clients : InFlight(c) => <<procID[c], req[c]>> \in OpenIn(file)

RetiredIsGone ==
  \A p \in RetiredIn(file) :
    /\ p \in Int /\ p <= proc
    /\ \A c \in Clients : pc[c] \notin {"start", "renew"} => procID[c] # p

MapInv == DistinctProcIDs /\ OpenIsInFlight /\ RetiredIsGone

(* The three variables of History stand still. *)
HistoryStays == UNCHANGED <<OpenIn(file), RetiredIn(file), CalledIn(file)>>

LEMMA MapInit == Init => MapInv /\ H!Init
<1> SUFFICES ASSUME Init PROVE MapInv /\ H!Init
  OBVIOUS
<1>1. /\ Len(file) = 1 /\ file[1].action = "dump"
      /\ \A c \in Clients : pc[c] = "start"
  BY RecordsInit
<1>2. \A i \in 1 .. Len(file) : file[i].action = "dump"
  BY <1>1
<1>3. OpenIn(file) = {} /\ RetiredIn(file) = {} /\ CalledIn(file) = {}
  BY <1>2 DEF OpenIn, RetiredIn, CalledIn
<1>4. QED
  BY <1>1, <1>3
     DEF MapInv, DistinctProcIDs, OpenIsInFlight, InFlight, RetiredIsGone, H!Init

(* Recording a call is a Call of History. *)
LEMMA MapCall ==
  ASSUME TypeOK, MapInv, BudgetInv, NEW c \in Clients, NEW r \in Records,
         record(r), r.action = "call", r.proc = procID[c], r.req = req[c],
         pc[c] = "request", pc'[c] = "call",
         \A d \in Clients : d # c => pc'[d] = pc[d],
         UNCHANGED <<proc, procID, req>>
  PROVE  MapInv' /\ H!Next
<1> DEFINE p == procID[c]
           q == req[c]
<1>1. /\ OpenIn(file') = OpenIn(file) \cup {<<p, q>>}
      /\ RetiredIn(file') = RetiredIn(file)
      /\ CalledIn(file') = CalledIn(file) \cup {q}
  BY CallOpens DEF record, TypeOK
<1>2. p \notin RetiredIn(file)
  BY DEF MapInv, RetiredIsGone
<1>3. \A e \in OpenIn(file) : e[1] # p
  <2> SUFFICES ASSUME NEW e \in OpenIn(file) PROVE e[1] # p
    OBVIOUS
  <2>1. PICK d \in Clients : InFlight(d) /\ e = <<procID[d], req[d]>>
    BY DEF MapInv, OpenIsInFlight
  <2>2. d # c /\ pc[d] # "start"
    BY <2>1 DEF InFlight
  <2>3. QED
    BY <2>1, <2>2 DEF MapInv, DistinctProcIDs
<1>4. q \notin CalledIn(file)
  BY DEF BudgetInv, HeldUnrecorded, CalledIn
<1>5. H!Call(p, q)
  BY <1>1, <1>2, <1>3, <1>4 DEF H!Call
<1>6. H!Next
  <2>1. <<p, q>> \in OpenIn(file') /\ <<p, q>>[1] = p /\ <<p, q>>[2] = q
    BY <1>1
  <2>2. H!Call(<<p, q>>[1], <<p, q>>[2])
    BY <1>5
  <2>3. QED
    BY <2>1, <2>2 DEF H!Next
<1>7. DistinctProcIDs'
  BY DEF MapInv, DistinctProcIDs
<1>8. OpenIsInFlight'
  BY <1>1 DEF MapInv, OpenIsInFlight, InFlight
<1>9. RetiredIsGone'
  BY <1>1, <1>2 DEF MapInv, RetiredIsGone
<1>10. QED
  BY <1>6, <1>7, <1>8, <1>9 DEF MapInv

(* Recording a response is a Return of History. *)
LEMMA MapReturn ==
  ASSUME TypeOK, MapInv, NEW c \in Clients, NEW r \in Records,
         record(r), r.action = "return", r.proc = procID[c], r.req = req[c],
         pc[c] = "response", pc'[c] = IF r.unknown THEN "renew" ELSE "poll",
         \A d \in Clients : d # c => pc'[d] = pc[d],
         UNCHANGED <<proc, procID, req>>
  PROVE  MapInv' /\ H!Next
<1> DEFINE p == procID[c]
           q == req[c]
<1>1. /\ OpenIn(file') = OpenIn(file) \ {<<p, q>>}
      /\ RetiredIn(file') = RetiredIn(file) \cup (IF r.unknown THEN {p} ELSE {})
      /\ CalledIn(file') = CalledIn(file)
  BY ReturnCloses DEF record, TypeOK
<1>2. <<p, q>> \in OpenIn(file)
  BY DEF MapInv, OpenIsInFlight, InFlight
<1>3. H!Return(p, q)
  BY <1>1, <1>2 DEF H!Return
<1>4. H!Next
  <2>1. H!Return(<<p, q>>[1], <<p, q>>[2])
    BY <1>3
  <2>2. QED
    BY <1>2, <2>1 DEF H!Next
<1>5. \A d \in Clients : d # c /\ pc[d] # "start" => procID[d] # p
  BY DEF MapInv, DistinctProcIDs
<1>6. DistinctProcIDs'
  BY DEF MapInv, DistinctProcIDs
<1>7. OpenIsInFlight'
  <2>1. ASSUME NEW e \in OpenIn(file')
        PROVE  \E d \in Clients : InFlight(d)' /\ e = <<procID'[d], req'[d]>>
    <3>1. PICK d \in Clients : InFlight(d) /\ e = <<procID[d], req[d]>>
      BY <1>1 DEF MapInv, OpenIsInFlight
    <3>2. d # c
      BY <1>1, <3>1
    <3>3. QED
      BY <3>1, <3>2 DEF InFlight
  <2>2. ASSUME NEW d \in Clients, InFlight(d)'
        PROVE  <<procID'[d], req'[d]>> \in OpenIn(file')
    <3>1. d # c /\ InFlight(d) /\ pc[d] # "start"
      BY <2>2 DEF InFlight
    <3>2. procID[d] # p /\ <<procID[d], req[d]>> \in OpenIn(file)
      BY <1>5, <3>1 DEF MapInv, OpenIsInFlight
    <3>3. QED
      BY <1>1, <3>2
  <2>3. QED
    BY <2>1, <2>2 DEF OpenIsInFlight
<1>8. RetiredIsGone'
  <2>1. p \in Int /\ p <= proc
    BY DEF TypeOK
  <2>2. \A x \in RetiredIn(file') : x \in RetiredIn(file) \/ (x = p /\ r.unknown)
    BY <1>1
  <2>3. QED
    BY <1>5, <2>1, <2>2 DEF MapInv, RetiredIsGone
<1>9. QED
  BY <1>4, <1>6, <1>7, <1>8 DEF MapInv

(* A new process id was never retired. *)
LEMMA MapNewID ==
  ASSUME TypeOK, MapInv, NEW c \in Clients, pc[c] \in {"start", "renew"},
         proc' = proc + 1,
         procID' = [procID EXCEPT ![c] = proc + 1],
         pc'[c] \in {"head", "poll"},
         \A d \in Clients : d # c => pc'[d] = pc[d],
         UNCHANGED <<file, req>>
  PROVE  MapInv' /\ HistoryStays
<1>1. /\ procID'[c] = proc + 1
      /\ \A d \in Clients : d # c => procID'[d] = procID[d]
      /\ \A d \in Clients : procID[d] \in Nat /\ procID[d] <= proc
      /\ proc \in Nat
  BY DEF TypeOK
<1>2. DistinctProcIDs'
  BY <1>1 DEF MapInv, DistinctProcIDs
<1>3. OpenIsInFlight'
  BY <1>1 DEF MapInv, OpenIsInFlight, InFlight
<1>4. RetiredIsGone'
  BY <1>1 DEF MapInv, RetiredIsGone
<1>5. QED
  BY <1>2, <1>3, <1>4 DEF MapInv, HistoryStays

(* A step that writes nothing and leaves each loop between the same two    *)
(* records is no step of History.                                          *)
LEMMA MapQuiet ==
  ASSUME MapInv, UNCHANGED <<file, proc, procID>>,
         \A d \in Clients :
           \/ pc'[d] = pc[d] /\ req'[d] = req[d]
           \/ /\ pc[d] \in {"head", "token", "poll"}
              /\ pc'[d] \in {"head", "token", "request", "done"}
           \/ /\ pc[d] \in {"call", "wait"} /\ pc'[d] \in {"wait", "response"}
              /\ req'[d] = req[d]
  PROVE  MapInv' /\ HistoryStays
<1>1. DistinctProcIDs'
  BY DEF MapInv, DistinctProcIDs
<1>2. OpenIsInFlight'
  BY DEF MapInv, OpenIsInFlight, InFlight
<1>3. RetiredIsGone'
  BY DEF MapInv, RetiredIsGone
<1>4. QED
  BY <1>1, <1>2, <1>3 DEF MapInv, HistoryStays

LEMMA MapNext ==
  TypeOK /\ MapInv /\ BudgetInv /\ [Next]_vars => MapInv' /\ (H!Next \/ HistoryStays)
<1> SUFFICES ASSUME TypeOK, MapInv, BudgetInv, [Next]_vars
             PROVE  MapInv' /\ (H!Next \/ HistoryStays)
  OBVIOUS
<1> DEFINE Goal == MapInv' /\ (H!Next \/ HistoryStays)
<1> USE DEF At, Goto, recorderVars, loopVars, tickerVars, ghostVars
<1>0. pc \in [Clients -> Labels] /\ req \in [Clients -> Int]
  BY DEF TypeOK
<1>1. ASSUME NEW c \in Clients, Start(c) \/ Renew(c) PROVE Goal
  BY <1>0, <1>1, MapNewID DEF Start, Renew
<1>2. ASSUME NEW c \in Clients, Draw(c) PROVE Goal
  BY <1>0, <1>2, MapQuiet DEF Draw
<1>3. ASSUME NEW c \in Clients, Token(c) \/ InvokeBegin(c) \/ InvokeEnd(c) \/ Poll(c)
      PROVE  Goal
  BY <1>0, <1>3, MapQuiet DEF Token, InvokeBegin, InvokeEnd, Poll
<1>4. ASSUME NEW c \in Clients, Request(c) PROVE Goal
  <2>1. CASE RecordRequest(procID[c], req[c]) /\ Goto(c, "call") /\ UNCHANGED fatal
    <3> DEFINE r == Rec("call", procID[c], req[c], FALSE)
    <3>1. procID[c] \in Int /\ req[c] \in Int
      BY DEF TypeOK
    <3>2. r \in Records
      BY <3>1, RecType DEF Actions
    <3>3. record(r) /\ r.action = "call" /\ r.proc = procID[c] /\ r.req = req[c]
      BY <2>1 DEF RecordRequest, Rec
    <3>4. /\ pc[c] = "request" /\ pc'[c] = "call"
          /\ \A d \in Clients : d # c => pc'[d] = pc[d]
          /\ UNCHANGED <<proc, procID, req>>
      BY <1>0, <1>4, <2>1 DEF Request
    <3> HIDE DEF r
    <3>5. QED
      BY <3>2, <3>3, <3>4, MapCall
  <2>2. CASE UNCHANGED <<recorderVars, pc>>
    BY <1>4, <2>2, MapQuiet DEF Request
  <2>3. QED
    BY <1>4, <2>1, <2>2 DEF Request
<1>5. ASSUME NEW c \in Clients, Response(c) PROVE Goal
  <2>1. CASE /\ RecordResponse(procID[c], req[c], isUnknown[c])
             /\ Goto(c, IF isUnknown[c] THEN "renew" ELSE "poll") /\ UNCHANGED fatal
    <3> DEFINE r == Rec("return", procID[c], req[c], isUnknown[c])
    <3>1. procID[c] \in Int /\ req[c] \in Int /\ isUnknown[c] \in BOOLEAN
      BY DEF TypeOK
    <3>2. r \in Records
      BY <3>1, RecType DEF Actions
    <3>3. /\ record(r) /\ r.action = "return" /\ r.proc = procID[c]
          /\ r.req = req[c] /\ r.unknown = isUnknown[c]
      BY <2>1 DEF RecordResponse, Rec
    <3>4. /\ pc[c] = "response"
          /\ pc'[c] = IF isUnknown[c] THEN "renew" ELSE "poll"
          /\ \A d \in Clients : d # c => pc'[d] = pc[d]
          /\ UNCHANGED <<proc, procID, req>>
      BY <1>0, <1>5, <2>1 DEF Response
    <3> HIDE DEF r
    <3>5. QED
      BY <3>2, <3>3, <3>4, MapReturn
  <2>2. CASE UNCHANGED <<recorderVars, pc>>
    BY <1>5, <2>2, MapQuiet DEF Response
  <2>3. QED
    BY <1>5, <2>1, <2>2 DEF Response
<1>6. ASSUME NEW c \in Clients, TickerStep(c) PROVE Goal
  BY <1>6, MapQuiet DEF TickerStep, TickerWake, TickerTick, TickerDone
<1>7. CASE ContextDone
  BY <1>7, MapQuiet DEF ContextDone
<1>8. CASE UNCHANGED vars
  BY <1>8, MapQuiet DEF vars, clientVars
<1>9. QED
  BY <1>1, <1>2, <1>3, <1>4, <1>5, <1>6, <1>7, <1>8 DEF Next, LoopStep, Finished

(* Every behaviour of the client loops of cmd/util/suit.go is, seen        *)
(* through the records in the history file, a behaviour of History.        *)
THEOREM LoopsImplementHistory == Spec => ImplementsHistory
<1>1. Init => TypeOK /\ BudgetInv /\ MapInv /\ H!Init
  BY TypeInit, InvInit, MapInit
<1>2. TypeOK /\ BudgetInv /\ [Next]_vars => TypeOK' /\ BudgetInv'
  BY TypeNext, StepKinds, BudgetNext
<1>3. TypeOK /\ BudgetInv /\ MapInv /\ [Next]_vars =>
        MapInv' /\ [H!Next]_<<OpenIn(file), RetiredIn(file), CalledIn(file)>>
  BY MapNext DEF HistoryStays
<1>4. QED
  BY <1>1, <1>2, <1>3, PTL DEF Spec, ImplementsHistory, H!Spec
=============================================================================

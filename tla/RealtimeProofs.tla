--------------------------- MODULE RealtimeProofs ---------------------------
(***************************************************************************)
(* RealtimeGraph computes the covering relation of the real-time order,    *)
(* for any number of processes and histories of any length.                *)
(***************************************************************************)
EXTENDS RealtimeGraph, WellFoundedInduction, TLAPS

Events == [type : Types, process : Process]

(* Processes invoke and complete in turn. *)
WellFormed(h) == \A n \in 1 .. Len(h) : MayFollow(h, n, h[n])

(* The first n-1 events leave invocation j of process p open; an unknown   *)
(* completion does not close it.                                           *)
OpenAt(h, p, j, n) ==
  /\ j \in 1 .. Len(h) /\ j < n
  /\ h[j].type = "invoke" /\ h[j].process = p
  /\ \A m \in j+1 .. n-1 : h[m].process = p => h[m].type = "unknown"

(* The first pass after n-1 events. *)
PairedUpTo(n) ==
  /\ \A p \in Process : \A j \in 1 .. Len(history) :
        invocations[p] = j <=> OpenAt(history, p, j, n)
  /\ \A j, k \in 1 .. Len(history) :
        history[j].type = "invoke" => (pair[j] = k <=> Match(history, j, k) /\ k < n)

(* The second pass after n-1 events. *)
ScannedUpTo(n) ==
  /\ \A a \in 1 .. Len(history) : a \in doneEvents <=> InFrontier(history, a, n)
  /\ \A a, k \in 1 .. Len(history) :
        <<a, k>> \in edges <=>
          \E j \in 1 .. Len(history) : j < n /\ Match(history, j, k) /\ InFrontier(history, a, j)

RTInv ==
  /\ RTTypeOK
  /\ WellFormed(history)
  /\ phase = "record" => i = 1 /\ invocations = [p \in Process |-> 0]
  /\ phase \in {"record", "pair"} => doneEvents = {} /\ edges = {}
  /\ phase = "pair" => PairedUpTo(i)
  /\ PairsMatch
  /\ phase = "scan" => ScannedUpTo(i)
  /\ phase = "done" => ScannedUpTo(Len(history) + 1)
-----------------------------------------------------------------------------
(* A completion has one invocation and an invocation one completion: what  *)
(* lies between them is by other processes.                                *)
LEMMA MatchUnique ==
  ASSUME NEW h \in Seq(Events), NEW j \in 1 .. Len(h), NEW k \in 1 .. Len(h),
         NEW l \in 1 .. Len(h)
  PROVE  /\ Match(h, j, k) /\ Match(h, j, l) => k = l
         /\ Match(h, j, l) /\ Match(h, k, l) => j = k
BY DEF Match, Events, Paired

(* In a well-formed history every completion the passes know is matched by *)
(* an invocation.                                                          *)
LEMMA MatchExists ==
  ASSUME NEW h \in Seq(Events), WellFormed(h), NEW k \in 1 .. Len(h), h[k].type \in Paired
  PROVE  \E j \in 1 .. Len(h) : Match(h, j, k)
<1>1. MayFollow(h, k, h[k])
  BY DEF WellFormed
<1>2. h[k].type # "invoke"
  BY DEF Paired
<1>3. PICK j \in 1 .. k-1 : IsLastOf(h, h[k].process, k, j) /\ h[j].type = "invoke"
  BY <1>1, <1>2 DEF MayFollow
<1>4. Match(h, j, k)
  BY <1>3 DEF IsLastOf, IsOf, Match
<1> QED BY <1>4

(* How the open invocations change with event n. *)
LEMMA OpenStep ==
  ASSUME NEW h \in Seq(Events), WellFormed(h), NEW n \in 1 .. Len(h),
         NEW p \in Process, NEW j \in 1 .. Len(h)
  PROVE  /\ h[n].type = "invoke" => (OpenAt(h, p, j, n + 1) <=>
               IF h[n].process = p THEN j = n ELSE OpenAt(h, p, j, n))
         /\ h[n].type \in Paired => (OpenAt(h, p, j, n + 1) <=>
               OpenAt(h, p, j, n) /\ h[n].process # p)
         /\ h[n].type = "unknown" => (OpenAt(h, p, j, n + 1) <=> OpenAt(h, p, j, n))
<1> USE DEF Events
<1>1. OpenAt(h, p, j, n) /\ (h[n].process # p \/ h[n].type = "unknown") => OpenAt(h, p, j, n + 1)
  BY DEF OpenAt
<1>2. OpenAt(h, p, j, n + 1) /\ j # n => OpenAt(h, p, j, n)
  BY DEF OpenAt
<1>3. OpenAt(h, p, j, n + 1) /\ j # n => (h[n].process = p => h[n].type = "unknown")
  BY DEF OpenAt
<1>4. OpenAt(h, p, n, n + 1) <=> (h[n].type = "invoke" /\ h[n].process = p)
  BY DEF OpenAt
<1>5. CASE h[n].type = "invoke"
  BY <1>1, <1>2, <1>3, <1>4, <1>5 DEF Paired, OpenAt
<1>6. CASE h[n].type \in Paired
  BY <1>1, <1>2, <1>3, <1>4, <1>6 DEF Paired, OpenAt
<1>7. CASE h[n].type = "unknown"
  BY <1>1, <1>2, <1>3, <1>4, <1>7 DEF Paired, OpenAt
<1> QED BY <1>5, <1>6, <1>7 DEF Types, Paired

(* What a pass over event n adds to the pairs found. *)
LEMMA PairStep ==
  ASSUME NEW h \in Seq(Events), WellFormed(h), NEW n \in 1 .. Len(h), NEW j \in 1 .. Len(h)
  PROVE  /\ h[n].type \notin Paired => ~ Match(h, j, n)
         /\ Match(h, j, n) => OpenAt(h, h[n].process, j, n)
         /\ OpenAt(h, h[n].process, j, n) /\ h[n].type \in Paired => Match(h, j, n)
<1>1. h[n].type \notin Paired => ~ Match(h, j, n)
  BY DEF Match
<1>2. Match(h, j, n) => OpenAt(h, h[n].process, j, n)
  BY DEF Match, OpenAt
<1>3. ASSUME OpenAt(h, h[n].process, j, n), h[n].type \in Paired
      PROVE  Match(h, j, n)
  <2>1. PICK l \in 1 .. Len(h) : Match(h, l, n)
    BY MatchExists, <1>3
  <2>2. ~ (l < j)
    BY <2>1, <1>3 DEF Match, OpenAt, Events
  <2>3. ~ (j < l)
    BY <2>1, <1>3 DEF Match, OpenAt, Events
  <2>4. j = l
    BY <2>1, <2>2, <2>3
  <2> QED BY <2>1, <2>4
<1> QED BY <1>1, <1>2, <1>3

(* How the frontier moves over an ok completion n of invocation j: n joins *)
(* it and those that j found there leave it.                               *)
LEMMA FrontierOk ==
  ASSUME NEW h \in Seq(Events), NEW n \in 1 .. Len(h), NEW j \in 1 .. Len(h),
         IsOk(h, n), Match(h, j, n), NEW a \in 1 .. Len(h)
  PROVE  InFrontier(h, a, n + 1) <=> a = n \/ (InFrontier(h, a, n) /\ ~ InFrontier(h, a, j))
<1>1. j < n
  BY DEF Match
<1>2. ASSUME NEW b \in 1 .. Len(h), NEW c \in 1 .. Len(h), Match(h, b, c)
      PROVE  b < c
  BY <1>2 DEF Match
<1>3. InFrontier(h, a, n + 1) /\ a # n => InFrontier(h, a, n)
  BY DEF InFrontier
<1>4. InFrontier(h, a, n + 1) => ~ InFrontier(h, a, j)
  BY <1>1 DEF InFrontier
<1>5. InFrontier(h, n, n + 1)
  BY <1>2 DEF InFrontier
<1>6. ASSUME InFrontier(h, a, n), ~ InFrontier(h, a, j)
      PROVE  InFrontier(h, a, n + 1)
  <2>1. ~ (a < j)
    BY <1>1, <1>6 DEF InFrontier
  <2>2. ASSUME NEW b \in 1 .. Len(h), NEW c \in 1 .. Len(h),
               IsOk(h, c), Match(h, b, c), a < b, c < n + 1
        PROVE  FALSE
    <3>1. c = n
      BY <1>6, <2>2 DEF InFrontier
    <3>2. b = j
      BY <3>1, <2>2, MatchUnique
    <3> QED BY <3>2, <2>1, <2>2
  <2> QED BY <1>6, <2>2 DEF InFrontier
<1> QED BY <1>3, <1>4, <1>5, <1>6

(* Any other event leaves the frontier alone. *)
LEMMA FrontierOther ==
  ASSUME NEW h \in Seq(Events), NEW n \in 1 .. Len(h), ~ IsOk(h, n), NEW a \in 1 .. Len(h)
  PROVE  InFrontier(h, a, n + 1) <=> InFrontier(h, a, n)
BY DEF InFrontier
-----------------------------------------------------------------------------
(* RTTypeOK and the rest of RTInv hold initially. *)
LEMMA RTInitInv == RTInit => RTInv
BY DEF RTInit, RTInv, RTTypeOK, WellFormed, PairsMatch

(* Appending an event that may follow keeps a history well-formed. *)
LEMMA WellFormedAppend ==
  ASSUME NEW h \in Seq(Events), NEW e \in Events, WellFormed(h), MayFollow(h, Len(h) + 1, e)
  PROVE  WellFormed(Append(h, e))
<1> DEFINE g == Append(h, e)
<1>1. g \in Seq(Events) /\ Len(g) = Len(h) + 1 /\ \A k \in 1 .. Len(h) : g[k] = h[k]
  OBVIOUS
<1>2. g[Len(h) + 1] = e
  OBVIOUS
<1> HIDE DEF g
<1>3. ASSUME NEW n \in 1 .. Len(h) + 1, NEW f \in Events, MayFollow(h, n, f)
      PROVE  MayFollow(g, n, f)
  <2>1. \A k \in 1 .. n-1 : IsLastOf(g, f.process, n, k) <=> IsLastOf(h, f.process, n, k)
    <3>1. \A m \in 1 .. n-1 : IsOf(g, f.process, m) <=> IsOf(h, f.process, m)
      BY <1>1 DEF IsOf
    <3> QED BY <3>1, <1>1 DEF IsLastOf
  <2>2. \A k \in 1 .. n-1 : g[k] = h[k]
    BY <1>1
  <2> QED BY <1>3, <2>1, <2>2 DEF MayFollow
<1>4. ASSUME NEW n \in 1 .. Len(g) PROVE MayFollow(g, n, g[n])
  <2>1. CASE n \in 1 .. Len(h)
    <3>1. MayFollow(h, n, h[n]) /\ g[n] = h[n] /\ h[n] \in Events
      BY <2>1, <1>1 DEF WellFormed
    <3> QED BY <3>1, <1>3, <1>1
  <2>2. CASE n = Len(h) + 1
    BY <2>2, <1>2, <1>3
  <2> QED BY <2>1, <2>2, <1>1
<1>5. WellFormed(g)
  BY <1>4 DEF WellFormed
<1> QED BY <1>5 DEF g

(* Each step keeps RTInv: recording, ... *)
LEMMA RecordInv == ASSUME RTInv, NEW t \in Types, NEW p \in Process, Record(t, p) PROVE RTInv'
<1> DEFINE e == [type |-> t, process |-> p]
<1> USE DEF RTInv, RTTypeOK, Record
<1>1. history \in Seq(Events) /\ e \in Events
  BY DEF Events
<1>2. history' = Append(history, e) /\ history' \in Seq(Events) /\ Len(history') = Len(history) + 1
  BY <1>1
<1>3. WellFormed(history)'
  BY <1>1, <1>2, WellFormedAppend
<1>4. RTTypeOK'
  BY <1>2 DEF Events
<1> QED BY <1>3, <1>4 DEF PairsMatch

(* ... starting the first pass, ... *)
LEMMA CallInv == ASSUME RTInv, Call PROVE RTInv'
<1> USE DEF RTInv, Call
<1>1. RTTypeOK'
  BY DEF RTTypeOK
<1>2. Len(history) \in Nat /\ history' = history
  BY DEF RTTypeOK
<1>3. \A p \in Process, j \in 1 .. Len(history) : ~ OpenAt(history, p, j, 1)
  BY <1>2 DEF OpenAt
<1>4. \A j, k \in 1 .. Len(history) : pair'[j] = 0 /\ k # 0 /\ ~ (k < 1)
  BY <1>2
<1>5. \A p \in Process, j \in 1 .. Len(history) : invocations'[p] = 0 /\ j # 0
  BY <1>2
<1>6. PairedUpTo(i)'
  BY <1>2, <1>3, <1>4, <1>5 DEF PairedUpTo
<1> QED BY <1>1, <1>6 DEF PairsMatch

(* ... its steps, ... *)
LEMMA PairUpInv == ASSUME RTInv, PairUp PROVE RTInv'
<1> DEFINE h == history
           op == history[i]
<1> USE DEF RTInv
<1>0. /\ phase = "pair" /\ i <= Len(h) /\ i' = i + 1
      /\ UNCHANGED <<history, phase, doneEvents, edges>>
  BY DEF PairUp
<1>1. /\ phase = "pair" /\ i \in 1 .. Len(h) /\ h \in Seq(Events) /\ WellFormed(h)
      /\ Len(h) \in Nat /\ op \in Events /\ op.process \in Process
      /\ i' = i + 1 /\ UNCHANGED <<history, phase, doneEvents, edges>>
      /\ invocations \in [Process -> 0 .. Len(h)]
      /\ pair \in [1 .. Len(h) -> 0 .. Len(h)]
  <2>1. h \in Seq(Events) /\ i \in 1 .. Len(h) + 1
    BY DEF RTTypeOK, Events
  <2>2. Len(h) \in Nat /\ i \in 1 .. Len(h)
    BY <2>1, <1>0
  <2>3. op \in Events
    BY <2>1, <2>2
  <2>4. op.process \in Process
    BY <2>3 DEF Events
  <2>5. invocations \in [Process -> 0 .. Len(h)] /\ pair \in [1 .. Len(h) -> 0 .. Len(h)]
    BY <1>0 DEF RTTypeOK
  <2> QED BY <1>0, <2>1, <2>2, <2>3, <2>4, <2>5
<1>2. PairedUpTo(i)
  BY <1>1
<1>3. RTTypeOK' /\ PairedUpTo(i)'
  <2>1. CASE /\ op.type = "invoke"
             /\ invocations' = [invocations EXCEPT ![op.process] = i]
             /\ UNCHANGED pair
    <3>1. RTTypeOK'
      BY <1>1, <2>1 DEF RTTypeOK
    <3>2. ASSUME NEW p \in Process, NEW j \in 1 .. Len(h)
          PROVE  invocations'[p] = j <=> OpenAt(h, p, j, i + 1)
      BY <1>1, <1>2, <2>1, OpenStep DEF PairedUpTo
    <3>3. ASSUME NEW j \in 1 .. Len(h), NEW k \in 1 .. Len(h), h[j].type = "invoke"
          PROVE  pair'[j] = k <=> Match(h, j, k) /\ k < i + 1
      <4>1. ~ Match(h, j, i)
        BY <1>1, <2>1, PairStep DEF Paired
      <4> QED BY <1>1, <1>2, <2>1, <3>3, <4>1 DEF PairedUpTo
    <3> QED BY <3>1, <3>2, <3>3, <1>1 DEF PairedUpTo
  <2>2. CASE /\ op.type \in Paired /\ invocations[op.process] # 0
             /\ pair' = [pair EXCEPT ![invocations[op.process]] = i, ![i] = invocations[op.process]]
             /\ invocations' = [invocations EXCEPT ![op.process] = 0]
    <3> DEFINE inv == invocations[op.process]
    <3>1. inv \in 1 .. Len(h)
      BY <1>1, <2>2
    <3>2. OpenAt(h, op.process, inv, i)
      BY <1>1, <1>2, <3>1 DEF PairedUpTo
    <3>3. Match(h, inv, i)
      BY <1>1, <2>2, <3>1, <3>2, PairStep
    <3>4. inv < i /\ h[inv].type = "invoke"
      BY <3>3 DEF Match
    <3>5. RTTypeOK'
      <4>1. invocations' \in [Process -> 0 .. Len(h)]
        BY <1>1, <2>2
      <4>2. pair' \in [1 .. Len(h) -> 0 .. Len(h)]
        <5> DEFINE once == [pair EXCEPT ![inv] = i]
        <5>1. once \in [1 .. Len(h) -> 0 .. Len(h)]
          BY <1>1, <3>1
        <5>2. pair' = [once EXCEPT ![i] = inv]
          BY <2>2
        <5> HIDE DEF once
        <5> QED BY <1>1, <3>1, <5>1, <5>2
      <4> QED BY <1>1, <4>1, <4>2 DEF RTTypeOK
    <3>6. ASSUME NEW p \in Process, NEW j \in 1 .. Len(h)
          PROVE  invocations'[p] = j <=> OpenAt(h, p, j, i + 1)
      BY <1>1, <1>2, <2>2, OpenStep DEF PairedUpTo
    <3>7. ASSUME NEW j \in 1 .. Len(h), NEW k \in 1 .. Len(h), h[j].type = "invoke"
          PROVE  pair'[j] = k <=> Match(h, j, k) /\ k < i + 1
      <4>1. j # i
        BY <1>1, <2>2, <3>7 DEF Paired
      <4>2. CASE j = inv
        <5>1. pair'[j] = i
          BY <1>1, <2>2, <4>1, <4>2, <3>1
        <5>2. Match(h, j, k) => k = i
          BY <1>1, <3>1, <3>3, <4>2, MatchUnique
        <5> QED BY <5>1, <5>2, <3>3, <4>2, <1>1
      <4>3. CASE j # inv
        <5>1. pair'[j] = pair[j]
          BY <1>1, <2>2, <4>1, <4>3, <3>1
        <5>2. ~ Match(h, j, i)
          BY <1>1, <3>1, <3>3, <4>3, MatchUnique
        <5> QED BY <5>1, <5>2, <1>1, <1>2, <3>7 DEF PairedUpTo
      <4> QED BY <4>2, <4>3
    <3> QED BY <3>5, <3>6, <3>7, <1>1 DEF PairedUpTo
  <2>3. CASE /\ op.type = "unknown"
             /\ UNCHANGED <<invocations, pair>>
    <3>1. RTTypeOK'
      BY <1>1, <2>3 DEF RTTypeOK
    <3>2. ASSUME NEW p \in Process, NEW j \in 1 .. Len(h)
          PROVE  invocations'[p] = j <=> OpenAt(h, p, j, i + 1)
      BY <1>1, <1>2, <2>3, OpenStep DEF PairedUpTo
    <3>3. ASSUME NEW j \in 1 .. Len(h), NEW k \in 1 .. Len(h), h[j].type = "invoke"
          PROVE  pair'[j] = k <=> Match(h, j, k) /\ k < i + 1
      <4>1. ~ Match(h, j, i)
        BY <1>1, <2>3, PairStep DEF Paired
      <4> QED BY <1>1, <1>2, <2>3, <3>3, <4>1 DEF PairedUpTo
    <3> QED BY <3>1, <3>2, <3>3, <1>1 DEF PairedUpTo
  <2> QED BY <2>1, <2>2, <2>3, <1>1 DEF PairUp
<1> QED BY <1>1, <1>3 DEF PairsMatch

(* ... turning to the second pass, ... *)
LEMMA Paired2ScanInv == ASSUME RTInv, Paired2Scan PROVE RTInv'
<1> USE DEF RTInv, Paired2Scan
<1>1. history \in Seq(Events) /\ Len(history) \in Nat /\ i \in 1 .. Len(history) + 1 /\ history' = history
  BY DEF RTTypeOK, Events
<1>2. i = Len(history) + 1 /\ i' = 1 /\ PairedUpTo(i)
  BY <1>1
<1>3. RTTypeOK'
  BY <1>1 DEF RTTypeOK
<1>4. PairsMatch'
  BY <1>1, <1>2 DEF PairsMatch, PairedUpTo
<1>5. ScannedUpTo(1)'
  <2>1. \A a \in 1 .. Len(history) : ~ InFrontier(history, a, 1)
    BY <1>1 DEF InFrontier
  <2> QED BY <1>1, <2>1 DEF ScannedUpTo
<1> QED BY <1>1, <1>2, <1>3, <1>4, <1>5

(* ... its steps, ... *)
LEMMA ScanInv == ASSUME RTInv, Scan PROVE RTInv'
<1> DEFINE h == history
           op == history[i]
<1> USE DEF RTInv
<1>0. /\ phase = "scan" /\ i <= Len(h) /\ i' = i + 1
      /\ UNCHANGED <<history, phase, invocations, pair>>
  BY DEF Scan
<1>1. h \in Seq(Events) /\ Len(h) \in Nat /\ i \in 1 .. Len(h)
  BY <1>0 DEF RTTypeOK, Events
<1>3. pair \in [1 .. Len(h) -> 0 .. Len(h)] /\ doneEvents \subseteq 1 .. Len(h)
      /\ edges \subseteq (1 .. Len(h)) \X (0 .. Len(h))
  BY <1>0 DEF RTTypeOK
<1>4. ScannedUpTo(i) /\ WellFormed(h)
  BY <1>0
<1>5. \A a \in 1 .. Len(h) : a \in doneEvents <=> InFrontier(h, a, i)
  BY <1>4 DEF ScannedUpTo
<1>6. \A a, k \in 1 .. Len(h) :
        <<a, k>> \in edges <=>
          \E j \in 1 .. Len(h) : j < i /\ Match(h, j, k) /\ InFrontier(h, a, j)
  BY <1>4 DEF ScannedUpTo
<1>7. \A j, k \in 1 .. Len(h) : h[j].type = "invoke" => (pair[j] = k <=> Match(h, j, k))
  BY <1>0 DEF PairsMatch
<1>8. PairsMatch'
  BY <1>0 DEF PairsMatch
<1>9. RTTypeOK' /\ ScannedUpTo(i)'
  <2>1. CASE /\ op.type = "invoke"
             /\ edges' = edges \cup {<<k, pair[i]>> : k \in doneEvents}
             /\ UNCHANGED doneEvents
    <3>1. edges' \subseteq (1 .. Len(h)) \X (0 .. Len(h))
      BY <1>1, <1>3, <2>1
    <3>2. RTTypeOK'
      BY <1>0, <1>1, <1>3, <2>1, <3>1 DEF RTTypeOK
    <3>3. ASSUME NEW a \in 1 .. Len(h)
          PROVE  a \in doneEvents' <=> InFrontier(h, a, i + 1)
      <4>1. ~ IsOk(h, i)
        BY <2>1 DEF IsOk
      <4> QED BY <1>1, <1>5, <2>1, <4>1, FrontierOther
    <3>4. ASSUME NEW a \in 1 .. Len(h), NEW k \in 1 .. Len(h)
          PROVE  <<a, k>> \in edges' <=>
                   \E j \in 1 .. Len(h) : j < i + 1 /\ Match(h, j, k) /\ InFrontier(h, a, j)
      <4>1. <<a, k>> \in edges' <=> <<a, k>> \in edges \/ (a \in doneEvents /\ pair[i] = k)
        BY <2>1
      <4>2. a \in doneEvents /\ pair[i] = k <=> Match(h, i, k) /\ InFrontier(h, a, i)
        BY <1>1, <1>5, <1>7, <2>1
      <4>3. \A j \in 1 .. Len(h) : j < i + 1 <=> j < i \/ j = i
        BY <1>1
      <4> QED BY <1>1, <1>6, <4>1, <4>2, <4>3
    <3> QED BY <1>0, <3>2, <3>3, <3>4 DEF ScannedUpTo
  <2>2. CASE /\ op.type = "ok"
             /\ doneEvents' = {k \in doneEvents : <<k, i>> \notin edges} \cup {i}
             /\ UNCHANGED edges
    <3>1. RTTypeOK'
      <4>1. doneEvents' \subseteq 1 .. Len(h)
        BY <1>1, <1>3, <2>2
      <4> QED BY <1>0, <1>1, <2>2, <4>1 DEF RTTypeOK
    <3>2. IsOk(h, i) /\ op.type \in Paired /\ op.type # "invoke"
      BY <1>1, <2>2 DEF IsOk, Paired
    <3>3. PICK j \in 1 .. Len(h) : Match(h, j, i)
      BY <1>1, <1>4, <3>2, MatchExists
    <3>4. j < i
      BY <3>3 DEF Match
    <3>5. ASSUME NEW a \in 1 .. Len(h)
          PROVE  a \in doneEvents' <=> InFrontier(h, a, i + 1)
      <4>1. <<a, i>> \in edges <=> InFrontier(h, a, j)
        BY <1>1, <1>6, <3>3, <3>4, MatchUnique
      <4>2. InFrontier(h, a, i + 1) <=> a = i \/ (InFrontier(h, a, i) /\ ~ InFrontier(h, a, j))
        BY <1>1, <3>2, <3>3, FrontierOk
      <4> QED BY <1>5, <2>2, <4>1, <4>2
    <3>6. ASSUME NEW a \in 1 .. Len(h), NEW k \in 1 .. Len(h)
          PROVE  <<a, k>> \in edges' <=>
                   \E l \in 1 .. Len(h) : l < i + 1 /\ Match(h, l, k) /\ InFrontier(h, a, l)
      <4>1. ~ Match(h, i, k)
        BY <3>2 DEF Match
      <4>2. \A l \in 1 .. Len(h) : l < i + 1 <=> l < i \/ l = i
        BY <1>1
      <4> QED BY <1>6, <2>2, <4>1, <4>2
    <3> QED BY <1>0, <3>1, <3>5, <3>6 DEF ScannedUpTo
  <2>3. CASE /\ op.type \notin {"invoke", "ok"}
             /\ UNCHANGED <<doneEvents, edges>>
    <3>1. RTTypeOK'
      BY <1>0, <1>1, <1>3, <2>3 DEF RTTypeOK
    <3>2. ASSUME NEW a \in 1 .. Len(h)
          PROVE  a \in doneEvents' <=> InFrontier(h, a, i + 1)
      <4>1. ~ IsOk(h, i)
        BY <2>3 DEF IsOk
      <4> QED BY <1>1, <1>5, <2>3, <4>1, FrontierOther
    <3>3. ASSUME NEW a \in 1 .. Len(h), NEW k \in 1 .. Len(h)
          PROVE  <<a, k>> \in edges' <=>
                   \E l \in 1 .. Len(h) : l < i + 1 /\ Match(h, l, k) /\ InFrontier(h, a, l)
      <4>1. ~ Match(h, i, k)
        BY <2>3 DEF Match
      <4>2. \A l \in 1 .. Len(h) : l < i + 1 <=> l < i \/ l = i
        BY <1>1
      <4> QED BY <1>6, <2>3, <4>1, <4>2
    <3> QED BY <1>0, <3>1, <3>2, <3>3 DEF ScannedUpTo
  <2> QED BY <2>1, <2>2, <2>3 DEF Scan
<1> QED BY <1>0, <1>8, <1>9

(* ... and its end. *)
LEMMA ReturnInv == ASSUME RTInv, Return PROVE RTInv'
<1> USE DEF RTInv, Return
<1>1. i = Len(history) + 1 /\ history' = history
  BY DEF RTTypeOK
<1>2. RTTypeOK' /\ PairsMatch'
  BY DEF RTTypeOK, PairsMatch
<1>3. ScannedUpTo(Len(history) + 1)'
  BY <1>1 DEF ScannedUpTo
<1> QED BY <1>1, <1>2, <1>3

(* RTInv is inductive. *)
LEMMA RTInvStep == RTInv /\ [RTNext]_rtVars => RTInv'
<1> SUFFICES ASSUME RTInv, [RTNext]_rtVars PROVE RTInv'
  OBVIOUS
<1>1. CASE UNCHANGED rtVars
  BY <1>1 DEF rtVars, RTInv, RTTypeOK, PairsMatch, PairedUpTo, ScannedUpTo
<1> QED BY <1>1, RecordInv, CallInv, PairUpInv, Paired2ScanInv, ScanInv, ReturnInv DEF RTNext

LEMMA RTInvariant == RTSpec => []RTInv
BY RTInitInv, RTInvStep, PTL DEF RTSpec

(* The state of both passes is well typed: an invocation without a         *)
(* completion is linked to the zero Op and to nothing else outside the     *)
(* history.                                                                *)
THEOREM RTTypeCorrect == RTSpec => []RTTypeOK
<1>1. RTInv => RTTypeOK
  BY DEF RTInv
<1> QED BY <1>1, RTInvariant, PTL

(* The first pass of RealtimeGraph finds exactly the matching pairs.       *)
THEOREM PairsAreMatching == RTSpec => []PairsMatch
<1>1. RTInv => PairsMatch
  BY DEF RTInv
<1> QED BY <1>1, RTInvariant, PTL

LEMMA CoversInv == RTInv => EdgesAreTheCovers
<1> SUFFICES ASSUME RTInv, phase = "done" PROVE EdgesAreTheCovers
  BY DEF EdgesAreTheCovers
<1>1. ScannedUpTo(Len(history) + 1) /\ Len(history) \in Nat
  BY DEF RTInv, RTTypeOK
<1>2. \A j \in 1 .. Len(history) : j < Len(history) + 1
  BY <1>1
<1> QED BY <1>1, <1>2 DEF ScannedUpTo, EdgesAreTheCovers

(* The second pass leaves exactly the covering relation of the real-time   *)
(* order, for histories of any length.                                     *)
THEOREM EdgesAreCovers == RTSpec => []EdgesAreTheCovers
BY CoversInv, RTInvariant, PTL
-----------------------------------------------------------------------------
(* Paths.  Induction is by the least counterexample: a nonempty set of     *)
(* natural numbers has a least element, and a bounded one a greatest.      *)
LEMMA LeastOf ==
  ASSUME NEW T \in SUBSET Nat, T # {}
  PROVE  \E m \in T : \A k \in T : m <= k
<1> DEFINE less == OpToRel(<, Nat)
<1>1. IsWellFoundedOn(less, Nat)
  BY NatLessThanWellFounded
<1>2. \A x, y \in Nat : x < y => <<x, y>> \in less
  BY DEF OpToRel
<1> HIDE DEF less
<1>3. PICK m \in T : \A k \in T : ~ (<<k, m>> \in less)
  BY <1>1, WFMin
<1>4. ASSUME NEW k \in T PROVE m <= k
  <2>1. m \in Nat /\ k \in Nat /\ ~ (k < m)
    BY <1>2, <1>3
  <2> QED BY <2>1
<1> QED BY <1>4

LEMMA GreatestOf ==
  ASSUME NEW N \in Nat, NEW T \in SUBSET (0 .. N), T # {}
  PROVE  \E m \in T : \A k \in T : k <= m
<1> DEFINE D == {d \in Nat : N - d \in T}
<1>1. D \in SUBSET Nat /\ D # {}
  <2>1. PICK t \in T : TRUE
    OBVIOUS
  <2>2. N - t \in Nat /\ N - (N - t) = t
    BY <2>1
  <2> QED BY <2>1, <2>2
<1>2. PICK d \in D : \A e \in D : d <= e
  <2> HIDE DEF D
  <2> QED BY <1>1, LeastOf
<1>3. ASSUME NEW k \in T PROVE k <= N - d
  <2>1. k \in 0 .. N /\ N - k \in Nat /\ N - (N - k) = k /\ d \in Nat
    OBVIOUS
  <2>2. N - k \in D
    BY <2>1
  <2> QED BY <1>2, <2>1, <2>2
<1> QED BY <1>3

(* What ReachFrom computes after n rounds, as a function of n. *)
Rounds(R, E, a, N, L) ==
  R = [n \in 0 .. L |->
         IF n = 0 THEN {k \in 1 .. N : <<a, k>> \in E}
         ELSE LET S == R[n - 1] IN S \cup {k \in 1 .. N : \E m \in S : <<m, k>> \in E}]

(* There is such a function for any number of rounds. *)
LEMMA RoundsExist ==
  ASSUME NEW E, NEW a, NEW N \in Nat, NEW L \in Nat
  PROVE  \E R : Rounds(R, E, a, N, L)
<1> DEFINE first == {k \in 1 .. N : <<a, k>> \in E}
           grow(S) == S \cup {k \in 1 .. N : \E m \in S : <<m, k>> \in E}
           T == {n \in Nat : ~ \E R : Rounds(R, E, a, N, n)}
<1>1. SUFFICES ASSUME T # {} PROVE FALSE
  OBVIOUS
<1>2. PICK n \in T : \A l \in T : n <= l
  <2>1. T \in SUBSET Nat
    OBVIOUS
  <2> HIDE DEF T
  <2> QED BY <1>1, <2>1, LeastOf
<1>3. CASE n = 0
  <2>1. Rounds([m \in 0 .. 0 |-> first], E, a, N, 0)
    BY DEF Rounds
  <2> QED BY <1>3, <2>1
<1>4. CASE n # 0
  <2>1. n - 1 \in Nat /\ n \in Nat /\ ~ (n <= n - 1)
    BY <1>4
  <2>2. PICK R : Rounds(R, E, a, N, n - 1)
    BY <1>2, <2>1
  <2> DEFINE Q == [m \in 0 .. n |-> IF m = n THEN grow(R[n - 1]) ELSE R[m]]
  <2>3. \A m \in 0 .. n - 1 : R[m] = IF m = 0 THEN first ELSE grow(R[m - 1])
    BY <2>1, <2>2 DEF Rounds
  <2>4. \A m \in 0 .. n : Q[m] = IF m = 0 THEN first ELSE grow(Q[m - 1])
    <3> SUFFICES ASSUME NEW m \in 0 .. n PROVE Q[m] = IF m = 0 THEN first ELSE grow(Q[m - 1])
      OBVIOUS
    <3> HIDE DEF first, grow
    <3>1. CASE m = n
      BY <1>4, <2>1, <3>1
    <3>2. CASE m # n
      BY <1>4, <2>1, <2>3, <3>2
    <3> QED BY <3>1, <3>2
  <2>5. Rounds(Q, E, a, N, n)
    <3>1. Q = [m \in 0 .. n |-> IF m = 0 THEN first ELSE grow(Q[m - 1])]
      <4> HIDE DEF first, grow
      <4>1. DOMAIN Q = 0 .. n
        OBVIOUS
      <4>2. Q = [m \in 0 .. n |-> Q[m]]
        OBVIOUS
      <4> HIDE DEF Q
      <4> QED BY <2>4, <4>1, <4>2
    <3> HIDE DEF Q
    <3> QED BY <3>1 DEF Rounds
  <2> HIDE DEF Q
  <2> QED BY <2>5
<1> QED BY <1>3, <1>4

LEMMA RoundsStep ==
  ASSUME NEW E, NEW a, NEW N \in Nat, NEW R, Rounds(R, E, a, N, N)
  PROVE  /\ \A k : k \in R[0] <=> k \in 1 .. N /\ <<a, k>> \in E
         /\ \A n \in 1 .. N : \A k :
              k \in R[n] <=> \/ k \in R[n - 1]
                             \/ k \in 1 .. N /\ \E m \in R[n - 1] : <<m, k>> \in E
<1> DEFINE first == {k \in 1 .. N : <<a, k>> \in E}
           grow(S) == S \cup {k \in 1 .. N : \E m \in S : <<m, k>> \in E}
<1>1. \A n \in 0 .. N : R[n] = IF n = 0 THEN first ELSE grow(R[n - 1])
  BY DEF Rounds
<1>2. \A S, k : k \in grow(S) <=> k \in S \/ (k \in 1 .. N /\ \E m \in S : <<m, k>> \in E)
  OBVIOUS
<1>3. \A k : k \in first <=> k \in 1 .. N /\ <<a, k>> \in E
  OBVIOUS
<1> HIDE DEF first, grow
<1>4. R[0] = first /\ \A n \in 1 .. N : R[n] = grow(R[n - 1])
  BY <1>1
<1>5. \A k : k \in R[0] <=> k \in 1 .. N /\ <<a, k>> \in E
  BY <1>3, <1>4
<1>6. ASSUME NEW n \in 1 .. N, NEW k
      PROVE  k \in R[n] <=> k \in R[n - 1] \/ (k \in 1 .. N /\ \E m \in R[n - 1] : <<m, k>> \in E)
  <2>1. R[n] = grow(R[n - 1])
    BY <1>4
  <2>2. k \in grow(R[n - 1]) <=> k \in R[n - 1] \/ (k \in 1 .. N /\ \E m \in R[n - 1] : <<m, k>> \in E)
    BY <1>2, Zenon
  <2> QED BY <2>1, <2>2, Zenon
<1> QED BY <1>5, <1>6, Zenon

LEMMA ReachIsRounds ==
  ASSUME NEW a, history \in Seq(Events)
  PROVE  \E R : Rounds(R, edges, a, Len(history), Len(history)) /\ ReachFrom(a) = R[Len(history)]
<1> DEFINE N == Len(history)
           Q == CHOOSE R : Rounds(R, edges, a, N, N)
<1>1. N \in Nat
  OBVIOUS
<1>2. Rounds(Q, edges, a, N, N)
  BY <1>1, RoundsExist
<1>3. ReachFrom(a) = Q[N]
  BY DEF ReachFrom, Rounds
<1> QED BY <1>2, <1>3

LEMMA RoundsGrow ==
  ASSUME NEW E, NEW a, NEW N \in Nat, NEW R, Rounds(R, E, a, N, N),
         NEW m \in 0 .. N, NEW n \in 0 .. N, m <= n
  PROVE  R[m] \subseteq R[n]
<1> DEFINE T == {d \in Nat : m + d <= N /\ ~ (R[m] \subseteq R[m + d])}
<1>1. ASSUME T # {} PROVE FALSE
  <2>1. T \in SUBSET Nat
    OBVIOUS
  <2>2. PICK d \in T : \A e \in T : d <= e
    <3> HIDE DEF T
    <3> QED BY <1>1, <2>1, LeastOf
  <2>3. d # 0
    BY <2>2
  <2>4. d - 1 \in Nat /\ d - 1 \notin T /\ m + (d - 1) <= N /\ m + d \in 1 .. N /\ (m + d) - 1 = m + (d - 1)
    BY <2>2, <2>3
  <2>5. R[m] \subseteq R[m + (d - 1)]
    BY <2>4
  <2>6. R[m + (d - 1)] \subseteq R[m + d]
    BY <2>4, RoundsStep
  <2> QED BY <2>2, <2>5, <2>6
<1>2. n - m \in Nat /\ m + (n - m) = n
  OBVIOUS
<1>3. n - m \notin T
  BY <1>1
<1> QED BY <1>2, <1>3

(* If a was ok before j was invoked, an edge leads to the transaction of j *)
(* from a or from a transaction that follows a: the one that returned last *)
(* is in the frontier.                                                     *)
LEMMA LastEdge ==
  ASSUME NEW h \in Seq(Events), NEW a \in 1 .. Len(h), NEW j \in 1 .. Len(h),
         IsOk(h, a), a < j
  PROVE  \E z \in 1 .. Len(h) :
            /\ InFrontier(h, z, j)
            /\ z = a \/ \E y \in 1 .. Len(h) : Match(h, y, z) /\ a < y
<1> DEFINE Follows(z) == z = a \/ \E y \in 1 .. Len(h) : Match(h, y, z) /\ a < y
           W == {z \in 1 .. Len(h) : IsOk(h, z) /\ z < j /\ Follows(z)}
<1>1. Len(h) \in Nat /\ W \in SUBSET (0 .. Len(h)) /\ a \in W
  OBVIOUS
<1>2. PICK z \in W : \A y \in W : y <= z
  <2> HIDE DEF W
  <2> QED BY <1>1, GreatestOf
<1>3. a <= z
  BY <1>1, <1>2
<1>4. ASSUME NEW b \in 1 .. Len(h), NEW c \in 1 .. Len(h),
             IsOk(h, c), Match(h, b, c), z < b, c < j
      PROVE  FALSE
  <2>1. a < b /\ b < c
    BY <1>3, <1>4 DEF Match
  <2>2. c \in W
    BY <1>4, <2>1
  <2> QED BY <1>2, <1>4, <2>1, <2>2
<1>5. InFrontier(h, z, j)
  BY <1>4 DEF InFrontier
<1> QED BY <1>5

(* What the edges of a finished graph are. *)
Covers(h, E) ==
  \A b, k \in 1 .. Len(h) :
    <<b, k>> \in E <=> \E j \in 1 .. Len(h) : Match(h, j, k) /\ InFrontier(h, b, j)

(* A path leads only to what was invoked after its start was ok. *)
LEMMA PathsFollow ==
  ASSUME NEW h \in Seq(Events), NEW E, Covers(h, E), NEW a \in 1 .. Len(h),
         NEW R, Rounds(R, E, a, Len(h), Len(h)),
         NEW n \in 0 .. Len(h), NEW k \in R[n]
  PROVE  k \in 1 .. Len(h) /\ \E j \in 1 .. Len(h) : Match(h, j, k) /\ a < j
<1> DEFINE N == Len(h)
           After(l) == l \in 1 .. N /\ \E j \in 1 .. N : Match(h, j, l) /\ a < j
           T == {d \in 0 .. N : \E l \in R[d] : ~ After(l)}
<1>0. N \in Nat
  OBVIOUS
<1>1. ASSUME NEW m \in 1 .. N, NEW l \in 1 .. N, <<m, l>> \in E, m = a \/ After(m)
      PROVE  After(l)
  <2>1. PICK j \in 1 .. N : Match(h, j, l) /\ InFrontier(h, m, j)
    BY <1>1 DEF Covers
  <2>2. m < j
    BY <2>1 DEF InFrontier
  <2>3. a <= m
    BY <1>1 DEF Match
  <2> QED BY <2>1, <2>2, <2>3
<1>2. ASSUME T # {} PROVE FALSE
  <2>1. T \in SUBSET Nat
    OBVIOUS
  <2>2. PICK d \in T : \A e \in T : d <= e
    <3> HIDE DEF T
    <3> QED BY <1>2, <2>1, LeastOf
  <2>3. PICK l \in R[d] : ~ After(l)
    BY <2>2
  <2> HIDE DEF After
  <2>4. CASE d = 0
    <3>1. l \in 1 .. N /\ <<a, l>> \in E
      BY <2>4, <1>0, RoundsStep
    <3> QED BY <1>1, <2>3, <3>1
  <2>5. CASE d # 0
    <3>1. d \in 1 .. N /\ d - 1 \in 0 .. N /\ d - 1 \notin T
      BY <2>2, <2>5
    <3>2. \A m \in R[d - 1] : After(m)
      BY <3>1
    <3>3. \A x : x \in R[d] <=> \/ x \in R[d - 1]
                                \/ x \in 1 .. N /\ \E m \in R[d - 1] : <<m, x>> \in E
      BY <1>0, <3>1, RoundsStep
    <3>4. PICK m \in R[d - 1] : l \in 1 .. N /\ <<m, l>> \in E
      BY <2>3, <3>2, <3>3
    <3>5. m \in 1 .. N /\ After(m)
      BY <3>2 DEF After
    <3> QED BY <1>1, <2>3, <3>4, <3>5
  <2> QED BY <2>4, <2>5
<1> QED BY <1>2

(* What was invoked after a was ok is reached from a, in at most as many   *)
(* rounds as its completion has events before it.                          *)
LEMMA PathsReach ==
  ASSUME NEW h \in Seq(Events), NEW E, Covers(h, E), NEW a \in 1 .. Len(h), IsOk(h, a),
         NEW R, Rounds(R, E, a, Len(h), Len(h)),
         NEW j \in 1 .. Len(h), NEW k \in 1 .. Len(h), Match(h, j, k), a < j
  PROVE  k \in R[k]
<1> DEFINE N == Len(h)
           T == {c \in 1 .. N : (\E b \in 1 .. N : Match(h, b, c) /\ a < b) /\ c \notin R[c]}
<1>0. N \in Nat
  OBVIOUS
<1>1. ASSUME T # {} PROVE FALSE
  <2>1. T \in SUBSET Nat
    OBVIOUS
  <2>2. PICK c \in T : \A e \in T : c <= e
    <3> HIDE DEF T
    <3> QED BY <1>1, <2>1, LeastOf
  <2>3. PICK b \in 1 .. N : Match(h, b, c) /\ a < b
    BY <2>2
  <2>4. PICK z \in 1 .. N : /\ InFrontier(h, z, b)
                            /\ z = a \/ \E y \in 1 .. N : Match(h, y, z) /\ a < y
    BY <2>3, LastEdge
  <2>5. <<z, c>> \in E
    BY <2>2, <2>3, <2>4 DEF Covers
  <2>6. z < c /\ c \in 1 .. N /\ c - 1 \in 0 .. N /\ z \in 0 .. N /\ z <= c - 1
    BY <2>2, <2>3, <2>4 DEF InFrontier, Match
  <2>7. CASE z = a
    <3>1. c \in R[0]
      BY <1>0, <2>5, <2>6, <2>7, RoundsStep
    <3>2. R[0] \subseteq R[c]
      <4>1. 0 \in 0 .. N /\ c \in 0 .. N /\ 0 <= c
        BY <1>0, <2>6
      <4> QED BY <1>0, <4>1, RoundsGrow
    <3> QED BY <2>2, <3>1, <3>2
  <2>8. CASE z # a
    <3>1. z \in R[z]
      BY <2>2, <2>4, <2>6, <2>8
    <3>2. R[z] \subseteq R[c - 1]
      BY <1>0, <2>6, RoundsGrow
    <3>3. c \in R[c]
      BY <1>0, <2>5, <2>6, <3>1, <3>2, RoundsStep
    <3> QED BY <2>2, <3>3
  <2> QED BY <2>7, <2>8
<1> QED BY <1>1

(* A path of the finished graph leads from an ok transaction exactly to    *)
(* the transactions invoked after it returned, and from a completion of a  *)
(* process to its next one, for histories of any length.                   *)
THEOREM PathsAreOrder == RTSpec => []PathsAreRealTime
<1>1. RTInv => PathsAreRealTime
  <2> SUFFICES ASSUME RTInv, phase = "done" PROVE PathsAreRealTime
    BY DEF PathsAreRealTime
  <2>1. history \in Seq(Events) /\ WellFormed(history) /\ Len(history) \in Nat
    BY DEF RTInv, RTTypeOK, Events
  <2>2. Covers(history, edges)
    <3>1. EdgesAreTheCovers
      BY CoversInv
    <3> QED BY <3>1 DEF EdgesAreTheCovers, Covers
  <2>3. ASSUME NEW a \in 1 .. Len(history), NEW j \in 1 .. Len(history), NEW k \in 1 .. Len(history),
               IsOk(history, a), Match(history, j, k)
        PROVE  a < j <=> k \in ReachFrom(a)
    <3>1. PICK R : /\ Rounds(R, edges, a, Len(history), Len(history))
                   /\ ReachFrom(a) = R[Len(history)]
      BY <2>1, ReachIsRounds
    <3>2. ASSUME a < j PROVE k \in R[Len(history)]
      <4>1. k \in R[k]
        BY <2>1, <2>2, <2>3, <3>1, <3>2, PathsReach
      <4>2. R[k] \subseteq R[Len(history)]
        BY <2>1, <3>1, RoundsGrow
      <4> QED BY <4>1, <4>2
    <3>3. ASSUME k \in R[Len(history)] PROVE a < j
      <4>1. PICK b \in 1 .. Len(history) : Match(history, b, k) /\ a < b
        BY <2>1, <2>2, <3>1, <3>3, PathsFollow
      <4>2. b = j
        BY <2>1, <2>3, <4>1, MatchUnique
      <4> QED BY <4>1, <4>2
    <3> QED BY <3>1, <3>2, <3>3
  <2>4. ASSUME NEW e \in ProcessGraph PROVE e[2] \in ReachFrom(e[1])
    <3> DEFINE a == e[1]
               k == e[2]
    <3>1. a \in 1 .. Len(history) /\ k \in 1 .. Len(history) /\ IsNextOk(a, k)
      BY DEF ProcessGraph
    <3> HIDE DEF a, k
    <3>2. IsOk(history, a) /\ a < k /\ history[a].process = history[k].process
      BY <3>1 DEF IsNextOk, IsOk
    <3>3. history[k].type \in Paired
      BY <3>1 DEF IsNextOk, Paired
    <3>4. PICK j \in 1 .. Len(history) : Match(history, j, k)
      BY <2>1, <3>1, <3>3, MatchExists
    <3>5. a < j
      BY <2>1, <3>1, <3>2, <3>4 DEF Match, IsOk
    <3>6. k \in ReachFrom(a)
      BY <2>3, <3>1, <3>2, <3>4, <3>5
    <3> QED BY <3>6 DEF a, k
  <2> QED BY <2>3, <2>4 DEF PathsAreRealTime
<1> QED BY <1>1, RTInvariant, PTL
=============================================================================

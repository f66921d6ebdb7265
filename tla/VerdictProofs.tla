---------------------------- MODULE VerdictProofs ---------------------------
(***************************************************************************)
(* Proofs about what the verifier is given: whenever Run goes on, the      *)
(* history of a round that was read, completed and converted has had its   *)
(* verdict, unless a record of the nemesis was lost.                       *)
(***************************************************************************)
EXTENDS ControllerProofs

(* ReadHistory skips what stands at the head. *)
Skipped == IF Len(file) > 0 /\ file[1].action = "dump" THEN 1 ELSE 0

ReadInv ==
  /\ vpc \in {"read", "complete"} =>
       /\ ops \in Seq(Records)
       /\ \A i \in 1 .. Len(ops) : ops[i] = file[i + Skipped]
       /\ matchID = {}
  /\ vpc = "read" =>
       /\ pos \in 0 .. Len(file)
       /\ Len(ops) = IF pos = 0 THEN 0 ELSE pos - Skipped
       /\ compOps = << >> /\ pending = {}
  /\ vpc = "complete" => Len(ops) = Len(file) - Skipped

(* CompleteOperations: the processes pending are the ones whose last       *)
(* record so far is a call or an unknown return.                           *)
LeftOpen(p, n) ==
  \E i \in 1 .. n - 1 : IsPrevious(file, p, n, i) /\ (file[i].action = "call" \/ file[i].unknown)

Others(n) == {i \in 1 .. n : ~ IsClientRec(ops[i])}

ReturnsLater(i) ==
  \E j \in i + 1 .. Len(compOps) :
    compOps[j].action = "return" /\ compOps[j].proc = compOps[i].proc

CompleteInv ==
  vpc = "complete" =>
    /\ pos \in 0 .. Len(ops)
    /\ compOps \in Seq(Records)
    /\ IsFiniteSet(pending) /\ pending \subseteq Int
    /\ pos < Len(ops) => \A p \in Int : p \in pending <=> LeftOpen(p, pos + Skipped + 1)
    /\ (Len(compOps) + Cardinality(pending) + Cardinality(Others(pos))) % 2 = 0
    /\ \A i \in 1 .. Len(compOps) :
         compOps[i].action = "call" => compOps[i].proc \in pending \/ ReturnsLater(i)

(* ConvertOperationsToEvents: a process is in the map only while its call  *)
(* has not been returned.                                                  *)
ConvertInv ==
  vpc = "convert" =>
    /\ pos \in 0 .. Len(compOps)
    /\ compOps \in Seq(Records)
    /\ \A i \in 1 .. Len(compOps) : compOps[i].action = "call" => ReturnsLater(i)
    /\ \A m \in matchID :
         \E i \in 1 .. pos :
           /\ compOps[i].action = "call" /\ compOps[i].proc = m[1]
           /\ \A j \in i + 1 .. pos :
                ~ (compOps[j].action = "return" /\ compOps[j].proc = m[1])

VerdictInv ==
  /\ vpc \in {"idle", "read", "complete", "convert", "check", "valid", "invalid", "error"}
  /\ ~ fatal /\ vpc # "idle" => cpc = "verify"
  /\ VerdictReached
  /\ ~ fatal => ReadInv /\ CompleteInv /\ ConvertInv
-----------------------------------------------------------------------------
(* Which record of a process is its last, one position further on. *)
LEMMA StepPrevious ==
  ASSUME NEW h \in Seq(Records), NEW n \in 1 .. Len(h), NEW p, NEW i \in Int
  PROVE  IsPrevious(h, p, n + 1, i) <=>
           IF Of(h, p, n) THEN i = n ELSE IsPrevious(h, p, n, i)
<1>1. CASE Of(h, p, n)
  <2>1. i < n + 1 => i = n \/ n \in i + 1 .. (n + 1) - 1
    OBVIOUS
  <2>2. \A k : k \in n + 1 .. (n + 1) - 1 => FALSE
    OBVIOUS
  <2>3. QED
    BY <1>1, <2>1, <2>2 DEF IsPrevious
<1>2. CASE ~ Of(h, p, n)
  <2>1. i < n + 1 <=> i < n \/ i = n
    OBVIOUS
  <2>2. \A k : k \in i + 1 .. (n + 1) - 1 <=> k \in i + 1 .. n - 1 \/ (k = n /\ i < n)
    OBVIOUS
  <2>3. QED
    BY <1>2, <2>1, <2>2 DEF IsPrevious
<1>3. QED
  BY <1>1, <1>2

LEMMA StepLeftOpen ==
  ASSUME file \in Seq(Records), NEW n \in 1 .. Len(file), NEW p
  PROVE  LeftOpen(p, n + 1) <=>
           IF Of(file, p, n) THEN file[n].action = "call" \/ file[n].unknown
           ELSE LeftOpen(p, n)
<1>1. \A i \in Int : IsPrevious(file, p, n + 1, i) <=>
           IF Of(file, p, n) THEN i = n ELSE IsPrevious(file, p, n, i)
  BY StepPrevious
<1>2. \A i \in 1 .. n : i \in Int
  OBVIOUS
<1>3. (n + 1) - 1 = n /\ n \in 1 .. n
  OBVIOUS
<1>4. CASE Of(file, p, n)
  BY <1>1, <1>2, <1>3, <1>4 DEF LeftOpen
<1>5. CASE ~ Of(file, p, n)
  <2>1. ASSUME NEW i \in 1 .. n, IsPrevious(file, p, n, i) PROVE i \in 1 .. n - 1
    BY <2>1 DEF IsPrevious
  <2>2. \A i \in 1 .. n - 1 : i \in 1 .. n
    OBVIOUS
  <2>3. QED
    BY <1>1, <1>2, <1>3, <1>5, <2>1, <2>2 DEF LeftOpen
<1>6. QED
  BY <1>4, <1>5

(* In a sequential history a process that calls has nothing open and one   *)
(* that returns has.                                                       *)
LEMMA SequentialOpen ==
  ASSUME HistorySequential, NEW n \in 1 .. Len(file)
  PROVE  /\ file[n].action = "call" => ~ LeftOpen(file[n].proc, n)
         /\ file[n].action = "return" => LeftOpen(file[n].proc, n)
  BY DEF HistorySequential, SequentialProcesses, SequentialAt, LeftOpen

(* The operations that are not the clients' are the nemesis's records. *)
LEMMA OthersAreTheNemesis ==
  ASSUME TypeOK, NemesisInv, ReadInv, vpc = "complete"
  PROVE  Cardinality(Others(Len(ops))) = Cardinality(NemesisRecs)
<1> DEFINE S == Others(Len(ops))
           T == NemesisRecs
           f == [i \in S |-> i + Skipped]
<1>1. /\ file \in Seq(Records) /\ ops \in Seq(Records)
      /\ Len(file) \in Nat /\ Len(ops) \in Nat
      /\ Len(ops) = Len(file) - Skipped
      /\ \A i \in 1 .. Len(ops) : ops[i] = file[i + Skipped]
      /\ Skipped \in {0, 1}
      /\ \A i \in 1 .. Len(file) : file[i].action = "dump" <=> i = Skipped
  BY DEF TypeOK, ReadInv, NemesisInv, Skipped
<1>2. \A i \in 1 .. Len(file) :
        ~ IsClientRec(file[i]) /\ file[i].action # "dump" <=> file[i].action \in {"nemesis", "recover"}
  <2>1. \A i \in 1 .. Len(file) : file[i] \in Records
    BY <1>1
  <2>2. \A i \in 1 .. Len(file) : file[i].action \in {"call", "return", "dump", "nemesis", "recover"}
    BY <2>1 DEF Records, Actions
  <2>3. QED
    BY <2>2 DEF IsClientRec
<1>3. \A i \in S : i \in Int /\ i + Skipped \in T
  BY <1>1, <1>2 DEF Others, NemesisRecs
<1>4. \A j \in T : j \in Int /\ j - Skipped \in S
  <2> SUFFICES ASSUME NEW j \in T PROVE j \in Int /\ j - Skipped \in S
    OBVIOUS
  <2>1. j \in 1 .. Len(file) /\ ~ IsClientRec(file[j]) /\ j # Skipped
    BY <1>1, <1>2 DEF NemesisRecs
  <2>2. j - Skipped \in 1 .. Len(ops) /\ (j - Skipped) + Skipped = j
    BY <1>1, <2>1
  <2>3. QED
    BY <1>1, <2>1, <2>2 DEF Others
<1>5. IsFiniteSet(S)
  <2>1. IsFiniteSet(1 .. Len(ops))
    BY <1>1, FS_Interval
  <2>2. S \in SUBSET (1 .. Len(ops))
    BY DEF Others
  <2>3. QED
    BY <2>1, <2>2, FS_Subset
<1> HIDE DEF S, T
<1>6. ExistsBijection(S, T)
  <2>1. f \in [S -> T]
    BY <1>3
  <2>2. \A a, b \in S : f[a] = f[b] => a = b
    BY <1>1, <1>3
  <2>3. \A j \in T : \E a \in S : f[a] = j
    <3> SUFFICES ASSUME NEW j \in T PROVE \E a \in S : f[a] = j
      OBVIOUS
    <3>1. j - Skipped \in S /\ f[j - Skipped] = j
      BY <1>1, <1>4
    <3>2. QED
      BY <3>1
  <2> HIDE DEF f
  <2>4. f \in Bijection(S, T)
    BY <2>1, <2>2, <2>3 DEF Bijection, Injection, Surjection, IsInjective
  <2>5. QED
    BY <2>4 DEF ExistsBijection
<1>7. Cardinality(T) = Cardinality(S)
  BY <1>5, <1>6, FS_Bijection
<1>8. QED
  BY <1>7 DEF S, T
-----------------------------------------------------------------------------
LEMMA ReadNext ==
  ASSUME TypeOK, NemesisInv, ReadInv, ReadRecord \/ ReadEnd, UNCHANGED recorderVars
  PROVE  vpc' \in {"read", "complete"} /\ ReadInv' /\ CompleteInv'
<1>0. /\ file \in Seq(Records) /\ file' = file /\ Len(file) \in Nat /\ Skipped' = Skipped
      /\ \A i \in 1 .. Len(file) : file[i] \in Records
      /\ Skipped \in {0, 1} /\ (Len(file) = 0 => Skipped = 0)
      /\ \A i \in 1 .. Len(file) : file[i].action = "dump" <=> i = Skipped
  BY DEF TypeOK, NemesisInv, Skipped, recorderVars
<1>1. /\ vpc = "read" /\ ops \in Seq(Records) /\ Len(ops) \in Nat /\ pos \in 0 .. Len(file)
      /\ \A i \in 1 .. Len(ops) : ops[i] = file[i + Skipped]
      /\ Len(ops) = IF pos = 0 THEN 0 ELSE pos - Skipped
      /\ compOps = << >> /\ pending = {} /\ matchID = {}
  BY DEF ReadInv, ReadRecord, ReadEnd, Turn, Over
<1>2. CASE ReadRecord
  <2>1. /\ pos + 1 \in 1 .. Len(file) /\ pos' = pos + 1 /\ vpc' = "read"
        /\ UNCHANGED <<compOps, pending, matchID>>
        /\ ops' = IF file[pos + 1].action = "dump" THEN ops ELSE Append(ops, file[pos + 1])
    BY <1>0, <1>1, <1>2 DEF ReadRecord, Turn
  <2>2. CASE file[pos + 1].action = "dump"
    <3>1. ops' = ops /\ pos = 0 /\ Skipped = 1
      BY <1>0, <1>1, <2>1, <2>2
    <3>2. pos' \in 0 .. Len(file) /\ Len(ops) = 0 /\ pos' = 1 /\ pos' - Skipped = 0
      BY <1>0, <1>1, <2>1, <3>1
    <3>3. ReadInv'
      BY <1>0, <1>1, <2>1, <3>1, <3>2 DEF ReadInv
    <3>4. QED
      BY <2>1, <3>3 DEF CompleteInv
  <2>3. CASE file[pos + 1].action # "dump"
    <3>1. /\ ops' \in Seq(Records) /\ Len(ops') = Len(ops) + 1
          /\ \A i \in 1 .. Len(ops) : ops'[i] = ops[i]
          /\ ops'[Len(ops) + 1] = file[pos + 1]
      BY <1>0, <1>1, <2>1, <2>3, AppendAt
    <3>2. Len(ops) + 1 = (pos + 1) - Skipped
      <4>1. CASE pos = 0
        <5>1. Skipped # 1
          BY <1>0, <2>1, <2>3, <4>1
        <5>2. Skipped = 0 /\ Len(ops) = 0
          BY <1>0, <1>1, <4>1, <5>1
        <5>3. QED
          BY <4>1, <5>2
      <4>2. CASE pos # 0
        <5>1. Len(ops) = pos - Skipped /\ pos \in Int /\ Skipped \in Int
          BY <1>0, <1>1, <4>2
        <5>2. QED
          BY <5>1
      <4>3. QED
        BY <4>1, <4>2
    <3>3. \A i \in 1 .. Len(ops') : ops'[i] = file[i + Skipped]
      BY <1>0, <1>1, <2>1, <3>1, <3>2
    <3>4. pos' \in 0 .. Len(file) /\ pos' # 0 /\ Len(ops') = pos' - Skipped
      BY <1>0, <1>1, <2>1, <3>1, <3>2
    <3>5. ReadInv'
      BY <1>0, <1>1, <2>1, <3>1, <3>3, <3>4 DEF ReadInv
    <3>6. QED
      BY <2>1, <3>5 DEF CompleteInv
  <2>4. QED
    BY <2>2, <2>3
<1>3. CASE ReadEnd
  <2>1. /\ pos = Len(file) /\ pos' = 0 /\ vpc' = "complete"
        /\ UNCHANGED <<ops, compOps, pending, matchID>>
    BY <1>3 DEF ReadEnd, Over
  <2>2. Len(ops) = Len(file) - Skipped
    BY <1>0, <1>1, <2>1
  <2>3. ReadInv'
    BY <1>0, <1>1, <2>1, <2>2 DEF ReadInv
  <2>4. \A p : ~ LeftOpen(p, pos + Skipped + 1)'
    <3>1. \A p : ~ Of(file, p, Skipped)
      BY <1>0 DEF Of, IsClientRec
    <3>2. pos' + Skipped + 1 = Skipped + 1
      <4>1. pos' = 0 /\ Skipped \in Int
        BY <1>0, <2>1
      <4>2. QED
        BY <4>1
    <3>3. \A i \in 1 .. (Skipped + 1) - 1 : i = Skipped
      BY <1>0
    <3>4. \A p : ~ LeftOpen(p, Skipped + 1)
      BY <3>1, <3>3 DEF LeftOpen, IsPrevious
    <3>5. QED
      BY <1>0, <3>2, <3>4 DEF LeftOpen
  <2>5. Others(pos)' = {}
    BY <2>1 DEF Others
  <2>6. (Len(compOps') + Cardinality(pending') + Cardinality(Others(pos)')) % 2 = 0
    <3>1. Cardinality(pending') = 0 /\ Cardinality(Others(pos)') = 0 /\ Len(compOps') = 0
      BY <1>1, <2>1, <2>5, FS_EmptySet
    <3>2. QED
      BY <3>1
  <2>7. IsFiniteSet(pending') /\ pending' = {} /\ compOps' = << >>
    BY <1>1, <2>1, FS_EmptySet
  <2>8. CompleteInv'
    <3>1. pos' \in 0 .. Len(ops') /\ compOps' \in Seq(Records) /\ Len(compOps') = 0
      BY <1>1, <2>1, <2>7
    <3>2. pending' \subseteq Int /\ \A p : p \notin pending'
      BY <2>7
    <3>3. \A i : i \notin 1 .. Len(compOps')
      BY <3>1
    <3>4. QED
      BY <2>4, <2>6, <2>7, <3>1, <3>2, <3>3 DEF CompleteInv
  <2>9. QED
    BY <2>1, <2>3, <2>8
<1>4. QED
  BY <1>2, <1>3

(* One more completed operation: what is known of the earlier ones stays,  *)
(* and a return answers the calls of its process.                          *)
LEMMA CompletedMore ==
  ASSUME compOps \in Seq(Records), NEW r \in Records, compOps' = Append(compOps, r),
         \A i \in 1 .. Len(compOps) :
           compOps[i].action = "call" => compOps[i].proc \in pending \/ ReturnsLater(i),
         \A p \in pending : p \in pending' \/ (r.action = "return" /\ p = r.proc),
         r.action = "call" => r.proc \in pending'
  PROVE  \A i \in 1 .. Len(compOps') :
           compOps'[i].action = "call" => compOps'[i].proc \in pending' \/ ReturnsLater(i)'
<1>1. /\ Len(compOps) \in Nat /\ Len(compOps') = Len(compOps) + 1
      /\ \A i \in 1 .. Len(compOps) : compOps'[i] = compOps[i]
      /\ compOps'[Len(compOps) + 1] = r
  BY AppendAt
<1> SUFFICES ASSUME NEW i \in 1 .. Len(compOps'), compOps'[i].action = "call",
                    compOps'[i].proc \notin pending'
             PROVE  ReturnsLater(i)'
  OBVIOUS
<1>2. i \in 1 .. Len(compOps) /\ compOps'[i] = compOps[i]
  BY <1>1
<1>3. CASE ReturnsLater(i)
  <2>1. PICK j \in i + 1 .. Len(compOps) :
          compOps[j].action = "return" /\ compOps[j].proc = compOps[i].proc
    BY <1>3 DEF ReturnsLater
  <2>2. j \in i + 1 .. Len(compOps') /\ compOps'[j] = compOps[j]
    BY <1>1, <1>2
  <2>3. QED
    BY <1>2, <2>1, <2>2 DEF ReturnsLater
<1>4. CASE compOps[i].proc \in pending
  <2>1. r.action = "return" /\ r.proc = compOps[i].proc
    BY <1>2, <1>4
  <2>2. Len(compOps) + 1 \in i + 1 .. Len(compOps')
    BY <1>1, <1>2
  <2>3. QED
    BY <1>1, <1>2, <2>1, <2>2 DEF ReturnsLater
<1>5. QED
  BY <1>2, <1>3, <1>4

LEMMA OthersStep ==
  ASSUME ops \in Seq(Records), NEW n \in 0 .. Len(ops)
  PROVE  /\ IsFiniteSet(Others(n)) /\ Cardinality(Others(n)) \in Nat
         /\ n < Len(ops) =>
              Cardinality(Others(n + 1)) =
                Cardinality(Others(n)) + (IF IsClientRec(ops[n + 1]) THEN 0 ELSE 1)
<1>1. IsFiniteSet(Others(n)) /\ Cardinality(Others(n)) \in Nat
  <2>1. IsFiniteSet(1 .. n)
    BY FS_Interval
  <2>2. Others(n) \in SUBSET (1 .. n)
    BY DEF Others
  <2>3. QED
    BY <2>1, <2>2, FS_Subset, FS_CardinalityType
<1>2. \A i : i \in 1 .. n + 1 <=> i \in 1 .. n \/ i = n + 1
  OBVIOUS
<1>3. n + 1 \notin Others(n)
  BY DEF Others
<1>4. CASE IsClientRec(ops[n + 1])
  <2>1. Others(n + 1) = Others(n)
    BY <1>2, <1>4 DEF Others
  <2>2. QED
    BY <1>1, <1>4, <2>1
<1>5. CASE ~ IsClientRec(ops[n + 1])
  <2>1. Others(n + 1) = Others(n) \cup {n + 1}
    BY <1>2, <1>5 DEF Others
  <2>2. QED
    BY <1>1, <1>3, <1>5, <2>1, FS_AddElement
<1>6. QED
  BY <1>1, <1>4, <1>5

(* CompleteOperations finds neither a missing return nor a missing invoke. *)
LEMMA CompleteNext ==
  ASSUME TypeOK, HistorySequential, NemesisInv, ReadInv, CompleteInv, CompleteOp,
         UNCHANGED recorderVars
  PROVE  vpc' = "complete" /\ ReadInv' /\ CompleteInv'
<1> DEFINE n == pos + Skipped + 1
           op == ops[pos + 1]
<1>0. /\ vpc = "complete" /\ file \in Seq(Records) /\ file' = file /\ Skipped' = Skipped
      /\ Skipped \in {0, 1} /\ Len(file) \in Nat
      /\ ops \in Seq(Records) /\ ops' = ops /\ matchID' = matchID /\ matchID = {}
      /\ Len(ops) \in Nat /\ Len(ops) = Len(file) - Skipped
      /\ \A i \in 1 .. Len(ops) : ops[i] = file[i + Skipped]
      /\ pos \in 0 .. Len(ops) /\ pos < Len(ops) /\ pos' = pos + 1
  <2>1. Skipped' = Skipped /\ Skipped \in {0, 1} /\ file' = file
    BY DEF Skipped, recorderVars
  <2>2. /\ vpc = "complete" /\ pos < Len(ops) /\ pos' = pos + 1
        /\ ops' = ops /\ matchID' = matchID
    BY DEF CompleteOp, Turn
  <2>3. file \in Seq(Records) /\ Len(file) \in Nat
    BY DEF TypeOK
  <2>4. /\ ops \in Seq(Records) /\ Len(ops) = Len(file) - Skipped /\ matchID = {}
        /\ \A i \in 1 .. Len(ops) : ops[i] = file[i + Skipped]
    BY <2>2 DEF ReadInv
  <2>5. pos \in 0 .. Len(ops)
    BY <2>2 DEF CompleteInv
  <2>6. Len(ops) \in Nat
    BY <2>4
  <2>7. QED
    BY <2>1, <2>2, <2>3, <2>4, <2>5, <2>6
<1>1. /\ compOps \in Seq(Records) /\ IsFiniteSet(pending) /\ pending \subseteq Int
      /\ \A p \in Int : p \in pending <=> LeftOpen(p, n)
      /\ (Len(compOps) + Cardinality(pending) + Cardinality(Others(pos))) % 2 = 0
      /\ \A i \in 1 .. Len(compOps) :
           compOps[i].action = "call" => compOps[i].proc \in pending \/ ReturnsLater(i)
  BY <1>0 DEF CompleteInv
<1>2. /\ pos + 1 \in 1 .. Len(ops) /\ n \in 1 .. Len(file) /\ n = (pos + 1) + Skipped
      /\ n + 1 = pos' + Skipped' + 1
  BY <1>0
<1>3. op = file[n] /\ op \in Records
  BY <1>0, <1>2
<1>4. op.proc \in Int /\ op.unknown \in BOOLEAN
  BY <1>3 DEF Records
<1> HIDE DEF n, op
<1>5. /\ op.action = "call" => op.proc \notin pending
      /\ op.action = "return" => op.proc \in pending
  BY <1>1, <1>2, <1>3, <1>4, SequentialOpen
<1>6. \A p \in Int : LeftOpen(p, n + 1) <=>
        IF IsClientRec(op) /\ op.proc = p THEN op.action = "call" \/ op.unknown
        ELSE p \in pending
  <2> SUFFICES ASSUME NEW p \in Int
               PROVE  LeftOpen(p, n + 1) <=>
                        IF IsClientRec(op) /\ op.proc = p THEN op.action = "call" \/ op.unknown
                        ELSE p \in pending
    OBVIOUS
  <2>1. Of(file, p, n) <=> IsClientRec(op) /\ op.proc = p
    BY <1>2, <1>3 DEF Of
  <2>2. LeftOpen(p, n + 1) <=>
           IF Of(file, p, n) THEN file[n].action = "call" \/ file[n].unknown
           ELSE LeftOpen(p, n)
    BY <1>0, <1>2, StepLeftOpen
  <2>3. CASE IsClientRec(op) /\ op.proc = p
    BY <1>3, <2>1, <2>2, <2>3
  <2>4. CASE ~ (IsClientRec(op) /\ op.proc = p)
    BY <1>1, <2>1, <2>2, <2>4
  <2>5. QED
    BY <2>3, <2>4
<1>7. /\ Cardinality(pending) \in Nat /\ Cardinality(Others(pos)) \in Nat /\ Len(compOps) \in Nat
      /\ Cardinality(Others(pos + 1)) = Cardinality(Others(pos)) + (IF IsClientRec(op) THEN 0 ELSE 1)
      /\ Others(pos)' = Others(pos + 1)
  <2>1. Others(pos)' = Others(pos + 1)
    BY <1>0 DEF Others
  <2>2. /\ Cardinality(Others(pos)) \in Nat
        /\ Cardinality(Others(pos + 1)) =
             Cardinality(Others(pos)) + (IF IsClientRec(ops[pos + 1]) THEN 0 ELSE 1)
    BY <1>0, OthersStep
  <2>3. Cardinality(pending) \in Nat
    BY <1>1, FS_CardinalityType
  <2>4. Len(compOps) \in Nat
    BY <1>1
  <2>5. QED
    BY <2>1, <2>2, <2>3, <2>4 DEF op
<1>8. CompleteCall(op) \/ CompleteReturn(op) \/ CompleteOther(op)
  BY DEF CompleteOp, op
<1>9. vpc' = "complete" => ReadInv'
  BY <1>0 DEF ReadInv
<1>10. ASSUME vpc' = "complete", compOps' \in Seq(Records), IsFiniteSet(pending'),
              pending' \subseteq Int,
              \A p \in Int : p \in pending' <=> LeftOpen(p, n + 1),
              (Len(compOps') + Cardinality(pending') + Cardinality(Others(pos + 1))) % 2 = 0,
              \A i \in 1 .. Len(compOps') :
                compOps'[i].action = "call" => compOps'[i].proc \in pending' \/ ReturnsLater(i)'
       PROVE  vpc' = "complete" /\ ReadInv' /\ CompleteInv'
  <2>1. \A p \in Int : p \in pending' <=> LeftOpen(p, pos + Skipped + 1)'
    BY <1>0, <1>2, <1>10 DEF LeftOpen
  <2>2. pos' \in 0 .. Len(ops')
    BY <1>0
  <2>3. CompleteInv'
    BY <1>7, <1>10, <2>1, <2>2 DEF CompleteInv
  <2>4. QED
    BY <1>9, <1>10, <2>3
<1>11. CASE CompleteCall(op)
  <2>1. /\ op.action = "call" /\ IsClientRec(op) /\ vpc' = "complete"
        /\ pending' = pending \cup {op.proc} /\ compOps' = Append(compOps, op)
    BY <1>0, <1>5, <1>11 DEF CompleteCall, IsClientRec
  <2>2. /\ IsFiniteSet(pending') /\ pending' \subseteq Int
        /\ Cardinality(pending') = Cardinality(pending) + 1
    BY <1>1, <1>4, <1>5, <2>1, FS_AddElement
  <2>3. compOps' \in Seq(Records) /\ Len(compOps') = Len(compOps) + 1
    BY <1>1, <1>3, <2>1, AppendAt
  <2>4. \A p \in Int : p \in pending' <=> LeftOpen(p, n + 1)
    BY <1>6, <2>1
  <2>5. \A i \in 1 .. Len(compOps') :
          compOps'[i].action = "call" => compOps'[i].proc \in pending' \/ ReturnsLater(i)'
    BY <1>1, <1>3, <2>1, CompletedMore
  <2>6. (Len(compOps') + Cardinality(pending') + Cardinality(Others(pos + 1))) % 2 = 0
    BY <1>1, <1>7, <2>1, <2>2, <2>3
  <2>7. QED
    BY <1>10, <2>1, <2>2, <2>3, <2>4, <2>5, <2>6
<1>12. CASE CompleteReturn(op)
  <2>1. /\ op.action = "return" /\ IsClientRec(op) /\ vpc' = "complete" /\ op.proc \in pending
        /\ op.unknown => UNCHANGED <<pending, compOps>>
        /\ ~ op.unknown => pending' = pending \ {op.proc} /\ compOps' = Append(compOps, op)
    BY <1>0, <1>5, <1>12 DEF CompleteReturn, IsClientRec
  <2>2. CASE op.unknown
    <3>1. \A p \in Int : p \in pending' <=> LeftOpen(p, n + 1)
      BY <1>6, <2>1, <2>2
    <3>2. \A i \in 1 .. Len(compOps') :
            compOps'[i].action = "call" => compOps'[i].proc \in pending' \/ ReturnsLater(i)'
      BY <1>1, <2>1, <2>2 DEF ReturnsLater
    <3>3. (Len(compOps') + Cardinality(pending') + Cardinality(Others(pos + 1))) % 2 = 0
      BY <1>1, <1>7, <2>1, <2>2
    <3>4. QED
      BY <1>1, <1>10, <2>1, <2>2, <3>1, <3>2, <3>3
  <2>3. CASE ~ op.unknown
    <3>1. /\ IsFiniteSet(pending') /\ pending' \subseteq Int
          /\ Cardinality(pending') = Cardinality(pending) - 1
      BY <1>1, <2>1, <2>3, FS_RemoveElement
    <3>2. compOps' \in Seq(Records) /\ Len(compOps') = Len(compOps) + 1
      <4>1. compOps' = Append(compOps, op)
        BY <2>1, <2>3
      <4>2. QED
        BY <1>1, <1>3, <4>1, AppendAt
    <3>3. \A p \in Int : p \in pending' <=> LeftOpen(p, n + 1)
      BY <1>6, <2>1, <2>3
    <3>4. \A i \in 1 .. Len(compOps') :
            compOps'[i].action = "call" => compOps'[i].proc \in pending' \/ ReturnsLater(i)'
      BY <1>1, <1>3, <2>1, <2>3, CompletedMore
    <3>5. (Len(compOps') + Cardinality(pending') + Cardinality(Others(pos + 1))) % 2 = 0
      BY <1>1, <1>7, <2>1, <3>1, <3>2
    <3>6. QED
      BY <1>10, <2>1, <3>1, <3>2, <3>3, <3>4, <3>5
  <2>4. QED
    BY <2>2, <2>3
<1>13. CASE CompleteOther(op)
  <2>1. /\ ~ IsClientRec(op) /\ op.action # "call" /\ vpc' = "complete" /\ pending' = pending
        /\ compOps' = Append(compOps, op)
    BY <1>0, <1>13 DEF CompleteOther, IsClientRec
  <2>2. compOps' \in Seq(Records) /\ Len(compOps') = Len(compOps) + 1
    BY <1>1, <1>3, <2>1, AppendAt
  <2>3. \A p \in Int : p \in pending' <=> LeftOpen(p, n + 1)
    BY <1>6, <2>1
  <2>4. \A i \in 1 .. Len(compOps') :
          compOps'[i].action = "call" => compOps'[i].proc \in pending' \/ ReturnsLater(i)'
    BY <1>1, <1>3, <2>1, CompletedMore
  <2>5. (Len(compOps') + Cardinality(pending') + Cardinality(Others(pos + 1))) % 2 = 0
    BY <1>1, <1>7, <2>1, <2>2
  <2>6. QED
    BY <1>1, <1>10, <2>1, <2>2, <2>3, <2>4, <2>5
<1>14. QED
  BY <1>8, <1>11, <1>12, <1>13

(* The noops keep the count even and leave no call open. *)
LEMMA NoopNext ==
  ASSUME ReadInv, CompleteInv, CompleteNoop, UNCHANGED recorderVars
  PROVE  vpc' = "complete" /\ ReadInv' /\ CompleteInv'
<1>1. /\ vpc = "complete" /\ vpc' = "complete" /\ pos = Len(ops)
      /\ UNCHANGED <<pos, ops, matchID, file>>
      /\ ops \in Seq(Records) /\ pos \in 0 .. Len(ops) /\ ~ (pos < Len(ops))
      /\ compOps \in Seq(Records) /\ IsFiniteSet(pending) /\ pending \subseteq Int
      /\ (Len(compOps) + Cardinality(pending) + Cardinality(Others(pos))) % 2 = 0
      /\ \A i \in 1 .. Len(compOps) :
           compOps[i].action = "call" => compOps[i].proc \in pending \/ ReturnsLater(i)
  <2>1. /\ vpc = "complete" /\ vpc' = "complete" /\ pos = Len(ops)
        /\ UNCHANGED <<pos, ops, matchID, file>>
    BY DEF CompleteNoop, Over, recorderVars
  <2>2. ops \in Seq(Records)
    BY <2>1 DEF ReadInv
  <2>3. /\ pos \in 0 .. Len(ops)
        /\ compOps \in Seq(Records) /\ IsFiniteSet(pending) /\ pending \subseteq Int
        /\ (Len(compOps) + Cardinality(pending) + Cardinality(Others(pos))) % 2 = 0
        /\ \A i \in 1 .. Len(compOps) :
             compOps[i].action = "call" => compOps[i].proc \in pending \/ ReturnsLater(i)
    BY <2>1, Zenon DEF CompleteInv
  <2>4. ~ (pos < Len(ops))
    BY <2>1, <2>2
  <2>5. QED
    BY <2>1, <2>2, <2>3, <2>4
<1>2. PICK p \in pending : pending' = pending \ {p} /\ compOps' = Append(compOps, Noop(p))
  BY DEF CompleteNoop
<1>3. Noop(p) \in Records /\ Noop(p).action = "return" /\ Noop(p).proc = p
  <2>1. p \in Int
    BY <1>1
  <2>2. QED
    BY <2>1 DEF Noop, Rec, Records, Actions, NoReq
<1>4. compOps' \in Seq(Records) /\ Len(compOps') = Len(compOps) + 1
  BY <1>1, <1>2, <1>3, AppendAt
<1>5. /\ IsFiniteSet(pending') /\ pending' \subseteq Int
      /\ Cardinality(pending') = Cardinality(pending) - 1
  BY <1>1, <1>2, FS_RemoveElement
<1>6. /\ Cardinality(Others(pos)) \in Nat /\ Cardinality(pending) \in Nat /\ Len(compOps) \in Nat
      /\ Others(pos)' = Others(pos)
  <2>1. Others(pos)' = Others(pos)
    BY <1>1 DEF Others
  <2>2. Cardinality(Others(pos)) \in Nat
    BY <1>1, OthersStep
  <2>3. Cardinality(pending) \in Nat
    BY <1>1, FS_CardinalityType
  <2>4. Len(compOps) \in Nat
    BY <1>1
  <2>5. QED
    BY <2>1, <2>2, <2>3, <2>4
<1>7. (Len(compOps') + Cardinality(pending') + Cardinality(Others(pos)')) % 2 = 0
  BY <1>1, <1>4, <1>5, <1>6
<1>8. \A i \in 1 .. Len(compOps') :
        compOps'[i].action = "call" => compOps'[i].proc \in pending' \/ ReturnsLater(i)'
  BY <1>1, <1>2, <1>3, CompletedMore
<1>9. ReadInv'
  BY <1>1 DEF ReadInv, Skipped
<1>10. QED
  BY <1>1, <1>4, <1>5, <1>7, <1>8, <1>9 DEF CompleteInv

(* The number of completed operations is odd only when a record of the     *)
(* nemesis was lost.                                                       *)
LEMMA CompleteEnds ==
  ASSUME TypeOK, NemesisInv, ~ fatal, ~ Halfway, ReadInv, CompleteInv, CompleteEnd,
         UNCHANGED recorderVars
  PROVE  /\ vpc' = "convert" \/ (vpc' = "error" /\ unrecorded)
         /\ ReadInv' /\ CompleteInv' /\ ConvertInv'
<1>1. /\ vpc = "complete" /\ pos = Len(ops) /\ pos' = 0 /\ pending = {} /\ matchID = {}
      /\ vpc' = IF Len(compOps) % 2 # 0 THEN "error" ELSE "convert"
      /\ UNCHANGED <<ops, compOps, matchID>>
      /\ compOps \in Seq(Records) /\ Len(compOps) \in Nat
      /\ (Len(compOps) + Cardinality(pending) + Cardinality(Others(pos))) % 2 = 0
      /\ \A i \in 1 .. Len(compOps) :
           compOps[i].action = "call" => compOps[i].proc \in pending \/ ReturnsLater(i)
  <2>1. /\ vpc = "complete" /\ pos = Len(ops) /\ pos' = 0 /\ pending = {}
        /\ vpc' = IF Len(compOps) % 2 # 0 THEN "error" ELSE "convert"
        /\ UNCHANGED <<ops, compOps, matchID>>
    BY DEF CompleteEnd, Over
  <2>2. matchID = {}
    BY <2>1 DEF ReadInv
  <2>3. /\ compOps \in Seq(Records)
        /\ (Len(compOps) + Cardinality(pending) + Cardinality(Others(pos))) % 2 = 0
        /\ \A i \in 1 .. Len(compOps) :
             compOps[i].action = "call" => compOps[i].proc \in pending \/ ReturnsLater(i)
    BY <2>1, Zenon DEF CompleteInv
  <2>4. Len(compOps) \in Nat
    BY <2>3
  <2>5. QED
    BY <2>1, <2>2, <2>3, <2>4, Zenon
<1>2. Cardinality(pending) = 0
  BY <1>1, FS_EmptySet
<1>3. Cardinality(Others(pos)) = Cardinality(NemesisRecs) /\ Cardinality(NemesisRecs) \in Nat
  BY <1>1, OthersAreTheNemesis, RecsFinite DEF TypeOK, NemesisRecs
<1>4. ~ unrecorded => Cardinality(NemesisRecs) % 2 = 0
  BY DEF NemesisInv
<1>5. ~ unrecorded => Len(compOps) % 2 = 0
  <2>1. \A a, b \in Nat : (a + 0 + b) % 2 = 0 /\ b % 2 = 0 => a % 2 = 0
    OBVIOUS
  <2>2. (Len(compOps) + 0 + Cardinality(NemesisRecs)) % 2 = 0
    BY <1>1, <1>2, <1>3
  <2>3. QED
    BY <1>1, <1>3, <1>4, <2>1, <2>2
<1>6. ConvertInv'
  <2>1. \A i \in 1 .. Len(compOps') : compOps'[i].action = "call" => ReturnsLater(i)'
    BY <1>1 DEF ReturnsLater
  <2>2. pos' \in 0 .. Len(compOps') /\ compOps' \in Seq(Records) /\ \A m : m \notin matchID'
    BY <1>1
  <2>3. QED
    BY <2>1, <2>2 DEF ConvertInv
<1>7. vpc' = "error" \/ vpc' = "convert"
  BY <1>1
<1>8. ReadInv' /\ CompleteInv'
  BY <1>7 DEF ReadInv, CompleteInv
<1>9. vpc' = "error" => unrecorded
  BY <1>1, <1>5
<1>10. QED
  BY <1>6, <1>7, <1>8, <1>9

LEMMA ConvertNext ==
  ASSUME ConvertInv, ConvertOp
  PROVE  vpc' = "convert" /\ ConvertInv'
<1> DEFINE op == compOps[pos + 1]
<1>1. /\ vpc = "convert" /\ vpc' = "convert" /\ pos \in 0 .. Len(compOps) /\ pos < Len(compOps)
      /\ pos' = pos + 1 /\ compOps' = compOps
      /\ compOps \in Seq(Records) /\ Len(compOps) \in Nat
      /\ \A i \in 1 .. Len(compOps) : compOps[i].action = "call" => ReturnsLater(i)
      /\ ConvertCall(op) \/ ConvertReturn(op) \/ (~ IsClientRec(op) /\ matchID' = matchID)
  <2>1. /\ vpc = "convert" /\ vpc' = "convert" /\ pos < Len(compOps)
        /\ pos' = pos + 1 /\ compOps' = compOps
        /\ ConvertCall(op) \/ ConvertReturn(op) \/ (~ IsClientRec(op) /\ matchID' = matchID)
    BY DEF ConvertOp, Turn
  <2>2. /\ pos \in 0 .. Len(compOps) /\ compOps \in Seq(Records)
        /\ \A i \in 1 .. Len(compOps) : compOps[i].action = "call" => ReturnsLater(i)
    BY <2>1, Zenon DEF ConvertInv
  <2>3. Len(compOps) \in Nat
    BY <2>2
  <2>4. QED
    BY <2>1, <2>2, <2>3, Zenon
<1>2. \A m \in matchID' :
        \/ m \in matchID /\ ~ (op.action = "return" /\ op.proc = m[1])
        \/ op.action = "call" /\ op.proc = m[1]
  <2> HIDE DEF op
  <2>1. CASE ConvertCall(op)
    <3>1. op.action = "call" /\ matchID' = Without(op.proc) \cup {<<op.proc, id>>}
      BY <2>1 DEF ConvertCall
    <3>2. <<op.proc, id>>[1] = op.proc
      OBVIOUS
    <3>3. QED
      BY <3>1, <3>2 DEF Without
  <2>2. CASE ConvertReturn(op)
    BY <2>2 DEF ConvertReturn, Without
  <2>3. CASE ~ IsClientRec(op) /\ matchID' = matchID
    BY <2>3 DEF IsClientRec
  <2>4. QED
    BY <1>1, <2>1, <2>2, <2>3
<1>3. ASSUME NEW m \in matchID'
      PROVE  \E i \in 1 .. pos' :
               /\ compOps'[i].action = "call" /\ compOps'[i].proc = m[1]
               /\ \A j \in i + 1 .. pos' :
                    ~ (compOps'[j].action = "return" /\ compOps'[j].proc = m[1])
  <2>1. CASE op.action = "call" /\ op.proc = m[1]
    <3>1. pos + 1 \in 1 .. pos' /\ \A j \in (pos + 1) + 1 .. pos' : FALSE
      BY <1>1
    <3>2. QED
      BY <1>1, <2>1, <3>1
  <2>2. CASE m \in matchID /\ ~ (op.action = "return" /\ op.proc = m[1])
    <3>1. PICK i \in 1 .. pos :
            /\ compOps[i].action = "call" /\ compOps[i].proc = m[1]
            /\ \A j \in i + 1 .. pos :
                 ~ (compOps[j].action = "return" /\ compOps[j].proc = m[1])
      BY <1>1, <2>2 DEF ConvertInv
    <3>2. i \in 1 .. pos' /\ \A j \in i + 1 .. pos' : j \in i + 1 .. pos \/ j = pos + 1
      BY <1>1
    <3>3. QED
      BY <1>1, <2>2, <3>1, <3>2
  <2>3. QED
    BY <1>2, <1>3, <2>1, <2>2
<1>4. pos' \in 0 .. Len(compOps')
  BY <1>1
<1>5. \A i \in 1 .. Len(compOps') : compOps'[i].action = "call" => ReturnsLater(i)'
  BY <1>1 DEF ReturnsLater
<1>6. QED
  BY <1>1, <1>3, <1>4, <1>5 DEF ConvertInv

(* At the end no call is left in the map. *)
LEMMA ConvertEnds ==
  ASSUME ConvertInv, ConvertEnd
  PROVE  vpc' = "check"
<1>1. vpc = "convert" /\ pos = Len(compOps) /\ vpc' = IF matchID # {} THEN "error" ELSE "check"
  BY DEF ConvertEnd, Over
<1>2. ASSUME NEW m \in matchID PROVE FALSE
  <2>1. PICK i \in 1 .. pos :
          /\ compOps[i].action = "call" /\ compOps[i].proc = m[1]
          /\ \A j \in i + 1 .. pos :
               ~ (compOps[j].action = "return" /\ compOps[j].proc = m[1])
    BY <1>1, <1>2 DEF ConvertInv
  <2>2. ReturnsLater(i)
    BY <1>1, <2>1 DEF ConvertInv
  <2>3. QED
    BY <1>1, <2>1, <2>2 DEF ReturnsLater
<1>3. QED
  BY <1>1, <1>2
-----------------------------------------------------------------------------
(* What a step outside Verify leaves alone. *)
VerifyStays ==
  /\ UNCHANGED verifyVars
  /\ \/ vpc = "idle"
     \/ /\ file' = file /\ (unrecorded => unrecorded')
        /\ cpc' = cpc \/ fatal'

LEMMA VerifyKinds ==
  ASSUME ControllerInv, VerdictInv, ~ fatal, [ControllerNext]_allVars
  PROVE  VerifyStays \/ CloseAndVerify \/ Verifying \/ (VerifyEnd /\ Return)
<1> USE DEF CAt, recorderVars, clientVars, nemesisVars, opVars, controllerVars
<1>0. vpc # "idle" => cpc = "verify"
  BY DEF VerdictInv
<1>1. cpc = "verify" => npc \notin Recording
  BY DEF ControllerInv, Life, DispatcherInv
<1>2. CASE UNCHANGED allVars
  BY <1>2 DEF allVars, VerifyStays
<1>3. CASE \/ ExecWait \/ NextGen \/ RoundStart \/ RoundsOver \/ DumpState \/ ClientsWait
           \/ WaitRoundNemesis \/ WaitNemesis
  BY <1>0, <1>3 DEF ExecWait, NextGen, RoundStart, RoundsOver, DumpState, ClientsWait,
                    WaitRoundNemesis, WaitNemesis, VerifyStays
<1>4. CASE VerifyEnd
  BY <1>4 DEF VerifyEnd, Fatal, VerifyStays
<1>5. ASSUME NEW m \in Nodes \cup Clients, Exec(m) PROVE VerifyStays
  BY <1>5 DEF Exec, VerifyStays
<1>6. ASSUME NEW c \in Clients, Loop(c) \/ StandardStart(c) PROVE VerifyStays
  BY <1>0, <1>6 DEF Loop, StandardStart, VerifyStays
<1>7. CASE Dispatch
  <2>1. npc \notin Recording => file' = file /\ unrecorded' = unrecorded
    BY <1>7 DEF Dispatch, DispatchStep, DispatchCheck, DispatchNext, DispatchGenerate,
                DispatchWait, RecordedStep, RecordedInvoke, RecordedGenerate, RecordedWait,
                Recording
  <2>2. QED
    BY <1>0, <1>1, <1>7, <2>1 DEF Dispatch, VerifyStays
<1>8. ASSUME NEW o \in Operations, Op(o) PROVE VerifyStays
  <2>1. UNCHANGED <<verifyVars, file, unrecorded, cpc>>
    BY <1>8 DEF Op, OpStep, OpSkip, OpInvoke, OpRunTime, OpRecover, OpPause
  <2>2. QED
    BY <2>1 DEF VerifyStays
<1>9. CASE Signal \/ RoundTimeout \/ NemesisTimeout
  BY <1>9 DEF Signal, RoundTimeout, NemesisTimeout, NemesisContextDone, VerifyStays
<1>10. QED
  BY <1>2, <1>3, <1>4, <1>5, <1>6, <1>7, <1>8, <1>9 DEF ControllerNext, Run, RunOver

LEMMA VerdictNext ==
  ControllerInv /\ NemesisInv /\ VerdictInv /\ [ControllerNext]_allVars => VerdictInv'
<1> SUFFICES ASSUME ControllerInv, NemesisInv, VerdictInv, [ControllerNext]_allVars
             PROVE  VerdictInv'
  OBVIOUS
<1> USE DEF verifyVars, scanVars
<1>1. CASE fatal
  <2>1. UNCHANGED <<vpc, unrecorded, fatal>>
    BY <1>1, FatalIsFinal DEF allVars, clientVars, nemesisVars
  <2>2. QED
    BY <1>1, <2>1 DEF VerdictInv, VerdictReached
<1>2. CASE ~ fatal
  <2>0. /\ ReadInv /\ CompleteInv /\ ConvertInv /\ TypeOK
        /\ cpc = "verify" => mode # "standard" /\ ~ Halfway
    BY <1>2 DEF VerdictInv, ControllerInv, Life, Stationed, DispatcherInv, RoundsInv,
                SettingUp, TearingDown, Recording, Halfway
  <2>1. CASE VerifyStays
    <3>1. CASE vpc = "idle"
      BY <2>1, <3>1 DEF VerifyStays, VerdictInv, VerdictReached, ReadInv, CompleteInv,
                        ConvertInv
    <3>2. CASE vpc # "idle"
      <4>1. /\ UNCHANGED <<vpc, pos, ops, compOps, pending, matchID, file>>
            /\ unrecorded => unrecorded'
            /\ cpc' = cpc \/ fatal'
        BY <2>1, <3>2 DEF VerifyStays
      <4>2. ReadInv'
        BY <2>0, <4>1 DEF ReadInv, Skipped
      <4>3. CompleteInv'
        BY <2>0, <4>1 DEF CompleteInv, Skipped, LeftOpen, Others, ReturnsLater
      <4>4. ConvertInv'
        <5> SUFFICES ASSUME vpc = "convert" PROVE ConvertInv'
          BY <4>1 DEF ConvertInv
        <5>1. \A i : ReturnsLater(i)' <=> ReturnsLater(i)
          BY <4>1 DEF ReturnsLater
        <5>2. /\ pos \in 0 .. Len(compOps) /\ compOps \in Seq(Records)
              /\ \A i \in 1 .. Len(compOps) : compOps[i].action = "call" => ReturnsLater(i)
          BY <2>0 DEF ConvertInv
        <5>3. \A m \in matchID :
                \E i \in 1 .. pos :
                  /\ compOps[i].action = "call" /\ compOps[i].proc = m[1]
                  /\ \A j \in i + 1 .. pos :
                       ~ (compOps[j].action = "return" /\ compOps[j].proc = m[1])
          BY <2>0 DEF ConvertInv
        <5>4. pos' = pos /\ compOps' = compOps /\ matchID' = matchID
          BY <4>1
        <5>5. /\ pos' \in 0 .. Len(compOps') /\ compOps' \in Seq(Records)
              /\ \A i \in 1 .. Len(compOps') : compOps'[i].action = "call" => ReturnsLater(i)'
          BY <5>1, <5>2, <5>4
        <5>6. \A m \in matchID' :
                \E i \in 1 .. pos' :
                  /\ compOps'[i].action = "call" /\ compOps'[i].proc = m[1]
                  /\ \A j \in i + 1 .. pos' :
                       ~ (compOps'[j].action = "return" /\ compOps'[j].proc = m[1])
          BY <5>3, <5>4
        <5>7. QED
          BY <5>5, <5>6 DEF ConvertInv
      <4>5. QED
        BY <1>2, <4>1, <4>2, <4>3, <4>4 DEF VerdictInv, VerdictReached
    <3>3. QED
      BY <3>1, <3>2
  <2>2. CASE CloseAndVerify
    <3>1. /\ vpc' = "read" /\ pos' = 0 /\ ops' = << >> /\ compOps' = << >>
          /\ pending' = {} /\ matchID' = {} /\ cpc' = "verify" /\ file' = file
      BY <2>2 DEF CloseAndVerify, Begin, Fresh, Close
    <3>2. pos' \in 0 .. Len(file') /\ ops' \in Seq(Records) /\ Len(ops') = 0
      BY <2>0, <3>1 DEF TypeOK
    <3>3. \A i : i \notin 1 .. Len(ops')
      BY <3>2
    <3>4. ReadInv'
      BY <3>1, <3>2, <3>3 DEF ReadInv
    <3>5. QED
      BY <3>1, <3>4 DEF VerdictInv, VerdictReached, CompleteInv, ConvertInv
  <2>3. CASE VerifyEnd /\ Return
    BY <2>3 DEF Return, Fresh, VerdictInv, VerdictReached, ReadInv, CompleteInv, ConvertInv
  <2>4. CASE Verifying
    <3>1. /\ cpc = "verify" /\ VerifyStep /\ UNCHANGED <<cpc, fatal, unrecorded, recorderVars>>
      BY <2>4 DEF Verifying, VerifyStep, CAt, controllerVars, clientVars, nemesisVars
    <3>2. CASE ReadRecord \/ ReadEnd
      BY <2>0, <3>1, <3>2, ReadNext DEF VerdictInv, VerdictReached, ConvertInv
    <3>3. CASE CompleteOp
      <4>1. HistorySequential
        BY <2>0, <3>1 DEF ControllerInv, RoundsInv, Histories, SeqInv
      <4>2. QED
        BY <2>0, <3>1, <3>3, <4>1, CompleteNext DEF VerdictInv, VerdictReached, ConvertInv
    <3>4. CASE CompleteNoop
      BY <2>0, <3>1, <3>4, NoopNext DEF VerdictInv, VerdictReached, ConvertInv
    <3>5. CASE CompleteEnd
      BY <1>2, <2>0, <3>1, <3>5, CompleteEnds DEF VerdictInv, VerdictReached
    <3>6. CASE ConvertOp
      BY <2>0, <3>1, <3>6, ConvertNext
         DEF VerdictInv, VerdictReached, ReadInv, CompleteInv
    <3>7. CASE ConvertEnd
      BY <2>0, <3>1, <3>7, ConvertEnds
         DEF VerdictInv, VerdictReached, ReadInv, CompleteInv, ConvertInv
    <3>8. CASE Check
      BY <3>1, <3>8 DEF Check, VerdictInv, VerdictReached, ReadInv, CompleteInv, ConvertInv
    <3>9. QED
      BY <3>1, <3>2, <3>3, <3>4, <3>5, <3>6, <3>7, <3>8 DEF VerifyStep
  <2>5. QED
    BY <1>2, <2>1, <2>2, <2>3, <2>4, VerifyKinds
<1>3. QED
  BY <1>1, <1>2

(* Whatever the rounds, the clients and the nemesis do, Verify gives up on *)
(* a history only when a record of the nemesis could not be written:       *)
(* CompleteOperations and ConvertOperationsToEvents accept what the loops  *)
(* leave in the file.                                                      *)
THEOREM VerdictIsReached == ControllerSpec => []VerdictReached
<1>1. ControllerInit => NemesisInv /\ VerdictInv
  <2> SUFFICES ASSUME ControllerInit PROVE NemesisInv /\ VerdictInv
    OBVIOUS
  <2>1. file = << >> /\ vpc = "idle" /\ npc = "exit"
    BY DEF ControllerInit, VerifyIdle, NemesisInit
  <2>2. NemesisRecs = {}
    BY <2>1 DEF NemesisRecs
  <2>3. Cardinality(NemesisRecs) = 0
    BY <2>2, FS_EmptySet
  <2>4. NemesisInv
    <3>1. \A i : i \notin 1 .. Len(file)
      BY <2>1
    <3>2. QED
      BY <2>1, <2>3, <3>1 DEF NemesisInv, Halfway
  <2>5. VerdictInv
    BY <2>1 DEF VerdictInv, VerdictReached, ReadInv, CompleteInv, ConvertInv
  <2>6. QED
    BY <2>4, <2>5
<1>2. ControllerInv /\ NemesisInv /\ VerdictInv /\ [ControllerNext]_allVars =>
        NemesisInv' /\ VerdictInv'
  BY NemesisNext, VerdictNext
<1>3. VerdictInv => VerdictReached
  BY DEF VerdictInv
<1>4. QED
  BY <1>1, <1>2, <1>3, ControllerInvariant, PTL DEF ControllerSpec
=============================================================================

---------------------------- MODULE WatchProofs -----------------------------
(***************************************************************************)
(* Proofs about the leader shuffler, for any stores and number of replicas *)
(* and regions, and about the panic check, for any servers, clock and      *)
(* number of log lines.                                                    *)
(***************************************************************************)
EXTENDS LeaderShuffle, Plugins, FiniteSetTheorems, SequenceTheorems, TLAPS

(* Whole seconds: dividing keeps the order, and a time whose second is     *)
(* earlier is before the later second begins.                              *)
LEMMA DivBounds ==
  ASSUME NEW a \in Nat, NEW T \in Nat \ {0}
  PROVE  /\ a \div T \in Nat
         /\ (a \div T) * T <= a
         /\ a < (a \div T) * T + T
  BY Z3

LEMMA TimesMonotonic ==
  ASSUME NEW a \in Nat, NEW b \in Nat, NEW T \in Nat \ {0}, a <= b
  PROVE  a * T <= b * T
  BY Z3

LEMMA DivMonotonic ==
  ASSUME NEW a \in Nat, NEW b \in Nat, NEW T \in Nat \ {0}, a <= b
  PROVE  a \div T <= b \div T
<1> DEFINE x == a \div T
           y == b \div T
<1>1. x \in Nat /\ y \in Nat /\ x * T <= a /\ b < y * T + T
  BY DivBounds
<1> HIDE DEF x, y
<1> SUFFICES ASSUME y + 1 <= x PROVE FALSE
  BY <1>1 DEF x, y
<1>2. (y + 1) * T <= x * T
  BY <1>1, TimesMonotonic
<1>3. (y + 1) * T = y * T + T
  BY <1>1, Z3
<1>4. QED
  BY <1>1, <1>2, <1>3, Z3

LEMMA DivBelow ==
  ASSUME NEW a \in Nat, NEW b \in Nat, NEW T \in Nat \ {0}, a \div T < b \div T
  PROVE  a <= (b \div T) * T
<1> DEFINE x == a \div T
           y == b \div T
<1>1. x \in Nat /\ y \in Nat /\ a < x * T + T /\ x + 1 <= y
  BY DivBounds
<1> HIDE DEF x, y
<1>2. (x + 1) * T <= y * T
  BY <1>1, TimesMonotonic
<1>3. (x + 1) * T = x * T + T /\ x * T \in Nat /\ y * T \in Nat
  BY <1>1, Z3
<1>4. a <= y * T
  BY <1>1, <1>2, <1>3, Z3
<1>5. QED
  BY <1>4 DEF y
-----------------------------------------------------------------------------
(* The panic check.  Between two checks nothing is being searched; during  *)
(* one, a server still to be searched has the bound of its last search.    *)
LogLine == [node : Servers, at : Nat, ignored : BOOLEAN]

PanicTypeOK ==
  /\ clock \in Nat
  /\ logLines \in SUBSET LogLine
  /\ lastQueryTime \in [Servers -> Nat]
  /\ now \in Nat \cup {NotChecking}
  /\ DOMAIN from \subseteq Servers

Bounds ==
  /\ \A n \in Servers : lastQueryTime[n] <= clock
  /\ now <= clock
  /\ now = NotChecking => DOMAIN from = {} /\ panicRecords = {}
  /\ \A n \in DOMAIN from : from[n] = lastQueryTime[n]

(* What is before the second of its server's last search is accounted for. *)
Accounted ==
  \A l \in logLines :
    ~ l.ignored /\ l.at \div TicksPerSecond < lastQueryTime[l.node] \div TicksPerSecond
    => l \in reported \cup missed \cup panicRecords

PanicInv == PanicTypeOK /\ Bounds /\ Accounted

LEMMA PanicInvInit == PanicInit => PanicInv
  BY DEF PanicInit, PanicInv, PanicTypeOK, Bounds, Accounted, NotChecking

LEMMA SearchAccounts ==
  ASSUME PanicInv, NEW n \in Servers, SearchLog(n)
  PROVE  Accounted'
<1> SUFFICES ASSUME NEW l \in logLines, ~ l.ignored,
                    l.at \div TicksPerSecond < lastQueryTime'[l.node] \div TicksPerSecond
             PROVE  l \in reported' \cup missed' \cup panicRecords'
  BY DEF Accounted, SearchLog
<1>1. /\ l.at \in Nat /\ l.node \in Servers /\ now \in Nat
      /\ n \in DOMAIN from /\ from[n] \in Nat /\ from[n] = lastQueryTime[n]
  BY DEF PanicInv, PanicTypeOK, Bounds, LogLine, SearchLog
<1>2. /\ reported' = reported /\ missed \subseteq missed' /\ panicRecords \subseteq panicRecords'
  BY DEF SearchLog
<1>3. CASE l.at \div TicksPerSecond < lastQueryTime[l.node] \div TicksPerSecond
  BY <1>2, <1>3 DEF PanicInv, Accounted
<1>4. CASE ~ (l.at \div TicksPerSecond < lastQueryTime[l.node] \div TicksPerSecond)
  <2>1. l.node = n /\ lastQueryTime'[n] = now
    BY <1>1, <1>4 DEF SearchLog, PanicInv, PanicTypeOK
  <2>2. (from[n] \div TicksPerSecond) * TicksPerSecond <= l.at
    <3> DEFINE x == from[n] \div TicksPerSecond
               y == l.at \div TicksPerSecond
    <3>1. x \in Nat /\ y \in Nat /\ y * TicksPerSecond <= l.at
      BY <1>1, DivBounds, TicksAssumption
    <3>2. x <= y
      BY <1>1, <1>4, <2>1, <3>1
    <3> HIDE DEF x, y
    <3>3. x * TicksPerSecond <= y * TicksPerSecond
      BY <3>1, <3>2, TimesMonotonic, TicksAssumption
    <3>4. x * TicksPerSecond \in Nat /\ y * TicksPerSecond \in Nat
      BY <3>1, TicksAssumption, Z3
    <3>5. x * TicksPerSecond <= l.at
      BY <1>1, <3>1, <3>3, <3>4
    <3>6. QED
      BY <3>5 DEF x
  <2>3. l.at <= (now \div TicksPerSecond) * TicksPerSecond
    BY <1>1, <2>1, DivBelow, TicksAssumption
  <2>4. l \in Window(n)
    <3> DEFINE lo == (from[n] \div TicksPerSecond) * TicksPerSecond
               hi == (now \div TicksPerSecond) * TicksPerSecond
    <3>1. lo \in Int /\ hi \in Int /\ lo <= l.at /\ l.at <= hi
      BY <1>1, <2>2, <2>3, TicksAssumption, Z3
    <3> HIDE DEF lo, hi
    <3>2. l.at \in lo .. hi
      BY <1>1, <3>1
    <3>3. QED
      BY <2>1, <3>2 DEF Window, lo, hi
  <2>5. QED
    BY <1>2, <2>4 DEF SearchLog
<1>5. QED
  BY <1>3, <1>4

LEMMA PanicInvNext == PanicInv /\ [PanicNext]_panicVars => PanicInv'
<1> SUFFICES ASSUME PanicInv, [PanicNext]_panicVars PROVE PanicInv'
  OBVIOUS
<1> USE DEF PanicInv, NotChecking
<1>1. CASE TimePasses
  BY <1>1 DEF TimePasses, PanicTypeOK, Bounds, Accounted
<1>2. ASSUME NEW n \in Servers, NEW ignored \in BOOLEAN, ServerLogs(n, ignored) PROVE PanicInv'
  <2> DEFINE l == [node |-> n, at |-> clock, ignored |-> ignored]
  <2>1. l \in LogLine /\ l.at = clock /\ l.node = n /\ logLines' = logLines \cup {l}
    BY <1>2 DEF ServerLogs, LogLine, PanicTypeOK
  <2>2. ~ (l.at \div TicksPerSecond < lastQueryTime[l.node] \div TicksPerSecond)
    <3>1. lastQueryTime[n] \in Nat /\ clock \in Nat /\ lastQueryTime[n] <= clock
      BY DEF PanicTypeOK, Bounds
    <3>2. lastQueryTime[n] \div TicksPerSecond <= clock \div TicksPerSecond
      BY <3>1, DivMonotonic, TicksAssumption
    <3>3. clock \div TicksPerSecond \in Nat /\ lastQueryTime[n] \div TicksPerSecond \in Nat
      BY <3>1, DivBounds, TicksAssumption
    <3>4. QED
      BY <2>1, <3>2, <3>3
  <2> HIDE DEF l
  <2>3. PanicTypeOK' /\ Bounds'
    BY <1>2, <2>1 DEF ServerLogs, PanicTypeOK, Bounds
  <2>4. Accounted'
    BY <1>2, <2>1, <2>2 DEF ServerLogs, Accounted
  <2>5. QED
    BY <2>3, <2>4
<1>3. CASE CheckTiDBClusterPanic
  BY <1>3 DEF CheckTiDBClusterPanic, PanicTypeOK, Bounds, Accounted
<1>4. ASSUME NEW n \in Servers, SearchLog(n) PROVE PanicInv'
  <2>1. n \in DOMAIN from /\ now \in Nat
    BY <1>4 DEF SearchLog, PanicTypeOK, Bounds
  <2>2. PanicTypeOK' /\ Bounds'
    BY <1>4, <2>1 DEF SearchLog, PanicTypeOK, Bounds
  <2>3. QED
    BY <1>4, <2>2, SearchAccounts
<1>5. CASE ReportPanics
  BY <1>5 DEF ReportPanics, PanicTypeOK, Bounds, Accounted
<1>6. CASE UNCHANGED panicVars
  BY <1>6 DEF panicVars, PanicTypeOK, Bounds, Accounted
<1>7. QED
  BY <1>1, <1>2, <1>3, <1>4, <1>5, <1>6 DEF PanicNext

(* No panic falls between two searches, whatever the servers log while a   *)
(* search is on and however the bounds are rounded to whole seconds.       *)
THEOREM NoPanicIsLost == PanicSpec => []NoPanicSlipsThrough
<1>1. PanicInv => NoPanicSlipsThrough
  BY DEF PanicInv, Bounds, Accounted, NoPanicSlipsThrough
<1>2. QED
  BY <1>1, PanicInvInit, PanicInvNext, PTL DEF PanicSpec
-----------------------------------------------------------------------------
(* The leader shuffler.  Its operators work on the regions that PD has at  *)
(* that time, and what it has read before names stores.                    *)
Regions == [peers : SUBSET Stores, leader : Stores \cup {NoStore}]

ShuffleTypeOK ==
  /\ regions \in Seq(Regions)
  /\ atKey \in 1 .. Len(regions)
  /\ online \in SUBSET Stores
  /\ read \in [stores : SUBSET Stores, region : Regions]

ShuffleInv == ShuffleTypeOK /\ ReplicasKept

LEMMA RegionsAreFinite ==
  ASSUME NEW P \in SUBSET Stores
  PROVE  IsFiniteSet(P) /\ Cardinality(P) \in Nat
  BY FS_Subset, FS_CardinalityType, StoresAssumption

LEMMA ShuffleInvInit == ShuffleInit => ShuffleInv
<1> SUFFICES ASSUME ShuffleInit PROVE ShuffleInv
  OBVIOUS
<1>1. PICK P \in SUBSET Stores :
        Cardinality(P) = Replicas /\ \E l \in P : regions = <<Region(P, l)>>
  BY DEF ShuffleInit, kSubset
<1>a. PICK l \in P : regions = <<Region(P, l)>>
  BY <1>1
<1>2. Region(P, l) \in Regions /\ Region(P, l).peers = P
  BY DEF Region, Regions
<1>3. regions \in Seq(Regions) /\ Len(regions) = 1 /\ regions[1].peers = P
  BY <1>a, <1>2
<1>4. NothingRead \in [stores : SUBSET Stores, region : Regions]
  BY DEF NothingRead, Region, Regions
<1>5. ShuffleTypeOK
  <2>1. atKey = 1 /\ online = Stores /\ read = NothingRead
    BY DEF ShuffleInit
  <2>2. atKey \in 1 .. Len(regions)
    BY <1>3, <2>1
  <2>3. QED
    BY <1>3, <1>4, <2>1, <2>2 DEF ShuffleTypeOK
<1>6. DOMAIN regions = {1}
  BY <1>a
<1>7. QED
  BY <1>1, <1>3, <1>5, <1>6 DEF ShuffleInv, ReplicasKept

(* An operator carried out: the regions it makes are regions, and each of  *)
(* them has as many peers as one there was.                                *)
LEMMA OperatorStep ==
  ASSUME ShuffleInv, NEW new \in Seq(Regions), NEW key \in 1 .. Len(new), Operators(new, key),
         UNCHANGED narrowed,
         \A i \in 1 .. Len(new) : \E j \in 1 .. Len(regions) :
           Cardinality(new[i].peers) = Cardinality(regions[j].peers)
  PROVE  ShuffleInv'
<1>1. NothingRead \in [stores : SUBSET Stores, region : Regions]
  BY DEF NothingRead, Region, Regions
<1>2. ShuffleTypeOK'
  BY <1>1 DEF ShuffleInv, ShuffleTypeOK, Operators
<1>3. DOMAIN new = 1 .. Len(new) /\ DOMAIN regions = 1 .. Len(regions)
  BY DEF ShuffleInv, ShuffleTypeOK
<1>4. ReplicasKept'
  BY <1>3 DEF ShuffleInv, ReplicasKept, Operators
<1>5. QED
  BY <1>2, <1>4 DEF ShuffleInv

(* One region is replaced. *)
LEMMA ReplaceRegion ==
  ASSUME regions \in Seq(Regions), NEW i \in 1 .. Len(regions), NEW r \in Regions
  PROVE  /\ [regions EXCEPT ![i] = r] \in Seq(Regions)
         /\ Len([regions EXCEPT ![i] = r]) = Len(regions)
         /\ \A j \in 1 .. Len(regions) :
              [regions EXCEPT ![i] = r][j] = IF j = i THEN r ELSE regions[j]
  BY ExceptSeq

LEMMA LeaderOnly ==
  ASSUME regions \in Seq(Regions), NEW i \in 1 .. Len(regions), NEW l \in Stores \cup {NoStore}
  PROVE  /\ [regions EXCEPT ![i].leader = l] \in Seq(Regions)
         /\ Len([regions EXCEPT ![i].leader = l]) = Len(regions)
         /\ \A j \in 1 .. Len(regions) :
              [regions EXCEPT ![i].leader = l][j].peers = regions[j].peers
<1> DEFINE r == [regions[i] EXCEPT !.leader = l]
<1>1. regions[i] \in Regions
  OBVIOUS
<1>2. r \in Regions /\ r.peers = regions[i].peers
  BY <1>1 DEF Regions
<1>3. [regions EXCEPT ![i].leader = l] = [regions EXCEPT ![i] = r]
  OBVIOUS
<1> HIDE DEF r
<1>4. QED
  BY <1>2, <1>3, ReplaceRegion

(* Region i gets the peers P, as many as it had. *)
LEMMA MovedStep ==
  ASSUME ShuffleInv, NEW i \in 1 .. Len(regions), NEW P \in SUBSET Stores,
         Cardinality(P) = Cardinality(regions[i].peers),
         NEW new \in Moved(i, P), Operators(new, atKey), UNCHANGED narrowed
  PROVE  ShuffleInv'
<1>1. PICK l \in P : new = [regions EXCEPT ![i] = Region(P, l)]
  BY DEF Moved
<1>2. Region(P, l) \in Regions /\ Region(P, l).peers = P
  BY DEF Region, Regions
<1>3. /\ new \in Seq(Regions) /\ Len(new) = Len(regions)
      /\ \A j \in 1 .. Len(regions) : new[j] = IF j = i THEN Region(P, l) ELSE regions[j]
  BY <1>1, <1>2, ReplaceRegion DEF ShuffleInv, ShuffleTypeOK
<1>4. \A j \in 1 .. Len(new) : \E k \in 1 .. Len(regions) :
        Cardinality(new[j].peers) = Cardinality(regions[k].peers)
  BY <1>2, <1>3
<1>5. QED
  BY <1>3, <1>4, OperatorStep DEF ShuffleInv, ShuffleTypeOK

(* A region is taken out or put in twice: every region was there before.   *)
LEMMA RemovedRegion ==
  ASSUME regions \in Seq(Regions), NEW i \in 1 .. Len(regions)
  PROVE  /\ RemoveAt(regions, i) \in Seq(Regions)
         /\ Len(RemoveAt(regions, i)) = Len(regions) - 1
         /\ \A j \in 1 .. Len(regions) - 1 : \E k \in 1 .. Len(regions) :
              RemoveAt(regions, i)[j] = regions[k]
<1> DEFINE a == SubSeq(regions, 1, i - 1)
           b == SubSeq(regions, i + 1, Len(regions))
<1>1. /\ a \in Seq(Regions) /\ Len(a) = i - 1
      /\ \A j \in 1 .. i - 1 : a[j] = regions[j]
  BY SubSeqProperties
<1>2. /\ b \in Seq(Regions) /\ Len(b) = Len(regions) - i
      /\ \A j \in 1 .. Len(regions) - i : b[j] = regions[i + j]
  <2>1. Len(regions) - (i + 1) + 1 = Len(regions) - i
    OBVIOUS
  <2>2. /\ b \in Seq(Regions)
        /\ Len(b) = IF i + 1 <= Len(regions) THEN Len(regions) - (i + 1) + 1 ELSE 0
        /\ \A j \in 1 .. Len(regions) - (i + 1) + 1 : b[j] = regions[i + 1 + j - 1]
    BY SubSeqProperties
  <2>3. ASSUME NEW j \in 1 .. Len(regions) - i PROVE b[j] = regions[i + j]
    <3>1. b[j] = regions[i + 1 + j - 1] /\ i + 1 + j - 1 = i + j
      BY <2>1, <2>2
    <3>2. QED
      BY <3>1
  <2>4. Len(b) = Len(regions) - i
    BY <2>2
  <2>5. QED
    BY <2>2, <2>3, <2>4
<1>3. RemoveAt(regions, i) = a \o b
  BY DEF RemoveAt
<1> HIDE DEF a, b
<1>4. /\ a \o b \in Seq(Regions) /\ Len(a \o b) = Len(regions) - 1
      /\ \A j \in 1 .. Len(regions) - 1 :
           (a \o b)[j] = IF j <= i - 1 THEN a[j] ELSE b[j - (i - 1)]
  <2>1. Len(a) + Len(b) = Len(regions) - 1
    BY <1>1, <1>2
  <2>2. /\ a \o b \in Seq(Regions) /\ Len(a \o b) = Len(a) + Len(b)
        /\ \A j \in 1 .. Len(a) + Len(b) :
             (a \o b)[j] = IF j <= Len(a) THEN a[j] ELSE b[j - Len(a)]
    BY <1>1, <1>2, ConcatProperties
  <2>3. QED
    BY <1>1, <2>1, <2>2, Zenon
<1>5. \A j \in 1 .. Len(regions) - 1 : \E k \in 1 .. Len(regions) : (a \o b)[j] = regions[k]
  <2> TAKE j \in 1 .. Len(regions) - 1
  <2>1. CASE j <= i - 1
    BY <1>1, <1>4, <2>1
  <2>2. CASE j > i - 1
    <3>1. j - (i - 1) \in 1 .. Len(regions) - i /\ j + 1 \in 1 .. Len(regions)
      BY <2>2
    <3>2. (a \o b)[j] = regions[j + 1]
      BY <1>2, <1>4, <2>2, <3>1
    <3>3. QED
      BY <3>1, <3>2
  <2>3. j <= i - 1 \/ j > i - 1
    OBVIOUS
  <2>4. QED
    BY <2>1, <2>2, <2>3, Zenon
<1>6. QED
  BY <1>3, <1>4, <1>5

LEMMA InsertedRegion ==
  ASSUME regions \in Seq(Regions), NEW i \in 1 .. Len(regions)
  PROVE  /\ InsertAt(regions, i, regions[i]) \in Seq(Regions)
         /\ Len(InsertAt(regions, i, regions[i])) = Len(regions) + 1
         /\ \A j \in 1 .. Len(regions) + 1 : \E k \in 1 .. Len(regions) :
              InsertAt(regions, i, regions[i])[j] = regions[k]
<1> DEFINE a == SubSeq(regions, 1, i - 1)
           b == SubSeq(regions, i, Len(regions))
           c == a \o <<regions[i]>>
<1>1. /\ a \in Seq(Regions) /\ Len(a) = i - 1
      /\ \A j \in 1 .. i - 1 : a[j] = regions[j]
  BY SubSeqProperties
<1>2. /\ b \in Seq(Regions) /\ Len(b) = Len(regions) - i + 1
      /\ \A j \in 1 .. Len(regions) - i + 1 : b[j] = regions[i + j - 1]
  BY SubSeqProperties
<1>3. InsertAt(regions, i, regions[i]) = c \o b
  BY DEF InsertAt
<1>4. /\ c \in Seq(Regions) /\ Len(c) = i
      /\ \A j \in 1 .. i : c[j] = regions[j]
  BY <1>1
<1> HIDE DEF a, b, c
<1>5. /\ c \o b \in Seq(Regions) /\ Len(c \o b) = Len(regions) + 1
      /\ \A j \in 1 .. Len(regions) + 1 : (c \o b)[j] = IF j <= i THEN c[j] ELSE b[j - i]
  <2>1. Len(c) + Len(b) = Len(regions) + 1
    BY <1>2, <1>4
  <2>2. /\ c \o b \in Seq(Regions) /\ Len(c \o b) = Len(c) + Len(b)
        /\ \A j \in 1 .. Len(c) + Len(b) :
             (c \o b)[j] = IF j <= Len(c) THEN c[j] ELSE b[j - Len(c)]
    BY <1>2, <1>4, ConcatProperties
  <2>3. QED
    BY <1>4, <2>1, <2>2, Zenon
<1>6. \A j \in 1 .. Len(regions) + 1 : \E k \in 1 .. Len(regions) : (c \o b)[j] = regions[k]
  <2> TAKE j \in 1 .. Len(regions) + 1
  <2>1. CASE j <= i
    BY <1>4, <1>5, <2>1
  <2>2. CASE j > i
    <3>1. j - i \in 1 .. Len(regions) - i + 1 /\ j - 1 \in 1 .. Len(regions)
      BY <2>2
    <3>2. (c \o b)[j] = regions[j - 1]
      BY <1>2, <1>5, <2>2, <3>1
    <3>3. QED
      BY <3>1, <3>2
  <2>3. j <= i \/ j > i
    OBVIOUS
  <2>4. QED
    BY <2>1, <2>2, <2>3, Zenon
<1>7. QED
  BY <1>3, <1>5, <1>6

LEMMA ShuffleInvNext == ShuffleInv /\ [ShuffleNext]_shuffleVars => ShuffleInv'
<1> SUFFICES ASSUME ShuffleInv, [ShuffleNext]_shuffleVars PROVE ShuffleInv'
  OBVIOUS
<1>0. /\ regions \in Seq(Regions) /\ atKey \in 1 .. Len(regions)
      /\ DOMAIN regions = 1 .. Len(regions)
      /\ \A i \in 1 .. Len(regions) :
           /\ regions[i] \in Regions
           /\ regions[i].peers \in SUBSET Stores
           /\ regions[i].leader \in Stores \cup {NoStore}
      /\ read.stores \in SUBSET Stores /\ online \in SUBSET Stores
      /\ read.region.leader \in Stores \cup {NoStore}
  <2>1. /\ regions \in Seq(Regions) /\ atKey \in 1 .. Len(regions)
        /\ read \in [stores : SUBSET Stores, region : Regions] /\ online \in SUBSET Stores
    BY DEF ShuffleInv, ShuffleTypeOK
  <2>2. \A i \in 1 .. Len(regions) : regions[i] \in Regions
    BY <2>1
  <2>3. DOMAIN regions = 1 .. Len(regions)
    BY <2>1
  <2>4. read.region \in Regions /\ read.stores \in SUBSET Stores
    BY <2>1
  <2>5. QED
    BY <2>1, <2>2, <2>3, <2>4 DEF Regions
<1>1. ASSUME NEW i \in DOMAIN regions, LeaderMoves(i) PROVE ShuffleInv'
  <2>1. PICK l \in regions[i].peers \cup {NoStore} :
          regions' = [regions EXCEPT ![i].leader = l]
    BY <1>1 DEF LeaderMoves
  <2>2. l \in Stores \cup {NoStore} /\ i \in 1 .. Len(regions)
    BY <1>0
  <2>3. /\ regions' \in Seq(Regions) /\ Len(regions') = Len(regions)
        /\ \A j \in 1 .. Len(regions) : regions'[j].peers = regions[j].peers
    BY <1>0, <2>1, <2>2, LeaderOnly
  <2>4. DOMAIN regions' = 1 .. Len(regions)
    BY <2>3
  <2>5. QED
    BY <1>0, <1>1, <2>3, <2>4 DEF LeaderMoves, ShuffleInv, ShuffleTypeOK, ReplicasKept
<1>2. ASSUME NEW x \in Stores, StoreTurns(x) PROVE ShuffleInv'
  BY <1>2 DEF StoreTurns, ShuffleInv, ShuffleTypeOK, ReplicasKept
<1>3. ASSUME NEW f \in ShuffleFuncs, ShuffleLeader(f) PROVE ShuffleInv'
  <2>0. regions[atKey] \in Regions /\ Region({}, NoStore) \in Regions
    BY <1>0 DEF Region, Regions
  <2>1. read' \in [stores : SUBSET Stores, region : Regions]
    BY <1>0, <1>3, <2>0 DEF ShuffleLeader, NothingRead
  <2>2. QED
    BY <1>3, <2>1 DEF ShuffleLeader, ShuffleInv, ShuffleTypeOK, ReplicasKept
<1>4. CASE transferLeader
  <2>1. PICK to \in regions[atKey].peers : Operators([regions EXCEPT ![atKey].leader = to], atKey)
    BY <1>4 DEF transferLeader
  <2> DEFINE new == [regions EXCEPT ![atKey].leader = to]
  <2>2. /\ new \in Seq(Regions) /\ Len(new) = Len(regions)
        /\ \A j \in 1 .. Len(regions) : new[j].peers = regions[j].peers
    BY <1>0, LeaderOnly
  <2>3. Operators(new, atKey)
    BY <2>1
  <2> HIDE DEF new
  <2>4. QED
    BY <1>0, <1>4, <2>2, <2>3, OperatorStep DEF transferLeader
<1>5. CASE transferRegion
  <2>1. PICK target \in SUBSET read.stores :
          /\ Cardinality(target) = Cardinality(regions[atKey].peers)
          /\ \E new \in Moved(atKey, target) : Operators(new, atKey)
    BY <1>5 DEF transferRegion, kSubset
  <2>2. QED
    BY <1>0, <1>5, <2>1, MovedStep DEF transferRegion
<1>6. CASE transferOtherRegionToLeader
  <2> DEFINE store == read.region.leader
             other == {i \in DOMAIN regions : store \notin regions[i].peers}
  <2>1. store \in Stores
    BY <1>0, <1>6 DEF transferOtherRegionToLeader
  <2>2. CASE UNCHANGED narrowed /\ other # {}
    <3>0. PICK i \in other : \E out \in regions[i].peers :
            \E new \in Moved(i, (regions[i].peers \ {out}) \cup {store}) :
              Operators(new, atKey)
      BY <1>6, <2>2 DEF transferOtherRegionToLeader
    <3>1. PICK out \in regions[i].peers :
            \E new \in Moved(i, (regions[i].peers \ {out}) \cup {store}) :
              Operators(new, atKey)
      BY <3>0
    <3> DEFINE P == regions[i].peers
               Q == (P \ {out}) \cup {store}
    <3>2. i \in 1 .. Len(regions) /\ P \in SUBSET Stores /\ store \notin P /\ out \in P
      BY <1>0
    <3>3. IsFiniteSet(P) /\ Cardinality(P) \in Nat
      BY <3>2, RegionsAreFinite
    <3>4. IsFiniteSet(P \ {out}) /\ Cardinality(P \ {out}) = Cardinality(P) - 1
      BY <3>2, <3>3, FS_RemoveElement
    <3>5. Cardinality(Q) = Cardinality(P)
      <4>1. store \notin P \ {out}
        BY <3>2
      <4>2. Cardinality(Q) = Cardinality(P \ {out}) + 1
        BY <3>4, <4>1, FS_AddElement
      <4>3. QED
        BY <3>3, <3>4, <4>2
    <3>6. Q \in SUBSET Stores
      BY <2>1, <3>2
    <3>7. QED
      BY <2>2, <3>1, <3>2, <3>5, <3>6, MovedStep
  <2>3. CASE narrowed' = TRUE /\ other = {}
    <3>0. PICK i \in DOMAIN regions, to \in online \ {store} :
            \E new \in Moved(i, {to}) : Operators(new, atKey)
      BY <1>6, <2>3 DEF transferOtherRegionToLeader
    <3>1. PICK new \in Moved(i, {to}) : Operators(new, atKey)
      BY <3>0
    <3>2. Region({to}, to) \in Regions /\ new = [regions EXCEPT ![i] = Region({to}, to)]
      BY <1>0, <3>1 DEF Region, Regions, Moved
    <3>3. new \in Seq(Regions) /\ Len(new) = Len(regions)
      BY <1>0, <3>2, ReplaceRegion
    <3>4. NothingRead \in [stores : SUBSET Stores, region : Regions]
      BY DEF NothingRead, Region, Regions
    <3>5. QED
      BY <1>0, <2>3, <3>1, <3>3, <3>4
         DEF Operators, ShuffleInv, ShuffleTypeOK, ReplicasKept
  <2>4. QED
    BY <1>6, <2>2, <2>3 DEF transferOtherRegionToLeader
<1>7. CASE mergeRegion
  <2>0. PICK sibling \in {atKey - 1, atKey + 1} \cap DOMAIN regions :
          \E source \in {atKey, sibling} :
            Operators(RemoveAt(regions, source), Min({atKey, sibling}))
    BY <1>7 DEF mergeRegion
  <2>1. PICK source \in {atKey, sibling} :
          Operators(RemoveAt(regions, source), Min({atKey, sibling}))
    BY <2>0
  <2>2. source \in 1 .. Len(regions) /\ sibling \in 1 .. Len(regions)
    BY <1>0
  <2>3. /\ RemoveAt(regions, source) \in Seq(Regions)
        /\ Len(RemoveAt(regions, source)) = Len(regions) - 1
        /\ \A j \in 1 .. Len(regions) - 1 : \E k \in 1 .. Len(regions) :
             RemoveAt(regions, source)[j] = regions[k]
    BY <1>0, <2>2, RemovedRegion
  <2>4. Min({atKey, sibling}) \in 1 .. Len(regions) - 1
    <3>1. Min({atKey, sibling}) = IF sibling = atKey - 1 THEN atKey - 1 ELSE atKey
      <4>1. \E x \in {atKey, sibling} : \A y \in {atKey, sibling} : x =< y
        BY <1>0, <2>1
      <4>2. /\ Min({atKey, sibling}) \in {atKey, sibling}
            /\ \A y \in {atKey, sibling} : Min({atKey, sibling}) =< y
        BY <4>1 DEF Min
      <4>3. QED
        BY <1>0, <2>1, <4>2
    <3>2. QED
      BY <1>0, <2>1, <2>2, <3>1
  <2>5. QED
    BY <1>7, <2>1, <2>3, <2>4, OperatorStep DEF mergeRegion
<1>8. CASE splitRegion
  <2> DEFINE new == InsertAt(regions, atKey, regions[atKey])
  <2>1. PICK key \in {atKey, atKey + 1} : Operators(new, key)
    BY <1>8 DEF splitRegion
  <2>2. /\ new \in Seq(Regions) /\ Len(new) = Len(regions) + 1
        /\ \A j \in 1 .. Len(regions) + 1 : \E k \in 1 .. Len(regions) : new[j] = regions[k]
    BY <1>0, InsertedRegion
  <2> HIDE DEF new
  <2>3. key \in 1 .. Len(new)
    BY <1>0, <2>2
  <2>4. QED
    BY <1>8, <2>1, <2>2, <2>3, OperatorStep DEF splitRegion
<1>9. CASE NoOperator
  BY <1>0, <1>9, OperatorStep DEF NoOperator
<1>10. CASE UNCHANGED shuffleVars
  BY <1>10 DEF shuffleVars, ShuffleInv, ShuffleTypeOK, ReplicasKept
<1>11. QED
  BY <1>1, <1>2, <1>3, <1>4, <1>5, <1>6, <1>7, <1>8, <1>9, <1>10 DEF ShuffleNext

(* The shuffler loses no peer of any region, although stores and leaders   *)
(* change between its requests, up to the operator of the last resort.     *)
THEOREM ReplicasAreKept == ShuffleSpec => []ReplicasKept
<1>1. ShuffleInv => ReplicasKept
  BY DEF ShuffleInv
<1>2. QED
  BY <1>1, ShuffleInvInit, ShuffleInvNext, PTL DEF ShuffleSpec
=============================================================================

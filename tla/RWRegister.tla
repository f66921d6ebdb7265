----------------------------- MODULE RWRegister -----------------------------
(***************************************************************************)
(* The rw-register workload, its checker and the verdict it draws.         *)
(***************************************************************************)
EXTENDS Integers, SequencesExt, FiniteSets
-----------------------------------------------------------------------------
(***************************************************************************)
(* The rw-register workload (testcase/rw-register/client.go): Invoke runs  *)
(* a request of reads and writes as one transaction, and the history of    *)
(* invocations and completions goes to the Elle checker.  The database is  *)
(* external: "snapshot" gives snapshot isolation, the first committer      *)
(* wins; "faulty" answers a read with anything that anyone tried to write, *)
(* or with nothing.                                                        *)
(***************************************************************************)

CONSTANTS
  Keys,
  Shapes,    \* bound: kind of store -> the transactions requested, sequences of <<f, key>>
  MaxTxns,   \* bound: kind of store -> how many of them
  MaxErrors  \* bound: responses that are not ok, conflicts apart

VARIABLES
  kind,      \* the kind of store the clients talk to
  store,     \* key -> its value
  clock,     \* commits so far
  tx,        \* where each transaction stands
  history    \* a sequence of [type, t, mops]

clientVars == <<kind, store, clock, tx, history>>

Txns == 1 .. MaxTxns[kind]
Nil == 0

Mop(f, k, v) == [f |-> f, k |-> k, v |-> v]
Writes(mops, k) == SelectSeq(mops, LAMBDA m : m.f = "w" /\ m.k = k)

(* DumpState leaves an empty table. *)
ClientInit ==
  /\ kind \in DOMAIN MaxTxns
  /\ store = [k \in Keys |-> Nil]
  /\ clock = 0
  /\ tx = [t \in Txns |-> [pc |-> "none", req |-> << >>, mops |-> << >>, snap |-> 0, at |-> 0]]
  /\ history = << >>

(* The requests of MopIterator, of which nextRequest makes reads and       *)
(* writes: the writes of a key have consecutive values.                    *)
WriteVersion(k) ==
  1 + FoldLeft(LAMBDA n, t : n + Len(Writes(tx[t].req, k)), 0, [t \in Txns |-> t])

Request(shape) ==
  [i \in 1 .. Len(shape) |->
     LET k == shape[i][2]
         n == Cardinality({j \in 1 .. i - 1 : shape[j] = <<"w", k>>})
     IN Mop(shape[i][1], k, IF shape[i][1] = "w" THEN WriteVersion(k) + n ELSE Nil)]

NextRequest(t, shape) ==
  /\ tx[t].pc = "none" /\ \A u \in 1 .. t - 1 : tx[u].pc # "none"
  /\ tx' = [tx EXCEPT ![t].pc = "requested", ![t].req = Request(shape)]
  /\ history' = Append(history, [type |-> "invoke", t |-> t, mops |-> Request(shape)])
  /\ UNCHANGED <<kind, store, clock>>

Errors == Cardinality({i \in DOMAIN history : history[i].type \notin {"invoke", "ok"}})

Respond(t, type, mops, at) ==
  /\ tx' = [tx EXCEPT ![t].pc = "returned", ![t].at = at]
  /\ history' = Append(history, [type |-> type, t |-> t, mops |-> mops])
-----------------------------------------------------------------------------
(* What a read may return after the writes the transaction made itself. *)
Visible(k, own) ==
  IF kind = "snapshot" THEN {IF own = << >> THEN store[k] ELSE Last(own).v}
  ELSE {Nil} \cup {m.v : m \in UNION {ToSet(Writes(tx[t].req, k)) : t \in Txns}}

Executions(req) ==
  LET See(i) == IF req[i].f = "w" THEN {req[i].v}
                ELSE Visible(req[i].k, Writes(SubSeq(req, 1, i - 1), req[i].k))
  IN {[i \in 1 .. Len(req) |-> [req[i] EXCEPT !.v = vs[i]]] :
        vs \in {f \in [1 .. Len(req) -> UNION {See(i) : i \in 1 .. Len(req)}] :
                  \A i \in 1 .. Len(req) : f[i] \in See(i)}}

(* Begin and the statements, which see one snapshot. *)
Invoke(t) ==
  /\ tx[t].pc = "requested"
  /\ \E mops \in Executions(tx[t].req) :
       tx' = [tx EXCEPT ![t].pc = "open", ![t].mops = mops, ![t].snap = clock]
  /\ UNCHANGED <<kind, store, clock, history>>

(* Begin or a statement fails: the response repeats the request. *)
InvokeFails(t) ==
  /\ tx[t].pc = "requested" /\ Errors < MaxErrors
  /\ Respond(t, "fail", tx[t].req, 0)
  /\ UNCHANGED <<kind, store, clock>>

Conflict(t) ==
  kind = "snapshot" /\ \E u \in Txns : tx[u].at > tx[t].snap /\ \E k \in Keys :
     Writes(tx[u].mops, k) # << >> /\ Writes(tx[t].mops, k) # << >>

Apply(mops) ==
  [k \in Keys |-> IF Writes(mops, k) = << >> THEN store[k] ELSE Last(Writes(mops, k)).v]

(* Commit: "invalid connection" leaves the outcome unknown; any other      *)
(* error is recorded as a failure, although the database may have          *)
(* committed.                                                              *)
Commit(t) ==
  /\ tx[t].pc = "open"
  /\ \E type \in {"ok", "fail", "unknown"}, applied \in BOOLEAN :
       /\ applied => ~ Conflict(t)
       /\ IF type = "ok" THEN applied ELSE Errors < MaxErrors \/ Conflict(t)
       /\ Respond(t, type, tx[t].mops, IF applied THEN clock + 1 ELSE 0)
       /\ clock' = IF applied THEN clock + 1 ELSE clock
       /\ store' = IF applied THEN Apply(tx[t].mops) ELSE store
  /\ UNCHANGED kind

ClientNext ==
  \E t \in Txns :
    \/ \E shape \in Shapes[kind] : NextRequest(t, shape)
    \/ Invoke(t) \/ InvokeFails(t) \/ Commit(t)

(* Every request that was made has been answered. *)
Answered == tx[1].pc # "none" /\ \A t \in Txns : tx[t].pc \in {"none", "returned"}
-----------------------------------------------------------------------------
(***************************************************************************)
(* Which anomalies a consistency model proscribes, and which models an     *)
(* anomaly rules out (pkg/elle/core/consistency_model.go), and the verdict *)
(* that the Elle checkers draw from it (prohibitedAnomalyTypes in          *)
(* pkg/elle/txn/cycle.go, ResultMap in pkg/elle/txn/helper_fn.go).         *)
(***************************************************************************)

(* The pairs of a table that gives the successors of each of its names. *)
Edges(table) == UNION {{<<row[1], y>> : y \in row[2]} : row \in table}

(* Bfs along and against the edges: what the search begins with is part of *)
(* what it finds.                                                          *)
RECURSIVE BfsOut(_, _)
BfsOut(E, S) ==
  LET next == S \cup {e[2] : e \in {f \in E : f[1] \in S}}
  IN IF next = S THEN S ELSE BfsOut(E, next)
BfsIn(E, S) == BfsOut({<<e[2], e[1]>> : e \in E}, S)

impliedAnomalies == Edges({
  <<"G0", {"G1c"}>>,
  <<"G0-process", {"G1c-process", "G0-realtime"}>>,
  <<"G0-realtime", {"G1c-realtime"}>>,
  <<"G1a", {"G1"}>>, <<"G1b", {"G1"}>>, <<"G1c", {"G1"}>>,
  <<"G1c-process", {"G1-process", "G1c-realtime"}>>,
  <<"G-single", {"G-nonadjacent", "GSIb"}>>,
  <<"G-single-process", {"G-nonadjacent-process", "G-single-realtime"}>>,
  <<"G-single-realtime", {"G-nonadjacent-realtime"}>>,
  <<"G-nonadjacent", {"G2"}>>,
  <<"G-nonadjacent-process", {"G2-process", "G-nonadjacent-realtime"}>>,
  <<"G-nonadjacent-realtime", {"G2-realtime"}>>,
  <<"G2-item", {"G2"}>>,
  <<"G2-item-process", {"G2-process", "G2-item-realtime"}>>,
  <<"G2-item-realtime", {"G2-realtime"}>>,
  <<"G2-process", {"G2-realtime"}>>,
  <<"GSIa", {"GSI"}>>, <<"GSIb", {"GSI"}>>,
  <<"incompatible-order", {"G1a"}>>, <<"dirty-update", {"G1a"}>>})

(* The models by their canonical names. *)
Models == Edges({
  <<"causal-cerone", {"read-atomic"}>>,
  <<"PL-2+", {"PL-CS", "PL-2L"}>>,
  <<"PL-CS", {"PL-2"}>>,
  <<"PL-FCV", {"PL-2+", "PL-1"}>>,
  <<"PL-3", {"PL-2.99", "PL-3U", "PL-SI", "view-serializable"}>>,
  <<"PL-3U", {"PL-FCV"}>>,
  <<"monotonic-atomic-view", {"PL-2"}>>,
  <<"PL-2L", {"PL-2"}>>, <<"PL-MSR", {"PL-2"}>>,
  <<"parallel-snapshot-isolation", {"causal-cerone"}>>,
  <<"prefix", {"causal-cerone"}>>,
  <<"PL-2", {"PL-1"}>>,
  <<"PL-2.99", {"PL-CS", "monotonic-atomic-view"}>>,
  <<"session-serializable", {"1SR"}>>,
  <<"PL-SI", {"PL-FCV", "monotonic-atomic-view", "PL-MSR", "parallel-snapshot-isolation", "prefix"}>>,
  <<"PL-SS", {"PL-3", "linearizable", "PL-SI", "strong-session-serializable"}>>,
  <<"strong-serializable", {"session-serializable"}>>,
  <<"strong-session-serializable", {"PL-3"}>>,
  <<"strong-session-snapshot-isolation", {"PL-SI"}>>,
  <<"strong-snapshot-isolation", {"strong-session-snapshot-isolation"}>>,
  <<"linearizable", {"sequential"}>>,
  <<"causal", {"writes-follow-reads", "PRAM"}>>,
  <<"PRAM", {"monotonic-reads", "monotonic-writes", "read-your-writes"}>>})

directProscribedAnomalies == Edges({
  <<"causal-cerone", {"internal", "G1a"}>>,
  <<"PL-CS", {"G1", "G-cursor"}>>,
  <<"PL-2L", {"G1", "G-monotonic"}>>,
  <<"PL-MSR", {"G1", "G-MSR"}>>,
  <<"PL-2+", {"G1", "G-single"}>>,
  <<"PL-FCV", {"G1", "G-SIb"}>>,
  <<"parallel-snapshot-isolation", {"internal", "G1a"}>>,
  <<"PL-3", {"G1", "G2", "internal"}>>,
  <<"PL-2", {"G1"}>>,
  <<"PL-1", {"G0", "duplicate-elements", "cyclic-versions"}>>,
  <<"prefix", {"internal", "G1a"}>>,
  <<"PL-SI", {"internal", "G1", "G-SI"}>>,
  <<"read-atomic", {"internal", "G1a"}>>,
  <<"PL-2.99", {"G1", "G2-item"}>>,
  <<"PL-SS", {"G1", "G1c-realtime", "G2-realtime"}>>,
  <<"strong-session-snapshot-isolation", {"G-nonadjacent"}>>,
  <<"strong-session-serializable", {"G1c-process", "G2-process"}>>,
  <<"PL-3U", {"G1", "G-update"}>>})
-----------------------------------------------------------------------------
(* Mutant of AllAnomaliesImplying: the edges are followed the other way. *)
AllAnomaliesImplied(anomalies) == BfsOut(impliedAnomalies, anomalies)
AllAnomaliesImplying(anomalies) == BfsIn(impliedAnomalies, anomalies)
AllImpliedAnomalies(anomalies) == BfsOut(impliedAnomalies, anomalies)
allImpliedModels(models) == BfsOut(Models, models)
allImpossibleModels(models) == BfsIn(Models, models)

AnomaliesProhibitedBy(models) ==
  AllAnomaliesImplying({e[2] : e \in {f \in directProscribedAnomalies : f[1] \in allImpliedModels(models)}})

anomaliesImpossibleModels(anomalies) ==
  allImpossibleModels({e[1] : e \in {f \in directProscribedAnomalies : f[2] \in AllImpliedAnomalies(anomalies)}})

(* A model goes when it implies another that is left. *)
weakestModels(ms) ==
  LET models == Models IN {m \in ms : BfsOut(models, {m}) \cap (ms \ {m}) = {}}

FriendlyBoundary(anomalies) ==
  LET impossible == anomaliesImpossibleModels(anomalies)
      not == weakestModels(impossible)
  IN [not |-> not, alsoNot |-> impossible \ not]
-----------------------------------------------------------------------------
UnknownAnomalyTypes == {"empty-transaction-graph", "cycle-search-timeout"}

(* The default model; the workloads add G-single to what it proscribes. *)
prohibitedAnomalyTypes == AllAnomaliesImplying({"G-single"}) \cup AnomaliesProhibitedBy({"PL-SS"})
reportableAnomalyTypes == prohibitedAnomalyTypes \cup UnknownAnomalyTypes

(* valid stays FALSE in a result that is unknown. *)
ResultMap(anomalies) ==
  LET bad == anomalies \cap prohibitedAnomalyTypes
      reportable == anomalies \cap reportableAnomalyTypes
  IN [valid |-> reportable = {}, isUnknown |-> reportable # {} /\ bad = {}, types |-> reportable,
      boundary |-> IF reportable = {} THEN FriendlyBoundary({}) ELSE FriendlyBoundary(anomalies)]
-----------------------------------------------------------------------------
(***************************************************************************)
(* The rw-register checker (pkg/elle/rw_register).  Registers do not show  *)
(* the order of their versions, so Check takes it from what it is told to  *)
(* assume: that the empty register comes first; with WfrKeys, that a       *)
(* transaction overwrites what it read; with LinearizableKeys, that what   *)
(* transactions show of a key follows their order in real time.  The order *)
(* of versions gives ww and rw dependencies, what was read wr ones.        *)
(***************************************************************************)

VARIABLE result   \* what Check found, NoResult before

NoResult == [assume |-> "none", anomalies |-> {}, versions |-> {}, edges |-> {}, map |-> "none"]
rwVars == <<clientVars, result>>

Ok == {op \in ToSet(history) : op.type = "ok"}
Failed == {op \in ToSet(history) : op.type = "fail"}
ReadsOf(op) == {m \in ToSet(op.mops) : m.f = "r"}
WritesOf(op) == {m \in ToSet(op.mops) : m.f = "w"}
-----------------------------------------------------------------------------
(* Mutant of InternalStep: what the transaction wrote is forgotten. *)
InternalStepReads(s, m) ==
  LET known == m.k \in DOMAIN s.data
  IN IF s.found \/ m.f = "w" \/ m.v = Nil THEN s
     ELSE IF known THEN [s EXCEPT !.found = s.data[m.k] # m.v]
     ELSE [s EXCEPT !.data = (m.k :> m.v) @@ @]

(* internalOp replays a transaction: a read returns what it last read or   *)
(* wrote there.  A read that found nothing is skipped.                     *)
InternalStep(s, m) ==
  LET known == m.k \in DOMAIN s.data
  IN IF s.found \/ (m.f = "r" /\ m.v = Nil) THEN s
     ELSE IF m.f = "r" /\ known THEN [s EXCEPT !.found = s.data[m.k] # m.v]
     ELSE [s EXCEPT !.data = (m.k :> m.v) @@ @]

internalOp(op) == FoldLeft(InternalStep, [found |-> FALSE, data |-> << >>], op.mops).found
internal == \E op \in Ok : internalOp(op)

(* Mutant of g1aCases: a write whose outcome is unknown counts as failed. *)
g1aOrUnknown ==
  \E op \in Ok, w \in ToSet(history) : w.type \in {"fail", "unknown"} /\
    \E m \in ReadsOf(op) : m.v # Nil /\ Mop("w", m.k, m.v) \in WritesOf(w)

(* An ok transaction read what a failed one wrote. *)
g1aCases ==
  \E op \in Ok, w \in Failed : \E m \in ReadsOf(op) : m.v # Nil /\ Mop("w", m.k, m.v) \in WritesOf(w)

(* Or what another one wrote and then overwrote. *)
g1bCases ==
  \E op \in Ok, w \in Ok : op # w /\ \E m \in ReadsOf(op) :
    /\ Mop("w", m.k, m.v) \in WritesOf(w)
    /\ Last(Writes(w.mops, m.k)).v # m.v
-----------------------------------------------------------------------------
(* What a transaction reads of the others, and what they see of it: the    *)
(* first mop of a key if that is a read, the last write of a key.          *)
OfKey(op, k) == SelectSeq(op.mops, LAMBDA m : m.k = k)
extReadKeys(op) ==
  {Head(OfKey(op, k)) : k \in {j \in Keys : OfKey(op, j) # << >> /\ Head(OfKey(op, j)).f = "r"}}
extWriteKeys(op) == {Last(Writes(op.mops, k)) : k \in {j \in Keys : Writes(op.mops, j) # << >>}}

(* extIndex, as <<transaction, key, version>>. *)
extReadIndex == UNION {{<<op.t, m.k, m.v>> : m \in extReadKeys(op)} : op \in Ok}
extWriteIndex == UNION {{<<op.t, m.k, m.v>> : m \in extWriteKeys(op)} : op \in Ok}
Same(x, y) == x[2] = y[2] /\ x[3] = y[3]

(* More than one writer of a version panics. *)
MultiWrites(writes) == \E x, y \in writes : x[1] # y[1] /\ Same(x, y)

(* Mutant of wrGraph: the reader comes first. *)
wrGraphSwapped(reads, writes) ==
  {<<p[2][1], p[1][1], "wr">> : p \in {q \in writes \X reads : Same(q[1], q[2])}}

wrGraph(reads, writes) ==
  {<<p[1][1], p[2][1], "wr">> : p \in {q \in writes \X reads : Same(q[1], q[2])}}

(* The version of k that op shows: what it read counts before what it      *)
(* wrote, if it was ok.                                                    *)
Shows(op, k) ==
  LET read == IF op.type = "ok" THEN {m \in extReadKeys(op) : m.k = k} ELSE {}
      wrote == {m \in extWriteKeys(op) : m.k = k}
  IN IF read # {} THEN read ELSE wrote

(* The empty register comes before the version that is shown first. *)
initialStateVersionGraphs ==
  UNION {LET i == SelectInSeq(history, LAMBDA op : op.type \notin {"fail", "invoke"} /\ Shows(op, k) # {})
         IN IF i = 0 THEN {} ELSE {<<k, Nil, m.v>> : m \in Shows(history[i], k)} : k \in Keys}

wfrVersionGraphs(reads, writes) ==
  {<<p[1][2], p[1][3], p[2][3]>> :
     p \in {q \in reads \X writes : q[1][1] = q[2][1] /\ q[1][2] = q[2][2] /\ q[1][3] # Nil}}

(* The order that the realtime graph stands for (module RealtimeGraph): an *)
(* ok transaction comes before those that are invoked after it.            *)
RealTime ==
  {<<history[i].t, history[j].t, "realtime">> :
     <<i, j>> \in {p \in (1 .. Len(history)) \X (1 .. Len(history)) :
                     p[1] < p[2] /\ history[p[1]].type = "ok" /\ history[p[2]].type = "invoke"}}
(* The edges that it has. *)
RealtimeGraph ==
  LET order == {<<e[1], e[2]>> : e \in RealTime}
  IN {e \in order : \A t \in Txns : <<e[1], t>> \notin order \/ <<t, e[2]>> \notin order}

(* What counts of a transaction: not the reads of an unknown one. *)
Counted(op) == IF op.type = "unknown" THEN SelectSeq(op.mops, LAMBDA m : m.f = "w") ELSE op.mops
getKeys(op) == {m.k : m \in ToSet(Counted(op))}
getVersion(k, op) ==
  LET mops == SelectSeq(Counted(op), LAMBDA m : m.k = k)
  IN IF Head(mops).f = "r" THEN Head(mops).v ELSE Last(Writes(mops, k)).v

OkOrInfo == {op \in ToSet(history) : op.type \in {"ok", "unknown"}}

(* The next transactions with key k along the graph.  What find caches for *)
(* a transaction without it that has several successors is where the last  *)
(* of them leads, so that a second path through it would miss the others;  *)
(* that takes five transactions.                                           *)
RECURSIVE find(_, _)
find(k, t) ==
  UNION {LET here == {op \in OkOrInfo : op.t = e[2] /\ k \in getKeys(op)}
         IN IF here # {} THEN here ELSE find(k, e[2]) : e \in {f \in RealtimeGraph : f[1] = t}}

transactionGraph2VersionGraphs ==
  UNION {UNION {{<<k, getVersion(k, op), getVersion(k, next)>> :
                   next \in {o \in find(k, op.t) : getVersion(k, o) \notin {Nil, getVersion(k, op)}}} :
                k \in getKeys(op)} : op \in OkOrInfo}
(* "self version should not be nil" *)
SelfVersionNil == \E op \in OkOrInfo : \E k \in getKeys(op) : getVersion(k, op) = Nil

cyclicVersionCases(versions) ==
  \E k \in Keys : LET E == {<<e[2], e[3]>> : e \in {f \in versions : f[1] = k}} IN
    \E e \in E : e[1] # e[2] /\ e[1] \in BfsOut(E, {e[2]})

(* A source that makes the versions of a key cyclic is left out. *)
versionGraphs(reads, writes, assume) ==
  LET initial == initialStateVersionGraphs
      merged == initial \cup CASE assume = "initial" -> {}
                               [] assume = "wfr" -> wfrVersionGraphs(reads, writes)
                               [] assume = "linearizable" -> transactionGraph2VersionGraphs
      cyclic == cyclicVersionCases(merged)
  IN [cyclic |-> cyclic, versions |-> IF cyclic THEN initial ELSE merged]

(* The users of a version come before the writers of the next. *)
Before(users, e, writes, rel) ==
  {<<p[1][1], p[2][1], rel>> :
     p \in {q \in users \X writes : q[1][1] # q[2][1] /\ Tail(q[1]) = <<e[1], e[2]>> /\ Tail(q[2]) = <<e[1], e[3]>>}}

(* Mutant of versionGraphs2TransactionGraph: readers are passed over. *)
versionGraphs2Writers(reads, writes, versions) ==
  UNION {Before(writes, e, writes, "ww") : e \in versions}

versionGraphs2TransactionGraph(reads, writes, versions) ==
  UNION {Before(writes, e, writes, "ww") \cup Before(reads, e, writes, "rw") : e \in versions}
-----------------------------------------------------------------------------
(* The explainers: what they may say of ops a and b, as a map is searched  *)
(* in any order: <<type, key, a's version, b's version>>.                  *)
wrExplain(a, b) ==
  {<<"wr", p[1].k, p[1].v, p[2].v>> :
     p \in {q \in extWriteKeys(a) \X extReadKeys(b) : q[1].k = q[2].k /\ q[1].v = q[2].v}}

(* Of a's mops as and b's mops bs, two of a key with an edge in its graph. *)
explainOpDeps(versions, as, bs) ==
  {p \in as \X bs : p[1].k = p[2].k /\ <<p[1].k, p[1].v, p[2].v>> \in versions}

(* Nothing found is told from the values: both are nil. *)
wwExplain(versions, a, b) ==
  {<<"ww", p[1].k, p[1].v, p[2].v>> :
     p \in {q \in explainOpDeps(versions, extWriteKeys(a), extWriteKeys(b)) : q[1].v # Nil /\ q[2].v # Nil}}
rwExplain(versions, a, b) ==
  {<<"rw", p[1].k, p[1].v, p[2].v>> :
     p \in {q \in explainOpDeps(versions, extReadKeys(a), extWriteKeys(b)) : q[1].v # Nil \/ q[2].v # Nil}}

(* CombinedExplainer: the first that has a result.  The realtime order is  *)
(* asked last.                                                             *)
FirstResult(results) == FoldLeft(LAMBDA r, next : IF r = {} THEN next ELSE r, {}, results)
ExplainPairData(versions, a, b) ==
  FirstResult(<<wrExplain(a, b), wwExplain(versions, a, b), rwExplain(versions, a, b),
                {<<e[3], "none", Nil, Nil>> : e \in {f \in RealTime : f[1] = a.t /\ f[2] = b.t}}>>)
-----------------------------------------------------------------------------
Named(name, found) == IF found THEN {name} ELSE {}
Pairs(edges) == {<<e[1], e[2]>> : e \in edges}
Cyclic(edges) == \E e \in Pairs(edges) : e[1] # e[2] /\ e[1] \in BfsOut(Pairs(edges), {e[2]})

(* Check.  The workload leaves both options off, WfrKeys and               *)
(* LinearizableKeys; they are looked at one at a time.  The cycles are     *)
(* looked for by CycleSearch.                                              *)
Check ==
  /\ Answered /\ result = NoResult
  /\ \E assume \in {"initial", "wfr", "linearizable"} :
     LET reads == extReadIndex
         writes == extWriteIndex
         graphs == versionGraphs(reads, writes, assume)
         edges == wrGraph(reads, writes) \cup RealTime
                  \cup versionGraphs2TransactionGraph(reads, writes, graphs.versions)
         anomalies == Named("panic", MultiWrites(writes) \/ (assume = "linearizable" /\ SelfVersionNil))
                      \cup Named("G1a", g1aCases) \cup Named("G1b", g1bCases)
                      \cup Named("internal", internal)
                      \cup Named("cyclic-versions", graphs.cyclic)
                      \cup Named("empty-transaction-graph", edges = {})
     IN result' = [assume |-> assume, anomalies |-> anomalies, versions |-> graphs.versions,
                   edges |-> edges, map |-> ResultMap(anomalies)]
  /\ UNCHANGED clientVars

RWNext ==
  \/ result = NoResult /\ ClientNext /\ UNCHANGED result
  \/ Check
  \/ result # NoResult /\ UNCHANGED rwVars

RWInit == ClientInit /\ result = NoResult
RWSpec == RWInit /\ [][RWNext]_rwVars
-----------------------------------------------------------------------------
Checked == result # NoResult
Misjudged == \E t \in Txns : (\E op \in Failed : op.t = t) /\ tx[t].at # 0

(* A database that keeps snapshot isolation is not blamed for what its     *)
(* transactions read or for the order of its versions, whatever Check is   *)
(* told to assume.  The exceptions are the client's and the checker's own: *)
(* Invoke records every commit error but "invalid connection" as a         *)
(* failure, and with LinearizableKeys a register read empty is a panic.    *)
NoFalseRegisterAlarm ==
  Checked /\ kind = "snapshot" =>
    result.anomalies \subseteq {"empty-transaction-graph"} \cup Named("G1a", Misjudged)
                              \cup Named("panic", result.assume = "linearizable" /\ SelfVersionNil)

(* Every dependency the checker infers is one of the database: so a cycle  *)
(* without two rw edges in a row is the database's fault.                  *)
RegisterEdgesFollow ==
  Checked /\ kind = "snapshot" => \A e \in result.edges :
    CASE e[3] = "rw" -> tx[e[1]].snap < tx[e[2]].at
      [] e[3] \in {"ww", "wr"} -> tx[e[1]].at # 0 /\ tx[e[1]].at <= tx[e[2]].snap
      [] OTHER -> tx[e[1]].at <= tx[e[2]].snap \/ tx[e[2]].pc # "returned" \/ tx[e[2]].mops = << >>

(* Whatever the database did: each dependency of two ok transactions is    *)
(* explained, so that no step of a cycle has a nil Result (ExplainCycle    *)
(* asks it for its type), and by realtime only if there is no other        *)
(* relation between them.                                                  *)
RegisterEdgesExplained ==
  Checked => \A a, b \in Ok : a # b =>
    \A rels \in {{e[3] : e \in {f \in result.edges : f[1] = a.t /\ f[2] = b.t}}} \ {{}} :
      \E types \in {{r[1] : r \in ExplainPairData(result.versions, a, b)}} :
        types # {} /\ ("realtime" \in types => rels = {"realtime"})

(* A transaction that finds a register empty after an ok transaction wrote *)
(* it closes a cycle, whatever else the database did; as long as that      *)
(* write was the first version of the register that the history shows.     *)
RegisterEmptinessIsFound ==
  Checked => \A r \in extReadIndex, w \in extWriteIndex :
    /\ r[3] = Nil /\ <<r[2], Nil, w[3]>> \in result.versions /\ w[2] = r[2]
    /\ <<w[1], r[1], "realtime">> \in result.edges
    => Cyclic(result.edges)

(* Whatever the database did: where Check finds nothing, no ok transaction *)
(* read a write of a failed one or one its writer overwrote, and each read *)
(* that found something agrees with its own transaction.                   *)
PassedValuesAreConsistent ==
  Checked /\ result.anomalies = {} => \A op \in Ok : \A j \in 1 .. Len(op.mops) :
    LET m == op.mops[j]
        before == {i \in 1 .. j - 1 : op.mops[i].k = m.k /\ op.mops[i].v # Nil}
    IN m.f = "r" /\ m.v # Nil =>
         /\ before # {} => op.mops[Max(before)].v = m.v
         /\ \A t \in Txns \ {op.t} : m \in {Mop("r", w.k, w.v) : w \in ToSet(tx[t].req)} =>
              /\ \A f \in Failed : f.t # t
              /\ (\E o \in Ok : o.t = t) => Last(Writes(tx[t].req, m.k)).v = m.v

(* What is found is reported: the default model proscribes every anomaly   *)
(* that Check can name, and "not" are the weakest models they rule out.    *)
RegisterAnomaliesAreReported ==
  Checked =>
    LET found == result.anomalies \ {"empty-transaction-graph", "panic"}
        not == result.map.boundary.not
        models == Models
    IN /\ found # {} => ~ result.map.valid /\ ~ result.map.isUnknown /\ found \subseteq result.map.types
       /\ \A m \in not : BfsOut(models, {m}) \cap not = {m}
       /\ \A m \in result.map.boundary.alsoNot : BfsOut(models, {m}) \cap not # {}

(* "Anomalies worth reporting on, even if they don't cause the test to     *)
(* fail" (reportableAnomalyTypes): the test fails only over an anomaly     *)
(* that is prohibited.                                                     *)
RegisterFailsIfProhibited ==
  Checked /\ ~ result.map.valid => result.anomalies \cap prohibitedAnomalyTypes # {}
=============================================================================

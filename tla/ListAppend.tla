----------------------------- MODULE ListAppend -----------------------------
(***************************************************************************)
(* The list-append workload and its checker.                               *)
(***************************************************************************)
EXTENDS Integers, SequencesExt
-----------------------------------------------------------------------------
(***************************************************************************)
(* The list-append workload (testcase/list-append/client.go): requests     *)
(* from the generator of pkg/elle/txn/wr_txn.go, Invoke running them as    *)
(* transactions, and the history of invocations and completions the Elle   *)
(* checker gets.  The database is external.  A "snapshot" store gives      *)
(* snapshot isolation with first-committer-wins, as TiDB's optimistic      *)
(* transactions promise; a "faulty" one applies appends at once and        *)
(* perhaps twice, keeps those of failed transactions, and lets a read see  *)
(* any part of them.                                                       *)
(***************************************************************************)

CONSTANTS
  Keys,
  Shapes,    \* bound: kind of store -> the transactions requested, sequences of <<f, key>>
  MaxTxns    \* bound: kind of store -> how many of them; a kind is "snapshot" or "faulty"

VARIABLES
  kind,      \* the kind of store the clients talk to
  store,     \* key -> its list
  clock,     \* commits so far
  tx,        \* where each transaction stands
  history    \* a sequence of [type, t, mops]; an op is told by its type and t

clientVars == <<kind, store, clock, tx, history>>

Txns == 1 .. MaxTxns[kind]

(* A read's value is the list it saw (empty for nil), an append's the list *)
(* of its one element.                                                     *)
Mop(f, k, v) == [f |-> f, k |-> k, v |-> v]
Appends(mops, k) == SelectSeq(mops, LAMBDA m : m.f = "append" /\ m.k = k)
Elements(mops, k) == [i \in 1 .. Len(Appends(mops, k)) |-> Appends(mops, k)[i].v[1]]

ClientInit ==
  /\ kind \in DOMAIN MaxTxns
  /\ store = [k \in Keys |-> << >>]
  /\ clock = 0
  /\ tx = [t \in Txns |-> [pc |-> "none", req |-> << >>, mops |-> << >>, snap |-> 0, at |-> 0]]
  /\ history = << >>

(* MopIterator.Next, under the creator's mutex: the appends to a key have  *)
(* consecutive values.  A key is retired after MaxWritesPerKey appends;    *)
(* here all keys may be drawn at any time.                                 *)
WriteVersion(k) ==
  1 + FoldLeft(LAMBDA n, t : n + Len(Appends(tx[t].req, k)), 0, [t \in Txns |-> t])

WrTxn(shape) ==
  [i \in 1 .. Len(shape) |->
     LET k == shape[i][2]
         n == Cardinality({j \in 1 .. i - 1 : shape[j] = <<"append", k>>})
     IN Mop(shape[i][1], k, IF shape[i][1] = "append" THEN <<WriteVersion(k) + n>> ELSE << >>)]

(* The request is recorded before Invoke. *)
NextRequest(t, shape) ==
  /\ tx[t].pc = "none" /\ \A u \in 1 .. t - 1 : tx[u].pc # "none"
  /\ tx' = [tx EXCEPT ![t].pc = "requested", ![t].req = WrTxn(shape)]
  /\ history' = Append(history, [type |-> "invoke", t |-> t, mops |-> WrTxn(shape)])
  /\ UNCHANGED <<kind, store, clock>>

Respond(t, type, mops, at) ==
  /\ tx' = [tx EXCEPT ![t].pc = "returned", ![t].at = at]
  /\ history' = Append(history, [type |-> type, t |-> t, mops |-> mops])
-----------------------------------------------------------------------------
(* What a read of k may return after the transaction's own appends. *)
Visible(k, own) ==
  IF kind = "snapshot" THEN {store[k] \o own} ELSE AllSubSeqs(store[k] \o own)

(* The micro-operations with the values they read. *)
Executions(req) ==
  LET See(i) == IF req[i].f = "append" THEN {req[i].v}
                ELSE Visible(req[i].k, Elements(SubSeq(req, 1, i - 1), req[i].k))
  IN {[i \in 1 .. Len(req) |-> [req[i] EXCEPT !.v = vs[i]]] :
        vs \in {f \in [1 .. Len(req) -> UNION {See(i) : i \in 1 .. Len(req)}] :
                  \A i \in 1 .. Len(req) : f[i] \in See(i)}}

Apply(mops) == [k \in Keys |-> store[k] \o Elements(mops, k)]

(* Begin and the statements.  They touch the transaction's snapshot and    *)
(* buffer only, so their interleaving with other transactions is that of   *)
(* one step; a faulty store has no buffers.                                *)
Invoke(t) ==
  /\ tx[t].pc = "requested"
  /\ \E mops \in Executions(tx[t].req) :
       tx' = [tx EXCEPT ![t].pc = "open", ![t].mops = mops, ![t].snap = clock]
  /\ \/ kind = "snapshot" /\ UNCHANGED store
     \/ kind = "faulty" /\ \E twice \in BOOLEAN :
          store' = Apply(IF twice THEN tx[t].req \o tx[t].req ELSE tx[t].req)
  /\ UNCHANGED <<kind, clock, history>>

(* Begin or a statement fails: the request itself is the response.  After  *)
(* an error of Scan the transaction is not even rolled back, but it never  *)
(* commits.                                                                *)
InvokeFails(t) ==
  /\ tx[t].pc = "requested"
  /\ Respond(t, "fail", tx[t].req, 0)
  /\ \/ UNCHANGED store
     \/ kind = "faulty" /\ store' = Apply(tx[t].req)
  /\ UNCHANGED <<kind, clock>>

Conflict(t) ==
  \E u \in Txns : tx[u].at > tx[t].snap /\ \E k \in Keys :
     Elements(tx[u].mops, k) # << >> /\ Elements(tx[t].mops, k) # << >>

(* Commit: "invalid connection" leaves the outcome unknown; any other      *)
(* error is recorded as a failure, although the database may have          *)
(* committed.                                                              *)
Commit(t) ==
  /\ tx[t].pc = "open"
  /\ \E type \in {"ok", "fail", "unknown"}, applied \in BOOLEAN :
       /\ applied => ~ Conflict(t)
       /\ type = "ok" => applied
       /\ Respond(t, type, tx[t].mops, IF applied THEN clock + 1 ELSE 0)
       /\ clock' = IF applied THEN clock + 1 ELSE clock
       /\ store' = IF applied /\ kind = "snapshot" THEN Apply(tx[t].mops) ELSE store
  /\ UNCHANGED kind

ClientNext ==
  \E t \in Txns :
    \/ \E shape \in Shapes[kind] : NextRequest(t, shape)
    \/ Invoke(t) \/ InvokeFails(t) \/ Commit(t)

(* Every request that was made has been answered. *)
Answered == tx[1].pc # "none" /\ \A t \in Txns : tx[t].pc \in {"none", "returned"}
-----------------------------------------------------------------------------
(***************************************************************************)
(* The list-append checker (pkg/elle/list_append): Check infers the order  *)
(* of the versions of every key from the lists that were read, derives the *)
(* ww, wr and rw dependencies between transactions from it, and looks for  *)
(* the anomalies that show in single reads.  An index keyed by key and     *)
(* value is an operator here; its maps hold no more than the history.      *)
(***************************************************************************)

VARIABLE result   \* what Check found, NoResult before

NoResult == [anomalies |-> {}, order |-> << >>, edges |-> {}]
vars == <<clientVars, result>>

initMagicNumber == 0
unknownPrefixMagicNumber == -1
Nil == -2
NoOp == [type |-> "none", t |-> 0, mops |-> << >>]

FilterType(h, types) == SelectSeq(h, LAMBDA op : op.type \in types)
FilterOk(h) == FilterType(h, {"ok"})
FilterOkOrInfo(h) == FilterType(h, {"ok", "info"})

(* The pairs of an op and a mop that OpMops iterates over. *)
OpMops(h) == UNION {{<<op, m>> : m \in ToSet(op.mops)} : op \in ToSet(h)}
OpReads(h) == {p \in OpMops(h) : p[2].f = "r"}
OpAppends(h) == {p \in OpMops(h) : p[2].f = "append"}
HasAppend(op, k, v) == Mop("append", k, <<v>>) \in ToSet(op.mops)

(* Everything that is appended to k, op by op. *)
AllElements(h, k) == FoldLeft(LAMBDA s, op : s \o Elements(op.mops, k), << >>, h)

(* No two appends of the invocations have the same key and value. *)
verifyUniqueAppends(h) ==
  \A k \in Keys : IsInjective(AllElements(FilterType(h, {"invoke"}), k))
-----------------------------------------------------------------------------
(* A key with a single append, for which no read is needed. *)
valuesFromSingleAppend(h, k) ==
  IF Len(AllElements(h, k)) = 1 THEN {AllElements(h, k)} ELSE {}

(* The orders in which sort.Sort may leave a set of lists: by length, and  *)
(* those of equal length in any order.                                     *)
RECURSIVE SortsOf(_)
SortsOf(lists) ==
  IF lists = {} THEN {<< >>}
  ELSE UNION {{<<s>> \o rest : rest \in SortsOf(lists \ {s})} :
                s \in {l \in lists : \A m \in lists : Len(l) <= Len(m)}}

(* The distinct lists read of k. *)
sortedValues(h, k) ==
  LET reads == {p[2].v : p \in {q \in OpReads(h) : q[2].k = k}} \ {<< >>}
  IN SortsOf(IF reads = {} THEN valuesFromSingleAppend(h, k) ELSE reads)

(* On a disagreement the smaller element is dropped. *)
RECURSIVE mergeOrders(_, _)
mergeOrders(seq1, seq2) ==
  IF seq1 = << >> THEN seq2
  ELSE IF seq2 = << >> THEN seq1
  ELSE IF Head(seq1) = Head(seq2) THEN <<Head(seq1)>> \o mergeOrders(Tail(seq1), Tail(seq2))
  ELSE IF Head(seq1) < Head(seq2) THEN mergeOrders(Tail(seq1), seq2)
  ELSE mergeOrders(seq1, Tail(seq2))

appendIndex(sorted) == FoldLeft(mergeOrders, << >>, sorted)

(* Mutant: the last element is not compared. *)
seqIsPrefixButLast(seqBefore, seqAfter) ==
  /\ Len(seqBefore) <= Len(seqAfter)
  /\ \A i \in 1 .. Len(seqBefore) - 1 : seqBefore[i] = seqAfter[i]

seqIsPrefix(seqBefore, seqAfter) ==
  /\ Len(seqBefore) <= Len(seqAfter)
  /\ \A i \in 1 .. Len(seqBefore) : seqBefore[i] = seqAfter[i]

incompatibleOrders(sorted) == \E i \in 2 .. Len(sorted) : ~ seqIsPrefix(sorted[i - 1], sorted[i])

duplicates(h) == \E p \in OpReads(h) : ~ IsInjective(p[2].v)
-----------------------------------------------------------------------------
(* The op that appended v to k: the last one in the history that says so.  *)
writeIndex(h, k, v) ==
  LET i == SelectLastInSeq(h, LAMBDA op : HasAppend(op, k, v))
  IN IF i = 0 THEN NoOp ELSE h[i]

(* The ops that read k up to element v. *)
readIndex(h, k, v) ==
  {p[1] : p \in {q \in OpReads(h) :
     /\ q[2].k = k
     /\ ~ (q[1].type = "info" /\ q[2].v = << >>)
     /\ v = IF q[2].v = << >> THEN initMagicNumber ELSE Last(q[2].v)}}

(* Mutant: off by one. *)
previouslyAppendElementOff(order, v) ==
  LET i == SelectInSeq(order, LAMBDA x : x = v)
  IN IF i = 0 THEN Nil ELSE order[i]

previouslyAppendElement(order, v) ==
  LET i == SelectInSeq(order, LAMBDA x : x = v)
  IN IF i = 0 THEN Nil ELSE IF i = 1 THEN initMagicNumber ELSE order[i - 1]

wwMopDep(order, h, op, m) ==
  LET prev == previouslyAppendElement(order, m.v[1])
  IN IF prev \in {Nil, initMagicNumber} THEN {} ELSE {writeIndex(h, m.k, prev)} \ {NoOp, op}

wrMopDep(h, op, m) ==
  IF m.v = << >> THEN {} ELSE {writeIndex(h, m.k, Last(m.v))} \ {NoOp, op}

(* Mutant: the readers of the initial state are forgotten. *)
rwMopDepsWritten(order, h, op, m) ==
  LET prev == previouslyAppendElement(order, m.v[1])
  IN IF prev \in {Nil, initMagicNumber} THEN {} ELSE readIndex(h, m.k, prev) \ {op}

rwMopDeps(order, h, op, m) ==
  LET prev == previouslyAppendElement(order, m.v[1])
  IN IF prev = Nil THEN {} ELSE readIndex(h, m.k, prev) \ {op}

(* h is the history of ok and info ops. *)
wwGraph(h, order) ==
  UNION {{<<a.t, p[1].t, "ww">> : a \in wwMopDep(order[p[2].k], h, p[1], p[2])} : p \in OpAppends(h)}

wrGraph(h) ==
  UNION {{<<a.t, p[1].t, "wr">> : a \in wrMopDep(h, p[1], p[2])} : p \in OpReads(h)}

rwGraph(h, order) ==
  UNION {{<<a.t, p[1].t, "rw">> : a \in rwMopDeps(order[p[2].k], h, p[1], p[2])} : p \in OpAppends(h)}

graph(h, order) == wwGraph(h, order) \cup wrGraph(h) \cup rwGraph(h, order)
-----------------------------------------------------------------------------
(* The explainers, that say of a pair of ops which micro-operations, told  *)
(* by their places, make b depend on a.  A result is a set of at most one, *)
(* for the first such micro-operation of b.                                *)
ExplainResult(type, k, i, j) == [type |-> type, key |-> k, amop |-> i, bmop |-> j]
IndexOfMop(op, m) == SelectInSeq(op.mops, LAMBDA x : x = m)
FirstOf(op, mops) == {SelectInSeq(op.mops, LAMBDA m : m \in mops)} \ {0}
Prev(order, m) == previouslyAppendElement(order[m.k], m.v[1])

wwResult(order, a, m, j) ==
  ExplainResult("ww", m.k, IndexOfMop(a, Mop("append", m.k, <<Prev(order, m)>>)), j)
wwExplain(order, h, a, b) ==
  {wwResult(order, a, b.mops[j], j) :
     j \in FirstOf(b, {m \in ToSet(b.mops) : m.f = "append" /\ a \in wwMopDep(order[m.k], h, b, m)})}

wrResult(a, m, j) == ExplainResult("wr", m.k, IndexOfMop(a, Mop("append", m.k, <<Last(m.v)>>)), j)
wrExplain(h, a, b) ==
  {wrResult(a, b.mops[j], j) :
     j \in FirstOf(b, {m \in ToSet(b.mops) : m.f = "r" /\ a \in wrMopDep(h, b, m)})}

ReadUpTo(x, k, prev) == x.f = "r" /\ x.k = k /\ prev = IF x.v = << >> THEN initMagicNumber ELSE Last(x.v)
rwResult(order, a, m, j) ==
  ExplainResult("rw", m.k, SelectInSeq(a.mops, LAMBDA x : ReadUpTo(x, m.k, Prev(order, m))), j)
rwExplain(order, h, a, b) ==
  {rwResult(order, a, b.mops[j], j) :
     j \in FirstOf(b, {m \in ToSet(b.mops) : m.f = "append" /\ a \in rwMopDeps(order[m.k], h, b, m)})}

(* CombinedExplainer: the first that has a result. *)
FirstResult(results) == FoldLeft(LAMBDA r, next : IF r = {} THEN next ELSE r, {}, results)
ExplainPairData(order, h, a, b) ==
  FirstResult(<<wwExplain(order, h, a, b), wrExplain(h, a, b), rwExplain(order, h, a, b)>>)
-----------------------------------------------------------------------------

FailedWrites(h, k, v) == \E op \in ToSet(h) : op.type = "fail" /\ HasAppend(op, k, v)

(* An ok transaction read an element of a failed one. *)
g1aCases(h) ==
  \E p \in OpReads(FilterOk(h)) : \E e \in ToSet(p[2].v) : FailedWrites(h, p[2].k, e)

(* The last op of the history in which v is appended to k and not last. *)
IntermediateWrites(h, k, v) ==
  LET i == SelectLastInSeq(h, LAMBDA op : HasAppend(op, k, v) /\ Last(Elements(op.mops, k)) # v)
  IN IF i = 0 THEN NoOp ELSE h[i]

(* An ok transaction read up to an intermediate append of another one. *)
g1bCases(h) ==
  \E p \in OpReads(FilterOk(h)) : p[2].v # << >> /\
     IntermediateWrites(h, p[2].k, Last(p[2].v)) \notin {NoOp, p[1]}

(* opInternalCase replays a transaction: data has what its next read of a  *)
(* key must return, with an unknown prefix until the key has been read.    *)
InternalStep(s, m) ==
  LET known == m.k \in DOMAIN s.data
      prev == s.data[m.k]
      n == Len(prev) - 1
      agrees == IF prev # << >> /\ prev[1] = unknownPrefixMagicNumber
                THEN Len(m.v) >= n /\ SubSeq(m.v, Len(m.v) - n + 1, Len(m.v)) = Tail(prev)
                ELSE m.v = prev
  IN IF s.found THEN s
     ELSE IF m.f = "r" THEN [found |-> known /\ ~ agrees, data |-> (m.k :> m.v) @@ s.data]
     ELSE [s EXCEPT !.data =
             (m.k :> (IF known THEN prev ELSE <<unknownPrefixMagicNumber>>) \o m.v) @@ @]

opInternalCase(op) == FoldLeft(InternalStep, [found |-> FALSE, data |-> << >>], op.mops).found

internalCases(h) == \E op \in ToSet(FilterOk(h)) : opInternalCase(op)

(* An ok append comes after a failed one in the version order, with none   *)
(* but info ones in between.  Writers of other types match no case.        *)
DirtyStep(s, w) ==
  CASE w.type = "ok"   -> [cur |-> "ok", found |-> s.found \/ s.cur = "fail"]
    [] w.type = "fail" -> [s EXCEPT !.cur = "fail"]
    [] OTHER           -> s

dirtyUpdateCases(order, h) ==
  \E k \in Keys :
     FoldLeft(DirtyStep, [cur |-> "ok", found |-> FALSE],
              [i \in 1 .. Len(order[k]) |-> writeIndex(h, k, order[k][i])]).found
-----------------------------------------------------------------------------
(* One way to sort the values of every key. *)
Sortings(h) ==
  LET sorts == [k \in Keys |-> sortedValues(h, k)]
  IN {f \in [Keys -> UNION Range(sorts)] : \A k \in Keys : f[k] \in sorts[k]}

Named(name, found) == IF found THEN {name} ELSE {}

(* Check, up to the search for cycles in the edges, which is CycleSearch.  *)
(* "panic" stands for verifyUniqueAppends' Panicf.                         *)
Check ==
  /\ Answered /\ result = NoResult
  /\ LET okOrInfo == FilterOkOrInfo(history) IN
     \E sorted \in Sortings(okOrInfo), all \in Sortings(history) :
       LET order == [k \in Keys |-> appendIndex(sorted[k])]
           allOrder == [k \in Keys |-> appendIndex(all[k])]
       IN result' = [
            anomalies |->
              Named("panic", ~ verifyUniqueAppends(history))
              \cup Named("G1a", g1aCases(history)) \cup Named("G1b", g1bCases(history))
              \cup Named("internal", internalCases(history))
              \cup Named("dirty-update", dirtyUpdateCases(allOrder, history))
              \cup Named("duplicate-elements", duplicates(okOrInfo))
              \cup Named("incompatible-order", \E k \in Keys : incompatibleOrders(sorted[k])),
            order |-> order,
            edges |-> graph(okOrInfo, order)]
  /\ UNCHANGED clientVars

Next ==
  \/ result = NoResult /\ ClientNext /\ UNCHANGED result
  \/ Check
  \/ result # NoResult /\ UNCHANGED vars

Init == ClientInit /\ result = NoResult

Spec == Init /\ [][Next]_vars
-----------------------------------------------------------------------------
Checked == result # NoResult
Recorded(t, type) == \E op \in ToSet(history) : op.t = t /\ op.type = type
OkReads == OpReads(FilterOk(history))


(* Every dependency the checker infers is one of the database: a writer    *)
(* had committed when those that follow it took their snapshot, and who    *)
(* did not see an append took its snapshot before that append's commit.    *)
(* So a cycle with fewer than two rw edges in a row is the database's      *)
(* fault.                                                                  *)
EdgesFollowTheStore ==
  Checked /\ kind = "snapshot" => \A e \in result.edges :
    IF e[3] = "rw" THEN tx[e[1]].snap < tx[e[2]].at
    ELSE tx[e[1]].at # 0 /\ tx[e[1]].at <= tx[e[2]].snap

(* In the order of a key, w comes right after v, or first. *)
Follows(order, v, w) == \E i \in 1 .. Len(order) : order[i] = w /\ v = IF i = 1 THEN << >> ELSE <<order[i - 1]>>
IsShown(r, m, n) ==
  /\ m.k = r.key /\ n.k = r.key
  /\ CASE r.type = "ww" -> m.f = "append" /\ n.f = "append" /\ Follows(result.order[r.key], m.v, n.v[1])
       [] r.type = "wr" -> m.f = "append" /\ n.f = "r" /\ <<Last(n.v)>> = m.v
       [] r.type = "rw" -> m.f = "r" /\ n.f = "append" /\
            Follows(result.order[r.key], IF m.v = << >> THEN << >> ELSE <<Last(m.v)>>, n.v[1])

(* Whatever the database did: each dependency is explained, so that no     *)
(* step of a cycle has a nil Result (ExplainCycle asks it for its type),   *)
(* by the strongest relation between the two ops, and the two micro-       *)
(* operations it names are there and show it.                              *)
EdgesAreExplained ==
  Checked => \A a, b \in ToSet(FilterOkOrInfo(history)) :
    \A rel \in {e[3] : e \in {f \in result.edges : f[1] = a.t /\ f[2] = b.t}} :
      \E r \in ExplainPairData(result.order, FilterOkOrInfo(history), a, b) :
        /\ r.amop # 0 /\ r.bmop # 0 /\ IsShown(r, a.mops[r.amop], b.mops[r.bmop])
        /\ <<a.t, b.t, r.type>> \in result.edges
        /\ rel = "ww" => r.type = "ww"
        /\ rel = "wr" => r.type # "rw"

(* The transaction whose append is at place i of k's list. *)
WriterAt(k, i) == CHOOSE t \in Txns : store[k][i] \in ToSet(Elements(tx[t].mops, k))

(* And none is missed that the reads reveal: as far as some ok transaction *)
(* read the list of a key, each ok append in it depends on the ok append   *)
(* before it, each ok read on the ok append it ends with, and the next ok  *)
(* append on all ok reads that end just before it.                         *)
DependenciesAreFound ==
  Checked /\ kind = "snapshot" =>
    \A k \in Keys : \A i \in 0 .. Len(store[k]) :
      LET readers == {p[1].t : p \in {q \in OkReads : q[2].k = k /\ Len(q[2].v) = i}}
          Ok(j) == Recorded(WriterAt(k, j), "ok")
          seen == \E p \in OkReads : p[2].k = k /\ Len(p[2].v) > i
      IN /\ i > 0 /\ Ok(i) =>
              \A r \in readers \ {WriterAt(k, i)} : <<WriterAt(k, i), r, "wr">> \in result.edges
         /\ seen /\ Ok(i + 1) =>
              /\ \A r \in readers \ {WriterAt(k, i + 1)} :
                   <<r, WriterAt(k, i + 1), "rw">> \in result.edges
              /\ i > 0 /\ Ok(i) /\ WriterAt(k, i) # WriterAt(k, i + 1) =>
                   <<WriterAt(k, i), WriterAt(k, i + 1), "ww">> \in result.edges

(* What a read of a transaction must agree with: the read of the key       *)
(* before it, and the transaction's own appends since.                     *)
ReadsItself(mops) ==
  \A j \in 1 .. Len(mops) : mops[j].f = "r" =>
    LET k == mops[j].k
        before == {i \in 1 .. j - 1 : mops[i].f = "r" /\ mops[i].k = k}
        own(i) == Elements(SubSeq(mops, i + 1, j - 1), k)
    IN IF before = {} THEN IsSuffix(own(0), mops[j].v)
       ELSE mops[j].v = mops[Max(before)].v \o own(Max(before))

(* Whatever the database did: a history in which Check finds nothing has   *)
(* one list per key, the inferred order, of which every ok read is a       *)
(* prefix; no ok read shows an append of a failed transaction, or ends in  *)
(* the middle of the appends of another; and each agrees with its own      *)
(* transaction.                                                            *)
PassedReadsAreConsistent ==
  Checked /\ result.anomalies = {} => \A p \in OkReads :
    LET op == p[1]  m == p[2] IN
    /\ IsPrefix(m.v, result.order[m.k]) /\ IsInjective(m.v)
    /\ \A t \in Txns \ {op.t} :
         LET es == Elements(tx[t].req, m.k) IN
         /\ Recorded(t, "fail") => ToSet(es) \cap ToSet(m.v) = {}
         /\ m.v # << >> /\ Last(m.v) \in ToSet(es) => Last(m.v) = Last(es)
    /\ ReadsItself(op.mops)
=============================================================================

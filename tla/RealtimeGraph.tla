--------------------------- MODULE RealtimeGraph ---------------------------
(***************************************************************************)
(* core.RealtimeGraph and core.ProcessGraph (pkg/elle/core/core.go): the   *)
(* order edges the Elle checker adds to the data dependencies.             *)
(*                                                                         *)
(* RealtimeGraph reads the history twice.  The first pass pairs every      *)
(* invocation with its completion; the second walks the history with the   *)
(* set of completed transactions that no later completed transaction       *)
(* already follows, and links those to the completion of every invocation  *)
(* it meets.  An Op is its position in the history; 0 is the zero Op,      *)
(* which a map returns for a key it does not have.                         *)
(***************************************************************************)
EXTENDS Integers, Sequences, FiniteSets

CONSTANTS
  Process,
  MaxEvents   \* bound: length of the history

Types == {"invoke", "ok", "fail", "info", "unknown"}

(* Both passes know these completions; list-append's client also records   *)
(* "unknown", which matches no case of either switch.                      *)
Paired == {"ok", "fail", "info"}

VARIABLES
  history,      \* what was recorded, a sequence of [type, process]
  phase,        \* "record", "pair", "scan" or "done"
  i,            \* loop index of the current pass
  invocations,  \* process -> its open invocation, 0 for none
  pair,         \* invocation -> completion and completion -> invocation
  doneEvents,
  edges         \* the realtime graph, as <<from, to>>

rtVars == <<history, phase, i, invocations, pair, doneEvents, edges>>

RTInit ==
  /\ history = << >>
  /\ phase = "record"
  /\ i = 1
  /\ invocations = [p \in Process |-> 0]
  /\ pair = << >>
  /\ doneEvents = {} /\ edges = {}
-----------------------------------------------------------------------------
(* The run that is checked: each process invokes and completes in turn,    *)
(* and goes on after any completion, an unknown one included: the          *)
(* responses of the Elle clients never are IsUnknown().                    *)
IsOf(h, p, k) == k \in 1 .. Len(h) /\ h[k].process = p
IsLastOf(h, p, n, k) == k < n /\ IsOf(h, p, k) /\ \A m \in k+1 .. n-1 : ~ IsOf(h, p, m)

MayFollow(h, n, ev) ==
  (ev.type # "invoke") <=>
  \E k \in 1 .. n-1 : IsLastOf(h, ev.process, n, k) /\ h[k].type = "invoke"

Record(t, p) ==
  /\ phase = "record" /\ Len(history) < MaxEvents
  /\ MayFollow(history, Len(history) + 1, [type |-> t, process |-> p])
  /\ history' = Append(history, [type |-> t, process |-> p])
  /\ UNCHANGED <<phase, i, invocations, pair, doneEvents, edges>>

Call ==
  /\ phase = "record"
  /\ phase' = "pair" /\ i' = 1
  /\ pair' = [k \in 1 .. Len(history) |-> 0]
  /\ UNCHANGED <<history, invocations, doneEvents, edges>>
-----------------------------------------------------------------------------
(* The first pass.  The case of an info without an invocation does not     *)
(* arise in such a history, nor does the log.Fatalf of an ok or fail       *)
(* without one.                                                            *)
PairUp ==
  /\ phase = "pair" /\ i <= Len(history)
  /\ LET op == history[i]
         inv == invocations[op.process]
     IN
       \/ /\ op.type = "invoke"
          /\ invocations' = [invocations EXCEPT ![op.process] = i]
          /\ UNCHANGED pair
       \/ /\ op.type \in Paired /\ inv # 0
          /\ pair' = [pair EXCEPT ![inv] = i, ![i] = inv]
          /\ invocations' = [invocations EXCEPT ![op.process] = 0]
       \/ /\ op.type = "unknown"
          /\ UNCHANGED <<invocations, pair>>
  /\ i' = i + 1
  /\ UNCHANGED <<history, phase, doneEvents, edges>>

Paired2Scan ==
  /\ phase = "pair" /\ i > Len(history)
  /\ phase' = "scan" /\ i' = 1
  /\ UNCHANGED <<history, invocations, pair, doneEvents, edges>>

(* Mutant: implied transactions are not deleted. *)
ScanKeepingAll ==
  /\ phase = "scan" /\ i <= Len(history)
  /\ LET op == history[i] IN
       \/ /\ op.type = "invoke"
          /\ edges' = edges \cup {<<k, pair[i]>> : k \in doneEvents}
          /\ UNCHANGED doneEvents
       \/ /\ op.type = "ok"
          /\ doneEvents' = doneEvents \cup {i}
          /\ UNCHANGED edges
       \/ /\ op.type \notin {"invoke", "ok"}
          /\ UNCHANGED <<doneEvents, edges>>
  /\ i' = i + 1
  /\ UNCHANGED <<history, phase, invocations, pair>>

(* Mutant: only the last ok transaction is kept. *)
ScanKeepingOne ==
  /\ phase = "scan" /\ i <= Len(history)
  /\ LET op == history[i] IN
       \/ /\ op.type = "invoke"
          /\ edges' = edges \cup {<<k, pair[i]>> : k \in doneEvents}
          /\ UNCHANGED doneEvents
       \/ /\ op.type = "ok"
          /\ doneEvents' = {i}
          /\ UNCHANGED edges
       \/ /\ op.type \notin {"invoke", "ok"}
          /\ UNCHANGED <<doneEvents, edges>>
  /\ i' = i + 1
  /\ UNCHANGED <<history, phase, invocations, pair>>

(* The second pass. *)
Scan ==
  /\ phase = "scan" /\ i <= Len(history)
  /\ LET op == history[i] IN
       \/ /\ op.type = "invoke"
          /\ edges' = edges \cup {<<k, pair[i]>> : k \in doneEvents}
          /\ UNCHANGED doneEvents
       \/ /\ op.type = "ok"
          /\ doneEvents' = {k \in doneEvents : <<k, i>> \notin edges} \cup {i}
          /\ UNCHANGED edges
       \/ /\ op.type \notin {"invoke", "ok"}
          /\ UNCHANGED <<doneEvents, edges>>
  /\ i' = i + 1
  /\ UNCHANGED <<history, phase, invocations, pair>>

Return ==
  /\ phase = "scan" /\ i > Len(history)
  /\ phase' = "done"
  /\ UNCHANGED <<history, i, invocations, pair, doneEvents, edges>>

RTNext ==
  \/ \E t \in Types, p \in Process : Record(t, p)
  \/ Call \/ PairUp \/ Paired2Scan \/ Scan \/ Return

RTSpec == RTInit /\ [][RTNext]_rtVars
-----------------------------------------------------------------------------
(* ProcessOrder links each ok completion of a process to its next one. *)
IsNextOk(a, b) ==
  /\ a < b /\ history[a].type = "ok" /\ history[b].type = "ok"
  /\ history[a].process = history[b].process
  /\ \A m \in a+1 .. b-1 : ~ (IsOf(history, history[a].process, m) /\ history[m].type = "ok")

ProcessGraph ==
  {e \in (1 .. Len(history)) \X (1 .. Len(history)) : IsNextOk(e[1], e[2])}
-----------------------------------------------------------------------------
(* Invocation j and completion k of history h belong together. *)
Match(h, j, k) ==
  /\ j \in 1 .. Len(h) /\ k \in 1 .. Len(h) /\ j < k
  /\ h[j].type = "invoke" /\ h[k].type \in Paired
  /\ h[j].process = h[k].process
  /\ \A m \in j+1 .. k-1 : h[m].process # h[j].process

IsOk(h, k) == k \in 1 .. Len(h) /\ h[k].type = "ok"

(* The ok completion a happened before position n, and no other ok         *)
(* transaction lies entirely between them.                                 *)
InFrontier(h, a, n) ==
  /\ IsOk(h, a) /\ a < n
  /\ \A b, c \in 1 .. Len(h) : IsOk(h, c) /\ Match(h, b, c) /\ a < b => ~ (c < n)

RTTypeOK ==
  /\ history \in Seq([type : Types, process : Process])
  /\ phase \in {"record", "pair", "scan", "done"}
  /\ i \in 1 .. Len(history) + 1
  /\ invocations \in [Process -> 0 .. Len(history)]
  /\ phase # "record" => pair \in [1 .. Len(history) -> 0 .. Len(history)]
  /\ doneEvents \subseteq 1 .. Len(history)
  /\ edges \subseteq (1 .. Len(history)) \X (0 .. Len(history))

(* The first pass pairs each invocation with the completion the process    *)
(* reported for it, and leaves those with none or an unknown one alone.    *)
PairsMatch ==
  phase \in {"scan", "done"} =>
    \A j, k \in 1 .. Len(history) : history[j].type = "invoke" => (pair[j] = k <=> Match(history, j, k))

(* The graph has an edge from transaction a to transaction b exactly when  *)
(* a was ok before b was invoked and no ok transaction fits between them:  *)
(* it is the smallest graph whose paths are the real-time order.           *)
EdgesAreTheCovers ==
  phase = "done" =>
    \A a, k \in 1 .. Len(history) :
       <<a, k>> \in edges <=> \E j \in 1 .. Len(history) : Match(history, j, k) /\ InFrontier(history, a, j)

(* What is reached from a by one or more edges. *)
ReachFrom(a) ==
  LET R[n \in 0 .. Len(history)] ==
        IF n = 0 THEN {k \in 1 .. Len(history) : <<a, k>> \in edges}
        ELSE LET S == R[n - 1] IN
             S \cup {k \in 1 .. Len(history) : \E m \in S : <<m, k>> \in edges}
  IN R[Len(history)]

(* What the realtime graph is for: there is a path from a to b exactly     *)
(* when a returned ok before b was invoked, and none from any transaction  *)
(* to itself.  So AdditionalGraphs may leave the process graph out where   *)
(* it has the realtime graph: every edge of the one is a path of the other.*)
PathsAreRealTime ==
  phase = "done" =>
    /\ \A a, j, k \in 1 .. Len(history) : IsOk(history, a) /\ Match(history, j, k) =>
         (a < j <=> k \in ReachFrom(a))
    /\ \A e \in ProcessGraph : e[2] \in ReachFrom(e[1])
=============================================================================

------------------------------ MODULE Plugins -------------------------------
(***************************************************************************)
(* The plugins that watch the cluster while the controller runs: the panic *)
(* check and the goroutine leak check (pkg/control).                       *)
(***************************************************************************)
EXTENDS Integers, FiniteSets, FiniteSetsExt
-----------------------------------------------------------------------------
(***************************************************************************)
(* The panic check plugin (pkg/control/panic_check.go): every minute each  *)
(* server's log since the last search is searched for panics, through      *)
(* DiagnosticLogClient.SearchLog (logsearch/pkg/logs/logsearch.go), which  *)
(* passes the bounds on in whole seconds.  Time is in ticks, several to a  *)
(* second; log lines and the service that searches them are external.      *)
(***************************************************************************)

CONSTANTS
  Servers,         \* the tidb, tikv and pd pods
  TicksPerSecond,
  LogLimit,
  MaxTicks,        \* bound: when the run is over
  MaxLines         \* bound: how many lines match the patterns

ASSUME TicksAssumption == TicksPerSecond \in Nat \ {0}

VARIABLES
  clock,
  logLines,       \* matching lines: when, where, and whether nonMatch ignores it
  lastQueryTime,  \* lastQueryTimeM
  now,            \* `now' of the check in progress
  from,           \* servers being searched -> `from'
  panicRecords,   \* lines found by the check in progress
  reported,       \* lines in a report
  missed          \* history: lines of a search that failed or hit the limit

panicVars == <<clock, logLines, lastQueryTime, now, from, panicRecords, reported, missed>>

NotChecking == -1

PanicInit ==
  /\ clock = 1 /\ logLines = {} /\ now = NotChecking
  /\ lastQueryTime = [n \in Servers |-> 0]   \* minTime
  /\ from = << >> /\ panicRecords = {} /\ reported = {} /\ missed = {}

TimePasses ==
  /\ clock < MaxTicks
  /\ clock' = clock + 1
  /\ UNCHANGED <<logLines, lastQueryTime, now, from, panicRecords, reported, missed>>

ServerLogs(n, ignored) ==
  /\ Cardinality(logLines) < MaxLines
  /\ logLines' = logLines \cup {[node |-> n, at |-> clock, ignored |-> ignored]}
  /\ UNCHANGED <<clock, lastQueryTime, now, from, panicRecords, reported, missed>>

(* The ticker fires: a goroutine per server, each with the bounds read     *)
(* before it starts.                                                       *)
CheckTiDBClusterPanic ==
  /\ now = NotChecking
  /\ now' = clock
  /\ from' = lastQueryTime
  /\ UNCHANGED <<clock, logLines, lastQueryTime, panicRecords, reported, missed>>

(* Mutant: the lower bound is rounded up. *)
WindowAbove(n) ==
  LET Second(t) == (t \div TicksPerSecond) * TicksPerSecond
  IN {l \in logLines : l.node = n /\ l.at \in Second(from[n] + TicksPerSecond) .. Second(now)}

(* StartTime and EndTime: Unix() * 1000. *)
Window(n) ==
  LET Second(t) == (t \div TicksPerSecond) * TicksPerSecond
  IN {l \in logLines : l.node = n /\ l.at \in Second(from[n]) .. Second(now)}

(* One server's search.  It stops at LogLimit lines, before those nonMatch *)
(* ignores are left out.  Whatever happens, the next search starts from    *)
(* `now'.                                                                  *)
SearchLog(n) ==
  /\ n \in DOMAIN from
  /\ \/ \E got \in kSubset(Min({LogLimit, Cardinality(Window(n))}), Window(n)) :
          /\ panicRecords' = panicRecords \cup {l \in got : ~ l.ignored}
          /\ missed' = missed \cup (Window(n) \ got)
     \/ missed' = missed \cup Window(n) /\ UNCHANGED panicRecords
  /\ lastQueryTime' = [lastQueryTime EXCEPT ![n] = now]
  /\ from' = [m \in DOMAIN from \ {n} |-> from[m]]
  /\ UNCHANGED <<clock, logLines, now, reported>>

(* wg.Wait() and the report; unless the plugin is silent, log.Fatalf. *)
ReportPanics ==
  /\ now # NotChecking /\ DOMAIN from = {}
  /\ now' = NotChecking
  /\ reported' = reported \cup panicRecords
  /\ panicRecords' = {}
  /\ UNCHANGED <<clock, logLines, lastQueryTime, from, missed>>

PanicNext ==
  \/ TimePasses
  \/ \E n \in Servers, ignored \in BOOLEAN : ServerLogs(n, ignored)
  \/ CheckTiDBClusterPanic
  \/ \E n \in Servers : SearchLog(n)
  \/ ReportPanics

PanicSpec == PanicInit /\ [][PanicNext]_panicVars
-----------------------------------------------------------------------------
(* The windows of the searches leave no gap, although lines are written    *)
(* while a search is on and both bounds lose their fraction of a second:   *)
(* a panic from before the second of the last search is in a report,       *)
(* unless a search it fell in failed or was cut off at LogLimit.           *)
NoPanicSlipsThrough ==
  now = NotChecking =>
    \A l \in logLines :
       ~ l.ignored /\ l.at \div TicksPerSecond < lastQueryTime[l.node] \div TicksPerSecond
       => l \in reported \cup missed
-----------------------------------------------------------------------------
(***************************************************************************)
(* The goroutine leak check plugin (pkg/control/goroutine_leak_check.go):  *)
(* every 30 seconds the goroutine profile of each TiDB pod is fetched, one *)
(* pod after the other, and a goroutine that has been up for 20 minutes is *)
(* a leak unless a goroutine with the same signature, which may live long, *)
(* is in the template file.  A goroutine is known by its signature.        *)
(***************************************************************************)

CONSTANTS
  TiDBs,       \* the TiDB pods are 1 .. TiDBs
  Signatures,
  Template,    \* the template file: the minutes a signature is up there
  LeakMinutes

ASSUME TemplateAssumption ==
  /\ TiDBs \in Nat \ {0} /\ LeakMinutes \in Nat \ {0}
  /\ DOMAIN Template \subseteq Signatures

VARIABLES
  upFor,      \* minutes a goroutine is up, NotUp when there is none
  down,       \* pods whose profile cannot be had or parsed
  pos,        \* the pod that is checked next, 0 between rounds
  silent,
  leakState,  \* "running", "off" (no template), "done" or "fatal"
  leaks       \* what was reported

leakVars == <<upFor, down, pos, silent, leakState, leaks>>

NotUp == -1

(* template(): the signatures that are known to live for minutes. *)
legal == {g \in DOMAIN Template : Template[g] > 0}

LeakInit ==
  /\ upFor = [n \in 1 .. TiDBs |-> [g \in Signatures |-> NotUp]]
  /\ down = {} /\ pos = 0 /\ leaks = {}
  /\ silent \in BOOLEAN
  /\ leakState \in {"running", "off"}

(* The pods: minutes beyond LeakMinutes are all the same to the check. *)
GoroutineChanges(n, g) ==
  /\ \E up \in {0, NotUp, upFor[n][g] + 1} :
       up <= LeakMinutes /\ upFor' = [upFor EXCEPT ![n][g] = up]
  /\ UNCHANGED <<down, pos, silent, leakState, leaks>>

PodTurns(n) ==
  /\ down' = IF n \in down THEN down \ {n} ELSE down \cup {n}
  /\ UNCHANGED <<upFor, pos, silent, leakState, leaks>>

(* The loop looks at its context, and starts a round. *)
LeakRound ==
  /\ leakState = "running" /\ pos = 0
  /\ \/ pos' = 1 /\ UNCHANGED leakState
     \/ leakState' = "done" /\ UNCHANGED pos
  /\ UNCHANGED <<upFor, down, silent, leaks>>

(* Mutant: a round checks one pod. *)
checkOneProcess ==
  /\ leakState = "running" /\ pos # 0
  /\ LET leak == {g \in Signatures \ legal : upFor[pos][g] >= LeakMinutes} IN
       /\ leaks' = IF pos \in down THEN leaks ELSE leaks \cup ({pos} \X leak)
       /\ pos' = 0
       /\ leakState' = IF pos \notin down /\ leak # {} /\ ~ silent THEN "fatal" ELSE leakState
  /\ UNCHANGED <<upFor, down, silent>>

(* One pod of checkTiDBProcess; an error ends the round. *)
checkTiDBProcess ==
  /\ leakState = "running" /\ pos # 0
  /\ LET leak == {g \in Signatures \ legal : upFor[pos][g] >= LeakMinutes} IN
       /\ leaks' = IF pos \in down THEN leaks ELSE leaks \cup ({pos} \X leak)
       /\ pos' = IF pos \in down \/ pos = TiDBs THEN 0 ELSE pos + 1
       /\ leakState' = IF pos \notin down /\ leak # {} /\ ~ silent THEN "fatal" ELSE leakState
  /\ UNCHANGED <<upFor, down, silent>>

LeakStep == LeakRound \/ checkTiDBProcess

LeakNext ==
  \/ \E n \in 1 .. TiDBs, g \in Signatures : GoroutineChanges(n, g)
  \/ \E n \in 1 .. TiDBs : PodTurns(n)
  \/ LeakStep
-----------------------------------------------------------------------------
(* A goroutine that stays up too long and is not a known one is reported,  *)
(* as long as its pod and those checked before it in a round answer: an    *)
(* error of one pod hides all that come after it.                          *)
LeakIsReported ==
  \A n \in 1 .. TiDBs, g \in {x \in Signatures : Template[x] = 0} :
     upFor[n][g] >= LeakMinutes ~>
       \/ <<n, g>> \in leaks
       \/ upFor[n][g] < LeakMinutes
       \/ down \cap 1 .. n # {}
       \/ leakState # "running"
=============================================================================

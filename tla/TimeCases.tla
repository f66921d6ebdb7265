----------------------------- MODULE TimeCases ------------------------------
(***************************************************************************)
(* The cases about timestamps: cross-region and stale-read.                *)
(***************************************************************************)
EXTENDS Case, SequencesExt
-----------------------------------------------------------------------------
(***************************************************************************)
(* The cross-region case (testcase/cross-region): one goroutine asks PD    *)
(* for global timestamps and one per data centre for local ones; they      *)
(* compare what they get with what they and the others got before.  In     *)
(* between, the PD leader and the allocator leaders are transferred.       *)
(* A timestamp is the number composed of its physical and logical parts;   *)
(* the suffix that tells its data centre is its lowest digit.              *)
(***************************************************************************)

CONSTANTS
  DCLocations,   \* the data centres, a sequence
  Members,       \* data centre, or "global" -> the PD members that may lead there
  TSORequests,   \* timestamps each goroutine asks for
  Round,         \* calls of testTSO
  MaxErrs,       \* bound: requests of one requestTSOs that fail or are answered wrongly
  SoundCalls     \* bound: calls of requestTSOs that PD answers rightly

VARIABLES
  alloc,         \* external: data centre -> the highest timestamp PD gave for it
  leader,        \* external: the PD leader, and each data centre's allocator leader
  target,        \* the member that was asked to lead, until it does
  lastTSO,       \* data centre -> the last timestamp stored
  tsoSuffix,     \* data centre -> the suffix first seen, or -1
  recordTSO,     \* the timestamps seen by the uniqueness check
  main,          \* testTSO: [pc, round, calls, k]
  g,             \* goroutines: [pc, n, k, last, base, seen, ts]
  tsoCh, errCh   \* what they sent: <<dc, ts>>, and TRUE for a critical error

tsoVars == <<alloc, leader, target, lastTSO, tsoSuffix, recordTSO, main, g, tsoCh, errCh>>

Global == "global"
Places == <<Global>> \o DCLocations
DCs == ToSet(DCLocations)
NDigits == Len(Places)
Suffix(dc) == (CHOOSE i \in 1 .. NDigits : Places[i] = dc) - 1

Quiet == [pc |-> "none", n |-> 0, k |-> 1, last |-> 0, base |-> 0, seen |-> << >>, ts |-> 0]

TSOInit ==
  /\ alloc = [dc \in ToSet(Places) |-> 0]
  /\ leader = [dc \in ToSet(Places) |-> "none"]
  /\ target = "none"
  /\ lastTSO = [dc \in ToSet(Places) |-> 0]
  /\ tsoSuffix = [dc \in ToSet(Places) |-> -1]
  /\ recordTSO = {}
  /\ main = [pc |-> "setup", round |-> 0, calls |-> 0, k |-> 1]
  /\ g = [dc \in ToSet(Places) |-> Quiet]
  /\ tsoCh = << >> /\ errCh = << >>
-----------------------------------------------------------------------------
(* PD.  A local timestamp exceeds the earlier ones of its data centre and  *)
(* every global one, a global timestamp exceeds all; an unsound PD may     *)
(* once repeat a timestamp, or go back and confuse the suffixes.           *)
Above(floor, dc) == CHOOSE t \in floor + 1 .. floor + NDigits : t % NDigits = Suffix(dc)
Fresh(dc) == Above(Max(IF dc = Global THEN {alloc[d] : d \in DOMAIN alloc}
                       ELSE {alloc[dc], alloc[Global]}), dc)

Wrong(dc) == {alloc[dc], Fresh(dc) - 1} \ {0, Fresh(dc)}

PDAnswers(dc, t) ==
  /\ \/ t = Fresh(dc) /\ UNCHANGED broken
     \/ MayBreak /\ Len(errCh) < MaxErrs /\ main.calls > SoundCalls /\ t \in Wrong(dc) /\ broken' = {dc}
  /\ alloc' = [alloc EXCEPT ![dc] = Max({@, t})]

Answers(dc) == {Fresh(dc)} \cup Wrong(dc)

(* checkTSOSuffix: LoadOrStore of the first suffix. *)
SuffixKept(dc, t) == tsoSuffix[dc] \in {-1, t % NDigits}
StoreSuffix(dc, t) ==
  tsoSuffix' = [tsoSuffix EXCEPT ![dc] = IF @ = -1 THEN t % NDigits ELSE @]

tsLessEqual(t, last) == t <= last
-----------------------------------------------------------------------------
Goto(pc) == main' = [main EXCEPT !.pc = pc]
Return(dc) == g' = [g EXCEPT ![dc].pc = "done"]

(* SetUp.  An error of setup, that PD has no leader or an allocator none,  *)
(* is overwritten by the result of creating the PD client.                 *)
SetUpTSO ==
  /\ main.pc = "setup"
  /\ \E ready \in BOOLEAN :
       leader' = [dc \in DOMAIN leader |->
                    IF ready \/ dc = Global THEN CHOOSE m \in Members[dc] : TRUE ELSE "none"]
  /\ \/ Goto("request") /\ Continue
     \/ End("failed") /\ UNCHANGED main
  /\ UNCHANGED <<broken, alloc, target, lastTSO, tsoSuffix, recordTSO, g, tsoCh, errCh>>

(* requestTSOs: new channels, one goroutine for the global timestamps and  *)
(* one per data centre.                                                    *)
RequestTSOs ==
  /\ main.pc = "request"
  /\ main' = [main EXCEPT !.pc = "wait", !.calls = @ + 1]
  /\ g' = [dc \in DOMAIN g |->
             [Quiet EXCEPT !.pc = IF dc = Global THEN "pre" ELSE "base",
                           !.n = TSORequests, !.last = lastTSO[dc]]]
  /\ tsoCh' = << >> /\ errCh' = << >>
  /\ Continue
  /\ UNCHANGED <<broken, alloc, leader, target, lastTSO, tsoSuffix, recordTSO>>

(* A request to PD fails, certainly once the context is done: an error     *)
(* that is not critical.                                                   *)
RequestFails(dc) ==
  /\ g[dc].pc \in {"pre", "get", "after"} /\ Len(errCh) + Cardinality(broken) < MaxErrs
  /\ errCh' = Append(errCh, FALSE)
  /\ Return(dc)
  /\ Continue
  /\ UNCHANGED <<broken, alloc, leader, target, lastTSO, tsoSuffix, recordTSO, main, tsoCh>>

(* requestLocalTSO: the global timestamp to compare with is read first. *)
ReadBase(dc) ==
  /\ dc # Global /\ g[dc].pc = "base"
  /\ g' = [g EXCEPT ![dc].pc = "get", ![dc].base = lastTSO[Global]]
  /\ Continue
  /\ UNCHANGED <<broken, alloc, leader, target, lastTSO, tsoSuffix, recordTSO, main, tsoCh, errCh>>

(* GetLocalTS and the checks; the two fallback errors are plain errors,    *)
(* only a changed suffix is critical.  lastTSO is stored after the last    *)
(* request alone.                                                          *)
GetLocal(dc) ==
  /\ dc # Global /\ g[dc].pc = "get"
  /\ \E t \in Answers(dc) :
       /\ PDAnswers(dc, t)
       /\ \/ /\ tsLessEqual(t, g[dc].last) \/ tsLessEqual(t, g[dc].base)
             /\ errCh' = Append(errCh, FALSE) /\ Return(dc)
             /\ UNCHANGED <<tsoSuffix, tsoCh, lastTSO>>
          \/ /\ ~ tsLessEqual(t, g[dc].last) /\ ~ tsLessEqual(t, g[dc].base)
             /\ StoreSuffix(dc, t)
             /\ \/ /\ ~ SuffixKept(dc, t)
                   /\ errCh' = Append(errCh, TRUE) /\ Return(dc)
                   /\ UNCHANGED <<tsoCh, lastTSO>>
                \/ /\ SuffixKept(dc, t)
                   /\ tsoCh' = Append(tsoCh, <<dc, t>>)
                   /\ g' = [g EXCEPT ![dc].last = t, ![dc].n = @ - 1,
                                     ![dc].pc = IF g[dc].n = 1 THEN "done" ELSE "base"]
                   /\ lastTSO' = IF g[dc].n = 1 THEN [lastTSO EXCEPT ![dc] = t] ELSE lastTSO
                   /\ UNCHANGED errCh
  /\ Continue
  /\ UNCHANGED <<leader, target, recordTSO, main>>
-----------------------------------------------------------------------------
Here == g[Global]
Critical == errCh' = Append(errCh, TRUE) /\ Return(Global)

(* requestGlobalTSO: a local timestamp of each data centre before the      *)
(* global one and after it; PD advances the local allocators meanwhile.    *)
GetAround ==
  /\ Here.pc \in {"pre", "after"}
  /\ LET dc == DCLocations[Here.k] IN
     \E t \in Answers(dc) :
       /\ PDAnswers(dc, t)
       /\ g' = [g EXCEPT ![Global].seen = Append(@, t),
                         ![Global].k = IF @ = Len(DCLocations) THEN 1 ELSE @ + 1,
                         ![Global].pc = CASE Here.k < Len(DCLocations) -> @
                                          [] Here.pc = "pre" -> "get"
                                          [] OTHER -> "finish"]
  /\ Continue
  /\ UNCHANGED <<leader, target, lastTSO, tsoSuffix, recordTSO, main, tsoCh, errCh>>

GetGlobal ==
  /\ Here.pc = "get"
  /\ \E t \in Answers(Global) :
       /\ PDAnswers(Global, t)
       /\ \/ /\ tsLessEqual(t, Here.last) \/ \E s \in ToSet(Here.seen) : tsLessEqual(t, s)
             /\ Critical
          \/ /\ ~ tsLessEqual(t, Here.last) /\ \A s \in ToSet(Here.seen) : ~ tsLessEqual(t, s)
             /\ g' = [g EXCEPT ![Global].ts = t, ![Global].seen = << >>, ![Global].pc = "after"]
             /\ UNCHANGED errCh
  /\ Continue
  /\ UNCHANGED <<leader, target, lastTSO, tsoSuffix, recordTSO, main, tsoCh>>

FinishGlobal ==
  /\ Here.pc = "finish"
  /\ \/ /\ \E s \in ToSet(Here.seen) : tsLessEqual(s, Here.ts)
        /\ Critical
        /\ UNCHANGED <<tsoSuffix, tsoCh, lastTSO>>
     \/ /\ \A s \in ToSet(Here.seen) : ~ tsLessEqual(s, Here.ts)
        /\ StoreSuffix(Global, Here.ts)
        /\ \/ ~ SuffixKept(Global, Here.ts) /\ Critical /\ UNCHANGED <<tsoCh, lastTSO>>
           \/ /\ SuffixKept(Global, Here.ts)
              /\ tsoCh' = Append(tsoCh, <<Global, Here.ts>>)
              /\ lastTSO' = [lastTSO EXCEPT ![Global] = Here.ts]
              /\ g' = [g EXCEPT ![Global].last = Here.ts, ![Global].seen = << >>,
                                ![Global].n = @ - 1,
                                ![Global].pc = IF Here.n = 1 THEN "done" ELSE "pre"]
              /\ UNCHANGED errCh
  /\ Continue
  /\ UNCHANGED <<broken, alloc, leader, target, recordTSO, main>>
-----------------------------------------------------------------------------
Repeated == \E i \in 1 .. Len(tsoCh) :
              tsoCh[i] \in recordTSO \/ \E j \in 1 .. i - 1 : tsoCh[i] = tsoCh[j]

(* tsoWg.Wait, the uniqueness check and the choice of the critical errors; *)
(* testTSO goes on with the transfers, or ends its round.                  *)
Collect ==
  /\ main.pc = "wait" /\ \A dc \in DOMAIN g : g[dc].pc = "done"
  /\ recordTSO' = recordTSO \cup ToSet(tsoCh)
  /\ \/ /\ Repeated \/ TRUE \in ToSet(errCh)
        /\ End("alarm") /\ UNCHANGED main
     \/ /\ ~ Repeated /\ TRUE \notin ToSet(errCh)
        /\ \/ main.calls % 2 = 1 /\ Goto("transfer") /\ Continue
           \/ /\ main.calls % 2 = 0 /\ main.round + 1 < Round
              /\ main' = [main EXCEPT !.pc = "request", !.round = @ + 1]
              /\ Continue
           \/ main.calls % 2 = 0 /\ main.round + 1 = Round /\ End("returned") /\ UNCHANGED main
  /\ g' = [dc \in DOMAIN g |-> Quiet] /\ tsoCh' = << >> /\ errCh' = << >>
  /\ UNCHANGED <<broken, alloc, leader, target, lastTSO, tsoSuffix>>

(* transferLeader, then transferPDAllocator for each data centre: another  *)
(* member takes the lead.  With a single member the first waits for a      *)
(* leader without a name, the second gives up.                             *)
Transfer ==
  /\ main.pc = "transfer"
  /\ LET dc == Places[main.k]
         others == Members[dc] \ {leader[dc]}
     IN \/ End("failed") /\ UNCHANGED <<main, target>>
        \/ /\ others # {} \/ dc = Global
           /\ leader[dc] # "none" \/ dc = Global
           /\ target' \in IF others = {} THEN {"unnamed"} ELSE others
           /\ Goto("waitLeader") /\ Continue
  /\ UNCHANGED <<broken, alloc, leader, lastTSO, tsoSuffix, recordTSO, g, tsoCh, errCh>>

PDElects ==
  /\ main.pc = "waitLeader" /\ target \in Members[Places[main.k]]
  /\ leader' = [leader EXCEPT ![Places[main.k]] = target]
  /\ target' = "none"
  /\ Continue
  /\ UNCHANGED <<broken, alloc, lastTSO, tsoSuffix, recordTSO, main, g, tsoCh, errCh>>

(* waitLeader and waitAllocator poll PD without a limit and without the    *)
(* context.                                                                *)
WaitLeader ==
  /\ main.pc = "waitLeader"
  /\ \/ End("failed") /\ UNCHANGED main
     \/ /\ target = "none" /\ Continue
        /\ main' = IF main.k = NDigits THEN [main EXCEPT !.pc = "after", !.k = 1]
                   ELSE [main EXCEPT !.pc = "transfer", !.k = @ + 1]
  /\ UNCHANGED <<broken, alloc, leader, target, lastTSO, tsoSuffix, recordTSO, g, tsoCh, errCh>>

(* requestTSOAfterTransfer: nobody looks at the answer.  Bound: only the   *)
(* request for a global timestamp may fail, where it could be any.         *)
RequestAfterTransfer ==
  /\ main.pc = "after"
  /\ \/ PDAnswers(Places[main.k], Fresh(Places[main.k]))
     \/ main.k = 1 /\ UNCHANGED <<alloc, broken>>
  /\ main' = IF main.k = NDigits THEN [main EXCEPT !.pc = "request", !.k = 1]
             ELSE [main EXCEPT !.k = @ + 1]
  /\ Continue
  /\ UNCHANGED <<leader, target, lastTSO, tsoSuffix, recordTSO, g, tsoCh, errCh>>

TSOStep ==
  \/ SetUpTSO \/ RequestTSOs \/ Collect
  \/ Transfer \/ PDElects \/ WaitLeader \/ RequestAfterTransfer
  \/ GetAround \/ GetGlobal \/ FinishGlobal
  \/ \E dc \in DOMAIN g : RequestFails(dc) \/ ReadBase(dc) \/ GetLocal(dc)

TSONext == Running("tso") /\ TSOStep
-----------------------------------------------------------------------------
(***************************************************************************)
(* The stale-read case (testcase/stale-read/client.go): updaters change    *)
(* rows while readers read some as of an earlier time and then once more   *)
(* with the snapshot of the timestamp the first read got; the two must     *)
(* agree.  TiDB is external: a sequence of versions, the state after each  *)
(* update.                                                                 *)
(***************************************************************************)

CONSTANTS
  TotalRows, Loaders,   \* rows, and goroutines that load them (Concurrency)
  Flush,                \* rows after which a loader executes its statement (100)
  MaxUpdates            \* bound

VARIABLES
  vers,                 \* external: the versions, functions from the rows there are
  updater, reader,      \* [pc]; [pc, ids, ts, stale]
  launched              \* whether Start has started the readers

staleVars == <<vers, updater, reader, launched>>

StaleInit ==
  /\ vers = << >>
  /\ updater = "none"
  /\ reader = [pc |-> "none", ids |-> {}, ts |-> 0, stale |-> << >>]
  /\ launched = FALSE

(* prepareData: a loader executes its statement after each Flush rows, and *)
(* at the end if it has put a comma since.                                 *)
Chunk == TotalRows \div Loaders
Flushes(n) == {k \in 1 .. n : k > 0 /\ k % Flush = 0}
Loaded(item) ==
  {item * Chunk + k + 1 : k \in
     {k \in 0 .. Chunk - 1 :
        \/ \E f \in Flushes(Chunk - 1) : k <= f
        \/ \E c \in 0 .. Chunk - 2 : c \notin Flushes(Chunk - 1)
                                     /\ \A f \in Flushes(Chunk - 1) : f < c}}
Rows == UNION {Loaded(item) : item \in 0 .. Loaders - 1}
Ids == {ids \in SUBSET (1 .. TotalRows) : ids # {}}

Query(ts, ids) == [r \in ids \cap Rows |-> vers[ts][r]]

SetUpStale ==
  /\ vers = << >>
  /\ vers' = <<[r \in Rows |-> 0]>>
  /\ updater' = "loop"
  /\ Continue
  /\ UNCHANGED <<broken, reader, launched>>

(* backgroundUpdate, one statement. *)
UpdateRows(ids) ==
  /\ updater = "loop" /\ ctx = "live" /\ Len(vers) <= MaxUpdates
  /\ vers' = Append(vers, [r \in Rows |-> IF r \in ids THEN Len(vers) ELSE Last(vers)[r]])
  /\ Continue
  /\ UNCHANGED <<broken, updater, reader, launched>>

(* A statement fails, certainly when the context is done: a loop that sees *)
(* the context done stops, any other sleeps and connects again.            *)
SleepOrStop(pc) == IF ctx = "done" THEN "ended" ELSE pc

UpdateFails ==
  /\ updater = "loop"
  /\ updater' = SleepOrStop("connect")
  /\ Continue
  /\ UNCHANGED <<broken, vers, reader, launched>>

(* The connection is refused, or the context ended during the sleep:       *)
(* log.Fatal.                                                              *)
Reconnect ==
  /\ \/ /\ updater = "connect"
        /\ \/ ctx = "live" /\ updater' = "loop" /\ Continue
           \/ End("failed") /\ UNCHANGED updater
        /\ UNCHANGED reader
     \/ /\ reader.pc = "connect"
        /\ \/ ctx = "live" /\ reader' = [reader EXCEPT !.pc = "stale"] /\ Continue
           \/ End("failed") /\ UNCHANGED reader
        /\ UNCHANGED updater
  /\ UNCHANGED <<broken, vers, launched>>

(* Start sleeps for MaxStaleness before the readers. *)
LaunchReaders ==
  /\ vers # << >> /\ ~ launched
  /\ launched' = TRUE
  /\ reader' = [reader EXCEPT !.pc = "connect"]
  /\ Continue
  /\ UNCHANGED <<broken, vers, updater>>
-----------------------------------------------------------------------------
(* mustEqualRead: staleRead of some rows at an earlier time.  An unsound   *)
(* store gives another version.                                            *)
ReadStale(ids, ts) ==
  /\ reader.pc = "stale" /\ ctx = "live"
  /\ \E seen \in 1 .. Len(vers) :
       /\ MayBreak \/ seen = ts
       /\ reader' = [reader EXCEPT !.pc = "strong", !.ids = ids, !.ts = ts,
                                   !.stale = Query(seen, ids)]
       /\ broken' = IF Query(seen, ids) = Query(ts, ids) THEN broken ELSE broken \cup {"stale"}
  /\ Continue
  /\ UNCHANGED <<vers, updater, launched>>

ReadFails ==
  /\ reader.pc \in {"stale", "strong"}
  /\ reader' = [reader EXCEPT !.pc = SleepOrStop("connect")]
  /\ Continue
  /\ UNCHANGED <<broken, vers, updater, launched>>

(* strongRead and the comparison. *)
ReadStrong ==
  /\ reader.pc = "strong" /\ ctx = "live"
  /\ LET strong == Query(reader.ts, reader.ids) IN
     \/ /\ reader.stale # strong \/ DOMAIN strong = {}
        /\ End("alarm") /\ UNCHANGED reader
     \/ /\ reader.stale = strong /\ DOMAIN strong # {}
        /\ reader' = [reader EXCEPT !.pc = "stale"]
        /\ Continue
  /\ UNCHANGED <<broken, vers, updater, launched>>

(* The context is looked at after each statement. *)
LoopEnds ==
  /\ ctx = "done"
  /\ \/ updater = "loop" /\ updater' = "ended" /\ UNCHANGED reader
     \/ reader.pc = "stale" /\ reader' = [reader EXCEPT !.pc = "ended"] /\ UNCHANGED updater
  /\ Continue
  /\ UNCHANGED <<broken, vers, launched>>

StaleReturns ==
  /\ updater = "ended" /\ reader.pc = "ended"
  /\ End("returned")
  /\ UNCHANGED <<broken, staleVars>>

StaleStep ==
  \/ SetUpStale \/ LaunchReaders \/ UpdateFails \/ Reconnect
  \/ ReadFails \/ ReadStrong \/ LoopEnds \/ StaleReturns
  \/ \E ids \in Ids : UpdateRows(ids) \/ \E ts \in 1 .. Len(vers) : ReadStale(ids, ts)

StaleNext == Running("stale-read") /\ StaleStep
=============================================================================

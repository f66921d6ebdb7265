------------------------------- MODULE Stress -------------------------------
(***************************************************************************)
(* The cases that load the cluster: reads, writes, and backups.            *)
(***************************************************************************)
EXTENDS Workload, FiniteSetsExt, Functions
-----------------------------------------------------------------------------
(***************************************************************************)
(* The cases that keep a cluster busy and watch how it answers:            *)
(* region-available and read-stress (tests/), block-writer, ondup and      *)
(* titan (testcase/).  Statements are external; what matters of one is     *)
(* whether it works, fails or takes longer than the case allows.           *)
(***************************************************************************)

CONSTANTS
  StressWorkers,
  StressTables,        \* of block-writer
  StressKeys,          \* of titan: the keys it scans (40000)
  DeleteBatch,         \* of titan: it deletes after that many keys (1000)
  DeleteEvery          \* of titan: the keys it deletes (5)

Answers == {"ok", "error"} \cup (IF MayBreak THEN {"slow"} ELSE {})

(* A query of region-available or read-stress: log.Fatal on an error and   *)
(* on a late answer.                                                       *)
Timed(next) ==
  \E a \in Answers :
    \/ a = "ok" /\ Go(next)
    \/ a = "error" /\ Quit("failed")
    \/ a = "slow" /\ End("alarm") /\ broken' = {"latency"} /\ UNCHANGED st
-----------------------------------------------------------------------------
(* region-available: the workers look at the context after each update.    *)
RegionStart == [worker |-> [w \in StressWorkers |-> "update"]]

RegionStep ==
  \/ \E w \in StressWorkers :
       /\ st.worker[w] = "update"
       /\ Timed([st EXCEPT !.worker[w] = IF ctx = "done" THEN "ended" ELSE "update"])
  \/ (\A w \in StressWorkers : st.worker[w] = "ended") /\ Quit("returned")

(* loadData: the rows of each INSERT, a batch ending with every row whose  *)
(* index is a positive multiple of the batch size.                         *)
RegionBatches(total, batch) ==
  LET ends == {i \in 1 .. total - 1 : i % batch = 0}
      flushed == {{i \in 0 .. total - 1 : i <= e /\ \A f \in ends : f < e => i > f} : e \in ends}
      insertedRows == IF ends = {} THEN 0 ELSE Max(ends) + 1
  IN flushed \cup (IF insertedRows < total THEN {insertedRows .. total - 1} ELSE {})

(* SetUp of read-stress: each of the loaders inserts a range of rows, in   *)
(* transactions of a bounded size.                                         *)
StressRange(i, total, loaders) ==
  (i * (total \div loaders))
    .. (IF i + 1 = loaders THEN total ELSE (i + 1) * (total \div loaders)) - 1
-----------------------------------------------------------------------------
(* read-stress: large queries in goroutines of their own, rounds of small  *)
(* ones until the deadline of the context.  A large query that is still    *)
(* running when the context is done is left behind.                        *)
ReadStart ==
  [large |-> [w \in StressWorkers |-> "query"], small |-> [w \in StressWorkers |-> "round"],
   loop |-> "small"]

LargeQuery(w) ==
  /\ st.large[w] = "query"
  /\ \/ Timed(st)
     \/ ctx = "done" /\ Go([st EXCEPT !.large[w] = "ended"])

SmallQuery(w) ==
  /\ st.loop = "small" /\ st.small[w] = "round"
  /\ \E then \in {"round", "over"} : Timed([st EXCEPT !.small[w] = then])

runSmall ==
  /\ st.loop = "small" /\ \A w \in StressWorkers : st.small[w] = "over"
  /\ Go(IF ctx = "done" THEN [st EXCEPT !.loop = "wait"]
        ELSE [st EXCEPT !.small = [w \in StressWorkers |-> "round"]])

ReadStep ==
  \/ \E w \in StressWorkers : LargeQuery(w) \/ SmallQuery(w)
  \/ runSmall
  \/ st.loop = "wait" /\ (\A w \in StressWorkers : st.large[w] = "ended") /\ Quit("returned")
-----------------------------------------------------------------------------
(* block-writer: each writer fills the tables in turn, staying with one    *)
(* until an insert works; a tick of the ticker is received by one writer.  *)
WriterStart ==
  [phase |-> "truncate", writer |-> [w \in StressWorkers |-> "off"], ticked |-> FALSE,
   index |-> [w \in StressWorkers |-> 0]]

(* An error of truncate is only logged. *)
truncate ==
  /\ st.phase = "truncate"
  /\ \/ ctx = "done" /\ Quit("returned")
     \/ ctx = "live" /\ Go([st EXCEPT !.phase = "write",
                                      !.writer = [w \in StressWorkers |-> "on"]])

batchExecute(w) ==
  \/ Go([st EXCEPT !.index[w] = (@ + 1) % StressTables])
  \/ Go(st)

WriterTurn(w) ==
  /\ st.writer[w] = "on"
  /\ \/ ctx = "done" /\ Go([st EXCEPT !.writer[w] = "off"])
     \/ st.ticked /\ Go([st EXCEPT !.writer[w] = "off", !.ticked = FALSE])
     \/ ctx = "live" /\ ~ st.ticked /\ batchExecute(w)

GCTick == ~ st.ticked /\ Go([st EXCEPT !.ticked = TRUE])

WriterStep ==
  \/ truncate
  \/ \E w \in StressWorkers : WriterTurn(w)
  \/ st.phase = "write" /\ (\A w \in StressWorkers : st.writer[w] = "off")
     /\ Go([st EXCEPT !.phase = "truncate"])
  \/ GCTick
-----------------------------------------------------------------------------
(* ondup: runInsert, runDelete and runReplace each repeat a statement.     *)
(* Errors that are not on the worker's list go to a channel with room for  *)
(* all of them.                                                            *)
OndupStart == [worker |-> [w \in {"insert", "delete", "replace"} |-> "run"], errCh |-> 0]

OndupTurn(w) ==
  /\ st.worker[w] = "run"
  /\ \/ Go([st EXCEPT !.worker[w] = IF ctx = "done" THEN "gone" ELSE "run"])
     \/ ctx = "live" /\ Go(st)
     \/ ctx = "live" /\ Go([st EXCEPT !.worker[w] = "gone", !.errCh = @ + 1])

OndupStep ==
  \/ \E w \in DOMAIN st.worker : OndupTurn(w)
  \/ st.errCh > 0 /\ Quit("failed")
  \/ ctx = "done" /\ Quit("returned")
-----------------------------------------------------------------------------
(* titan: keys are written one by one; after every batch some of it is     *)
(* deleted again; a scan that leaves out the last key must then find all   *)
(* that is left.  Every call fails when the context is done.               *)
TitanStart == [pc |-> "clear", j |-> 0, keys |-> {}]

Deleted(j) ==
  IF j # 0 /\ j % DeleteBatch = 0
  THEN {k \in j - DeleteBatch .. j - 1 : (k - (j - DeleteBatch)) % DeleteEvery = 0} ELSE {}

TitanClear ==
  /\ st.pc = "clear"
  /\ IF ctx = "done" THEN Quit("failed") ELSE Go([st EXCEPT !.pc = "put", !.j = 0, !.keys = {}])

(* Put, and the Deletes that follow; an unsound store loses one of them. *)
TitanPut ==
  LET sound == (st.keys \cup {st.j}) \ Deleted(st.j)
      after(keys) == [st EXCEPT !.keys = keys, !.j = @ + 1,
                                !.pc = IF st.j = StressKeys THEN "scan" ELSE "put"]
  IN
  /\ st.pc = "put"
  /\ \/ ctx = "live" /\ Go(after(sound))
     \/ /\ ctx = "live"
        /\ \E k \in (st.keys \cup {st.j} \cup Deleted(st.j)) \ {StressKeys} :
             Break("titan", after((sound \ {k}) \cup ({k} \ sound)))
     \/ Quit("failed")

Scanned == st.keys \cap 0 .. StressKeys - 1
Surviving == (0 .. StressKeys - 1) \ UNION {Deleted(j) : j \in 0 .. StressKeys}
(* Mutant of WrongCount: only keys that are missing are noticed. *)
WrongCountLess == Cardinality(Scanned) < StressKeys - StressKeys \div DeleteEvery
WrongCount == Cardinality(Scanned) # StressKeys - StressKeys \div DeleteEvery

TitanScan ==
  /\ st.pc = "scan"
  /\ \/ WrongCount /\ Quit("alarm")
     \/ ~ WrongCount /\ Go([st EXCEPT !.pc = "checked"])
     \/ Quit("failed")

TitanStep ==
  \/ TitanClear \/ TitanPut \/ TitanScan
  \/ st.pc = "checked" /\ ctx = "live" /\ Go([st EXCEPT !.pc = "clear"])
  \/ st.pc = "checked" /\ ctx = "done" /\ Quit("returned")
-----------------------------------------------------------------------------
(***************************************************************************)
(* The backup case (tests/backup/backup.go): workers move money while one  *)
(* goroutine takes incremental backups and another, now and then, stops    *)
(* everyone, takes a last increment, drops the tables, restores every      *)
(* increment since the last restore and compares the balances.  A row is   *)
(* told by the number of the transfer that wrote it.  TiDB and BR are      *)
(* external.                                                               *)
(***************************************************************************)

CONSTANTS
  BackupAccounts, BackupWorkers,
  MaxTransfers,        \* bound: transfers that commit
  MaxBackups,          \* bound: backups that startBackup takes
  MaxRestores          \* bound: restores

NoTable == <<>>
Seeded == [a \in BackupAccounts |-> 0]

(* lastBackupTs is the number of the last transfer an increment holds, -1  *)
(* for none; a file of BackupURI/full-$i holds the rows written since.     *)
BackupStart ==
  [ table |-> Seeded, commits |-> 0,
    files |-> <<>>, lastBackupTs |-> -1, nextRestoreIndex |-> 1,
    worker |-> [w \in BackupWorkers |-> "top"], backup |-> "sleep", restore |-> "sleep",
    balances |-> NoTable, restored |-> 0, taken |-> 0 ]

(* restoringLock, a sync.RWMutex: who holds it for reading is where its    *)
(* caller is, and a waiting Lock keeps further RLocks out.                 *)
Readers ==
  {w \in BackupWorkers : st.worker[w] \in {"moving", "gone"}}
    \cup {b \in {"backup"} : st.backup = "locked"}
RLockable == st.restore = "sleep"
Lockable == Readers = {}

Increment(lost) ==
  Restrict(st.table, {a \in DOMAIN st.table : st.table[a] > st.lastBackupTs} \ lost)

(* backup, tried RetryLimit times: the file is written and the reply       *)
(* arrives, or every attempt fails (one whose reply was lost left a file   *)
(* that the next attempts do not overwrite).                               *)
Backup(next) ==
  \/ \E lost \in {{}} \cup (IF MayBreak THEN {{a} : a \in DOMAIN Increment({})} ELSE {}) :
       /\ st' = [next EXCEPT !.files = Append(@, Increment(lost)),
                             !.lastBackupTs = st.commits]
       /\ broken' = IF lost = {} THEN broken ELSE {"increment"}
       /\ Continue
  \/ Quit("failed")
-----------------------------------------------------------------------------
(* startTransactions: one turn of a worker.  It leaves for good, still     *)
(* holding the lock, when transferOnce returns an error; a commit that     *)
(* failed may have worked.                                                 *)
TransferTop(w) ==
  /\ st.worker[w] = "top" /\ RLockable
  /\ Go([st EXCEPT !.worker[w] = "moving"])

Moved(from, to) ==
  [st EXCEPT !.table = [a \in DOMAIN @ |-> IF a \in {from, to} THEN st.commits + 1 ELSE @[a]],
             !.commits = @ + 1]

transferOnce(w) ==
  /\ st.worker[w] = "moving"
  /\ \/ st.table = NoTable /\ Quit("alarm")
     \/ Go([st EXCEPT !.worker[w] = "top"])
     \/ Go([st EXCEPT !.worker[w] = "gone"])
     \/ /\ st.table # NoTable /\ st.commits < MaxTransfers
        /\ \E from, to \in BackupAccounts :
             /\ from # to
             /\ \E then \in {"top", "gone"} : Go([Moved(from, to) EXCEPT !.worker[w] = then])

startBackup ==
  \/ st.backup = "sleep" /\ st.taken < MaxBackups /\ RLockable
     /\ Go([st EXCEPT !.backup = "locked", !.taken = @ + 1])
  \/ st.backup = "locked" /\ Backup([st EXCEPT !.backup = "sleep"])

(* startRestore: a step for each call it makes. *)
RestoreWakes ==
  /\ st.restore = "sleep" /\ st.restored < MaxRestores
  /\ Go([st EXCEPT !.restore = "wait"])
RestoreLocks == st.restore = "wait" /\ Lockable /\ Go([st EXCEPT !.restore = "first"])
BackupFirst == st.restore = "first" /\ Backup([st EXCEPT !.restore = "save"])
saveState ==
  /\ st.restore = "save"
  /\ \/ Go([st EXCEPT !.balances = st.table, !.restore = "clear"])
     \/ Quit("failed")

(* A drop whose reply is lost makes the next attempt fail. *)
clearDB ==
  /\ st.restore = "clear"
  /\ \/ Go([st EXCEPT !.table = NoTable, !.restore = "restore"])
     \/ Quit("failed")

restore ==
  /\ st.restore = "restore"
  /\ \/ /\ st.nextRestoreIndex <= Len(st.files)
        /\ \/ Go([st EXCEPT !.table = st.files[st.nextRestoreIndex] @@ @,
                            !.nextRestoreIndex = @ + 1])
           \/ Quit("failed")
     \/ /\ st.nextRestoreIndex > Len(st.files)
        /\ Go([st EXCEPT !.lastBackupTs = -1, !.restore = "check"])

checkRestoreSuccess ==
  /\ st.restore = "check"
  /\ \/ st.table = st.balances /\ Go([st EXCEPT !.restore = "again"])
     \/ st.table # st.balances /\ Quit("alarm")
     \/ Quit("failed")

BackupAgain ==
  /\ st.restore = "again"
  /\ Backup([st EXCEPT !.restore = "sleep", !.restored = @ + 1])

(* Start waits for the context only. *)
BackupReturns == ctx = "done" /\ Quit("returned")

BackupStep ==
  \/ \E w \in BackupWorkers : TransferTop(w) \/ transferOnce(w)
  \/ startBackup
  \/ RestoreWakes \/ RestoreLocks \/ BackupFirst \/ saveState \/ clearDB \/ restore
  \/ checkRestoreSuccess \/ BackupAgain
  \/ BackupReturns

(* Loaders that insert each of the rows 0 .. total - 1 once. *)
Partitions(ranges, total) ==
  /\ UNION ranges = 0 .. total - 1
  /\ \A r1, r2 \in ranges : r1 = r2 \/ r1 \cap r2 = {}
-----------------------------------------------------------------------------
(***************************************************************************)
(* How fast the throughput of TPC-C recovers from a nemesis                *)
(* (db/tidb/tpcc_qos.go): from the history, the time after which a minute  *)
(* has 80, 90 and 99 percent of the transactions that a minute had before. *)
(***************************************************************************)
CONSTANTS
  Minute, WarmUp,      \* durations, in the unit of the times of a history
  QosHistories         \* bound: sequences of [action, time]

(* Between what is kept of the warm-up and the end: returns that are late  *)
(* enough, and the nemeses.                                                *)
dropWarmUpOps(ops) ==
  IF Len(ops) < 2 THEN ops
  ELSE SelectSeq(ops, LAMBDA op : \/ op.action \in {"ok", "error"} /\ op.time > ops[1].time + WarmUp
                                  \/ op.action = "nemesis")

(* The transactions before the first injection and those after; the time   *)
(* is that of the last.                                                    *)
convertToTPMSeries(ops) ==
  LET injections == {i \in DOMAIN ops : ops[i].action = "nemesis"}
      oks(from, to) == SelectSeq(SubSeq(ops, from, to), LAMBDA op : op.action = "ok")
      after == oks(Min(injections), Len(ops))
  IN [baseline |-> Len(oks(1, Min(injections))), injectionTime |-> ops[Max(injections)].time,
      measured |-> ops[Max(injections)].time - ops[1].time,
      series |-> [i \in DOMAIN after |-> after[i].time]]

(* countWindow.Count *)
Count(series, pos) == Cardinality({i \in pos .. Len(series) : series[i] <= series[pos] + Minute})

(* float64(tpm) >= baseline * percent; of nothing in no time that is NaN. *)
Recovered(m, pos, percent) ==
  m.measured > 0 /\ 100 * Count(m.series, pos) * m.measured >= percent * m.baseline * Minute
Percents == {80, 90, 99}

QosStart(ops) == [ops |-> ops, pos |-> 0, m |-> <<>>, p |-> [percent \in Percents |-> 0]]

QosCheck ==
  /\ st.pos = 0
  /\ LET ops == dropWarmUpOps(st.ops)
     IN IF \A i \in DOMAIN ops : ops[i].action # "nemesis" THEN Quit("failed")
        ELSE LET m == convertToTPMSeries(ops)
                 whole == IF m.series = <<>> THEN 0 ELSE Last(m.series) - m.injectionTime
             IN Go([st EXCEPT !.pos = 1, !.m = <<m>>, !.p = [percent \in Percents |-> whole]])

QosDone == st.pos > 0 /\ st.pos > Len(st.m[1].series)
QosWindow ==
  /\ st.pos > 0 /\ ~QosDone
  /\ LET m == st.m[1]
         dur == m.series[st.pos] - m.injectionTime
         better(percent) == Recovered(m, st.pos, percent) /\ dur < st.p[percent]
     IN Go([st EXCEPT !.p = [percent \in Percents |-> IF better(percent) THEN dur ELSE st.p[percent]],
                      !.pos = IF better(99) THEN Len(m.series) + 1 ELSE @ + 1])

QosStep == QosCheck \/ QosWindow \/ (QosDone /\ Quit("returned"))

(* A higher share takes no less time, and each time is that of the first   *)
(* minute with that share; or else of the last transaction.  After several *)
(* injections the times are counted from the last one, but in transactions *)
(* since the first: then they may be negative.                             *)
QosIsRight ==
  st.pos > 0 =>
    LET m == st.m[1]
        dur(i) == m.series[i] - m.injectionTime
    IN /\ st.p[80] <= st.p[90] /\ st.p[90] <= st.p[99]
       /\ QosDone /\ m.series # <<>> => \A percent \in Percents :
            st.p[percent] = Min({dur(i) : i \in {j \in DOMAIN m.series : Recovered(m, j, percent)}}
                                \cup {dur(Len(m.series))})
       /\ Cardinality({i \in DOMAIN st.ops : st.ops[i].action = "nemesis"}) = 1 =>
            \A percent \in Percents : st.p[percent] >= 0
=============================================================================

------------------------------- MODULE Pocket -------------------------------
(***************************************************************************)
(* Pocket (testcase/pocket/pkg/core, executor, creator): generated SQL is  *)
(* executed on two databases (abtest), or on one that is replicated to the *)
(* other (binlog, dm), and from time to time both are compared with the    *)
(* generators held back by two mutexes.  The databases, and what copies    *)
(* one to the other, are external: a statement is a number, a database the *)
(* set of those it has committed.                                          *)
(***************************************************************************)
EXTENDS Workload

CONSTANTS
  Executors,       \* the connections of initSubConnection
  MaxSqls,         \* bound: generated statements
  MaxTries         \* bound: attempts of one PollImmediate

Sides == {1, 2}

(* Serialize: one generator drives all executors; else each has its own,   *)
(* and dm has a single one.                                                *)
Serialize == st.mode = "abtest"
Generators(mode) == IF mode = "binlog" THEN Executors ELSE {"main"}
dmExecutor == CHOOSE e \in Executors : TRUE
ExecutorsOf(p) ==
  CASE st.mode = "abtest" -> Executors
    [] st.mode = "binlog" -> {p}
    [] st.mode = "dm" -> {dmExecutor}

(* The sides a statement is executed on. *)
Targets == IF st.mode = "abtest" THEN Sides ELSE {1}

AtTop == [pc |-> "top", e |-> "none", sql |-> "none", n |-> 0, done |-> {}]

(* The tables are there, and executor e0 is in a transaction that has      *)
(* written ids.                                                            *)
(* gen: the generators; exec, mutex: who holds Core.execMutex and          *)
(* Core.mutex; order: types.Order; inHand: what watchLock has received and *)
(* not pushed; walk: the walk of resolveDeadLock; check:                   *)
(* startCheckConsistency or dmSyncDiffData; log: what is to be copied;     *)
(* open: the sides an executor has a transaction on; spent: the executors  *)
(* that hold on to a transaction which a DDL has committed.                *)
PocketStart(mode, e0, ids) ==
  LET sides == {s \in Sides : s = 1 \/ mode = "abtest"} IN
  [ mode |-> mode,
    gen |-> [p \in Generators(mode) |-> AtTop],
    exec |-> "none", mutex |-> "none", order |-> {e0}, inHand |-> "none", walk |-> "none",
    open |-> [e \in Executors |-> IF e = e0 THEN sides ELSE {}],
    pend |-> [e \in Executors |-> [s \in Sides |-> IF e = e0 /\ s \in sides THEN ids ELSE {}]],
    spent |-> {}, db |-> [s \in Sides |-> {}], sqls |-> 0, log |-> <<>>,
    check |-> "idle", tries |-> 0, blind |-> FALSE, blurred |-> {} ]

ifLock == st.mutex # "none"
IfTxn(e) == st.open[e] # {} \/ e \in st.spent

(* What a database commits is copied later, in order. *)
Commits(next, s, ids) ==
  [next EXCEPT !.db[s] = @ \cup ids,
               !.log = IF next.mode # "abtest" /\ s = 1 /\ ids # {} THEN Append(@, ids) ELSE @]

(* DBConnect: Begin is a no-op in a transaction; Commit and Rollback drop  *)
(* it whatever the server says; a statement outside of one commits alone.  *)
DBDrop(e, s) == [st EXCEPT !.open[e] = @ \ {s}, !.pend[e][s] = {}, !.spent = @ \ {e}]
DBCommit(e, s) == Commits(DBDrop(e, s), s, st.pend[e][s])
DBBegin(e, s) == IF e \in st.spent THEN st ELSE [st EXCEPT !.open[e] = @ \cup {s}]
DBExec(e, s, n) ==
  IF s \in st.open[e] THEN [st EXCEPT !.pend[e][s] = @ \cup {n}] ELSE Commits(st, s, {n})

(* One side of a statement with its effect: of abtest, whose DDL, on a     *)
(* free executor, is no more than a write.                                 *)
Effect(e, s, sql, n) ==
  CASE sql = "begin" -> DBBegin(e, s)
    [] sql = "commit" -> DBCommit(e, s)
    [] sql = "rollback" -> DBDrop(e, s)
    [] sql = "write" -> DBExec(e, s, n)

(* Of binlog: after a DDL the executor still has the transaction that the  *)
(* server has ended, so that Begin does nothing and writes commit alone.   *)
execSingleTestSQL(e, sql, n) ==
  IF sql = "ddl"
  THEN [Commits(DBDrop(e, 1), 1, st.pend[e][1] \cup {n}) EXCEPT
          !.spent = IF IfTxn(e) THEN @ \cup {e} ELSE @]
  ELSE Effect(e, 1, sql, n)

(* Of dm: the text is executed, and BEGIN commits what is open.  The two   *)
(* upstreams are one database here.                                        *)
execDMTestSQL(e, sql, n) ==
  CASE sql = "begin" -> [DBCommit(e, 1) EXCEPT !.open[e] = {1}]
    [] sql = "ddl" -> Commits(DBDrop(e, 1), 1, st.pend[e][1] \cup {n})
    [] OTHER -> Effect(e, 1, sql, n)

Executed(e, s, sql, n) ==
  CASE st.mode = "abtest" -> Effect(e, s, sql, n)
    [] st.mode = "binlog" -> execSingleTestSQL(e, sql, n)
    [] st.mode = "dm" -> execDMTestSQL(e, sql, n)

(* One side without its effect. *)
NoEffect(e, s, sql) == IF sql \in {"commit", "rollback"} THEN DBDrop(e, s) ELSE st
-----------------------------------------------------------------------------
(* randSQLType and the choice of the executor: in Serialize, BEGIN goes to *)
(* a free one, COMMIT and ROLLBACK to a busy one.  Sleep is not returned:  *)
(* the weight of DELETE is taken off twice, and is no smaller.             *)
randSQLType(e) ==
  {"write"} \cup {sql \in {"ddl"} : ~Serialize}
    \cup {sql \in {"begin"} : ~Serialize \/ ~IfTxn(e)}
    \cup {sql \in {"commit", "rollback"} : ~Serialize \/ IfTxn(e)}

(* runGenerateSQL: the lock is looked at before, and not while, a          *)
(* statement is made up; the context before that only.                     *)
generateSQL(p) ==
  /\ st.gen[p].pc = "top"
  /\ \/ /\ ctx = "live" /\ ~ifLock /\ st.sqls < MaxSqls
        /\ \E e \in ExecutorsOf(p) : \E sql \in randSQLType(e) :
             Go([st EXCEPT !.gen[p] = [pc |-> "made", e |-> e, sql |-> sql, n |-> st.sqls + 1, done |-> {}],
                           !.sqls = @ + 1])
     \/ ctx = "done" /\ Go([st EXCEPT !.gen[p].pc = "ended"])

(* execute: execMutex is held until watchLock has taken the executor's id. *)
execute(p) ==
  /\ st.gen[p].pc = "made" /\ st.exec = "none"
  /\ Go([st EXCEPT !.gen[p].pc = "exec", !.exec = p])

(* Bound: one failure in a run, on the second of two sides that are alike. *)
MayFail(s) == Serialize /\ s = 2 /\ st.blurred \cup broken = {}

(* A statement on one side.  An error is ignored, so that an error on one  *)
(* side only sets the two databases apart.  With one side it does what a   *)
(* statement that was not made up would.                                   *)
ExecSide(p, s) ==
  LET g == st.gen[p]
      done(next) == [next EXCEPT !.gen[p].done = @ \cup {s}]
  IN /\ g.pc = "exec" /\ s \in Targets \ g.done
     /\ g.sql # "write" /\ s = 2 => 1 \in g.done
     /\ \/ Go(done(Executed(g.e, s, g.sql, g.n)))
        \/ MayFail(s) /\ Break("lost write", done(NoEffect(g.e, s, g.sql)))
        \/ MayFail(s) /\ Go([done(NoEffect(g.e, s, g.sql)) EXCEPT !.blurred = {"error"}])

SendID(p) ==
  LET g == st.gen[p] IN
  /\ g.pc = "exec" /\ g.done = Targets /\ st.inHand = "none"
  /\ Go([st EXCEPT !.gen[p] = AtTop, !.exec = "none", !.inHand = g.e])

(* Order.Push waits while the order is walked.  Which comes first matters  *)
(* to locks, not to what is committed: the order is a set here.            *)
Push ==
  /\ st.inHand # "none" /\ st.walk # "walk"
  /\ Go([st EXCEPT !.inHand = "none",
                   !.order = @ \cup {st.inHand}])

(* resolveDeadLockOne: COMMIT or ROLLBACK, which waits for the statement   *)
(* the executor is in; either may fail on a side.                          *)
resolveDeadLockOne(e) ==
  /\ \A p \in DOMAIN st.gen :
       ~(st.gen[p].pc = "exec" /\ st.gen[p].e = e /\ st.gen[p].done # Targets)
  /\ \E commits \in {{}, Sides} \cup (IF MayFail(2) THEN {{1}} ELSE {}) :
       LET ended == [st EXCEPT !.open[e] = {}, !.spent = @ \ {e}, !.pend[e] = [s \in Sides |-> {}],
                               !.order = @ \ {e},
                               !.blurred = IF commits = {1} THEN {"error"} ELSE @]
           on(next, s) == IF s \in commits THEN Commits(next, s, st.pend[e][s]) ELSE next
       IN Go(on(on(ended, 1), 2))

(* resolveDeadLock: everyone in the order, which a second Reset empties    *)
(* again after the walk has let Push go on.                                *)
resolveDeadLock ==
  \/ st.walk = "walk" /\ \E e \in st.order : resolveDeadLockOne(e)
  \/ st.walk = "walk" /\ st.order = {} /\ Go([st EXCEPT !.walk = "reset"])
  \/ st.walk = "reset" /\ Go([st EXCEPT !.walk = "over", !.order = {}])

(* watchLock: when nothing has finished for a while, in Serialize only. *)
watchLock ==
  \/ /\ Serialize /\ ~ifLock /\ st.order # {}
     /\ Go([st EXCEPT !.mutex = "watch", !.walk = "walk"])
  \/ /\ st.mutex = "watch" /\ st.walk = "over"
     /\ Go([st EXCEPT !.mutex = "none", !.walk = "none"])

(* The replication of the second database: in order, some time later. *)
Replicate ==
  /\ st.log # <<>>
  /\ LET copied == [st EXCEPT !.log = Tail(@)]
     IN \/ Go([copied EXCEPT !.db[2] = @ \cup Head(st.log)])
        \/ Head(st.log) # {} /\ st.blurred = {} /\ Break("lost event", copied)
-----------------------------------------------------------------------------
(* startCheckConsistency: a tick starts a poll; when that gives up, there  *)
(* is no further comparison in this run.                                   *)
startCheckConsistency ==
  /\ st.check = "idle"
  /\ \/ ctx = "live" /\ Go([st EXCEPT !.check = "conn", !.tries = 1])
     \/ ctx = "done" /\ Go([st EXCEPT !.check = "quit"])

Retry(next) ==
  Go(IF st.mode # "dm" /\ st.tries < MaxTries
     THEN [next EXCEPT !.check = "conn", !.tries = @ + 1]
     ELSE [next EXCEPT !.check = "quit"])
Released == [st EXCEPT !.exec = "none", !.blind = FALSE,
                       !.mutex = IF st.mutex = "check" THEN "none" ELSE @]

(* initCompareConnection, then the two mutexes; dm takes the first only. *)
CompareLocks ==
  \/ st.check = "conn" /\ st.mode # "dm" /\ Retry(st)
  \/ /\ st.check = "conn" /\ st.exec = "none"
     /\ Go([st EXCEPT !.exec = "check", !.check = IF st.mode = "dm" THEN "diff" ELSE "exec"])
  \/ /\ st.check = "exec" /\ ~ifLock
     /\ Go([st EXCEPT !.mutex = "check", !.check = "resolve", !.walk = "walk"])
  \/ /\ st.check = "resolve" /\ st.walk = "over"
     /\ Go([st EXCEPT !.walk = "none", !.check = IF st.mode = "binlog" THEN "marker" ELSE "begin"])

(* binlogTestCompareData waits until a new table has been copied.  CREATE  *)
(* TABLE is repeated until it succeeds: for ever, once it has succeeded    *)
(* and the answer was lost.                                                *)
WaitTable ==
  \/ /\ st.check = "marker"
     /\ \E answer \in {"sync", "stuck"} :
          Go([st EXCEPT !.check = answer, !.log = Append(@, {})])
  \/ st.check = "sync" /\ st.log = <<>> /\ Go([st EXCEPT !.check = "begin"])
  \/ st.check = "sync" /\ st.log # <<>> /\ Retry(Released)

(* FetchSchema and ABTestTxnBegin.  Only abtest selects once, before the   *)
(* deferred release of the mutexes is in place.                            *)
CompareBegins ==
  /\ st.check = "begin"
  /\ \/ Go([st EXCEPT !.check = IF st.mode = "binlog" THEN "compare" ELSE "first"])
     \/ Retry(Released)

(* abTestSelect on both sides: ErrExactlyNotSame; the same; or an error on *)
(* one of them.  Errors on both that are not MySQL's count as the same,    *)
(* and rows lost on the way are not missed.                                *)
Same == st.db[1] = st.db[2]
CompareSelects(next, otherwise) ==
  \/ ~Same /\ Quit("alarm")
  \/ Same /\ Go([st EXCEPT !.check = next])
  \/ Go([st EXCEPT !.check = next, !.blind = TRUE])
  \/ Same /\ st.blurred \cup broken = {} /\ Go([st EXCEPT !.blurred = {"truncated"}, !.check = "differs"])
  \/ Retry(otherwise)

abTestCompareData == st.check = "first" /\ CompareSelects("compare", st)
compareData ==
  \/ st.check = "compare" /\ CompareSelects("passed", Released)
  \/ st.check = "differs" /\ Quit("alarm")
  \/ st.check = "passed" /\ Go([Released EXCEPT !.check = "idle"])

(* dmSyncDiffData: equal, or the context is done, or too late. *)
dmSyncDiffData ==
  /\ st.check = "diff"
  /\ \/ Same /\ Go([st EXCEPT !.check = "passed"])
     \/ ctx = "done" /\ Go([st EXCEPT !.check = "passed", !.blind = TRUE])
     \/ Go([st EXCEPT !.check = "differs",
                      !.blurred = IF ~Same /\ st.log = <<>> THEN @ ELSE {"slow"}])

GeneratorsEnd == (\A p \in DOMAIN st.gen : st.gen[p].pc = "ended") /\ Quit("returned")

PocketStep ==
  \/ \E p \in DOMAIN st.gen :
       \/ generateSQL(p) \/ execute(p) \/ SendID(p)
       \/ \E s \in Sides : ExecSide(p, s)
  \/ Push \/ resolveDeadLock \/ watchLock \/ Replicate
  \/ startCheckConsistency \/ CompareLocks \/ WaitTable \/ CompareBegins
  \/ abTestCompareData \/ compareData \/ dmSyncDiffData
  \/ GeneratorsEnd

(* The mutexes are held for good: a failed first select returns without    *)
(* releasing them, and the wait table is created twice.                    *)
Leaked == st.exec = "check" /\ st.check \in {"conn", "quit", "stuck"}
-----------------------------------------------------------------------------
(***************************************************************************)
(* Before that, Core.prepare drops and creates the database.  Of each side *)
(* is kept whether it has none, an old one or the one just created.        *)
(***************************************************************************)
PrepareStart(mode, clearDB, dbs) ==
  [mode |-> mode, clearDB |-> clearDB, pc |-> "prepare", sql |-> "none", dbs |-> dbs, was |-> dbs, log |-> <<>>]

(* DROP of none, and CREATE of one that is there, are refused. *)
Refused(db, sql) == sql = "drop" <=> db = "none"
Applied(db, sql) == IF Refused(db, sql) THEN db ELSE IF sql = "drop" THEN "none" ELSE "new"

prepareSchema ==
  /\ st.pc = "prepare"
  /\ \/ Go(IF st.dbs[1] = "none" THEN [st EXCEPT !.pc = "exec", !.sql = "create"]
           ELSE IF st.clearDB THEN [st EXCEPT !.pc = "exec", !.sql = "drop"]
           ELSE [st EXCEPT !.pc = "done"])
     \/ Quit("failed")
clearSchema(next) ==
  IF st.sql = "drop" THEN [next EXCEPT !.pc = "exec", !.sql = "create"] ELSE [next EXCEPT !.pc = "done"]

(* abtest and dm execute on both sides, whatever the first answers; binlog *)
(* on the first, and then waits.                                           *)
coreInitDatabaseExecute ==
  /\ st.pc = "exec"
  /\ \/ /\ st.mode # "binlog" /\ \A s \in Sides : ~Refused(st.dbs[s], st.sql)
        /\ Go(clearSchema([st EXCEPT !.dbs = [s \in Sides |-> Applied(st.dbs[s], st.sql)]]))
     \/ /\ st.mode = "binlog" /\ ~Refused(st.dbs[1], st.sql)
        /\ Go([st EXCEPT !.dbs[1] = Applied(@, st.sql), !.log = Append(@, st.sql), !.pc = "wait"])
     \/ Quit("failed")

ifSyncDatabase == st.sql = "create" <=> st.dbs[2] # "none"
waitSyncDatabase ==
  /\ st.pc = "wait"
  /\ \/ ifSyncDatabase /\ Go(clearSchema(st))
     \/ Quit("failed")                       \* a timeout, or SHOW DATABASES fails
SyncDatabase ==
  /\ st.log # <<>>
  /\ Go([st EXCEPT !.log = Tail(@), !.dbs[2] = Applied(@, Head(st.log))])

PrepareStep ==
  \/ prepareSchema \/ coreInitDatabaseExecute \/ waitSyncDatabase \/ SyncDatabase
  \/ st.pc = "done" /\ Quit("returned")

(* A run starts with a database that is new on both sides, unless it was   *)
(* to be kept, and then nothing was done to it.  binlog is taken in by a   *)
(* database that only the second side had: that passes for the new one.    *)
PreparedIsNew ==
  st.pc = "done" =>
    IF st.was[1] # "none" /\ ~st.clearDB THEN st.dbs = st.was
    ELSE \/ \A s \in Sides : st.dbs[s] = "new"
         \/ st.mode = "binlog" /\ st.was = [s \in Sides |-> IF s = 1 THEN "none" ELSE "old"]
-----------------------------------------------------------------------------
(***************************************************************************)
(* Core.reproduce executes again what the executors' logs say they were to *)
(* do, by the time of the lines.                                           *)
(***************************************************************************)
ReplayStart(files) == [files |-> files, logs |-> {}, replayed |-> <<>>, pc |-> "read"]

(* Only the lines of statements to be executed are read; a line is known   *)
(* by its place in the file of its executor.                               *)
parseLog(file, n) == [time |-> file[n].time, sql |-> file[n].sql, line |-> n]
readLogFile(e, file) ==
  {[node |-> e, log |-> parseLog(file, n)] : n \in {i \in DOMAIN file : file[i].state = "TODO"}}
readLogs ==
  /\ st.pc = "read"
  /\ Go([st EXCEPT !.pc = "replay", !.logs = UNION {readLogFile(e, st.files[e]) : e \in DOMAIN st.files}])

(* sort.Sort is not stable: lines of one time come in any order. *)
ByLog(logs) == {l \in logs : \A k \in logs : l.log.time <= k.log.time}
reproduceFromDir ==
  /\ st.pc = "replay"
  /\ \/ \E l \in ByLog(st.logs) :
          Go([st EXCEPT !.logs = @ \ {l}, !.replayed = Append(@, l)])
     \/ st.logs = {} /\ Quit("returned")

ReplayStep == readLogs \/ reproduceFromDir

(* What was to be executed is executed once, and what one executor was to  *)
(* do at different times in that order.                                    *)
ReplayIsRight ==
  /\ outcome = "returned" =>
       \A e \in DOMAIN st.files : \A n \in DOMAIN st.files[e] :
         Cardinality({i \in DOMAIN st.replayed :
           st.replayed[i].node = e /\ st.replayed[i].log.line = n})
         = IF st.files[e][n].state = "TODO" THEN 1 ELSE 0
  /\ \A i, j \in DOMAIN st.replayed :
       LET a == st.replayed[i]
           b == st.replayed[j]
       IN i < j /\ a.node = b.node /\ a.log.line > b.log.line => a.log.time = b.log.time
=============================================================================

---------------------------- MODULE Pessimistic -----------------------------
(***************************************************************************)
(* The cases of pessimistic transactions (testcase/pessimistic).           *)
(***************************************************************************)
EXTENDS Workload, Folds
-----------------------------------------------------------------------------
(***************************************************************************)
(* The random pessimistic transactions (testcase/pessimistic/pkg): one     *)
(* process runs random transactions on a table whose sum of c and number   *)
(* of rows no transaction changes, and the red packets (hongbao) of a      *)
(* bank whose total no packet changes; Start ends with the first of the    *)
(* two that does.  TiDB is external.                                       *)
(***************************************************************************)

CONSTANTS
  TableSize, OperationCount,     \* of pkg.ClientConfig
  TxnSessions,
  MaxTxns,                       \* bound: transactions in all
  HongbaoNum, GroupMembers, HongbaoAmount,
  UserNum, FriendNum             \* of CreateUsers

Rows == 0 .. TableSize - 1

(* A table: the column c of the rows that Initialize inserted, and how     *)
(* many rows there are beside them.                                        *)
FreshTable == [c |-> [r \in Rows |-> 0], extra |-> 0]
Sum(table) == FoldFunctionOnSet(+, 0, table.c, Rows)
NoHongbao == [open |-> FALSE, balance |-> 0, packet |-> 0, detail |-> 0, remained |-> 0, members |-> 0]

RandTxnStart ==
  [ table |-> FreshTable, blurred |-> {},
    se |-> [s \in TxnSessions |-> [pc |-> "idle", ran |-> 0, tx |-> FreshTable, base |-> FreshTable]] ]

HongbaoStart ==
  [ made |-> 0, hb |-> NoHongbao, balance |-> 0, packets |-> 0, details |-> 0,
    blurred |-> {} ]
-----------------------------------------------------------------------------
(* stmt.go: what the statements of each kind write one after another,      *)
(* the table after each; Fails is a statement that affects no row or that  *)
(* TiDB refuses.                                                           *)
Fails == [c |-> <<>>, extra |-> 0]

Add(table, rows, n) == [table EXCEPT !.c = [r \in Rows |-> @[r] + IF r \in rows THEN n ELSE 0]]

updateMultiTableSimple(table, from, to) ==
  <<Add(table, {from}, -1), Add(Add(table, {from}, -1), {to}, 1)>>

updateMultiTableRange(table, from, to) ==
  LET first == (IF from < to THEN from ELSE to) + 2
      rows == {r \in Rows : first <= r /\ r <= first + 8}
  IN IF rows = {} THEN <<Fails>> ELSE <<Add(table, rows, -1), table>>

replace(table, from, to) ==
  <<[table EXCEPT !.c[from] = table.c[to]],
    [table EXCEPT !.c[from] = table.c[to], !.c[to] = table.c[from]]>>

insertThenDelete(table) == <<[table EXCEPT !.extra = @ + 1], table>>

(* It inserts a row whose id is taken. *)
insertIgnore == <<Fails>>

(* 100 rows of 1 MiB: "Transaction is expected to fail". *)
randSizeExceededTransaction(table) == <<[table EXCEPT !.extra = @ + 1], Fails>>

(* plainSelect, selectForUpdate, updateMultiTableUniqueIndex. *)
KeepC(table) == <<table>>

Statements(table) ==
  UNION {{updateMultiTableSimple(table, from, to), updateMultiTableRange(table, from, to),
          replace(table, from, to)} : from \in Rows, to \in Rows}
    \cup {insertThenDelete(table), insertIgnore, randSizeExceededTransaction(table), KeepC(table)}
-----------------------------------------------------------------------------
Written(se) == {r \in Rows : se.tx.c[r] # se.base.c[r]}
Conflicts(se) == \E r \in Written(se) : st.table.c[r] # se.base.c[r]
Committed(se) ==
  [c |-> [r \in Rows |-> IF r \in Written(se) THEN se.tx.c[r] ELSE st.table.c[r]],
   extra |-> st.table.extra + se.tx.extra - se.base.extra]

Idle(s) == [st.se[s] EXCEPT !.pc = "idle", !.ran = @ + 1, !.tx = FreshTable, !.base = FreshTable]

(* BEGIN commits what the connection still has open; a session whose BEGIN *)
(* fails ends.                                                             *)
Begin(s) ==
  LET se == st.se[s]
      now == IF se.pc = "open" /\ ~Conflicts(se) THEN Committed(se) ELSE st.table
  IN /\ se.pc \in {"idle", "open"}
     /\ \/ /\ se.ran < OperationCount
           /\ FoldFunctionOnSet(+, 0, [t \in TxnSessions |-> st.se[t].ran], TxnSessions) < MaxTxns
           /\ Go([st EXCEPT !.table = now,
                            !.se[s] = [@ EXCEPT !.pc = "begun", !.tx = now, !.base = now]])
        \/ Go([st EXCEPT !.se[s] = [Idle(s) EXCEPT !.pc = "ended", !.ran = 0]])

(* handleError: ROLLBACK is sent under the context of the transaction,     *)
(* with its minute: when that is over by now, nothing is sent and the      *)
(* connection keeps the transaction open, with what it wrote.              *)
handleError(s, tx) ==
  \/ Go([st EXCEPT !.se[s] = Idle(s)])
  \/ Go([st EXCEPT !.se[s] = [@ EXCEPT !.pc = "open", !.ran = @ + 1, !.tx = tx],
                   !.blurred = @ \cup {"open"}])

(* runTransaction, one statement: its writes reach the connection's        *)
(* transaction one after another until one fails.                          *)
Statement(s) ==
  LET se == st.se[s] IN
  /\ se.pc = "begun"
  /\ \E stmt \in Statements(se.tx) :
       \/ /\ Last(stmt) # Fails
          /\ Go([st EXCEPT !.se[s] = [@ EXCEPT !.pc = "written", !.tx = Last(stmt)]])
       \/ \E n \in 0 .. Len(stmt) - 1 :
            handleError(s, IF n = 0 THEN se.tx ELSE stmt[n])

(* A commit that fails may have worked, and a broken one may overwrite     *)
(* what another transaction committed meanwhile.                           *)
Commit(s) ==
  LET se == st.se[s]
      done == [st EXCEPT !.se[s] = Idle(s)]
  IN /\ se.pc = "written"
     /\ \/ ~Conflicts(se) /\ Go([done EXCEPT !.table = Committed(se)])
        \/ Go(done)
        \/ Conflicts(se) /\ Break("lost update", [done EXCEPT !.table = Committed(se)])

(* checkLoop, checkCount. *)
checkLoop ==
  /\ Sum(st.table) # 0 \/ st.table.extra # 0
  /\ Quit("alarm")
-----------------------------------------------------------------------------
(* CreateUsers, before that: one transaction for each user, for the        *)
(* friends of each and for a group of each; the first that fails ends it.  *)
(* A list that a query returns may be cut short, as below.  friends holds  *)
(* the rows of user_friends, count the column friends of a user.           *)
UsersStart ==
  [phase |-> "users", user |-> 1, users |-> {}, friends |-> {}, count |-> [u \in 1 .. UserNum |-> 0], groups |-> {}]

FriendsOf(u) == {f \in st.users : <<u, f>> \in st.friends}
ShortOf(S, limit) == {T \in SUBSET S : Cardinality(T) <= limit}

CreateUser(next) == st.phase = "users" /\ Go([next EXCEPT !.users = @ \cup {st.user}])
CreateFriends(next) ==
  /\ st.phase = "friends"
  /\ \E friendSlice \in ShortOf(st.users \ ({st.user} \cup FriendsOf(st.user)),
                                FriendNum - Cardinality(FriendsOf(st.user))) \cup {{}} :
       Go([next EXCEPT !.friends = @ \cup ({st.user} \X friendSlice) \cup (friendSlice \X {st.user}),
                       !.count = [u \in 1 .. UserNum |->
                                    @[u] + IF u = st.user THEN Cardinality(friendSlice)
                                           ELSE IF u \in friendSlice THEN 1 ELSE 0]])
CreateGroup(next) ==
  /\ st.phase = "groups"
  /\ \E members \in ShortOf((FriendsOf(st.user) \cup UNION {FriendsOf(f) : f \in FriendsOf(st.user)})
                             \ {st.user}, GroupMembers) :
       Go([next EXCEPT !.groups = @ \cup {[creator |-> st.user, members |-> members]}])

CreateUsers ==
  LET next == IF st.user < UserNum THEN [st EXCEPT !.user = @ + 1]
              ELSE [st EXCEPT !.user = 1, !.phase = CASE @ = "users" -> "friends"
                                                      [] @ = "friends" -> "groups"
                                                      [] @ = "groups" -> "made"]
  IN CreateUser(next) \/ CreateFriends(next) \/ CreateGroup(next)
UsersStep ==
  \/ CreateUsers
  \/ Quit(IF st.phase = "made" THEN "returned" ELSE "failed")

(* Friendship goes both ways, and the column counts it, though each user   *)
(* is befriended in transactions of others.  Nobody is in their own group, *)
(* so that a user may be in none: CreateHongbao then has no group to draw. *)
UsersAreRight ==
  /\ \A u, v \in st.users : <<u, v>> \in st.friends => u # v /\ <<v, u>> \in st.friends
  /\ \A u \in st.users : st.count[u] = Cardinality(FriendsOf(u))
  /\ \A g \in st.groups : g.creator \notin g.members /\ g.members \subseteq st.users
-----------------------------------------------------------------------------
(* CreateHongbao: the user pays, then each member of a group picks a part. *)
(* The member list ends early, without an error, when the query fails      *)
(* half way: rows.Err() is not looked at.                                  *)
CreateHongbao ==
  /\ ~st.hb.open /\ st.made < HongbaoNum
  /\ \/ Go([st EXCEPT !.made = @ + 1])
     \/ \E listed \in 0 .. GroupMembers :
             Go([st EXCEPT !.hb = [open |-> TRUE, balance |-> -HongbaoAmount, packet |-> HongbaoAmount,
                                   detail |-> 0, remained |-> HongbaoAmount, members |-> listed],
                           !.blurred = @ \cup (IF listed = 0 THEN {"members"} ELSE {})])

PickedUp(remained, members) ==
  IF members = 1 \/ remained <= 1 THEN {remained} ELSE 1 .. remained - 1

PickUp ==
  /\ st.hb.open /\ st.hb.members > 0
  /\ \E n \in PickedUp(st.hb.remained, st.hb.members) :
       Go([st EXCEPT !.hb = [@ EXCEPT !.balance = @ + n, !.detail = @ + n,
                                      !.remained = @ - n, !.members = @ - 1]])

CommitTxn ==
  LET after == [st EXCEPT !.hb = NoHongbao, !.made = @ + 1]
      paid == [after EXCEPT !.balance = @ + st.hb.balance, !.packets = @ + st.hb.packet,
                            !.details = @ + st.hb.detail]
  IN /\ st.hb.open
     /\ \/ st.hb.members = 0 /\ Go(paid)
        \/ Go(after)
        \/ st.hb.members > 0 /\ Break("atomic", paid)
        \/ ctx = "done" /\ Quit("failed")      \* RollbackTxn fails: log.Fatal

DoValidate ==
  /\ ~st.hb.open /\ st.made = HongbaoNum
  /\ \/ st.balance = 0 /\ st.packets = st.details /\ Quit("returned")
     \/ (st.balance # 0 \/ st.packets # st.details) /\ Quit("alarm")
     \/ Quit("failed")
-----------------------------------------------------------------------------
(* controller.go, Start: the first of the two Execute, or the context,     *)
(* ends it.  Each of the two is the other's environment, which may return  *)
(* at any time.                                                            *)
OtherReturns == Quit("returned") \/ Quit("failed")
ContextReturns == ctx = "done" /\ Quit("returned")

RandTxnStep ==
  \/ \E s \in TxnSessions : Begin(s) \/ Statement(s) \/ Commit(s)
  \/ checkLoop
  \/ (\A s \in TxnSessions : st.se[s].pc = "ended") /\ Quit("returned")
  \/ OtherReturns \/ ContextReturns

HongbaoStep ==
  \/ CreateHongbao \/ PickUp \/ CommitTxn \/ DoValidate
  \/ OtherReturns \/ ContextReturns
-----------------------------------------------------------------------------
(***************************************************************************)
(* The other two pessimistic cases (testcase/pessimistic/pkg/pipeline and  *)
(* pkg/deadlock): transfers under pipelined locks, of which the row's lock *)
(* and the sum are checked; and deadlocks that TiKV must detect, beside    *)
(* statements it must roll back alone.  TiDB is external.                  *)
(***************************************************************************)

CONSTANTS
  Contenders,          \* the transfers of one row
  MaxCommits,          \* bound: transfers that commit
  TableNum,            \* tables, hence workers, of singleStatementRollback
  MaxTicks             \* bound: ticks of either deadlock loop

(* One row and its partner; lock is who holds the row's lock. *)
PipelineStart(strict) ==
  [ strict |-> strict, row |-> 0, partner |-> 0, commits |-> 0, lock |-> "none",
    pc |-> [w \in Contenders |-> "top"], base |-> [w \in Contenders |-> 0] ]

(* transfer: the two updates; the lock of the first may be lost, once. *)
Update(w) ==
  LET updated == [st EXCEPT !.pc[w] = "updated", !.base[w] = st.commits] IN
  /\ st.pc[w] = "top" /\ ctx = "live"
  /\ \/ st.lock = "none" /\ Go([updated EXCEPT !.lock = w])
     \/ st.lock = "none" /\ Break("lock", updated)
     \/ Quit("failed")

checkKeyIsLocked(w) ==
  LET checked == [st EXCEPT !.pc[w] = "checked"] IN
  /\ st.pc[w] = "updated"
  /\ \/ (st.lock # "none" \/ ~st.strict) /\ Go(checked)
     \/ st.lock = "none" /\ st.strict /\ Quit("alarm")
     \/ st.strict /\ Quit("failed")

(* tx.Commit: without its lock it works only when nobody committed since. *)
CommitTransfer(w) ==
  LET over == [st EXCEPT !.pc[w] = "top", !.lock = IF @ = w THEN "none" ELSE @]
      moved == [over EXCEPT !.row = @ - 1, !.partner = @ + 1, !.commits = @ + 1]
  IN /\ st.pc[w] = "checked"
     /\ \/ /\ st.commits < MaxCommits
           /\ st.lock = w \/ st.base[w] = st.commits
           /\ \/ Go(moved)
              \/ Break("atomic", [moved EXCEPT !.partner = st.partner])
              \/ st.strict /\ Quit("failed")
        \/ ~st.strict /\ Go(over)
        \/ st.strict /\ st.lock # w /\ st.base[w] # st.commits /\ Quit("alarm")

checkSum ==
  \/ st.row + st.partner # 0 /\ Quit("alarm")
  \/ Quit("failed")

(* Start: the deferred checkSum is the last thing it does.  The transfers  *)
(* may still be running.                                                   *)
PipelineReturns == ctx = "done" /\ st.row + st.partner = 0 /\ Quit("returned")

PipelineStep ==
  \/ \E w \in Contenders : Update(w) \/ checkKeyIsLocked(w) \/ CommitTransfer(w)
  \/ checkSum
  \/ PipelineReturns
-----------------------------------------------------------------------------
(* deadlockCase and singleStatementRollbackCase.  errs is the channel of   *)
(* the two crossing updates; sent counts the channels that have had this   *)
(* tick's signal; a worker is idle, busy or ended.                         *)
DeadlockStart ==
  [ cross |-> "idle", errs |-> <<>>, ticks |-> 0,
    sent |-> 0, rounds |-> 0, worker |-> [i \in 1 .. TableNum |-> "idle"],
    blurred |-> {} ]

isDeadlockError(err) == err = "Deadlock"

(* deadlock: both connections hold a row and then want the other's. *)
deadlock ==
  \/ /\ st.cross = "idle" /\ ctx = "live" /\ st.ticks < MaxTicks
     /\ \/ Go([st EXCEPT !.cross = "crossed", !.ticks = @ + 1])
        \/ Quit("failed")
  \/ /\ st.cross = "crossed"
     /\ \/ \E errs \in {<<"Deadlock", "nil">>, <<"nil", "Deadlock">>} :
             Go([st EXCEPT !.cross = "answered", !.errs = errs])
        \/ \E errs \in {<<"error", "nil">>, <<"nil", "error">>, <<"error", "error">>, <<"Deadlock", "error">>} :
             Go([st EXCEPT !.cross = "answered", !.errs = errs, !.blurred = @ \cup {"error"}])
        \/ Break("no victim", [st EXCEPT !.cross = "stuck"])
        \/ \E errs \in {<<"nil", "nil">>, <<"Deadlock", "Deadlock">>} :
             Break("victims", [st EXCEPT !.cross = "answered", !.errs = errs])
  \/ st.cross = "stuck" /\ Quit("alarm")

ExpectedErrs ==
  LET err1 == IF st.errs[1] = "nil" THEN st.errs[2] ELSE st.errs[1]
      err2 == IF st.errs[1] = "nil" THEN st.errs[1] ELSE st.errs[2]
  IN err1 # "nil" /\ err2 = "nil" /\ isDeadlockError(err1)

CheckErrs ==
  /\ st.cross = "answered"
  /\ \/ ExpectedErrs /\ Go([st EXCEPT !.cross = "idle", !.errs = <<>>])
     \/ ~ExpectedErrs /\ Quit("alarm")
     \/ Quit("failed")                        \* mustExec of ROLLBACK

(* singleStatementRollback: the signals of one tick.  A channel has no     *)
(* buffer, so each waits for its worker; the context is looked at between  *)
(* ticks only.                                                             *)
singleStatementRollback ==
  /\ st.sent < TableNum
  /\ st.sent > 0 \/ (ctx = "live" /\ st.rounds < MaxTicks)
  /\ st.worker[st.sent + 1] = "idle"
  /\ Go([st EXCEPT !.worker[st.sent + 1] = "busy",
                   !.sent = IF @ + 1 = TableNum THEN 0 ELSE @ + 1,
                   !.rounds = @ + IF st.sent = 0 THEN 1 ELSE 0])

RollbackWorker(i) ==
  /\ st.worker[i] = "busy"
  /\ \/ Go([st EXCEPT !.worker[i] = "idle"])
     \/ Quit("failed")
     \/ Break("no rollback", [st EXCEPT !.worker[i] = "stuck"])

DeadlockReturns == ctx = "done" /\ st.sent = 0 /\ Quit("returned")

DeadlockStep ==
  \/ deadlock \/ CheckErrs
  \/ singleStatementRollback \/ \E i \in 1 .. TableNum : RollbackWorker(i)
  \/ DeadlockReturns
=============================================================================

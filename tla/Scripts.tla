------------------------------ MODULE Scripts -------------------------------
(***************************************************************************)
(* The cases that run a script of statements: crud, follower, admin-check, *)
(* and sqllogictest.                                                       *)
(***************************************************************************)
EXTENDS Workload, Functions, FiniteSetsExt
-----------------------------------------------------------------------------
(***************************************************************************)
(* The cases that work through a script once: crud and follower (tests/)   *)
(* and the final check of the tables, tidb_admin_checker                   *)
(* (pkg/check/admin-check).  TiDB is external.                             *)
(***************************************************************************)

CONSTANTS
  UserCount, UpdateUsers, PostCount, UpdatePosts, CrudFlash,
  SeqLoop,             \* of follower: sequence numbers each connection takes
  CheckedTables,       \* of admin-check: database -> its tables
  DamagedTable         \* of admin-check: <<database, table>>, the one that may be damaged

(* idList (randlist.go): the identifiers in use and where each one is.     *)
(* popID leaves the position of what it removes behind.                    *)
newIDList == [ids |-> <<>>, positions |-> <<>>, maxID |-> 0]
pushID(l, id) ==
  [l EXCEPT !.positions = (id :> Len(l.ids) + 1) @@ @, !.ids = Append(@, id), !.maxID = id]
popID(l, id) ==
  LET pos == l.positions[id]
      lastID == Last(l.ids)
  IN [l EXCEPT !.ids = Front([@ EXCEPT ![pos] = lastID]),
               !.positions = (lastID :> pos) @@ @]
randomID(l) == ToSet(l.ids)

(* crud: users is crud_users (user -> posts), posts is crud_posts          *)
(* (post -> author).                                                       *)
CrudStart ==
  [pc |-> "newUsers", i |-> 0, userIDs |-> newIDList, postIDs |-> newIDList,
   users |-> <<>>, posts |-> <<>>]

PostsOf(author) == {p \in DOMAIN st.posts : st.posts[p] = author}
Miscounted(id) == st.users[id] # Cardinality(PostsOf(id))

Phase(pc, then, more) ==
  /\ st.pc = pc
  /\ ~ more
  /\ Go([st EXCEPT !.pc = then, !.i = 0])
Turn(pc, more) == st.pc = pc /\ more

(* Any statement may fail; ExecuteCrud then returns its error. *)
CrudFails == Quit("failed")

MoreUsers == st.i < UpdateUsers /\ Len(st.userIDs.ids) < UserCount + UpdateUsers
createUser ==
  LET id == st.userIDs.maxID + 1 IN
  /\ Turn("newUsers", MoreUsers)
  /\ Go([st EXCEPT !.userIDs = pushID(@, id), !.users = (id :> 0) @@ @, !.i = @ + 1])

TooManyUsers == st.i < UpdateUsers /\ Len(st.userIDs.ids) > UserCount
deleteUser ==
  /\ Turn("deleteUsers", TooManyUsers)
  /\ \E id \in randomID(st.userIDs) :
       IF Miscounted(id) THEN Quit("alarm")
       ELSE Go([st EXCEPT
              !.users = Restrict(@, DOMAIN @ \ {id}),
              !.posts = Restrict(@, DOMAIN @ \ PostsOf(id)),
              !.userIDs = popID(@, id),
              !.postIDs = FoldSeq(LAMBDA p, l : popID(l, p), @, SetToSeq(PostsOf(id))),
              !.i = @ + 1])

MorePosts ==
  /\ st.i < UpdatePosts /\ Len(st.postIDs.ids) < PostCount + UpdatePosts
  /\ st.userIDs.ids # <<>>
addPost ==
  LET id == st.postIDs.maxID + 1 IN
  /\ Turn("newPosts", MorePosts)
  /\ \E author \in randomID(st.userIDs) :
       LET added(n) == [st EXCEPT !.postIDs = pushID(@, id), !.posts = (id :> author) @@ @,
                                  !.users[author] = @ + n, !.i = @ + 1]
       IN IF Miscounted(author) THEN Quit("alarm")
          ELSE Go(added(1)) \/ Break("increment", added(0))

TooManyPosts == st.i < UpdatePosts /\ Len(st.postIDs.ids) > PostCount
deletePost ==
  /\ Turn("deletePosts", TooManyPosts)
  /\ \E id \in randomID(st.postIDs) :
       LET author == st.posts[id] IN
       IF Miscounted(author) THEN Quit("alarm")
       ELSE Go([st EXCEPT !.posts = Restrict(@, DOMAIN @ \ {id}), !.users[author] = @ - 1,
                          !.postIDs = popID(@, id), !.i = @ + 1])

(* The sum over no users is NULL, which no int64 can take. *)
SumOfPosts == MapThenSumSet(LAMBDA u : st.users[u], DOMAIN st.users)
checkAllPostCount ==
  /\ st.pc = "check"
  /\ \/ st.users = <<>> /\ Quit("failed")
     \/ st.users # <<>> /\ SumOfPosts # Cardinality(DOMAIN st.posts) /\ Quit("alarm")
     \/ /\ st.users # <<>> /\ SumOfPosts = Cardinality(DOMAIN st.posts)
        /\ \/ Quit("returned")
           \/ CrudFlash /\ MayBreak /\ End("alarm") /\ broken' = {"tiflash"} /\ UNCHANGED st

CrudStep ==
  \/ createUser \/ deleteUser \/ addPost \/ deletePost \/ checkAllPostCount \/ CrudFails
  \/ Phase("newUsers", "deleteUsers", MoreUsers)
  \/ Phase("deleteUsers", "newPosts", TooManyUsers)
  \/ Phase("newPosts", "deletePosts", MorePosts)
  \/ Phase("deletePosts", "check", TooManyPosts)

(* Between two statements the lists hold just the rows of the tables. *)
ListsMatch(l, table) == ToSet(l.ids) = DOMAIN table /\ IsInjective(l.ids)
-----------------------------------------------------------------------------
(* follower: six assertions in a row, then two tests at once: readers that *)
(* never stop, and two connections that take numbers of one sequence and   *)
(* note them in a map.                                                     *)
FollowerTests ==
  <<"testSwitchFollowerRead", "testInvalidSet", "testValidSet", "testSession",
    "testCorrectnes", "testGlobal">>

FollowerStart ==
  [test |-> 1, splitRegion |-> "off", next |-> 1, m |-> {},
   conn |-> [c \in {"c0", "c1"} |-> [i |-> 0, num |-> 0]]]

FollowerAsserts ==
  /\ st.test <= Len(FollowerTests)
  /\ \/ Go([st EXCEPT !.test = @ + 1,
                      !.splitRegion = IF st.test = Len(FollowerTests) THEN "insert" ELSE "off"])
     \/ MayBreak /\ End("alarm") /\ broken' = {FollowerTests[st.test]} /\ UNCHANGED st
     \/ Quit("failed")

testSplitRegion ==
  \/ st.splitRegion = "insert" /\ Go([st EXCEPT !.splitRegion = "read"])
  \/ st.splitRegion = "read" /\ Go(st)
  \/ st.splitRegion # "off" /\ Quit("failed")

(* nextval, and then the map under its mutex. *)
NextVal(c) ==
  /\ st.splitRegion # "off" /\ st.conn[c].num = 0 /\ st.conn[c].i < SeqLoop
  /\ \/ Go([st EXCEPT !.conn[c].num = st.next, !.next = @ + 1])
     \/ st.next > 1 /\ Break("sequence", [st EXCEPT !.conn[c].num = st.next - 1])
     \/ Quit("failed")
NoteVal(c) ==
  /\ st.conn[c].num # 0
  /\ \/ st.conn[c].num \in st.m /\ Quit("alarm")
     \/ /\ st.conn[c].num \notin st.m
        /\ Go([st EXCEPT !.m = @ \cup {st.conn[c].num},
                         !.conn[c] = [i |-> st.conn[c].i + 1, num |-> 0]])

FollowerStep ==
  \/ FollowerAsserts \/ testSplitRegion
  \/ \E c \in DOMAIN st.conn : NextVal(c) \/ NoteVal(c)
-----------------------------------------------------------------------------
(* admin-check.  USE changes the database of one pooled connection; when   *)
(* the pool replaces it the next statements run in the default database.   *)
(* One table may be inconsistent.                                          *)
AdminStart ==
  [pc |-> "gc", dbs |-> DOMAIN CheckedTables, used |-> "test", tables |-> {},
   seen |-> {}, replaced |-> FALSE]

adjustTiDBGC ==
  /\ st.pc = "gc"
  /\ \/ Go([st EXCEPT !.pc = "checkAction"])
     \/ Break("index", [st EXCEPT !.pc = "checkAction"])
     \/ Quit("failed")

(* checkDatabase: USE, the DDL of addTable, and the list of the tables. *)
UseDatabase ==
  /\ st.pc = "checkAction"
  /\ \/ st.dbs = {} /\ Quit("returned")
     \/ \E db \in st.dbs : Go([st EXCEPT !.pc = "addTable", !.dbs = @ \ {db}, !.used = db])
     \/ Quit("failed")
getAllTables ==
  /\ st.pc = "addTable"
  /\ \/ Go([st EXCEPT !.pc = "checkTable", !.tables = CheckedTables[st.used]])
     \/ Quit("failed")

(* ADMIN CHECK TABLE: an inconsistency, another error, or nothing wrong. *)
checkTable ==
  /\ st.pc = "checkTable"
  /\ \/ st.tables = {} /\ Go([st EXCEPT !.pc = "checkAction"])
     \/ \E t \in st.tables \cap CheckedTables[st.used] :
          IF <<st.used, t>> = DamagedTable /\ broken # {} THEN Quit("alarm")
          ELSE Go([st EXCEPT !.tables = @ \ {t}, !.seen = @ \cup {<<st.used, t>>}])
     \/ Quit("failed")

(* The connection breaks and database/sql opens another one. *)
Reconnected ==
  /\ ~ st.replaced /\ st.pc \in {"addTable", "checkTable"}
  /\ Go([st EXCEPT !.used = "test", !.replaced = TRUE])

AdminStep == adjustTiDBGC \/ UseDatabase \/ getAllTables \/ checkTable \/ Reconnected
-----------------------------------------------------------------------------
(***************************************************************************)
(* The sqllogictest case (testcase/sqllogictest): workers take test files  *)
(* from a channel, run their records against a database of their own and   *)
(* send results over a bounded channel to the goroutine of Start.  A       *)
(* record is a statement that inserts a row without a key ("insert"), one  *)
(* that must fail ("error"), a query of all rows ("query"), or one that    *)
(* the file skips for mysql ("skip") or stops at ("halt").  MySQL          *)
(* semantics are external: a database is its number of rows.               *)
(***************************************************************************)

CONSTANTS
  SqlFiles,            \* the test files, sequences of records
  TaskCount,           \* workers, and the room in each channel
  FlashReplicas        \* whether queries run on TiFlash

SqlWorkers == 1 .. TaskCount

SqlStart(skipError) ==
  [skipError |-> skipError, tasks |-> 1 .. Len(SqlFiles), done |-> 0, resultChan |-> <<>>, closed |-> FALSE, errCnt |-> 0,
   worker |-> [w \in SqlWorkers |-> [pc |-> "take", task |-> 1, rec |-> 1, rows |-> 0, msg |-> "info"]],
   ran |-> {}, blurred |-> {}]

Set(w, pc) == [st EXCEPT !.worker[w].pc = pc]
Send(w, msg) == [st EXCEPT !.worker[w].pc = "send", !.worker[w].msg = msg]
Blur(why, next) == [next EXCEPT !.blurred = @ \cup {why}]

Record(w) == SqlFiles[st.worker[w].task][st.worker[w].rec]
AtRecord(w, kind) ==
  /\ st.worker[w].pc = "run" /\ st.worker[w].rec <= Len(SqlFiles[st.worker[w].task])
  /\ Record(w) = kind
Inserted(w) == Cardinality({i \in 1 .. st.worker[w].rec - 1 : SqlFiles[st.worker[w].task][i] = "insert"})
-----------------------------------------------------------------------------
(* addTasks and doProcess: each file starts with an empty database.  A     *)
(* worker that sees the context done leaves without a word.                *)
TakeTask(w) ==
  \/ st.worker[w].pc = "next" /\ ctx = "done" /\ Go(Set(w, "gone"))
  \/ /\ st.worker[w].pc = "take" \/ (st.worker[w].pc = "next" /\ ctx = "live")
     /\ \/ st.tasks = {} /\ Go([Set(w, "gone") EXCEPT !.done = @ + 1])
        \/ /\ st.tasks # {}
           /\ Go([st EXCEPT !.tasks = @ \ {Min(@)},
                            !.worker[w] = [@ EXCEPT !.pc = "prepare", !.task = Min(st.tasks),
                                                    !.rec = 1, !.rows = 0]])

(* prepare, or a file that cannot be opened.  CREATE DATABASE fails for    *)
(* good once an attempt worked whose reply was lost.                       *)
prepare(w) ==
  /\ st.worker[w].pc = "prepare"
  /\ \/ Go(Set(w, "run"))
     \/ Go(Send(w, "fatal"))
     \/ ctx = "live" /\ Quit("failed")

(* The head of run's loop. *)
RunLoop(w) ==
  /\ st.worker[w].pc = "run"
  /\ \/ ctx = "done" /\ Go(Set(w, "next"))
     \/ st.worker[w].rec > Len(SqlFiles[st.worker[w].task]) /\ Go(Set(w, "next"))
     \/ AtRecord(w, "halt") /\ Go(Set(w, "next"))
     \/ AtRecord(w, "skip") /\ Go(Send(w, "info"))

(* execStatement: an attempt that worked may be made again; ErrUnknown is  *)
(* ignored; a context that is done makes RunWithRetry return nil.          *)
execInsert(w) ==
  LET with(n) == [Send(w, "info") EXCEPT !.worker[w].rows = @ + n] IN
  /\ AtRecord(w, "insert")
  /\ \/ Go(with(1))
     \/ Go(Blur("repeated", with(2)))
     \/ Go(Blur("ignored", with(0)))
     \/ ctx = "done" /\ Go(with(0))
     \/ Go(Send(w, "fatal"))

execError(w) ==
  /\ AtRecord(w, "error")
  /\ \/ Go(Send(w, "info"))
     \/ ctx = "done" /\ Go(Blur("stopped", Send(w, "blame")))
     \/ MayBreak /\ broken' = {"statement"} /\ st' = Send(w, "blame") /\ Continue

(* execQuery.  A panic, which a result with more columns than the record   *)
(* has types causes, is recovered from and returns nil.  Errors are        *)
(* counted, or end the file.                                               *)
QueryError(msg) == IF st.skipError THEN "count " \o msg ELSE msg
execQuery(w) ==
  /\ AtRecord(w, "query")
  /\ \/ ctx = "live" /\ Go(Send(w, IF st.worker[w].rows = Inserted(w) THEN "info" ELSE QueryError("blame")))
     \/ ctx = "live" /\ Break("rows", Send(w, QueryError("blame")))
     \/ ctx = "live" /\ Break("columns", Send(w, "info"))
     \/ Go(Send(w, QueryError("fatal")))
     \/ FlashReplicas /\ Go(Blur("abandoned", Set(w, "next")))

SendResult(w) ==
  LET me == st.worker[w] IN
  /\ me.pc = "send" /\ Len(st.resultChan) < TaskCount
  /\ Go([st EXCEPT !.resultChan = Append(@, me.msg),
                   !.ran = @ \cup {<<me.task, me.rec>>},
                   !.worker[w].pc = IF me.msg \in {"blame", "fatal"} THEN "next" ELSE "run",
                   !.worker[w].rec = @ + 1])

doWait ==
  /\ ~ st.closed /\ st.done = TaskCount
  /\ Go([st EXCEPT !.closed = TRUE])

(* doResult, and Start after it. *)
Finish(count) ==
  IF count = 0 THEN Quit("returned") ELSE Quit("alarm")
doResult ==
  \/ ctx = "done" /\ Finish(st.errCnt)
  \/ st.closed /\ st.resultChan = <<>> /\ Finish(st.errCnt)
  \/ /\ st.resultChan # <<>>
     /\ LET msg == Head(st.resultChan) IN
        \/ msg = "info" /\ Go([st EXCEPT !.resultChan = Tail(@)])
        \/ msg \in {"count blame", "count fatal"}
           /\ Go([st EXCEPT !.resultChan = Tail(@), !.errCnt = @ + 1,
                            !.blurred = IF msg = "count fatal" THEN @ \cup {"failed"} ELSE @])
        \/ msg = "blame" /\ Quit("alarm")
        \/ msg = "fatal" /\ Quit("failed")

SqlStep ==
  \/ \E w \in SqlWorkers :
       \/ TakeTask(w) \/ prepare(w) \/ RunLoop(w) \/ execInsert(w) \/ execError(w)
       \/ execQuery(w) \/ SendResult(w)
  \/ doWait \/ doResult
=============================================================================

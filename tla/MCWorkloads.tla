---------------------------- MODULE MCWorkloads -----------------------------
(***************************************************************************)
(* The smaller workloads, one to a process: those that load the cluster    *)
(* (Stress), run scripts (Scripts), exercise pessimistic transactions      *)
(* (Pessimistic), compare two databases (Pocket, SqlSmith), and the        *)
(* description and provisioning of the clusters they run on (Operator,     *)
(* Provision).                                                             *)
(***************************************************************************)
EXTENDS Stress, Scripts, Pessimistic, Provision, Pocket, SqlSmith, Operator

(* Logs of two statements, at different times or at the same. *)
LogLine(state, time) == [state |-> state, time |-> time, sql |-> "write"]
TwoLogs ==
  {<<LogLine("TODO", t), LogLine("SUCCESS", t), LogLine("TODO", u)>> : t \in {1, 2}, u \in {2, 3}}

WorkInit ==
  \/ case = "backup" /\ st = BackupStart
  \/ case = "region-available" /\ st = RegionStart
  \/ case = "read-stress" /\ st = ReadStart
  \/ case = "block-writer" /\ st = WriterStart
  \/ case = "ondup" /\ st = OndupStart
  \/ case = "titan" /\ st = TitanStart
  \/ case = "tpcc-qos" /\ \E ops \in QosHistories : st = QosStart(ops)
  \/ case = "crud" /\ st = CrudStart
  \/ case = "follower" /\ st = FollowerStart
  \/ case = "admin-check" /\ st = AdminStart
  \/ case = "sqllogictest" /\ \E skip \in BOOLEAN : st = SqlStart(skip)
  \/ case = "randtxn" /\ st = RandTxnStart
  \/ case = "hongbao-users" /\ st = UsersStart
  \/ case = "hongbao" /\ st = HongbaoStart
  \/ case = "pipelined" /\ \E strict \in BOOLEAN : st = PipelineStart(strict)
  \/ case = "deadlock" /\ st = DeadlockStart
  \/ /\ case = "provision"
     /\ \E d \in Deployments, purge \in {"keep", "delete", "namespace"} : st = ProvisionStart(d, purge)
  \/ case = "pocket" /\ \E mode \in {"abtest", "binlog", "dm"} : st = PocketStart(mode, dmExecutor, {0})
  \/ /\ case = "pocket-prepare"
     /\ \E mode \in {"abtest", "binlog", "dm"}, clear \in BOOLEAN, dbs \in [Sides -> {"none", "old"}] :
          st = PrepareStart(mode, clear, dbs)
  \/ case = "pocket-replay" /\ \E files \in [Executors -> TwoLogs] : st = ReplayStart(files)
  \/ case = "sqlsmith" /\ \E online \in BOOLEAN : st = SmithStart(online)
  \/ case = "config" /\ \E c \in Configs : st = ConfigStart(c)
  \/ case = "images" /\ \E tc \in TidbClusterSpec \cup DMClusterSpec : st = ImagesStart(tc)
  \/ /\ case = "pods"
     /\ \E c \in ComponentStatus, given \in BOOLEAN, slots \in Slots :
          /\ given \/ (c # "dm-master" /\ slots = {})
          /\ st = PodsStart(c, given, MaxReplicas, slots)
  \/ case = "conditions" /\ \E kind \in {"backup", "restore"} : st = ConditionsStart(kind)
  \/ /\ case = "podspec"
     /\ \E given \in {{"pd", "tikv"}, {"tidb", "tiflash"}, {"ticdc", "pump"}, {"dm-master"}, DMComponents} :
          st = PodSpecStart(ClusterKind(CHOOSE c \in given : TRUE), given)

WorkCases ==
  {"backup", "region-available", "read-stress", "block-writer", "ondup", "titan", "crud",
   "follower", "admin-check", "sqllogictest", "randtxn", "hongbao", "pipelined", "deadlock",
   "provision", "pocket"}
(* What no context ends. *)
UntimedCases ==
  {"tpcc-qos", "hongbao-users", "pocket-prepare", "pocket-replay", "sqlsmith",
   "config", "images", "pods", "conditions", "podspec"}

Init == CaseInit(WorkCases \cup UntimedCases) /\ WorkInit

Step ==
  \/ Running("backup") /\ BackupStep
  \/ Running("region-available") /\ RegionStep
  \/ Running("read-stress") /\ ReadStep
  \/ Running("block-writer") /\ WriterStep
  \/ Running("ondup") /\ OndupStep
  \/ Running("titan") /\ TitanStep
  \/ Running("tpcc-qos") /\ QosStep
  \/ Running("crud") /\ CrudStep
  \/ Running("follower") /\ FollowerStep
  \/ Running("admin-check") /\ AdminStep
  \/ Running("sqllogictest") /\ SqlStep
  \/ Running("randtxn") /\ RandTxnStep
  \/ Running("hongbao-users") /\ UsersStep
  \/ Running("hongbao") /\ HongbaoStep
  \/ Running("pipelined") /\ PipelineStep
  \/ Running("deadlock") /\ DeadlockStep
  \/ Running("provision") /\ ProvisionStep
  \/ Running("pocket") /\ PocketStep
  \/ Running("pocket-prepare") /\ PrepareStep
  \/ Running("pocket-replay") /\ ReplayStep
  \/ Running("sqlsmith") /\ SmithStep
  \/ Running("config") /\ ConfigStep
  \/ Running("images") /\ ImagesStep
  \/ Running("pods") /\ PodsStep
  \/ Running("conditions") /\ ConditionsStep
  \/ Running("podspec") /\ PodSpecStep
Stop == case \notin UntimedCases /\ Expire /\ UNCHANGED st
Next == Step \/ Stop
Spec == Init /\ [][Next]_workVars
-----------------------------------------------------------------------------

(* A case that ends well, or a comparison that passes, has not overlooked  *)
(* what it compares: both databases of pocket are the same unless neither  *)
(* could be read, titan has found the very keys that were not deleted, and *)
(* a broken promise ends the other cases with an alarm, apart from what    *)
(* they never look at.                                                     *)
DamageIsNoticed ==
  /\ case = "pocket" /\ st.check = "passed" => Same \/ st.blind
  /\ case = "titan" /\ st.pc = "checked" => Scanned = Surviving
  /\ broken # {} =>
       /\ case \in {"crud", "region-available", "read-stress"} => outcome # "returned"
       /\ case = "sqllogictest" /\ outcome = "returned" /\ ctx = "live" => broken = {"columns"}
       /\ case = "pipelined" /\ outcome = "returned" => broken = {"lock"}
       /\ case = "admin-check" /\ outcome = "returned" => st.replaced

-----------------------------------------------------------------------------
(* Two databases, one table of which may be damaged, and two test files. *)
TwoDatabases ==
  [d \in {"test", "db"} |-> IF d = "test" THEN {"check_table_t1"} ELSE {"check_table_t1", "t"}]
TableT == <<"db", "t">>
(* An image with a tag, and one of a registry with a port. *)
TwoImages == {<<>>, <<"pd", "v4">>, <<"hub", "5000/pd">>}
FourKeys == {<<"log">>, <<"log", "level">>, <<"log", "file", "name">>, <<"tz">>}
(* Four completions and nemeses after the first request. *)
FewCompletions ==
  {<<[action |-> "invoke", time |-> 0]>> \o [i \in 1 .. 4 |-> [action |-> a[i], time |-> t[i]]] :
     a \in [1 .. 4 -> {"ok", "error", "nemesis"}],
     t \in {f \in [1 .. 4 -> 1 .. 5] : \A i \in 1 .. 3 : f[i] <= f[i + 1]}}
TwoFiles == << <<"insert", "query">>, <<"error", "skip", "insert", "halt">> >>
=============================================================================

----------------------------- MODULE Provision -----------------------------
(***************************************************************************)
(* Provisioning (pkg/cluster, pkg/test-infra): SetUp applies the parts of  *)
(* a deployment, those of a group at the same time and those of a          *)
(* composite in order, waits for some of them, and hands out the nodes;    *)
(* TearDown deletes what it was told to.  Two runs use the same namespace  *)
(* one after the other.  Kubernetes and its operators are external.        *)
(***************************************************************************)
EXTENDS Workload

CONSTANTS
  Deployments,        \* the deployments tried, a set of names
  MySQLStorageSize    \* dm.mysql.storage-size

(* The parts, grouped by stage.  A tidb.Ops is named after its cluster. *)
Plan(d) ==
  CASE d = "default" -> << <<"tidb">> >>
    [] d = "cdc" -> << <<"upstream", "downstream">>, <<"cdc">> >>
    [] d = "cdc-kafka" -> << <<"upstream", "downstream">>, <<"kafka">> >>
    [] d = "binlog" -> << <<"upstream", "downstream">>, <<"binlog">> >>
    [] d = "dm" -> << <<"mysql1">>, <<"mysql2">>, <<"tidb">>, <<"dm">> >>
    [] d = "abtest" -> << <<"a", "b">> >>
    [] d = "local" -> <<>>

Parts(d) == ToSet(FlattenSeq(Plan(d)))
TiDBs == {"tidb", "upstream", "downstream", "a", "b"}

Monitor(o) == o \o "-monitor"
configMaps(o) == o \o "-config"
newZookeeper == "zookeeper"
newKafka == "kafka"
newCDC == "cdc-job"

applyKafka ==
  << <<"create", newZookeeper>>, <<"wait", newZookeeper>>,
     <<"create", newKafka>>, <<"wait", newKafka>>, <<"create", "kafka-job">> >>
applyJob == << <<"create", newCDC>>, <<"wait", newCDC>> >>

(* Apply of a part.  "update" is CreateOrUpdate, "put" the same for config *)
(* maps, which have no replicas to replace, and "create" util.ApplyObject, *)
(* which takes an object that exists already as it is.                     *)
Apply(o) ==
  CASE o \in TiDBs -> << <<"put", configMaps(o)>>, <<"update", o>>, <<"wait", o>>,
                         <<"update", Monitor(o)>> >>
    [] o = "cdc" -> applyJob
    [] o = "kafka" -> applyKafka \o applyJob
    [] o = "binlog" -> << <<"create", "drainer">> >>
    [] o = "dm" -> << <<"create", "dm-master">>, <<"wait", "dm-master">>,
                      <<"create", "dm-worker">>, <<"wait", "dm-worker">> >>
    [] o \in {"mysql1", "mysql2"} -> << <<"create", o>>, <<"wait", o>> >>

Objects(o) == {Apply(o)[i][2] : i \in DOMAIN Apply(o)}
Awaited(o) == {Apply(o)[i][2] : i \in {j \in DOMAIN Apply(o) : Apply(o)[j][1] = "wait"}}

(* Delete of a part: what it leaves behind is not among these. *)
Deletes(o) ==
  CASE o \in TiDBs -> {o, Monitor(o)}
    [] o \in {"cdc", "kafka"} -> {newCDC}
    [] o = "binlog" -> {}
    [] OTHER -> Objects(o)

AllObjects(d) == UNION {Objects(o) : o \in Parts(d)}

(* GetNodes and GetClientNodes: the answers of the parts, one after the    *)
(* other; cdc has neither kind, binlog no client node.                     *)
ClientNodes(d) ==
  IF d = "local" THEN <<"tidb">>
  ELSE SelectSeq(FlattenSeq(Plan(d)), LAMBDA o : o \notin {"cdc", "kafka", "binlog"})

(* The storage each part is built to claim, in the order of the calls of   *)
(* WithStorage: the component, the resources it starts from, and the size. *)
RecommendedTiDBCluster(o) == << <<o, "Medium", 10>>, <<o \o "-tikv", "own", 200>> >>
newMySQL(o) == << <<o, "Small", MySQLStorageSize>> >>
newDM == << <<"dm-master", "Small", 1>>, <<"dm-worker", "Small", 1>> >>
newDrainer == << <<"drainer", "Medium", 10>> >>
Claims(d) ==
  CASE d = "dm" -> newMySQL("mysql1") \o newMySQL("mysql2")
                     \o RecommendedTiDBCluster("tidb") \o newDM
    [] d = "binlog" -> RecommendedTiDBCluster("upstream") \o << <<"pump", "Small", 10>> >>
                         \o RecommendedTiDBCluster("downstream") \o newDrainer
    [] OTHER -> FlattenSeq([i \in 1 .. Cardinality(Parts(d) \cap TiDBs) |->
                              RecommendedTiDBCluster(SetToSeq(Parts(d) \cap TiDBs)[i])])

(* WithStorage writes the size into the Requests map of its argument, and  *)
(* the maps of Small and Medium are shared by everything built from them:  *)
(* when the parts are applied, a claim asks for the size written last.     *)
WithStorage(claims, i) ==
  IF claims[i][2] = "own" THEN claims[i][3]
  ELSE claims[CHOOSE j \in DOMAIN claims :
                /\ claims[j][2] = claims[i][2]
                /\ \A k \in DOMAIN claims : claims[k][2] = claims[i][2] => k <= j][3]

(* world: an object is absent, made (its replicas are not ready), ready,   *)
(* dead, or, of a job, expired (finished and removed by its TTL); of: the  *)
(* run whose specification its replicas follow; updated: its specification *)
(* is newer; at: how far Apply of each part is (0: failed).                *)
ProvisionStart(d, purge) ==
  [ plan |-> d, purge |-> purge, run |-> 1, pc |-> "apply", stage |-> 1,
    at |-> [o \in Parts(d) |-> 1], err |-> FALSE, nodes |-> <<>>,
    world |-> [x \in AllObjects(d) |-> "absent"],
    of |-> [x \in AllObjects(d) |-> 0], updated |-> {}, partial |-> FALSE ]

Stage == ToSet(Plan(st.plan)[st.stage])
Fail(o) == Go([st EXCEPT !.at[o] = 0, !.err = TRUE])
Advance(o, next) == Go([next EXCEPT !.at[o] = @ + 1])

(* One call of Apply; a call that fails may have taken effect. *)
ApplyStep(o) ==
  LET op == Apply(o)[st.at[o]]
      x == op[2]
      made == IF st.world[x] \in {"absent", "expired"}
              THEN [st EXCEPT !.world[x] = "made", !.of[x] = st.run]
              ELSE IF op[1] = "update" THEN [st EXCEPT !.updated = @ \cup ({x} \cap Awaited(o))]
              ELSE IF op[1] = "put" THEN [st EXCEPT !.of[x] = st.run]
              ELSE st
  IN /\ st.pc = "apply" /\ st.stage <= Len(Plan(st.plan))
     /\ o \in Stage /\ st.at[o] \in 1 .. Len(Apply(o))
     /\ \/ op[1] # "wait" /\ Advance(o, made)
        \/ op[1] # "wait" /\ Go([made EXCEPT !.at[o] = 0, !.err = TRUE])
        \/ op[1] = "wait" /\ st.world[x] = "ready" /\ Advance(o, st)
        \/ Fail(o)                                   \* or the poll times out

(* What is waiting for the errgroup, or for the part before, goes on. *)
StageEnds ==
  /\ st.pc = "apply" /\ st.stage <= Len(Plan(st.plan))
  /\ \A o \in Stage : st.at[o] \notin 1 .. Len(Apply(o))
  /\ \/ st.err /\ Quit("failed")
     \/ ~st.err /\ Go([st EXCEPT !.stage = @ + 1])

(* Every part is asked for its nodes.  The drainer was not waited for, so  *)
(* its pod may not be there yet, which fails SetUp like any other error.   *)
GetNodes ==
  /\ st.pc = "apply" /\ st.stage > Len(Plan(st.plan))
  /\ \/ Go([st EXCEPT !.pc = "up", !.nodes = ClientNodes(st.plan)])
     \/ st.plan # "local" /\ Quit("failed")

(* TearDown: nothing unless Purge is set; else the namespace, or Delete of *)
(* the parts, stage by stage, up to one in which some part fails.          *)
TearDown ==
  LET without(parts) ==
        LET xs == UNION {Deletes(o) : o \in parts}
        IN [st EXCEPT !.world = [x \in DOMAIN @ |-> IF x \in xs THEN "absent" ELSE @[x]]]
      nothing == [st EXCEPT !.world = [x \in DOMAIN @ |-> "absent"]]
      down(next) == Go([next EXCEPT !.pc = "down"])
  IN /\ st.pc = "up"
     /\ \/ st.purge = "keep" /\ down(st)
        \/ st.purge = "namespace" /\ down(nothing)
        \/ st.purge = "delete" /\ down(without(Parts(st.plan)))
        \/ /\ st.purge = "delete"
           /\ \E k \in DOMAIN Plan(st.plan) : \E some \in SUBSET ToSet(Plan(st.plan)[k]) :
                LET deleted == UNION {ToSet(Plan(st.plan)[i]) : i \in 1 .. k - 1} \cup some
                IN down([without(deleted) EXCEPT !.err = TRUE])

(* The next run in the same namespace. *)
NextRun ==
  /\ st.pc = "down"
  /\ \/ /\ st.run = 1
        /\ Go([st EXCEPT !.pc = "apply", !.run = 2, !.stage = 1, !.nodes = <<>>,
                         !.at = [o \in DOMAIN @ |-> 1], !.err = FALSE,
                         !.partial = st.err])
     \/ st.run = 2 /\ Quit("returned")

(* Kubernetes: replicas become ready, or never do; a job that is done is   *)
(* removed ten seconds later, whether or not it has been polled; those of  *)
(* an updated object are replaced some time after.  Nobody looks at those  *)
(* of an object that is not waited for.                                    *)
BecomesReady(x) == st.world[x] = "made" /\ Go([st EXCEPT !.world[x] = "ready"])
Dies(x) == st.world[x] = "made" /\ Break("never ready", [st EXCEPT !.world[x] = "dead"])
Expires(x) ==
  x = newCDC /\ st.world[x] = "ready" /\ Go([st EXCEPT !.world[x] = "expired"])
Rolls(x) ==
  /\ x \in st.updated
  /\ Go([st EXCEPT !.updated = @ \ {x}, !.world[x] = "made", !.of[x] = st.run])

ProvisionStep ==
  \/ \E o \in Parts(st.plan) : ApplyStep(o)
  \/ StageEnds \/ GetNodes \/ TearDown \/ NextRun
  \/ \E o \in Parts(st.plan) : \E x \in Awaited(o) : BecomesReady(x) \/ Dies(x) \/ Expires(x) \/ Rolls(x)

(* What an earlier run left for this one: TearDown was not asked to delete *)
(* it, stopped before it, or never deletes it.                             *)
LeftOver(o, x) ==
  st.run = 2 /\ (st.purge = "keep" \/ st.partial \/ (st.purge = "delete" /\ x \notin Deletes(o)))

(* What a client is given is up: when SetUp has succeeded, all that was    *)
(* waited for is ready and follows this run's specification, unless an     *)
(* earlier run left it; the configuration is this run's even then.         *)
UpIsReady ==
  st.pc = "up" =>
    \A o \in Parts(st.plan) :
      /\ o \in TiDBs => st.of[configMaps(o)] = st.run
      /\ \A x \in Awaited(o) :
           LeftOver(o, x) \/ (st.world[x] \in {"ready", "expired"} /\ st.of[x] = st.run)

(* The storage a part asks for is the one it was built with, but for MySQL *)
(* beside DM, whose claim the later one of DM overwrites.                  *)
StorageIsAsAsked ==
  st.pc = "up" => \A i \in DOMAIN Claims(st.plan) :
    \/ WithStorage(Claims(st.plan), i) = Claims(st.plan)[i][3]
    \/ Claims(st.plan)[i][1] \in {"mysql1", "mysql2"}
=============================================================================

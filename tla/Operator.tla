------------------------------ MODULE Operator ------------------------------
(***************************************************************************)
(* The custom resources that clusters are described with                   *)
(* (pkg/tidb-operator): defaults and images, configurations, pods and      *)
(* availability, conditions of backups and restores, settings that         *)
(* components inherit, and labels.  One process edits and reads a          *)
(* resource; what its status says is reported by the operator, which is    *)
(* external.  A pointer is a sequence of at most one element.              *)
(***************************************************************************)
EXTENDS Workload

CONSTANTS
  Images,        \* the images a user may name, each split at its colons
  Versions,      \* the versions a user may name; "" is none
  ConfigKeys,    \* the keys of a configuration, each split at its dots
  MaxReplicas,   \* bound: replicas, members and failures of a component
  MaxUpdates,    \* bound: updates of a condition
  MaxEdits       \* bound: edits of settings

TiDBComponents == {"pd", "tikv", "tidb", "tiflash", "ticdc", "pump"}
DMComponents == {"dm-master", "dm-worker"}
-----------------------------------------------------------------------------
(* Configurations.  A node is a value, a map with string keys ("map"), one *)
(* with keys of any type, all of them strings ("imap") or not ("omap").    *)
Node(kind, value, kids) == [kind |-> kind, value |-> value, kids |-> kids]
NoKids == [k \in {} |-> {}]
Leaf(type, value) == Node(type, value, NoKids)
EmptyMap == Node("map", "", NoKids)

(* What strKeyMap turns into a map with string keys. *)
strKeyMap(node) == node.kind \in {"map", "imap"}

(* The map reached from ms by the first i parts of a key, if any; and      *)
(* whether the walk got stuck on a value that is no map of strings.        *)
Reached(ms, key) ==
  LET at[i \in 0 .. Len(key)] ==
        IF i = 0 THEN <<ms>>
        ELSE IF at[i - 1] # <<>> /\ key[i] \in DOMAIN at[i - 1][1].kids
        THEN <<at[i - 1][1].kids[key[i]]>> ELSE <<>>
  IN at
Stuck(ms, key) ==
  \E i \in 1 .. Len(key) - 1 : Reached(ms, key)[i] # <<>> /\ ~strKeyMap(Reached(ms, key)[i][1])

get(ms, key) == IF Stuck(ms, key) THEN <<>> ELSE Reached(ms, key)[Len(key)]

Put(node, k, child) ==
  [node EXCEPT !.kids = [x \in DOMAIN @ \cup {k} |-> IF x = k THEN child ELSE @[x]]]
Without(node, k) == [node EXCEPT !.kids = [x \in DOMAIN @ \ {k} |-> @[x]]]

(* A change to the map that holds the last part of a key.  The maps on the *)
(* way are shared with their parents, but for an "imap": its own entries   *)
(* are copied, so that a change of them, or a map that is made, is lost.   *)
MapAt(ms, key, i) ==
  LET at == Reached(ms, key)[i] IN IF at = <<>> THEN EmptyMap ELSE at[1]
WriteBack(ms, key, changed) ==
  LET n == Len(key)
      at == Reached(ms, key)
      map(i) == MapAt(ms, key, i)
      up[i \in 0 .. n - 1] ==
        IF map(i).kind = "imap" /\ (i = n - 1 \/ at[i + 1] = <<>>) THEN map(i)
        ELSE IF i = n - 1 THEN changed
        ELSE Put(map(i), key[i + 1], up[i + 1])
  IN up[0]

(* set makes the maps that are missing, del stops at one. *)
set(ms, key, value) ==
  WriteBack(ms, key, Put(MapAt(ms, key, Len(key) - 1), Last(key), value))
del(ms, key) ==
  IF Reached(ms, key)[Len(key) - 1] = <<>> THEN ms
  ELSE WriteBack(ms, key, Without(MapAt(ms, key, Len(key) - 1), Last(key)))

(* GenericConfig: Set on the zero value panics, as it does, like Del, when *)
(* the walk gets stuck.                                                    *)
GenericConfig(isNil, mp) == [isNil |-> isNil, mp |-> mp]
Get(c, key) == get(c.mp, key)
Panics(c, key) == c.isNil \/ Stuck(c.mp, key)
SetKey(c, key, value) == [c EXCEPT !.mp = set(@, key, value)]
SetIfNil(c, key, value) == IF Get(c, key) # <<>> THEN c ELSE SetKey(c, key, value)
Del(c, key) == [c EXCEPT !.mp = del(@, key)]

(* A value as one of a type: <<>> for the error of another type. *)
AsString(v) == IF v.kind = "string" THEN <<v.value>> ELSE <<>>
AsInt(v) == IF v.kind = "int" THEN <<v.value>> ELSE <<>>

(* The settings of TiCDC: from its configuration, where they have the type *)
(* that is asked for, or else the default.                                 *)
TiCDCSetting(c, key, type, default) ==
  LET v == Get(c, key)
      as == IF v = <<>> THEN <<>> ELSE IF type = "string" THEN AsString(v[1]) ELSE AsInt(v[1])
  IN IF as = <<>> THEN default ELSE as[1]

(* A key whose entry would go into a copy: what is set there is lost. *)
Copied(c, key) ==
  LET at == Reached(c.mp, key)
  IN \E i \in 1 .. Len(key) - 1 :
       /\ at[i] # <<>> /\ at[i][1].kind = "imap"
       /\ i = Len(key) - 1 \/ at[i + 1] = <<>>

(* A configuration read from YAML has maps with keys of any type. *)
Yaml(kind) == Put(EmptyMap, "log", Node(kind, "", [k \in {"level"} |-> Leaf("string", "warn")]))
Configs ==
  {GenericConfig(TRUE, EmptyMap), GenericConfig(FALSE, EmptyMap)}
    \cup {GenericConfig(FALSE, Yaml(kind)) : kind \in {"map", "imap", "omap"}}
ConfigValues == {Leaf("string", "debug"), Leaf("int", "3")}

IsValue(p) == p # <<>> /\ p[1].kind \in {"string", "int"}

(* expect: the values Get is to return, for keys that have one. *)
ConfigStart(c) ==
  [conf |-> c, expect |-> [k \in ConfigKeys |-> IF IsValue(Get(c, k)) THEN Get(c, k) ELSE <<>>]]

(* What is changed at a key is changed there and gone below. *)
Expecting(key, p) ==
  IF Copied(st.conf, key) THEN st.expect
  ELSE [k \in ConfigKeys |-> IF k = key THEN p ELSE IF IsPrefix(key, k) THEN <<>> ELSE st.expect[k]]

ConfigStep ==
  \E key \in ConfigKeys :
    \/ Panics(st.conf, key) /\ Quit("failed")
    \/ \E value \in ConfigValues :
         /\ ~Panics(st.conf, key)
         /\ Go([conf |-> SetKey(st.conf, key, value), expect |-> Expecting(key, <<value>>)])
    \/ \E value \in ConfigValues :
         /\ Get(st.conf, key) # <<>> \/ ~Panics(st.conf, key)
         /\ Go([conf |-> SetIfNil(st.conf, key, value),
                expect |-> IF Get(st.conf, key) # <<>> THEN st.expect ELSE Expecting(key, <<value>>)])
    \/ /\ ~Stuck(st.conf.mp, key)
       /\ Go([conf |-> Del(st.conf, key), expect |-> Expecting(key, <<>>)])

(* Get finds what was set, whatever was set and deleted around it; only    *)
(* what is set or deleted inside a map that had keys of any type is lost.  *)
(* TiCDC is given a setting where it has the right type.                   *)
ConfigIsKept ==
  /\ \A k \in ConfigKeys :
       IsValue(Get(st.conf, k)) \/ IsValue(st.expect[k]) => Get(st.conf, k) = st.expect[k]
  /\ LET tz == st.expect[<<"tz">>]
         wanted(type) == IF tz # <<>> /\ tz[1].kind = type THEN tz[1].value ELSE "default"
     IN /\ TiCDCSetting(st.conf, <<"tz">>, "string", "default") = wanted("string")
        /\ TiCDCSetting(st.conf, <<"tz">>, "int", "default") = wanted("int")
-----------------------------------------------------------------------------
(* Images and defaults.  An image that is the empty text is <<>>. *)
ComponentSpec ==
  [image : Images, baseImage : Images, version : {<<>>} \cup {<<v>> : v \in Versions},
   maxFailoverCount : {<<>>, <<1>>}]

(* What setTidbClusterSpecDefault looks at; DM has no namespace of another *)
(* cluster that it joins.                                                  *)
Settings == {"ImagePullPolicy", "TLSCluster", "EnablePVReclaim", "PVReclaimPolicy", "Namespace"}
ClusterSpec(specs, configs) ==
  [version : Versions, settings : [Settings -> {<<>>}] \cup [Settings -> {<<"user">>}],
   spec : specs, config : configs]
TidbClusterSpec ==
  UNION {ClusterSpec([{c} -> ComponentSpec],
                     IF c = "tidb" THEN {<<>>} \cup {<<f>> : f \in Configs} ELSE {<<>>}) :
           c \in TiDBComponents}
DMClusterSpec == ClusterSpec({[c \in DMComponents |-> s] : s \in ComponentSpec}, {<<>>})

Asked(tc, c) == IF tc.spec[c].version # <<>> THEN tc.spec[c].version[1] ELSE tc.version

(* The base image takes higher priority. *)
ImageOf(tc, c) ==
  LET s == tc.spec[c]
  IN IF c \notin DOMAIN tc.spec THEN <<>>
     ELSE IF s.baseImage = <<>> THEN s.image
     ELSE IF Asked(tc, c) = "" THEN s.baseImage ELSE Append(s.baseImage, Asked(tc, c))
PDImage(tc) == ImageOf(tc, "pd")
TiKVImage(tc) == ImageOf(tc, "tikv")
TiFlashImage(tc) == ImageOf(tc, "tiflash")
TiCDCImage(tc) == ImageOf(tc, "ticdc")
TiDBImage(tc) == ImageOf(tc, "tidb")
PumpImage(tc) == ImageOf(tc, "pump")

(* DM looks at the base image only. *)
DMImage(tc, c) ==
  LET base == tc.spec[c].baseImage
  IN IF Asked(tc, c) = "" THEN base
     ELSE IF base = <<>> THEN <<"", Asked(tc, c)>> ELSE Append(base, Asked(tc, c))
MasterImage(tc) == DMImage(tc, "dm-master")
WorkerImage(tc) == DMImage(tc, "dm-worker")

ImageFor(tc, c) ==
  CASE c = "pd" -> PDImage(tc) [] c = "tikv" -> TiKVImage(tc) [] c = "tiflash" -> TiFlashImage(tc)
    [] c = "ticdc" -> TiCDCImage(tc) [] c = "tidb" -> TiDBImage(tc) [] c = "pump" -> PumpImage(tc)
    [] c = "dm-master" -> MasterImage(tc) [] c = "dm-worker" -> WorkerImage(tc)

(* What follows the last colon. *)
Tag(image) == IF Len(image) > 1 THEN Last(image) ELSE "latest"
PDVersion(tc) == Tag(PDImage(tc))
TiKVVersion(tc) == Tag(TiKVImage(tc))
MasterVersion(tc) == Tag(MasterImage(tc))

(* The defaults. *)
WithBase(tc, c, image) ==
  IF (tc.version # "" \/ tc.spec[c].version # <<>>) /\ tc.spec[c].baseImage = <<>>
  THEN [tc EXCEPT !.spec[c].baseImage = image] ELSE tc
WithFailover(tc, c) ==
  [tc EXCEPT !.spec[c].maxFailoverCount = IF @ = <<>> THEN <<3>> ELSE @]

OrDefault(tc, fields) ==
  [tc EXCEPT !.settings =
     [f \in Settings |-> IF f \in fields /\ @[f] = <<>> THEN <<"default">> ELSE @[f]]]
setTidbClusterSpecDefault(tc) == OrDefault(tc, Settings)
setDMClusterSpecDefault(tc) == OrDefault(tc, Settings \ {"Namespace"})
setPdSpecDefault(tc) == WithFailover(WithBase(tc, "pd", <<"pingcap/pd">>), "pd")
setTikvSpecDefault(tc) == WithFailover(WithBase(tc, "tikv", <<"pingcap/tikv">>), "tikv")
setTiFlashSpecDefault(tc) == WithFailover(WithBase(tc, "tiflash", <<"pingcap/tiflash">>), "tiflash")
setTiCDCSpecDefault(tc) == WithBase(tc, "ticdc", <<"pingcap/ticdc">>)
setPumpSpecDefault(tc) == WithBase(tc, "pump", <<"pingcap/tidb-binlog">>)
setMasterSpecDefault(tc) == WithFailover(WithBase(tc, "dm-master", <<"pingcap/dm">>), "dm-master")
setWorkerSpecDefault(tc) == WithFailover(WithBase(tc, "dm-worker", <<"pingcap/dm">>), "dm-worker")

backupKey == <<"log", "file", "max-backups">>
DefaultPanics(tc) ==
  /\ "tidb" \in DOMAIN tc.spec /\ tc.config # <<>>
  /\ Get(tc.config[1], backupKey) = <<>> /\ Panics(tc.config[1], backupKey)
setTidbSpecDefault(tc) ==
  LET d == WithFailover(WithBase(tc, "tidb", <<"pingcap/tidb">>), "tidb")
  IN IF tc.config = <<>> THEN d
     ELSE [d EXCEPT !.config = <<SetIfNil(@[1], backupKey, Leaf("int", "3"))>>]

SpecDefault(tc, c) ==
  CASE c = "pd" -> setPdSpecDefault(tc) [] c = "tikv" -> setTikvSpecDefault(tc)
    [] c = "tidb" -> setTidbSpecDefault(tc) [] c = "pump" -> setPumpSpecDefault(tc)
    [] c = "tiflash" -> setTiFlashSpecDefault(tc) [] c = "ticdc" -> setTiCDCSpecDefault(tc)
    [] c = "dm-master" -> setMasterSpecDefault(tc) [] c = "dm-worker" -> setWorkerSpecDefault(tc)
SetTidbClusterDefault(tc) ==
  FoldLeft(LAMBDA t, c : IF c \in DOMAIN tc.spec THEN SpecDefault(t, c) ELSE t,
           setTidbClusterSpecDefault(tc), <<"pd", "tikv", "tidb", "pump", "tiflash", "ticdc">>)
SetDMClusterDefault(tc) ==
  FoldLeft(LAMBDA t, c : IF c \in DOMAIN tc.spec THEN SpecDefault(t, c) ELSE t,
           setDMClusterSpecDefault(tc), <<"dm-master", "dm-worker">>)
Defaulted(tc) ==
  IF "dm-master" \in DOMAIN tc.spec THEN SetDMClusterDefault(tc) ELSE SetTidbClusterDefault(tc)

(* The user's resource is given its defaults, upgraded, defaulted again. *)
ImagesStart(tc) == [tc |-> tc, user |-> tc, defaulted |-> FALSE]
ImagesStep ==
  \/ DefaultPanics(st.tc) /\ Quit("failed")
  \/ /\ ~st.defaulted /\ ~DefaultPanics(st.tc)
     /\ Go([st EXCEPT !.tc = Defaulted(@), !.defaulted = TRUE])
  \/ \E v \in Versions :
       /\ st.defaulted /\ v # st.tc.version
       /\ Go([st EXCEPT !.tc.version = v, !.user.version = v, !.defaulted = FALSE])

(* Defaults are added once, to what the user left open, and the version    *)
(* that was asked for last is the one that runs; without one it is the     *)
(* user's image.                                                           *)
ImagesAreRight ==
  st.defaulted =>
    /\ Defaulted(st.tc) = st.tc
    /\ \A f \in Settings : st.user.settings[f] # <<>> => st.tc.settings[f] = st.user.settings[f]
    /\ \A c \in DOMAIN st.tc.spec :
         LET own == st.user.spec[c]
             got == st.tc.spec[c]
             image == ImageFor(st.tc, c)
         IN /\ own.baseImage # <<>> => got.baseImage = own.baseImage
            /\ own.maxFailoverCount # <<>> => got.maxFailoverCount = own.maxFailoverCount
            /\ Asked(st.tc, c) # "" => Len(image) > 1 /\ Last(image) = Asked(st.tc, c)
            /\ c = "pd" /\ Asked(st.tc, c) # "" => PDVersion(st.tc) = Asked(st.tc, c)
            /\ c = "tikv" /\ Asked(st.tc, c) # "" => TiKVVersion(st.tc) = Asked(st.tc, c)
            /\ c = "dm-master" /\ Asked(st.tc, c) # "" => MasterVersion(st.tc) = Asked(st.tc, c)
    /\ \A f \in ConfigKeys :
         st.user.config # <<>> /\ IsValue(Get(st.user.config[1], f)) =>
           Get(st.tc.config[1], f) = Get(st.user.config[1], f)
-----------------------------------------------------------------------------
(* Pods.  What the operator reports of a component: the members (stores)   *)
(* by ordinal, TRUE if up, those of other clusters (peers), the failures,  *)
(* TRUE if their member was deleted, and the replicas of the stateful set  *)
(* that exist and are ready; and the slots annotated for deletion.         *)
Slots == {{}, {0}, {0, 2}, {1}}
ComponentStatus == {"pd", "tikv", "tiflash", "tidb", "dm-master", "dm-worker"}
PodsStart(c, given, replicas, slots) ==
  [c |-> c, given |-> given, replicas |-> replicas, members |-> <<>>, peers |-> <<>>,
   failures |-> <<>>, sts |-> <<>>, slots |-> slots, readable |-> TRUE]

(* The annotation, unless it does not parse. *)
getDeleteSlots(p) == IF p.readable THEN p.slots ELSE {}

(* External: the first ordinals that are not to be deleted. *)
GetPodOrdinalsFromReplicasAndDeleteSlots(replicas, slots) ==
  {n \in 0 .. replicas + Cardinality(slots) - 1 :
     n \notin slots /\ Cardinality((0 .. n - 1) \ slots) < replicas}

Up(members) == {m \in DOMAIN members : members[m]}
StsActualReplicas(p) == IF p.sts = <<>> THEN 0 ELSE p.sts[1].replicas

(* What is told of a component that is to have extra replicas in place of  *)
(* failed ones; nil stands for what is told of one that is not specified.  *)
View(p, extra, nil) ==
  LET desired == IF p.given THEN p.replicas + extra ELSE 0
      ordinals(replicas) ==
        IF p.given THEN GetPodOrdinalsFromReplicasAndDeleteSlots(replicas, getDeleteSlots(p)) ELSE {}
  IN [desired |-> desired,
      started |-> IF p.given THEN desired = StsActualReplicas(p) ELSE nil /\ StsActualReplicas(p) = 0,
      ready |-> /\ p.given \/ nil
                /\ desired = Cardinality(DOMAIN p.members)
                /\ Up(p.members) = DOMAIN p.members,
      ordinals |-> ordinals(desired), kept |-> ordinals(p.replicas)]

GetPDDeletedFailureReplicas(p) == Cardinality(Up(p.failures))
PDAutoFailovering(p) == \E m \in DOMAIN p.failures : ~p.failures[m]
Failures(p) == Cardinality(DOMAIN p.failures)
PDPods(p) == View(p, GetPDDeletedFailureReplicas(p), FALSE)
TiKVPods(p) == View(p, Failures(p), FALSE)
TiFlashPods(p) == View(p, Failures(p), FALSE)
TiDBPods(p) == View(p, Failures(p), FALSE)
MasterPods(p) == View(p, Failures(p), TRUE)
WorkerPods(p) == View(p, Failures(p), TRUE)
PodsOf(p) ==
  CASE p.c = "pd" -> PDPods(p) [] p.c = "tikv" -> TiKVPods(p) [] p.c = "tiflash" -> TiFlashPods(p)
    [] p.c = "tidb" -> TiDBPods(p) [] p.c = "dm-master" -> MasterPods(p)
    [] p.c = "dm-worker" -> WorkerPods(p)

(* Enough members, enough of them up, and enough pods of the set ready. *)
AtLeast(p, lowerLimit) ==
  LET peersUp == Cardinality(Up(p.peers))
  IN /\ Cardinality(DOMAIN p.members) + Cardinality(DOMAIN p.peers) >= lowerLimit
     /\ Cardinality(Up(p.members)) + peersUp >= lowerLimit
     /\ p.sts # <<>> /\ p.sts[1].ready + peersUp >= lowerLimit
PDIsAvailable(p) ==
  p.given => AtLeast(p, (p.replicas + Cardinality(DOMAIN p.peers)) \div 2 + 1)
TiKVIsAvailable(p) == AtLeast(p, 1)
MasterIsAvailable(p) == AtLeast([p EXCEPT !.peers = <<>>], p.replicas \div 2 + 1)
PumpIsAvailable(p) == p.sts # <<>> /\ p.sts[1].ready >= 1

(* External: the operator reports a change, the user scales. *)
Toggle(f, m) == [x \in DOMAIN f \cup {m} |-> IF x = m THEN x \notin DOMAIN f \/ ~f[x] ELSE f[x]]
Drop(f, m) == [x \in DOMAIN f \ {m} |-> f[x]]
PodsStep ==
  \/ \E m \in 0 .. MaxReplicas : Go([st EXCEPT !.members = Toggle(@, m)])
  \/ \E m \in DOMAIN st.members : Go([st EXCEPT !.members = Drop(@, m)])
  \/ \E m \in {0} : st.c \in {"pd", "tikv"} /\ Go([st EXCEPT !.peers = Toggle(@, m)])
  \/ \E m \in 0 .. MaxReplicas - 1 :
       /\ m \in DOMAIN st.failures => ~st.failures[m]
       /\ Go([st EXCEPT !.failures =
                [x \in DOMAIN @ \cup {m} |-> IF x = m THEN x \in DOMAIN @ ELSE @[x]]])
  \/ st.failures # <<>> /\ Go([st EXCEPT !.failures = <<>>])
  \/ \E n \in 0 .. MaxReplicas : Go([st EXCEPT !.sts = <<[replicas |-> MaxReplicas, ready |-> n]>>])
  \/ \E n \in 1 .. MaxReplicas : n # st.replicas /\ Go([st EXCEPT !.replicas = n])
  \/ st.readable /\ st.slots # {} /\ Go([st EXCEPT !.readable = FALSE])

(* As many pods are asked for as are wanted, none of them in a slot that   *)
(* is being deleted, and the ones wanted without failover are among them.  *)
(* A component all of whose members are up, with a pod ready for each, is  *)
(* available; and an available PD has a quorum of members, here and in its *)
(* peers, that are up, unless failover left it with more members than it   *)
(* was to have: the limit is counted from the replicas that were asked for.*)
PodsAreRight ==
  LET view == PodsOf(st)
      n == Cardinality(DOMAIN st.members)
  IN /\ Cardinality(view.ordinals) = view.desired
     /\ view.ordinals \cap getDeleteSlots(st) = {} /\ view.kept \subseteq view.ordinals
     /\ st.given /\ view.ready /\ st.peers = <<>> /\ st.sts # <<>> /\ st.sts[1].ready >= n =>
          /\ st.c = "pd" => PDIsAvailable(st)
          /\ st.c = "tikv" => TiKVIsAvailable(st)
          /\ st.c = "dm-master" => MasterIsAvailable(st)
          /\ PumpIsAvailable(st)
     /\ st.c = "pd" /\ st.given /\ PDIsAvailable(st) /\ n <= st.replicas =>
          2 * (Cardinality(Up(st.members)) + Cardinality(Up(st.peers))) > n + Cardinality(DOMAIN st.peers)
     /\ st.c = "pd" /\ st.given /\ view.desired # st.replicas + Failures(st) => PDAutoFailovering(st)
-----------------------------------------------------------------------------
(* The conditions of a backup or a restore. *)
ConditionTypes == {"Complete", "Failed"}
ConditionsStart(kind) ==
  [kind |-> kind, phase |-> "", conditions |-> <<>>, now |-> 0, changed |-> FALSE,
   last |-> [t \in ConditionTypes |-> <<>>], since |-> [t \in ConditionTypes |-> 0], news |-> FALSE]

(* The place of the first condition of a type; 0 for none. *)
GetBackupCondition(conditions, type) ==
  SelectInSeq(conditions, LAMBDA c : c.type = type)

(* The conditions and whether a field of one has changed. *)
UpdateBackupCondition(conditions, condition, now) ==
  LET i == GetBackupCondition(conditions, condition.type)
      old == conditions[i]
      new == [condition EXCEPT !.lastTransitionTime =
                IF i # 0 /\ condition.status = old.status THEN old.lastTransitionTime ELSE now]
  IN IF i = 0 THEN [conditions |-> Append(conditions, new), changed |-> TRUE]
     ELSE [conditions |-> [conditions EXCEPT ![i] = new], changed |-> new # old]

(* Those of a restore are kept by the same text. *)
GetRestoreCondition(conditions, type) == GetBackupCondition(conditions, type)
UpdateRestoreCondition(conditions, condition, now) == UpdateBackupCondition(conditions, condition, now)

Holds(conditions, i) == i # 0 /\ conditions[i].status = "True"
IsBackup(conditions, type) == Holds(conditions, GetBackupCondition(conditions, type))
IsRestore(conditions, type) == Holds(conditions, GetRestoreCondition(conditions, type))
IsCleanCandidate(policy) == policy \in {"Delete", "OnFailure"}
NeedNotClean(policy, conditions) == policy = "OnFailure" /\ ~IsBackup(conditions, "Failed")

(* An update: last and since are what was last said of a type, and when    *)
(* its status was last another one; news says whether anything was new.    *)
ConditionsStep ==
  \E type \in ConditionTypes, status \in {"True", "False"}, reason \in {"", "why"} :
    LET said == [type |-> type, status |-> status, reason |-> reason, lastTransitionTime |-> 0]
        now == st.now + 1
        result ==
          IF st.kind = "backup" THEN UpdateBackupCondition(st.conditions, said, now)
          ELSE UpdateRestoreCondition(st.conditions, said, now)
        last == st.last[type]
    IN /\ st.now < MaxUpdates
       /\ Go([st EXCEPT !.phase = type, !.conditions = result.conditions, !.now = now,
                        !.changed = result.changed, !.last[type] = <<status, reason>>,
                        !.since[type] = IF last # <<>> /\ last[1] = status THEN @ ELSE now,
                        !.news = last # <<status, reason>>])

(* However updates of several types are mixed, there is one condition of   *)
(* each type that was reported; it says what was reported last, with the   *)
(* time at which its status became that; an update is told from a          *)
(* repetition; and a backup that failed is cleaned unless it is kept.      *)
ConditionsAreRight ==
  /\ \A type \in ConditionTypes :
       LET of == {i \in DOMAIN st.conditions : st.conditions[i].type = type}
           says == IF st.kind = "backup" THEN IsBackup(st.conditions, type)
                   ELSE IsRestore(st.conditions, type)
       IN /\ Cardinality(of) = Len(st.last[type]) \div 2
          /\ \A i \in of :
               /\ <<st.conditions[i].status, st.conditions[i].reason>> = st.last[type]
               /\ st.conditions[i].lastTransitionTime = st.since[type]
          /\ says <=> st.last[type] # <<>> /\ st.last[type][1] = "True"
  /\ st.changed = st.news /\ (st.now > 0 => st.last[st.phase] # <<>>)
  /\ \A policy \in {"Retain", "OnFailure", "Delete"} :
       IsCleanCandidate(policy) /\ ~NeedNotClean(policy, st.conditions) <=>
         policy = "Delete" \/ (policy = "OnFailure" /\ IsBackup(st.conditions, "Failed"))
-----------------------------------------------------------------------------
(* Labels. *)
NewLabel(kind) ==
  CASE kind \in {"tidb-cluster", "dm-cluster", "tidb-cluster-group"} ->
         [name |-> kind, managedBy |-> "tidb-operator"]
    [] kind = "monitor" -> [name |-> "tidb-cluster", managedBy |-> "tidb-operator"]
    [] kind = "initializer" -> [component |-> "initializer", managedBy |-> "tidb-operator"]
    [] kind = "backup" -> [name |-> "backup", managedBy |-> "backup-operator"]
    [] kind = "restore" -> [name |-> "restore", managedBy |-> "restore-operator"]
    [] kind = "backup-schedule" -> [name |-> "backup-schedule", managedBy |-> "backup-schedule-operator"]

(* Instance, UsedBy, Namespace, Component, Backup and the like set a key.  *)
Labelled(l, key, value) == [k \in DOMAIN l \cup {key} |-> IF k = key THEN value ELSE l[k]]
OfComponent(l, c) == Labelled(l, "component", c)
IsComponent(l, c) == "component" \in DOMAIN l /\ l.component = c
LabelSelector(l, other) == \A k \in DOMAIN l : k \in DOMAIN other /\ other[k] = l[k]

getComponentLabelValue(c) == IF c = "dm-discovery" THEN "discovery" ELSE c
ClusterKind(c) == IF c \in DMComponents \cup {"dm-discovery"} THEN "dm-cluster" ELSE "tidb-cluster"
PodLabel(c, name) ==
  OfComponent(Labelled(NewLabel(ClusterKind(c)), "instance", name), getComponentLabelValue(c))
JobLabel(kind, name) ==
  OfComponent(Labelled(NewLabel(kind), "instance", name), kind)
-----------------------------------------------------------------------------
(* What the pods of a component are given: its own settings, and those of  *)
(* the cluster where it has none.  The settings stand for all that are     *)
(* treated alike.                                                          *)
Choosable == {"SchedulerName", "HostNetwork", "StatefulSetUpdateStrategy", "NodeSelector",
              "ConfigUpdateStrategy", "Env", "TopologySpreadConstraints"}
Unset == [f \in Choosable |-> IF f = "NodeSelector" THEN NoKids ELSE <<>>]
AllComponents(kind) ==
  IF kind = "tidb-cluster" THEN TiDBComponents \cup {"discovery"} ELSE DMComponents \cup {"dm-discovery"}

(* The settings of the cluster, among which a DM cluster has a strategy of *)
(* its own and none for stateful sets.                                     *)
buildTidbClusterComponentAccessor(c, cluster, own) == [component |-> c, cluster |-> cluster, own |-> own]
buildDMClusterComponentAccessor(c, cluster, own) ==
  [component |-> c, own |-> own,
   cluster |-> [cluster EXCEPT !.ConfigUpdateStrategy = <<"RollingUpdate">>,
                               !.StatefulSetUpdateStrategy = <<>>]]
BaseSpec(r, c) ==
  LET own == IF c \in DOMAIN r.own THEN r.own[c] ELSE Unset
  IN IF r.kind = "tidb-cluster" THEN buildTidbClusterComponentAccessor(c, r.cluster, own)
     ELSE buildDMClusterComponentAccessor(c, r.cluster, own)

Inherited(a, f) == IF a.own[f] = <<>> THEN a.cluster[f] ELSE a.own[f]
Or(p, default) == IF p = <<>> THEN <<default>> ELSE p
StatefulSetUpdateStrategy(a) == Or(Inherited(a, "StatefulSetUpdateStrategy"), "RollingUpdate")
HostNetwork(a) == Or(Inherited(a, "HostNetwork"), "false")
(* The keys of the cluster and those of the component, which prevail. *)
Merged(a, f) == a.own[f] @@ a.cluster[f]
DnsPolicy(a) == IF HostNetwork(a) = <<"false">> THEN "ClusterFirst" ELSE "ClusterFirstWithHostNet"
ConfigUpdateStrategy(a) ==
  LET p == Inherited(a, "ConfigUpdateStrategy") IN IF p \in {<<>>, <<"">>} THEN <<"InPlace">> ELSE p
OwnOnly(a, f) == a.own[f]
TopologySpreadConstraints(a, name) ==
  LET keys == Inherited(a, "TopologySpreadConstraints")
  IN [i \in DOMAIN keys |->
        [topologyKey |-> keys[i],
         selector |-> Labelled(OfComponent(NewLabel(ClusterKind(a.component)),
                                           getComponentLabelValue(a.component)), "instance", name)]]
BuildPodSpec(a, name) ==
  [scheduler |-> Inherited(a, "SchedulerName"), host |-> HostNetwork(a), dns |-> DnsPolicy(a),
   node |-> Merged(a, "NodeSelector"), sts |-> StatefulSetUpdateStrategy(a),
   config |-> ConfigUpdateStrategy(a), env |-> OwnOnly(a, "Env"),
   spread |-> TopologySpreadConstraints(a, name)]
PodSpecs(r) == [c \in AllComponents(r.kind) |-> BuildPodSpec(BaseSpec(r, c), "demo")]

(* The user edits a setting of the cluster or of a component it specifies. *)
PodSpecStart(kind, given) ==
  LET r == [kind |-> kind, cluster |-> Unset, own |-> [c \in given |-> Unset]]
  IN [r |-> r, edits |-> 0, by |-> "cluster", field |-> "Env", before |-> PodSpecs(r)]
Offered(f, by) ==
  CASE f = "NodeSelector" -> {[k \in keys |-> by] : keys \in SUBSET {"zone", "disk"}}
    [] f = "ConfigUpdateStrategy" -> {<<>>, <<"">>, <<by>>}
    [] OTHER -> {<<>>, <<by>>}
PodSpecStep ==
  \E by \in {"cluster"} \cup DOMAIN st.r.own, f \in Choosable :
    \E p \in Offered(f, by) :
      LET r == IF by = "cluster" THEN [st.r EXCEPT !.cluster[f] = p] ELSE [st.r EXCEPT !.own[by][f] = p]
      IN /\ st.edits < MaxEdits /\ r # st.r
         /\ Go([r |-> r, edits |-> st.edits + 1, by |-> by, field |-> f, before |-> PodSpecs(st.r)])

(* An edit of a component's settings leaves the pods of the others as they *)
(* were, and one of the cluster's those of a component that chose for      *)
(* itself, key by key where it is merged.  Pods are spread among the pods  *)
(* of the same component and cluster, and of nothing else with labels.     *)
PodSpecsAreRight ==
  LET now == PodSpecs(st.r)
      names == {"demo", "other"}
      pods == {PodLabel(c, n) : c \in AllComponents("tidb-cluster") \cup AllComponents("dm-cluster"), n \in names}
      jobs == {JobLabel(kind, n) : kind \in {"monitor", "initializer", "backup", "restore"}, n \in names}
  IN /\ \A c \in DOMAIN now :
          \/ now[c] = st.before[c]
          \/ st.by = c
          \/ /\ st.by = "cluster" /\ st.field # "Env"
             /\ c \in DOMAIN st.r.own =>
                  IF st.field = "NodeSelector"
                  THEN \A k \in DOMAIN st.r.own[c][st.field] : now[c].node[k] = st.before[c].node[k]
                  ELSE st.r.own[c][st.field] = <<>>
             /\ st.r.kind = "dm-cluster" =>
                  st.field \notin {"ConfigUpdateStrategy", "StatefulSetUpdateStrategy"}
     /\ \A c \in DOMAIN now : \A i \in DOMAIN now[c].spread :
          {l \in pods \cup jobs : LabelSelector(now[c].spread[i].selector, l)} = {PodLabel(c, "demo")}
     /\ \A c \in DOMAIN now : IsComponent(PodLabel(c, "demo"), getComponentLabelValue(c))
=============================================================================

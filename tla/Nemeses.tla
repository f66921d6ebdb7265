------------------------------ MODULE Nemeses ------------------------------
(***************************************************************************)
(* What the operations of pkg/nemesis do to the cluster under test, and    *)
(* what is left of it when the dispatcher (NemesisDispatch, or the client  *)
(* of Coordination) is through with them.  An operation is <<kind, pod,    *)
(* argument>>.  The API server and PD are external: a request may be       *)
(* refused, and it may take effect although its answer is an error.        *)
(***************************************************************************)
EXTENDS Coordination, FiniteSetsExt

CONSTANTS
  Pods,
  Component,   \* the component of a pod
  Names,       \* the names randK8sObjectName may return
  MaxDrift     \* bound: how far the replicas drift

(* partition_one's extractArgs ends the process when the other part is     *)
(* empty, and the PD generators index the first PD pod.                    *)
ASSUME PodsAssumption ==
  /\ IsFiniteSet(Pods) /\ Cardinality(Pods) >= 2
  /\ \E p \in Pods : Component[p] = "pd"

(* A nemesis is registered for a kind; scaling and the schedulers work on  *)
(* the cluster whatever the pod, which is always the first.                *)
ASSUME OperationsAssumption ==
  /\ \A o \in NilOps : o[1] = "nil"
  /\ \A o \in Unregistered, p \in Operations : p[1] = o[1] => p \in Unregistered
  /\ \A o, p \in Operations :
       \/ o[1] = "scaling" /\ p[1] = "scaling"
       \/ o[1] = "scheduler" /\ p[1] = "scheduler" /\ o[3] = p[3]
       => o = p
ASSUME MaxDriftAssumption == MaxDrift \in Nat /\ MaxDrift >= 2

VARIABLES
  objects,     \* the chaos objects in the API server, by name
  drift,       \* TidbCluster replicas, less what the test asked for
  schedulers,  \* the schedulers added to PD
  erred        \* history: operations that were answered with an error

clusterVars == <<objects, drift, schedulers, erred>>
nemesesVars == <<cvars, clusterVars>>
-----------------------------------------------------------------------------
(* The generators: each returns one of a set of sets of operations. *)
Op1(kind, pod, arg) == <<kind, pod, arg>>
NilOp == Op1("nil", "", "")
OnAll(kind, S, arg) == {Op1(kind, p, arg) : p \in S}

filterComponent(S, c) == {p \in S : Component[p] = c}

(* The members PD names, when it has a leader ("" is no pod's name). *)
findPDMember(leader, ifLeader) ==
  {p \in filterComponent(Pods, "pd") : (p = leader) <=> ifLeader}
AnyPDMember(ifLeader) ==
  {findPDMember(l, ifLeader) : l \in filterComponent(Pods, "pd") \cup {""}}

(* n pods taken after shuffling; n may be more than there are, or negative. *)
Shuffled(S, n) == kSubset(Min({Max({n, 0}), Cardinality(S)}), S)
killNodes(kind, S, n) == {OnAll(kind, T, "") : T \in Shuffled(S, n)}

killGenerate(name) ==
  LET half == Cardinality(Pods) \div 2
      OfKind(c, n) == killNodes("pod-failure", filterComponent(Pods, c), n)
  IN CASE name = "minor_kill" -> killNodes("pod-failure", Pods, half - 1)
       [] name = "major_kill" -> killNodes("pod-failure", Pods, half + 1)
       [] name = "all_kill" -> killNodes("pod-failure", Pods, Cardinality(Pods))
       [] name = "kill_tikv_1node_5min" -> OfKind("tikv", 1)
       [] name = "kill_tikv_2node_5min" -> OfKind("tikv", 2)
       [] name = "kill_pd_leader_5min" ->
            UNION {killNodes("pod-failure", S, 1) : S \in AnyPDMember(TRUE)}
       [] name = "kill_pd_non_leader_5min" ->
            UNION {killNodes("pod-failure", S, 1) : S \in AnyPDMember(FALSE)}
       [] name = "kill_tiflash_1node_5min" -> OfKind("tiflash", 1)
       [] name = "kill_dm_1node" -> OfKind("dm", 1)
       [] OTHER -> killNodes("pod-failure", Pods, 1)

containerKillGenerate(name) ==
  CASE name = "short_kill_tikv_1node" ->
         killNodes("container-kill", filterComponent(Pods, "tikv"), 1)
    [] name = "short_kill_pd_leader" ->
         UNION {killNodes("container-kill", S, 1) : S \in AnyPDMember(TRUE)}
    [] name = "short_kill_tiflash_1node" ->
         killNodes("container-kill", filterComponent(Pods, "tiflash"), 1)
    [] OTHER -> {{}}

podKillGenerate == {OnAll("pod-kill", Pods, "")}
timeChaosGenerate == {OnAll("time-chaos", Pods, "")}

(* The slice is made with a nil operation per pod before it is appended to. *)
netemGenerate(action) == {{NilOp} \cup OnAll("netem", Pods, action)}
partitionGenerate == {{Op1("network-partition", p, nm)} : p \in Pods, nm \in Names}
scalingGenerate == {{Op1("scaling", CHOOSE p \in Pods : TRUE, "")}}
schedulerGenerate(name) ==
  {{Op1("scheduler", CHOOSE p \in filterComponent(Pods, "pd") : TRUE, name)}}
leaderShuffleGenerate ==
  {{Op1("leader-shuffle", CHOOSE p \in filterComponent(Pods, "pd") : TRUE, "")}}
-----------------------------------------------------------------------------
(* The chaos object that an operation's Invoke applies and its Recover     *)
(* cancels, both rebuilding it from the node and arguments; and whether    *)
(* the request has the context of the call.  The objects are named for     *)
(* kind and pod, a netem's for its action; a partition has a random name.  *)
Object(kind, pod, arg, ctx) == [name |-> <<kind, pod, arg>>, ctx |-> ctx]

kill(o) == Object("pod-failure", o[2], "", TRUE)
containerKill(o) == Object("container-kill", o[2], "", TRUE)
podKill(o) == Object("pod-kill", o[2], "", TRUE)
timeChaos(o) == Object("time-chaos", o[2], "", TRUE)
netem(o) == Object("netem", o[2], o[3], FALSE)
networkPartition(o) == Object("network-partition", "", o[3], FALSE)

Chaos(o) ==
  CASE o[1] = "pod-failure" -> kill(o)
    [] o[1] = "container-kill" -> containerKill(o)
    [] o[1] = "pod-kill" -> podKill(o)
    [] o[1] = "time-chaos" -> timeChaos(o)
    [] o[1] = "netem" -> netem(o)
    [] o[1] = "network-partition" -> networkPartition(o)
ChaosKinds ==
  {"pod-failure", "container-kill", "pod-kill", "time-chaos", "netem", "network-partition"}

Disturbs(o) ==
  \/ o[1] \in ChaosKinds /\ Chaos(o).name \in objects
  \/ o[1] = "scaling" /\ drift # 0
  \/ o[1] = "scheduler" /\ o[3] \in schedulers

(* A request is carried out or not, and answered or not. *)
Reply == {"ok", "lost", "refused"}
Done(r) == r # "refused"

Observe(o, r) ==
  /\ erred' = IF r # "ok" /\ o[1] \in {"scaling", "scheduler"} THEN erred \cup {o} ELSE erred
  /\ injected' = [x \in Operations |-> Disturbs(x)']

(* Apply is CreateOrUpdate; Cancel is Delete, which answers NotFound when  *)
(* there is no such object.                                                *)
ApplyChaos(o, r) ==
  /\ Chaos(o).ctx /\ nctxDone => r = "refused"
  /\ objects' = IF Done(r) THEN objects \cup {Chaos(o).name} ELSE objects
  /\ UNCHANGED <<drift, schedulers>>

CancelChaos(o, r) ==
  /\ Chaos(o).name \notin objects => r = "refused"
  /\ objects' = IF Done(r) THEN objects \ {Chaos(o).name} ELSE objects
  /\ UNCHANGED <<drift, schedulers>>

(* scaleCluster adds to what the replicas are now. *)
scaleCluster(n, r) ==
  /\ drift' = IF Done(r) /\ drift + n \in -MaxDrift .. MaxDrift THEN drift + n ELSE drift
  /\ UNCHANGED <<objects, schedulers>>

AddScheduler(name, r) ==
  /\ schedulers' = IF Done(r) THEN schedulers \cup {name} ELSE schedulers
  /\ UNCHANGED <<objects, drift>>

RemoveScheduler(name, r) ==
  /\ schedulers' = IF Done(r) THEN schedulers \ {name} ELSE schedulers
  /\ UNCHANGED <<objects, drift>>

(* ShuffleLeader's operators (module LeaderShuffle) leave nothing behind. *)
Invoke(o, r) ==
  /\ \/ o[1] \in ChaosKinds /\ ApplyChaos(o, r)
     \/ o[1] = "scaling" /\ scaleCluster(2, r)
     \/ o[1] = "scheduler" /\ AddScheduler(o[3], r)
     \/ o[1] = "leader-shuffle" /\ UNCHANGED <<objects, drift, schedulers>>
  /\ Observe(o, r)

Recover(o, r) ==
  /\ \/ o[1] \in ChaosKinds /\ CancelChaos(o, r)
     \/ o[1] = "scaling" /\ scaleCluster(-2, r)
     \/ o[1] = "scheduler" /\ RemoveScheduler(o[3], r)
     \/ o[1] = "leader-shuffle" /\ UNCHANGED <<objects, drift, schedulers>>
  /\ Observe(o, r)

(* Mutant of RecoverError: an answer of NotFound, or any other, is taken   *)
(* for success.                                                            *)
NoRecoverError(o, r) == FALSE

(* scheduler.Recover only logs its error, and the shuffler has none. *)
RecoverError(o, r) == r # "ok" /\ o[1] \in ChaosKinds \cup {"scaling"}

NemesisInvoke(o) ==
  /\ opc[o] = "spawned"
  /\ o \notin NilOps \cup Unregistered
  /\ \E r \in Reply : Invoke(o, r)
  /\ OpGoto(o, "running")
  /\ UNCHANGED <<npc, idx, gen, tries, nctxDone, unrecorded, recorderVars, s, cl>>

NemesisRecover(o) ==
  /\ opc[o] = "recover"
  /\ \E r \in Reply : Recover(o, r) /\ RecoverReturns(o, RecoverError(o, r))
  /\ UNCHANGED <<npc, idx, gen, nctxDone, unrecorded, recorderVars, s, cl>>

OnCluster(o) == NemesisInvoke(o) \/ NemesisRecover(o)
-----------------------------------------------------------------------------
(* With generators of the controller, or with a client that coordinates.   *)
Coordinated == cl # "absent"

NemesesInit ==
  /\ CoordinationInit
  /\ objects = {} /\ drift = 0 /\ schedulers = {} /\ erred = {}

NemesisOperation(o) ==
  \/ OnCluster(o)
  \/ (OpSkip(o) \/ OpPause(o)) /\ UNCHANGED <<s, cl, clusterVars>>
  \/ ~ Coordinated /\ OpRunTime(o) /\ UNCHANGED <<s, cl, clusterVars>>
  \/ Coordinated /\ WaitForRollback(o) /\ UNCHANGED clusterVars

NemesisDispatcher ==
  /\ \/ ~ Coordinated /\ DispatchStep /\ UNCHANGED <<s, cl>>
     \/ Coordinated /\ Dispatcher
  /\ UNCHANGED clusterVars

NemesisClient == Client /\ UNCHANGED clusterVars

NemesesContextDone == CoordinationContextDone /\ UNCHANGED clusterVars

NemesesNext ==
  \/ NemesisDispatcher
  \/ \E o \in Operations : NemesisOperation(o)
  \/ NemesisClient
  \/ NemesesContextDone

NemesesSpec == NemesesInit /\ [][NemesesNext]_nemesesVars
-----------------------------------------------------------------------------
(* When the goroutine of an operation returns, what it did to the cluster  *)
(* is undone, except: a chaos object after RetryCount refused deletions,   *)
(* or after one when the context ended the retries; a scheduler whose      *)
(* removal failed, which is never retried; and the replicas once any       *)
(* scaling was answered with an error, since Recover takes two away        *)
(* whether or not Invoke, or an earlier try, has taken effect.             *)
LeftoverExplained ==
  [][ \A o \in Operations : opc[o] # "none" /\ opc'[o] = "none" /\ injected'[o] =>
        IF o[1] \in ChaosKinds THEN tries[o] = RetryCount \/ (nctxDone /\ tries[o] >= 1)
                               ELSE o \in erred' ]_nemesesVars
=============================================================================

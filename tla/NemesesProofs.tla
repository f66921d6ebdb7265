--------------------------- MODULE NemesesProofs ---------------------------
(***************************************************************************)
(* Proofs about the nemeses, for any operations, generators and number of  *)
(* retries: a coordinating client decides how long faults last, and what a *)
(* returned operation leaves in the cluster is explained.                  *)
(***************************************************************************)
EXTENDS Nemeses, TLAPS

OpLabels == {"none", "spawned", "running", "recover", "pause"}

OpTypeOK ==
  /\ opc \in [Operations -> OpLabels]
  /\ tries \in [Operations -> Nat]
  /\ injected = [o \in Operations |-> Disturbs(o)]
  /\ drift \in Int

(* Outside g.Wait() no operation has a goroutine. *)
WaitsForAll == npc # "wait" => AllReturned

(* What Start and Rollback rely on: no operation before the client's       *)
(* Start, which finds s as WaitForStart left it.                           *)
ClientInv ==
  /\ cl = "start" => s \in {0, waitForStart}
  /\ FaultsFollowTheClient

(* The number of calls of Recover an operation has made. *)
TriesCounted ==
  \A o \in Operations :
    /\ opc[o] = "pause" => tries[o] \in 1 .. RetryCount
    /\ opc[o] = "recover" => tries[o] < RetryCount
    /\ opc[o] \in {"none", "spawned", "running"} => tries[o] = 0

(* An operation that onNemesis skips has no goroutine past "spawned", and  *)
(* nothing of its kind is in the cluster.                                  *)
Skipped(o) == o \in NilOps \cup Unregistered

SkippedInv ==
  \A o \in Operations : Skipped(o) => opc[o] \in {"none", "spawned"} /\ ~ Disturbs(o)

(* A scaling and a scheduler that were never answered with an error are in *)
(* the cluster from Invoke to Recover and at no other time.                *)
InCluster(o) == opc[o] \in {"running", "recover"}

ScalingInv ==
  \A o \in Operations : o[1] = "scaling" /\ o \notin erred =>
    opc[o] # "pause" /\ drift = IF InCluster(o) THEN 2 ELSE 0

SchedulerInv ==
  \A o \in Operations : o[1] = "scheduler" =>
    /\ opc[o] # "pause"
    /\ o \notin erred => (o[3] \in schedulers <=> InCluster(o))

NemesesInv ==
  OpTypeOK /\ WaitsForAll /\ ClientInv /\ TriesCounted /\ SkippedInv /\ ScalingInv /\ SchedulerInv
-----------------------------------------------------------------------------
(* What LeftoverExplained says of a step. *)
Leftover ==
  \A o \in Operations : opc[o] # "none" /\ opc'[o] = "none" /\ injected'[o] =>
    IF o[1] \in ChaosKinds THEN tries[o] = RetryCount \/ (nctxDone /\ tries[o] >= 1)
                           ELSE o \in erred'

(* An object bears the kind of the operation it belongs to. *)
LEMMA ChaosName ==
  ASSUME NEW o, o[1] \in ChaosKinds
  PROVE  Chaos(o).name[1] = o[1]
  BY DEF ChaosKinds, Chaos, Object, kill, containerKill, podKill, timeChaos, netem,
         networkPartition

LEMMA NemesesInvInit == NemesesInit => NemesesInv
<1> SUFFICES ASSUME NemesesInit PROVE NemesesInv
  OBVIOUS
<1>1. /\ opc = [o \in Operations |-> "none"] /\ tries = [o \in Operations |-> 0]
      /\ injected = [o \in Operations |-> FALSE]
      /\ npc = "check" /\ s = 0 /\ cl \in {"absent", "start"}
      /\ objects = {} /\ drift = 0 /\ schedulers = {} /\ erred = {}
  BY DEF NemesesInit, CoordinationInit, NemesisInit
<1>2. \A o \in Operations : ~ Disturbs(o)
  BY <1>1 DEF Disturbs
<1>3. OpTypeOK
  <2>1. \A o \in Operations : FALSE = Disturbs(o)
    BY <1>2 DEF Disturbs
  <2>2. injected = [o \in Operations |-> Disturbs(o)]
    BY <1>1, <2>1, Zenon
  <2>3. opc \in [Operations -> OpLabels] /\ tries \in [Operations -> Nat] /\ drift \in Int
    BY <1>1 DEF OpLabels
  <2>4. QED
    BY <2>2, <2>3, Zenon DEF OpTypeOK
<1>4. WaitsForAll /\ TriesCounted /\ SkippedInv
  BY <1>1, <1>2 DEF WaitsForAll, AllReturned, TriesCounted, SkippedInv
<1>5. ClientInv
  BY <1>1 DEF ClientInv, FaultsFollowTheClient
<1>6. ScalingInv /\ SchedulerInv
  BY <1>1 DEF ScalingInv, SchedulerInv, InCluster
<1>7. QED
  BY <1>3, <1>4, <1>5, <1>6 DEF NemesesInv

(* A step of the dispatcher, the client or the context that spawns nothing. *)
LEMMA QuietStep ==
  ASSUME NemesesInv, UNCHANGED <<opVars, clusterVars>>,
         npc' # "wait" => AllReturned,
         cl' = "start" => cl = "start" /\ s' \in {0, waitForStart},
         cl' # "absent" => cl # "absent",
         \A o \in Operations : opc[o] \in {"recover", "pause"} /\ cl # "absent" =>
           nctxDone' \/ s' = enableRollback
  PROVE  NemesesInv' /\ Leftover
<1> USE DEF opVars, clusterVars
<1>1. \A o \in Operations : Disturbs(o)' = Disturbs(o)
  BY DEF Disturbs
<1>2. OpTypeOK'
  BY <1>1 DEF NemesesInv, OpTypeOK
<1>3. WaitsForAll' /\ TriesCounted'
  BY DEF NemesesInv, WaitsForAll, AllReturned, TriesCounted
<1>4. SkippedInv'
  BY <1>1 DEF NemesesInv, SkippedInv
<1>5. ClientInv'
  BY DEF NemesesInv, ClientInv, FaultsFollowTheClient
<1>6. ScalingInv' /\ SchedulerInv'
  BY DEF NemesesInv, ScalingInv, SchedulerInv, InCluster
<1>7. Leftover
  BY DEF Leftover
<1>8. QED
  BY <1>2, <1>3, <1>4, <1>5, <1>6, <1>7 DEF NemesesInv

(* The operations of a generator are spawned. *)
LEMMA SpawnStep ==
  ASSUME NemesesInv, npc # "wait", Spawn(gen), npc' = "wait",
         cl # "start", cl' = cl, UNCHANGED clusterVars
  PROVE  NemesesInv' /\ Leftover
<1> USE DEF clusterVars
<1>1. PICK ops \in Generators[gen] :
        opc' = [o \in Operations |-> IF o \in ops THEN "spawned" ELSE opc[o]]
  BY DEF Spawn
<1>2. /\ \A o \in Operations : opc[o] = "none" /\ opc'[o] \in {"none", "spawned"}
      /\ UNCHANGED <<tries, injected>>
  BY <1>1 DEF NemesesInv, WaitsForAll, AllReturned, Spawn
<1>3. \A o \in Operations : Disturbs(o)' = Disturbs(o)
  BY DEF Disturbs
<1>4. OpTypeOK'
  BY <1>1, <1>2, <1>3 DEF NemesesInv, OpTypeOK, OpLabels
<1>5. WaitsForAll' /\ TriesCounted'
  BY <1>2 DEF NemesesInv, WaitsForAll, AllReturned, TriesCounted
<1>6. SkippedInv'
  BY <1>2, <1>3 DEF NemesesInv, SkippedInv
<1>7. ClientInv'
  BY <1>2 DEF NemesesInv, ClientInv, FaultsFollowTheClient
<1>8. ScalingInv' /\ SchedulerInv'
  BY <1>2 DEF NemesesInv, ScalingInv, SchedulerInv, InCluster
<1>9. Leftover
  BY <1>2 DEF Leftover
<1>10. QED
  BY <1>4, <1>5, <1>6, <1>7, <1>8, <1>9 DEF NemesesInv

(* A step of one operation that does not reach the cluster. *)
LEMMA LocalStep ==
  ASSUME NemesesInv, NEW o \in Operations, NEW l \in OpLabels, OpGoto(o, l),
         opc[o] # "none", UNCHANGED <<npc, cl, s, nctxDone, injected, clusterVars>>,
         \/ opc[o] = "spawned" /\ Skipped(o) /\ l = "none" /\ UNCHANGED tries
         \/ /\ opc[o] = "running" /\ l = "recover" /\ UNCHANGED tries
            /\ cl # "absent" => nctxDone \/ s = enableRollback
         \/ opc[o] = "pause" /\ l = "recover" /\ tries[o] < RetryCount /\ UNCHANGED tries
         \/ /\ opc[o] = "pause" /\ l = "none"
            /\ nctxDone \/ tries[o] >= RetryCount
            /\ tries' = [tries EXCEPT ![o] = 0]
  PROVE  NemesesInv' /\ Leftover
<1> USE DEF clusterVars, OpGoto
<1>1. /\ opc'[o] = l /\ \A p \in Operations : p # o => opc'[p] = opc[p] /\ tries'[p] = tries[p]
      /\ opc' \in [Operations -> OpLabels] /\ tries' \in [Operations -> Nat]
  BY DEF NemesesInv, OpTypeOK
<1>2. \A p \in Operations : Disturbs(p)' = Disturbs(p)
  BY DEF Disturbs
<1>3. OpTypeOK'
  BY <1>1, <1>2 DEF NemesesInv, OpTypeOK
<1>4. WaitsForAll'
  BY <1>1 DEF NemesesInv, WaitsForAll, AllReturned
<1>5. TriesCounted'
  BY <1>1, RetryCountAssumption DEF NemesesInv, OpTypeOK, TriesCounted
<1>6. SkippedInv'
  BY <1>1, <1>2 DEF NemesesInv, SkippedInv
<1>7. ClientInv'
  BY <1>1 DEF NemesesInv, ClientInv, FaultsFollowTheClient
<1>8. ScalingInv'
  BY <1>1, OperationsAssumption
     DEF NemesesInv, ScalingInv, InCluster, Skipped, SkippedInv
<1>9. SchedulerInv'
  BY <1>1 DEF NemesesInv, SchedulerInv, InCluster
<1>10. Leftover
  <2> SUFFICES ASSUME opc'[o] = "none", injected'[o]
               PROVE  IF o[1] \in ChaosKinds
                      THEN tries[o] = RetryCount \/ (nctxDone /\ tries[o] >= 1)
                      ELSE o \in erred'
    BY <1>1 DEF Leftover
  <2>1. Disturbs(o)
    BY DEF NemesesInv, OpTypeOK
  <2>2. opc[o] = "pause"
    BY <1>1, <2>1 DEF NemesesInv, SkippedInv
  <2>3. QED
    BY <1>1, <2>1, <2>2, RetryCountAssumption
       DEF NemesesInv, OpTypeOK, TriesCounted, ScalingInv, SchedulerInv, Disturbs
<1>11. QED
  BY <1>3, <1>4, <1>5, <1>6, <1>7, <1>8, <1>9, <1>10 DEF NemesesInv

(* What Invoke or Recover of an operation does to the cluster, for the     *)
(* operations of other kinds and for itself.                               *)
Touches(o, r) ==
  /\ \A p \in Operations : p[1] # o[1] => (Disturbs(p)' <=> Disturbs(p))
  /\ o[1] # "scaling" => drift' = drift
  /\ o[1] # "scheduler" => schedulers' = schedulers
  /\ erred \subseteq erred' /\ erred' \subseteq erred \cup {o}
  /\ o[1] \in {"scaling", "scheduler"} /\ r # "ok" => o \in erred'
  /\ injected' = [p \in Operations |-> Disturbs(p)']
  /\ drift' \in Int

LEMMA InvokeTouches ==
  ASSUME drift \in Int, NEW o \in Operations, NEW r \in Reply, Invoke(o, r) \/ Recover(o, r)
  PROVE  Touches(o, r)
<1>1. CASE o[1] \in ChaosKinds
  <2>1. /\ UNCHANGED <<drift, schedulers>>
        /\ \A n : n # Chaos(o).name => (n \in objects' <=> n \in objects)
        /\ Observe(o, r)
    BY <1>1 DEF Invoke, Recover, ApplyChaos, CancelChaos, ChaosKinds
  <2>2. \A p \in Operations : p[1] # o[1] => (Disturbs(p)' <=> Disturbs(p))
    <3> SUFFICES ASSUME NEW p \in Operations, p[1] # o[1]
                 PROVE  Disturbs(p)' <=> Disturbs(p)
      OBVIOUS
    <3>1. p[1] \in ChaosKinds => Chaos(p).name # Chaos(o).name
      BY <1>1, ChaosName
    <3>2. QED
      BY <2>1, <3>1 DEF Disturbs
  <2>3. QED
    BY <1>1, <2>1, <2>2 DEF Touches, Observe, ChaosKinds
<1>2. CASE o[1] \notin ChaosKinds
  <2>1. /\ objects' = objects /\ Observe(o, r) /\ drift' \in Int
        /\ o[1] # "scaling" => drift' = drift
        /\ o[1] # "scheduler" => schedulers' = schedulers
        /\ o[1] = "scheduler" =>
             \A n : n # o[3] => (n \in schedulers' <=> n \in schedulers)
    BY <1>2, MaxDriftAssumption
       DEF Invoke, Recover, scaleCluster, AddScheduler, RemoveScheduler
  <2>2. \A p \in Operations : p[1] # o[1] => (Disturbs(p)' <=> Disturbs(p))
    BY <2>1 DEF Disturbs
  <2>3. QED
    BY <2>1, <2>2 DEF Touches, Observe
<1>3. QED
  BY <1>1, <1>2

(* A step of one operation on the cluster. *)
LEMMA ClusterStep ==
  ASSUME NemesesInv, NEW o \in Operations, NEW l \in OpLabels, OpGoto(o, l),
         NEW r \in Reply, UNCHANGED <<npc, cl, s, nctxDone>>,
         \/ /\ opc[o] = "spawned" /\ l = "running" /\ ~ Skipped(o)
            /\ Invoke(o, r) /\ UNCHANGED tries
         \/ /\ opc[o] = "recover" /\ l = IF RecoverError(o, r) THEN "pause" ELSE "none"
            /\ Recover(o, r)
            /\ tries' = [tries EXCEPT ![o] = IF RecoverError(o, r) THEN @ + 1 ELSE 0]
  PROVE  NemesesInv' /\ Leftover
<1> USE DEF OpGoto
<1>1. /\ opc'[o] = l /\ \A p \in Operations : p # o => opc'[p] = opc[p] /\ tries'[p] = tries[p]
      /\ opc' \in [Operations -> OpLabels] /\ tries' \in [Operations -> Nat]
  BY DEF NemesesInv, OpTypeOK
<1>2. Touches(o, r)
  BY InvokeTouches DEF NemesesInv, OpTypeOK
<1>3. OpTypeOK'
  BY <1>1, <1>2 DEF OpTypeOK, Touches
<1>4. WaitsForAll'
  BY <1>1 DEF NemesesInv, WaitsForAll, AllReturned
<1>5. TriesCounted'
  BY <1>1, RetryCountAssumption DEF NemesesInv, OpTypeOK, TriesCounted
<1>6. SkippedInv'
  <2>1. ~ Skipped(o)
    BY DEF NemesesInv, SkippedInv
  <2>2. ASSUME NEW p \in Operations, Skipped(p) PROVE p[1] = "nil" \/ p[1] # o[1]
    BY <2>1, <2>2, OperationsAssumption DEF Skipped
  <2>3. \A p \in Operations : p[1] = "nil" => ~ Disturbs(p)'
    BY DEF Disturbs, ChaosKinds
  <2>4. QED
    BY <1>1, <1>2, <2>1, <2>2, <2>3 DEF NemesesInv, SkippedInv, Touches
<1>7. ClientInv'
  <2>1. cl # "start"
    BY DEF NemesesInv, ClientInv, FaultsFollowTheClient
  <2>2. QED
    BY <1>1, <2>1 DEF NemesesInv, ClientInv, FaultsFollowTheClient
<1>8. ScalingInv'
  <2> SUFFICES ASSUME NEW p \in Operations, p[1] = "scaling", p \notin erred'
               PROVE  opc'[p] # "pause" /\ drift' = IF InCluster(p)' THEN 2 ELSE 0
    BY DEF ScalingInv
  <2>1. p \notin erred
    BY <1>2 DEF Touches
  <2>2. CASE p # o
    <3>1. o[1] # "scaling"
      BY <2>2, OperationsAssumption
    <3>2. QED
      BY <1>1, <1>2, <2>1, <2>2, <3>1 DEF NemesesInv, ScalingInv, InCluster, Touches
  <2>3. CASE p = o
    <3>1. r = "ok"
      BY <1>2, <2>3 DEF Touches
    <3>2. drift = IF InCluster(o) THEN 2 ELSE 0
      BY <2>1, <2>3 DEF NemesesInv, ScalingInv
    <3>3. \/ scaleCluster(2, r) /\ opc[o] = "spawned" /\ l = "running"
          \/ scaleCluster(-2, r) /\ opc[o] = "recover" /\ l = "none"
      BY <2>3, <3>1 DEF Invoke, Recover, ChaosKinds, RecoverError
    <3>4. QED
      BY <1>1, <2>3, <3>1, <3>2, <3>3, MaxDriftAssumption DEF scaleCluster, Done, InCluster
  <2>4. QED
    BY <2>2, <2>3
<1>9. SchedulerInv'
  <2> SUFFICES ASSUME NEW p \in Operations, p[1] = "scheduler"
               PROVE  /\ opc'[p] # "pause"
                      /\ p \notin erred' => (p[3] \in schedulers' <=> InCluster(p)')
    BY DEF SchedulerInv
  <2>1. p \notin erred' => p \notin erred
    BY <1>2 DEF Touches
  <2>2. CASE p # o
    <3>1. p[3] \in schedulers' <=> p[3] \in schedulers
      <4>1. CASE o[1] # "scheduler"
        BY <1>2, <4>1 DEF Touches
      <4>2. CASE o[1] = "scheduler"
        <5>1. o[3] # p[3]
          BY <2>2, <4>2, OperationsAssumption
        <5>2. QED
          BY <4>2, <5>1 DEF Invoke, Recover, AddScheduler, RemoveScheduler, ChaosKinds
      <4>3. QED
        BY <4>1, <4>2
    <3>2. QED
      BY <1>1, <2>1, <2>2, <3>1 DEF NemesesInv, SchedulerInv, InCluster
  <2>3. CASE p = o
    <3>1. p \notin erred' => r = "ok"
      BY <1>2, <2>3 DEF Touches
    <3>2. \/ AddScheduler(o[3], r) /\ opc[o] = "spawned" /\ l = "running"
          \/ RemoveScheduler(o[3], r) /\ opc[o] = "recover" /\ l = "none"
      BY <2>3 DEF Invoke, Recover, ChaosKinds, RecoverError
    <3>3. QED
      BY <1>1, <2>1, <2>3, <3>1, <3>2
         DEF NemesesInv, SchedulerInv, AddScheduler, RemoveScheduler, Done, InCluster
  <2>4. QED
    BY <2>2, <2>3
<1>10. Leftover
  <2> SUFFICES ASSUME opc'[o] = "none", injected'[o]
               PROVE  o[1] \notin ChaosKinds /\ o \in erred'
    BY <1>1 DEF Leftover
  <2>1. Disturbs(o)' /\ Recover(o, r) /\ ~ RecoverError(o, r)
    BY <1>1, <1>2 DEF Touches
  <2>2. o[1] \notin ChaosKinds
    <3> SUFFICES ASSUME o[1] \in ChaosKinds PROVE FALSE
      OBVIOUS
    <3>1. r = "ok" /\ CancelChaos(o, r)
      BY <2>1 DEF RecoverError, Recover, ChaosKinds
    <3>2. Chaos(o).name \notin objects'
      BY <3>1 DEF CancelChaos, Done
    <3>3. QED
      BY <2>1, <3>2 DEF Disturbs, ChaosKinds
  <2>3. o \in erred'
    BY <1>1, <1>8, <1>9, <2>1, <2>2 DEF Disturbs, ScalingInv, SchedulerInv, InCluster
  <2>4. QED
    BY <2>2, <2>3
<1>11. QED
  BY <1>3, <1>4, <1>5, <1>6, <1>7, <1>8, <1>9, <1>10 DEF NemesesInv

LEMMA NemesesInvNext == NemesesInv /\ [NemesesNext]_nemesesVars => NemesesInv' /\ Leftover
<1> SUFFICES ASSUME NemesesInv, [NemesesNext]_nemesesVars PROVE NemesesInv' /\ Leftover
  OBVIOUS
<1> USE DEF nvars, nemesisVars, opVars
<1>1. CASE NemesisDispatcher
  <2>1. CASE Coordinated /\ WaitForStart
    BY <1>1, <2>1, SpawnStep
       DEF NemesisDispatcher, WaitForStart, NemesesInv, ClientInv, enableStart, waitForStart
  <2>2. CASE ~ Coordinated /\ DispatchGenerate /\ UNCHANGED <<s, cl>>
    BY <1>1, <2>2, SpawnStep DEF NemesisDispatcher, DispatchGenerate, Coordinated
  <2>3. CASE (DispatchCheck \/ DispatchNext \/ DispatchWait) /\ UNCHANGED <<s, cl>>
    BY <1>1, <2>3, QuietStep
       DEF NemesisDispatcher, DispatchCheck, DispatchNext, DispatchWait, NemesesInv,
           WaitsForAll, ClientInv, FaultsFollowTheClient
  <2>4. CASE NextOnce \/ GenerateStore
    BY <1>1, <2>4, QuietStep
       DEF NemesisDispatcher, NextOnce, GenerateStore, NemesesInv, WaitsForAll, AllReturned,
           ClientInv, FaultsFollowTheClient
  <2>5. QED
    BY <1>1, <2>1, <2>2, <2>3, <2>4 DEF NemesisDispatcher, Dispatcher, DispatchStep
<1>2. ASSUME NEW o \in Operations, NemesisOperation(o) PROVE NemesesInv' /\ Leftover
  <2>1. CASE NemesisInvoke(o)
    BY <2>1, ClusterStep DEF NemesisInvoke, OpLabels, Skipped
  <2>2. CASE NemesisRecover(o)
    BY <2>2, ClusterStep DEF NemesisRecover, RecoverReturns, OpLabels
  <2>3. CASE (OpSkip(o) \/ OpPause(o)) /\ UNCHANGED <<s, cl, clusterVars>>
    BY <2>3, LocalStep DEF OpSkip, OpPause, OpLabels, Skipped
  <2>4. CASE ~ Coordinated /\ OpRunTime(o) /\ UNCHANGED <<s, cl, clusterVars>>
    BY <2>4, LocalStep DEF OpRunTime, Coordinated, OpLabels
  <2>5. CASE Coordinated /\ WaitForRollback(o) /\ UNCHANGED clusterVars
    BY <2>5, LocalStep DEF WaitForRollback, OpLabels
  <2>6. QED
    BY <1>2, <2>1, <2>2, <2>3, <2>4, <2>5 DEF NemesisOperation, OnCluster
<1>3. CASE NemesisClient
  BY <1>3, QuietStep
     DEF NemesisClient, Client, ClientStart, ClientWork, ClientRollback, NemesesInv,
         WaitsForAll, ClientInv, FaultsFollowTheClient, enableRollback, enableStart,
         starting, waitForStart
<1>4. CASE NemesesContextDone
  BY <1>4, QuietStep
     DEF NemesesContextDone, CoordinationContextDone, NemesisContextDone, NemesesInv,
         WaitsForAll, ClientInv, FaultsFollowTheClient
<1>5. CASE UNCHANGED nemesesVars
  BY <1>5, QuietStep
     DEF nemesesVars, cvars, NemesesInv, WaitsForAll, ClientInv, FaultsFollowTheClient
<1>6. QED
  BY <1>1, <1>2, <1>3, <1>4, <1>5 DEF NemesesNext

(* No operation is spawned before a coordinating client's Start, and       *)
(* Recover is not tried before its Rollback or the end of the context,     *)
(* however the client and the dispatcher interleave over the integer s.    *)
THEOREM FaultsFollow == NemesesSpec => []FaultsFollowTheClient
<1>1. NemesesInv => FaultsFollowTheClient
  BY DEF NemesesInv, ClientInv
<1>2. QED
  BY <1>1, NemesesInvInit, NemesesInvNext, PTL DEF NemesesSpec

(* An operation that has returned leaves its fault in the cluster only     *)
(* where LeftoverExplained says so: after RetryCount failed recoveries,    *)
(* after a failed one in a context that is done, or, for a scaling or a    *)
(* scheduler, once a request was answered with an error.                   *)
THEOREM LeftoversAreExplained == NemesesSpec => LeftoverExplained
  BY NemesesInvInit, NemesesInvNext, PTL DEF NemesesSpec, LeftoverExplained, Leftover
=============================================================================

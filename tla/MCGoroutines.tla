---------------------------- MODULE MCGoroutines ----------------------------
(***************************************************************************)
(* What the controller runs side by side: the clients' loops on one        *)
(* history (ClientLoop), nemeses on the cluster (Nemeses, with             *)
(* LeaderShuffle for the one that talks to PD) and the plugins that watch  *)
(* it (Plugins).  They meet only in the cluster and do not see each        *)
(* other's state; their common start and end is Controller's.              *)
(***************************************************************************)
EXTENDS ClientLoop, Nemeses, LeaderShuffle, Plugins

VARIABLE part   \* which of them is looked at

watchVars == <<shuffleVars, panicVars, leakVars>>
goroutineVars == <<part, clientVars, nemesesVars, watchVars>>

(* The parts that are not looked at start in one state. *)
GoroutinesInit ==
  /\ part \in {"clients", "nemeses", "shuffle", "panic", "leak"}
  /\ RoundInit /\ ctxDone = FALSE /\ fatal = FALSE
  /\ NemesesInit /\ ShuffleInit /\ PanicInit /\ LeakInit
  /\ file = IF part = "clients" THEN << DumpRec >> ELSE << >>
  /\ isOpen = (part = "clients")
  /\ part # "nemeses" => cl = "absent"
  /\ part # "shuffle" => regions[1].leader = Min(regions[1].peers) /\ 1 \in regions[1].peers
  /\ part # "leak" => silent /\ leakState = "off"

ClientsStep(A) ==
  part = "clients" /\ A /\ UNCHANGED <<part, nemesisVars, s, cl, clusterVars, watchVars>>

NemesesStep(A) == part = "nemeses" /\ A /\ UNCHANGED <<part, clientVars, watchVars>>

LeakChecks ==
  /\ part = "leak" /\ LeakStep
  /\ UNCHANGED <<part, clientVars, nemesesVars, shuffleVars, panicVars>>

GoroutinesNext ==
  \/ ClientsStep(Next)
  \/ NemesesStep(NemesesNext)
  \/ /\ part = "shuffle" /\ ShuffleNext
     /\ UNCHANGED <<part, clientVars, nemesesVars, panicVars, leakVars>>
  \/ /\ part = "panic" /\ PanicNext
     /\ UNCHANGED <<part, clientVars, nemesesVars, shuffleVars, leakVars>>
  \/ /\ part = "leak" /\ LeakNext
     /\ UNCHANGED <<part, clientVars, nemesesVars, shuffleVars, panicVars>>

(* The scheduler runs the loops and their tickers, the dispatcher, the     *)
(* operations and the plugins; requests return.  Loops and operations take *)
(* finitely many steps, so one of them being run is all that is needed.    *)
(* Nothing is assumed of the contexts, nor of the cluster.                 *)
Runs ==
  \/ ClientsStep(\E c \in Clients : LoopStep(c) \/ TickerStep(c))
  \/ NemesesStep(NemesisDispatcher)
  \/ LeakChecks

GoroutinesFairness ==
  /\ WF_goroutineVars(Runs)
  /\ WF_goroutineVars(NemesesStep(NemesisClient))
  /\ WF_goroutineVars(NemesesStep(\E o \in Operations : NemesisOperation(o)))

GoroutinesSpec == GoroutinesInit /\ [][GoroutinesNext]_goroutineVars /\ GoroutinesFairness
-----------------------------------------------------------------------------
(* Each round ends: all loops return, whether the budget or the context    *)
(* ends them and whatever the tickers do, unless the process is killed.    *)
RoundEnds == part = "clients" ~> fatal \/ LoopsDone

(* Until its context ends, the dispatcher comes back to the first          *)
(* generator: however the operations fare, no generator keeps it and the   *)
(* iterator, which only moves on, is reset at its end.                     *)
GeneratorsRotate ==
  part = "nemeses" /\ ~ Coordinated ~> gen = 1 \/ nctxDone
-----------------------------------------------------------------------------
(* Two throttled clients and one request; a TiKV and a PD pod and one     *)
(* generator of every sort, the nil operation of netem's among them; three *)
(* stores; two servers; two TiDB pods.                                     *)

CONSTANTS kv, pd

MCComponent == (kv :> "tikv") @@ (pd :> "pd")
MCGenerators ==
  << killGenerate("kill_tikv_1node_5min"), netemGenerate("delay"), scalingGenerate,
     schedulerGenerate("shuffle-leader-scheduler"), leaderShuffleGenerate >>
MCOperations == UNION {UNION MCGenerators[i] : i \in DOMAIN MCGenerators}
MCNilOps == {NilOp}
MCTemplate == [g \in Signatures |-> IF g = "known" THEN 30 ELSE 0]
=============================================================================

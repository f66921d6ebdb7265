----------------------------- MODULE MCTxnCases -----------------------------
(***************************************************************************)
(* The cases whose histories are checked against a sequential model or for *)
(* forks.  A process runs one of them.                                     *)
(***************************************************************************)
EXTENDS Registers, Banks

vars == <<caseVars, txnVars, lfVars>>

(* The states a round may begin in: those SetUp or an earlier round left. *)
DumpedStates ==
  CASE case = "register" -> {[k \in {"r"} |-> registerInit]}
    [] case = "cas-register" -> {[k \in {"r"} |-> casRegisterInit]}
    [] case = "rawkv" -> [Keys -> {0}]
    [] case = "bank" -> {bankInit, [bankInit EXCEPT ![0] = @ + Amount, ![1] = @ - Amount]}
    [] case = "vbank" -> {vbInit, [vbInit EXCEPT ![0] = @ + VBInitialBalance, ![1] = Gone]}
    [] case = "long-fork" -> {[k \in LFKeys |-> 0]}

Init ==
  /\ CaseInit({"register", "cas-register", "rawkv", "bank", "vbank", "long-fork"})
  /\ TxnInit(DumpedStates)
  /\ LFInit

Step ==
  \/ (RegisterNext \/ BankNext \/ VBankNext) /\ UNCHANGED lfVars
  \/ LongForkNext

Stop == case = "vbank" /\ Expire /\ UNCHANGED <<txnVars, lfVars>>

Next == Step \/ Stop

Spec == Init /\ [][Next]_vars
-----------------------------------------------------------------------------


(* Two transfers that both succeeded although one had read what the other  *)
(* overwrote do not go by; the sequential model alone would let them, as   *)
(* it does not look at the balances a transfer saw.                        *)
LostUpdateIsCaught ==
  /\ case = "bank" /\ "lost update" \in broken
  /\ \A o \in DOMAIN Recorded : ~ op[o].out.unknown
  => outcome # "returned"

(* "Here T1 is successful, but T2 is unknown, it is fine now"              *)
(* (mergeTransferEvents): a transfer whose outcome is unknown is no reason *)
(* for an alarm.                                                           *)
UnknownIsFine == outcome = "tso alarm" => broken # {} \/ snaps[1].db # bankInit
-----------------------------------------------------------------------------


OpsOf == [c \in {"register", "cas-register", "rawkv", "bank", "vbank", "long-fork"} |->
            IF c = "long-fork" THEN 4 ELSE 3]
=============================================================================

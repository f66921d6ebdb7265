------------------------------ MODULE MCCases -------------------------------
(***************************************************************************)
(* The cases that schedule themselves and check as they go: they test      *)
(* timestamps, locks, expiry and stale reads, or move money and add it up. *)
(* A process runs one of them; the state of the others stays as it is.     *)
(***************************************************************************)
EXTENDS TimeCases, KVCases, Transfers

kvVars == <<tsoVars, resolveVars, ttlVars, staleVars>>
sqlVars == <<txnVars, moneyVars, cdcVars>>
vars == <<caseVars, kvVars, sqlVars>>

Init ==
  /\ CaseInit({"tso", "resolve-lock", "ttl", "stale-read", "bank-case", "bank2",
               "ledger", "cdc-bank"})
  /\ TSOInit /\ ResolveInit /\ TTLInit /\ StaleInit
  /\ TxnInit({Balances}) /\ TransferInit /\ CdcInit

KvStep ==
  \/ TSONext /\ UNCHANGED <<resolveVars, ttlVars, staleVars, sqlVars>>
  \/ ResolveNext /\ UNCHANGED <<tsoVars, ttlVars, staleVars, sqlVars>>
  \/ TTLNext /\ UNCHANGED <<tsoVars, resolveVars, staleVars, sqlVars>>
  \/ StaleNext /\ UNCHANGED <<tsoVars, resolveVars, ttlVars, sqlVars>>
CdcStep == CdcNext /\ UNCHANGED <<kvVars, txnVars, moneyVars>>
Mover == MoneyStep /\ UNCHANGED <<kvVars, cdcVars>>

(* TSORequests are counted, not timed; the other cases watch the context. *)
Stop == case # "tso" /\ Expire /\ UNCHANGED <<kvVars, sqlVars>>

Next ==
  \/ KvStep \/ CdcStep \/ Stop
  \/ TransfersNext /\ UNCHANGED <<kvVars, cdcVars>>

(* The goroutines of Start run, statements return, and the context ends.   *)
(* A verifier of the money cases may tick as often as it likes.            *)
Spec ==
  /\ Init /\ [][Next]_vars
  /\ WF_vars(KvStep \/ CdcStep \/ Mover)
  /\ WF_vars(Stop)
-----------------------------------------------------------------------------
Blames == outcome = "alarm" \/ \E w \in Workers : worker[w].pc = "alarm"


(* A lock that garbage collection left behind, and a time to live that was *)
(* not kept, never go by: no further round begins.                         *)
DamageIsNoticed ==
  broken # {} =>
    /\ case = "resolve-lock" => rl.pc # "top"
    /\ case = "ttl" => \A w \in Workers : worker[w].pc # "loop"

(* The account that bank, bank2 and cdc-bank draw from holds enough.       *)
NothingOverdrawn ==
  /\ case \in {"bank-case", "bank2"} => \A a \in MoneyAccounts : Now[a] >= 0
  /\ case = "cdc-bank" => \A a \in CdcAccounts : Upstream[a] >= 1

-----------------------------------------------------------------------------
(* Two data centres with two PD members each; two regions; one ttl worker; *)
(* two movers and two transfers over three accounts; two connections of    *)
(* cdc-bank, a mark every second turn, one validator.                      *)

TwoDCs == <<"dc1","dc2">>
TwoEach == [dc \in {"global", "dc1", "dc2"} |-> {dc \o "a", dc \o "b"}]
OpsOf == [c \in {"tso", "resolve-lock", "ttl", "stale-read", "bank-case", "bank2",
                 "ledger", "cdc-bank"} |-> 2]
=============================================================================

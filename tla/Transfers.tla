----------------------------- MODULE Transfers ------------------------------
(***************************************************************************)
(* The cases that move money and add it up again, here or downstream.      *)
(***************************************************************************)
EXTENDS Txns, Case, FiniteSetsExt, SequencesExt
-----------------------------------------------------------------------------
(***************************************************************************)
(* The cases that move money while a verifier adds it up: testcase/bank,   *)
(* testcase/bank2 and testcase/ledger.  Start runs the movers until the    *)
(* context is done; the verifier was started by SetUp.  A balance of the   *)
(* ledger is that of an account's last posting.                            *)
(***************************************************************************)

CONSTANTS
  MoneyAccounts, MoneyInitial, MoneyAmounts,
  TiFlashDataReplicas,
  VerifyTimeout         \* bank: failed verifications in a row that are tolerated

VARIABLES
  verifier,             \* [pc, since]: since counts the failures in a row
  stop                  \* the atomic flag of the client

moneyVars == <<verifier, stop>>

TransferInit ==
  /\ verifier = [pc |-> "wait", since |-> 0]
  /\ stop = FALSE

(* What initDB and SetUp of the others insert. *)
Balances == [a \in MoneyAccounts |-> IF case = "ledger" THEN 0 ELSE MoneyInitial]
ExpectedTotal == IF case = "ledger" THEN 0 ELSE Cardinality(MoneyAccounts) * MoneyInitial
Total(view) == MapThenSumSet(LAMBDA a : view[a], DOMAIN view)
-----------------------------------------------------------------------------
(* moveMoney and ExecuteLedger. *)
MoneyRequests == {r \in [from : MoneyAccounts, to : MoneyAccounts, amount : MoneyAmounts] : r.from # r.to}

Moved(inp, view) ==
  [a \in {inp.from, inp.to} |-> IF a = inp.from THEN view[a] - inp.amount
                                ELSE view[a] + inp.amount]


execUntested(inp, view, tso) ==
  {[out |-> [unknown |-> FALSE], writes |-> Moved(inp, view),
    locks |-> {inp.from, inp.to}, pc |-> "commit"]}

(* execTransaction and doPosting: both balances are read for update.  The  *)
(* ledger lets a balance become negative.                                  *)
execTransaction(inp, view, tso) ==
  {IF case # "ledger" /\ view[inp.from] < inp.amount
   THEN [out |-> [unknown |-> FALSE], writes |-> <<>>, locks |-> {}, pc |-> "done"]
   ELSE [out |-> [unknown |-> FALSE], writes |-> Moved(inp, view),
         locks |-> {inp.from, inp.to}, pc |-> "commit"]}

moveFailed(inp) == [unknown |-> TRUE]
moveCommitFailed(o) == {[unknown |-> TRUE]}

Move ==
  \/ ~ stop /\ Call(MoneyRequests)
  \/ \E o \in Ops :
       \/ \E view \in Views : Execute(o, view, execTransaction(op[o].inp, view, NextTso))
       \/ Abandon(o, moveFailed(op[o].inp))
       \/ Commit(o)
       \/ LandLate(o)
       \/ CommitFailed(o, moveCommitFailed(op[o]))

-----------------------------------------------------------------------------
(* A verification that comes to no result.  Only bank counts those. *)
NotVerified ==
  IF case = "bank-case" /\ verifier.since >= VerifyTimeout
  THEN verifier' = [verifier EXCEPT !.pc = "timeout"] /\ stop' = TRUE
  ELSE /\ verifier' = [verifier EXCEPT !.since = IF case = "bank-case" THEN @ + 1 ELSE 0]
       /\ UNCHANGED stop

WrongTotal == verifier' = [verifier EXCEPT !.pc = "fatal"] /\ stop' = TRUE
Verified == verifier' = [verifier EXCEPT !.since = 0] /\ UNCHANGED stop

(* What TiFlash answers; an unsound one has lost something. *)
FlashTotals(view) == {Total(view)} \cup (IF MayBreak THEN {Total(view) - 1} ELSE {})

(* verify: a sum in one snapshot, then one from TiFlash.  By then bank has *)
(* committed the transaction, and every statement of it fails.  The ticks  *)
(* follow the context of SetUp, which outlives that of Start.              *)
verify ==
  /\ verifier.pc = "wait"
  /\ \/ NotVerified /\ UNCHANGED broken
     \/ \E view \in Views :
          \/ /\ Total(view) # ExpectedTotal
             /\ WrongTotal
             /\ broken' = IF view = Now THEN broken ELSE broken \cup {"view"}
          \/ /\ Total(view) = ExpectedTotal
             /\ TiFlashDataReplicas = 0 /\ Verified /\ UNCHANGED broken
          \/ /\ Total(view) = ExpectedTotal
             /\ TiFlashDataReplicas > 0 /\ case = "bank-case" /\ NotVerified /\ UNCHANGED broken
          \/ /\ Total(view) = ExpectedTotal
             /\ TiFlashDataReplicas > 0 /\ case # "bank-case"
             /\ \E total \in FlashTotals(view) :
                  /\ IF total = ExpectedTotal THEN Verified ELSE WrongTotal
                  /\ broken' = IF total = Total(view) THEN broken ELSE broken \cup {"tiflash"}
  /\ Continue
  /\ UNCHANGED txnVars

(* The movers have seen the flag: log.Fatal. *)
MoneyFatal ==
  /\ verifier.pc \in {"fatal", "timeout"} /\ Open = {}
  /\ End(IF verifier.pc = "fatal" THEN "alarm" ELSE "failed")
  /\ UNCHANGED <<broken, txnVars, moneyVars>>


(* The movers return when the context is done; those of bank and bank2     *)
(* when they see the flag, too.                                            *)
MoneyReturns ==
  /\ Open = {} /\ (ctx = "done" \/ (stop /\ case # "ledger"))
  /\ End("returned")
  /\ UNCHANGED <<broken, txnVars, moneyVars>>

MoneyRunning == outcome = "running" /\ case \in {"bank-case", "bank2", "ledger"}
MoneyStep == MoneyRunning /\ ((Move /\ UNCHANGED moneyVars) \/ MoneyFatal \/ MoneyReturns)
TransfersNext == MoneyStep \/ (MoneyRunning /\ verify)
-----------------------------------------------------------------------------
(***************************************************************************)
(* The cdc-bank case (tests/cdc-bank/bank.go): connections move money in   *)
(* the upstream cluster; each time their common counter reaches a multiple *)
(* of DDLEvery, one creates a table and hands its name to a validator,     *)
(* which waits for the table downstream and adds up the balances as of the *)
(* end of that DDL.  Both clusters and the replication are external: the   *)
(* upstream log holds the balances after each transfer and the tables.     *)
(***************************************************************************)

CONSTANTS
  Conns, Validators,    \* goroutines
  CdcAccounts, CdcInitial,
  MaxAmount,            \* initBalance / 10
  DDLEvery,             \* 1000
  MaxCount              \* bound: turns of the connections

VARIABLES
  ulog,                 \* external: [table, balances]; table 0 for a transfer
  applied,              \* external: the entries that have come downstream
  lost,                 \* external: the entry an unsound replication did not apply in full
  count, tblChan,       \* the counter, and the channel of capacity 1
  conn, validator       \* [pc, tbl]

cdcVars == <<ulog, applied, lost, count, tblChan, conn, validator>>

CdcInit ==
  /\ ulog = <<[table |-> 0, balances |-> [a \in CdcAccounts |-> CdcInitial]]>>
  /\ applied = 1 /\ lost = 0
  /\ count = 0 /\ tblChan = << >>
  /\ conn = [c \in Conns |-> [pc |-> "loop", tbl |-> 0]]
  /\ validator = [v \in Validators |-> [pc |-> "select", tbl |-> 0]]

Upstream == Last(ulog).balances
-----------------------------------------------------------------------------
(* One turn: a DDL is due, or a transfer is made, or one fails.  The       *)
(* amount leaves something in the account; drawing it from an empty        *)
(* account would panic.                                                    *)
Turn(c) ==
  /\ conn[c].pc = "loop" /\ ctx = "live" /\ count < MaxCount
  /\ count' = count + 1
  /\ IF count' % DDLEvery = 0
     THEN conn' = [conn EXCEPT ![c].pc = "ddl"] /\ Continue /\ UNCHANGED ulog
     ELSE /\ UNCHANGED conn
          /\ \/ Continue /\ UNCHANGED ulog
             \/ \E from, to \in CdcAccounts :
                  /\ from # to
                  /\ LET max == Min({MaxAmount, Upstream[from]}) IN
                     \/ max <= 0 /\ End("failed") /\ UNCHANGED ulog
                     \/ \E amount \in 0 .. max - 1 :
                          /\ ulog' = Append(ulog, [table |-> 0,
                                       balances |-> [Upstream EXCEPT ![from] = @ - amount, ![to] = @ + amount]])
                          /\ Continue
  /\ UNCHANGED <<broken, applied, lost, tblChan, validator>>

(* The table is named after the counter as it is by now, so two may have   *)
(* one name.  mustExec: three attempts, then log.Fatal; once the context   *)
(* is done an error goes unnoticed.                                        *)
CreateTable(c) ==
  /\ conn[c].pc = "ddl"
  /\ \/ /\ ctx = "live"
        /\ ulog' = IF \E i \in DOMAIN ulog : ulog[i].table = count THEN ulog
                   ELSE Append(ulog, [table |-> count, balances |-> Upstream])
        /\ conn' = [conn EXCEPT ![c] = [pc |-> "send", tbl |-> count]] /\ Continue
     \/ /\ ctx = "live" /\ End("failed") /\ UNCHANGED <<ulog, conn>>
     \/ /\ ctx = "done"
        /\ conn' = [conn EXCEPT ![c] = [pc |-> "send", tbl |-> count]] /\ Continue /\ UNCHANGED ulog
  /\ UNCHANGED <<broken, applied, lost, count, tblChan, validator>>

(* The send does not look at the context. *)
Send(c) ==
  /\ conn[c].pc = "send" /\ Len(tblChan) < 1
  /\ tblChan' = Append(tblChan, conn[c].tbl)
  /\ conn' = [conn EXCEPT ![c] = [pc |-> "loop", tbl |-> 0]]
  /\ Continue
  /\ UNCHANGED <<broken, ulog, applied, lost, count, validator>>

ConnEnds(c) ==
  /\ conn[c].pc = "loop" /\ ctx = "done"
  /\ conn' = [conn EXCEPT ![c].pc = "ended"]
  /\ Continue
  /\ UNCHANGED <<broken, ulog, applied, lost, count, tblChan, validator>>
-----------------------------------------------------------------------------
(* The next entry comes downstream. *)
Replicate ==
  /\ applied < Len(ulog)
  /\ applied' = applied + 1
  /\ \/ UNCHANGED <<lost, broken>>
     \/ MayBreak /\ lost' = applied' /\ broken' = broken \cup {"replication"}
  /\ Continue
  /\ UNCHANGED <<ulog, count, tblChan, conn, validator>>

(* Of the ready cases of a select any may be taken. *)
Receive(v) ==
  /\ validator[v].pc = "select" /\ tblChan # << >>
  /\ validator' = [validator EXCEPT ![v] = [pc |-> "table", tbl |-> Head(tblChan)]]
  /\ tblChan' = Tail(tblChan)
  /\ Continue
  /\ UNCHANGED <<broken, ulog, applied, lost, count, conn>>

ValidatorEnds(v) ==
  /\ validator[v].pc = "select" /\ ctx = "done"
  /\ validator' = [validator EXCEPT ![v].pc = "ended"]
  /\ Continue
  /\ UNCHANGED <<broken, ulog, applied, lost, count, tblChan, conn>>

Created(tbl) == {i \in 1 .. applied : ulog[i].table = tbl}

(* waitTable: a query whose context is done fails, which is fatal; so is a *)
(* table that the DDL history does not show when the wait has timed out.   *)
WaitTable(v) ==
  /\ validator[v].pc = "table"
  /\ \/ /\ Created(validator[v].tbl) # {}
        /\ validator' = [validator EXCEPT ![v].pc = "check"] /\ Continue
     \/ /\ ctx = "done" \/ Created(validator[v].tbl) = {}
        /\ End("failed") /\ UNCHANGED validator
  /\ UNCHANGED <<broken, ulog, applied, lost, count, tblChan, conn>>

(* getDDLEndTs and the sum: an end time that is not known, and errors of   *)
(* the queries, skip the check.                                            *)
CheckSum(v) ==
  /\ validator[v].pc = "check"
  /\ LET at == Max(Created(validator[v].tbl))
         sum == MapThenSumSet(LAMBDA a : ulog[at].balances[a], CdcAccounts)
                - (IF lost \in 1 .. at THEN 1 ELSE 0)
     IN \/ validator' = [validator EXCEPT ![v] = [pc |-> "select", tbl |-> 0]] /\ Continue
        \/ sum # Cardinality(CdcAccounts) * CdcInitial /\ End("alarm") /\ UNCHANGED validator
        \/ End("failed") /\ UNCHANGED validator
  /\ UNCHANGED <<broken, ulog, applied, lost, count, tblChan, conn>>

CdcReturns ==
  /\ \A c \in Conns : conn[c].pc = "ended"
  /\ \A v \in Validators : validator[v].pc = "ended"
  /\ End("returned")
  /\ UNCHANGED <<broken, cdcVars>>

CdcNext ==
  /\ Running("cdc-bank")
  /\ \/ \E c \in Conns : Turn(c) \/ CreateTable(c) \/ Send(c) \/ ConnEnds(c)
     \/ \E v \in Validators : Receive(v) \/ ValidatorEnds(v) \/ WaitTable(v) \/ CheckSum(v)
     \/ Replicate \/ CdcReturns

(* The validators are gone and the channel is full. *)
SenderStuck ==
  /\ \A v \in Validators : validator[v].pc = "ended"
  /\ tblChan # << >> /\ \E c \in Conns : conn[c].pc = "send"
=============================================================================

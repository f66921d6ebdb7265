------------------------------- MODULE Banks --------------------------------
(***************************************************************************)
(* The bank clients whose histories are checked by porcupine.              *)
(***************************************************************************)
EXTENDS Txns
-----------------------------------------------------------------------------
(***************************************************************************)
(* The bank workload (db/tidb/bank.go; db/tidb/multi_bank.go is the same   *)
(* with a table per account) and its two checkers: the sequential model    *)
(* that porcupine replays, and bankTsoChecker, which orders the            *)
(* transactions by their start timestamps.                                 *)
(***************************************************************************)

CONSTANTS
  Accounts, InitBalance, Amount

bankInit == [a \in Accounts |-> InitBalance]

bankResponse ==
  [ok |-> FALSE, unknown |-> FALSE, tso |-> 0, from |-> 0, to |-> 0, balances |-> <<>>]

bankNextRequest == {[op |-> "read"]} \cup
  {r \in [op : {"transfer"}, from : Accounts, to : Accounts] : r.from # r.to}

(* Invoke and invokeRead: the balances are read for update. *)
bankInvoke(inp, view, tso) ==
  IF inp.op = "read"
  THEN {[out |-> [bankResponse EXCEPT !.balances = view, !.tso = tso],
         writes |-> <<>>, locks |-> {}, pc |-> "done"]}
  ELSE IF view[inp.from] < Amount
  THEN {[out |-> bankResponse, writes |-> <<>>, locks |-> {}, pc |-> "done"]}
  ELSE {[out |-> [bankResponse EXCEPT !.ok = TRUE, !.tso = tso,
                    !.from = view[inp.from], !.to = view[inp.to]],
         writes |-> [a \in {inp.from, inp.to} |-> IF a = inp.from THEN view[a] - Amount
                                                  ELSE view[a] + Amount],
         locks |-> {inp.from, inp.to}, pc |-> "commit"]}

bankFailed(inp) == [bankResponse EXCEPT !.unknown = (inp.op = "read")]
bankCommitFailed(o) == {[o.out EXCEPT !.ok = FALSE, !.unknown = TRUE]}

bankStep(st, inp, out) ==
  CASE inp.op = "read" -> [ok |-> out.unknown \/ out.balances = st, st |-> st]
    [] inp.op # "read" /\ ~ out.ok /\ ~ out.unknown -> [ok |-> TRUE, st |-> st]
    [] OTHER -> [ok |-> TRUE, st |-> [st EXCEPT ![inp.from] = @ - Amount, ![inp.to] = @ + Amount]]
-----------------------------------------------------------------------------
(* Of an account: its balance before and after the transfer e. *)
GetBalances(a, e) ==
  IF a = op[e].inp.from THEN <<op[e].out.from, op[e].out.from - Amount>>
  ELSE <<op[e].out.to, op[e].out.to + Amount>>

(* The operations that have a timestamp, in its order. *)
generateTsoEvents ==
  SetToSortSeq({o \in DOMAIN Recorded : op[o].out.tso # 0}, LAMBDA x, y : op[x].out.tso < op[y].out.tso)


(* st is [ok, poss, unk]: the events an account may be at, and those whose *)
(* outcome is still unknown.  Which balance an account had may settle the  *)
(* outcome of the event that left it there.                                *)
checkBalance(st, a, balance) ==
  LET events == st.poss[a]
      fits == {i \in DOMAIN events : \E j \in 1 .. 2 : GetBalances(a, events[i])[j] = balance}
      last == events[Max(fits)]
  IN  IF events = <<>> THEN [st EXCEPT !.ok = (balance = InitBalance)]
      ELSE IF fits = {} THEN [st EXCEPT !.ok = FALSE]
      ELSE IF GetBalances(a, last)[2] = balance THEN [st EXCEPT !.unk = @ \ {last}]
      ELSE st

(* Mutant of checkTransferEvents: a transfer follows from any earlier one. *)
checkSomeChain(st, a) ==
  LET known == SelectSeq(st.poss[a], LAMBDA e : e \notin st.unk)
  IN  \A i \in 1 .. Len(known) - 1 :
        \E j \in 1 .. i : \E k \in 1 .. 2 :
          GetBalances(a, known[j])[k] = GetBalances(a, known[i + 1])[1]

(* The transfers that succeeded form a chain. *)
checkTransferEvents(st, a) ==
  LET known == SelectSeq(st.poss[a], LAMBDA e : e \notin st.unk)
  IN  \A i \in 1 .. Len(known) - 1 :
        GetBalances(a, known[i])[2] = GetBalances(a, known[i + 1])[1]

(* Everything before the last transfer that succeeded is settled. *)
FromLastKnown(st, a) ==
  LET known == {i \in DOMAIN st.poss[a] : st.poss[a][i] \notin st.unk}
  IN  IF known = {} THEN st.poss[a] ELSE SubSeq(st.poss[a], Max(known), Len(st.poss[a]))

mergeTransferEvents(st, a, e) ==
  LET checked == checkBalance(st, a, GetBalances(a, e)[1])
      merged == [checked EXCEPT !.poss[a] = Append(@, e)]
  IN  IF ~ checked.ok THEN checked
      ELSE IF ~ checkTransferEvents(merged, a) THEN [merged EXCEPT !.ok = FALSE]
      ELSE [merged EXCEPT !.poss[a] = FromLastKnown(merged, a)]

verifyReadEvent(st, e) ==
  LET balances == op[e].out.balances
      Read(s, a) == IF s.ok THEN checkBalance(s, a, balances[a]) ELSE s
      checked == FoldLeft(Read, st, SetToSortSeq(Accounts, <))
  IN  [checked EXCEPT !.ok = @ /\ MapThenSumSet(LAMBDA a : balances[a], Accounts)
                                    = Cardinality(Accounts) * InitBalance]

verifyTsoEvents ==
  LET Merge(s, a, e) == IF s.ok THEN mergeTransferEvents(s, a, e) ELSE s
      Event(s, e) == IF ~ s.ok THEN s
                     ELSE IF op[e].inp.op = "read" THEN verifyReadEvent(s, e)
                     ELSE Merge(Merge(s, op[e].inp.from, e), op[e].inp.to, e)
  IN  FoldLeft(Event, [ok |-> TRUE, poss |-> [a \in Accounts |-> <<>>],
                       unk |-> {o \in DOMAIN Recorded : op[o].out.unknown}],
               generateTsoEvents).ok
-----------------------------------------------------------------------------
(* Both checkers see the history. *)
bankVerdict ==
  IF ~ Linearizable(Recorded, snaps[1].db, bankStep) THEN "alarm"
  ELSE IF ~ verifyTsoEvents THEN "tso alarm"
  ELSE "returned"

BankNext ==
  /\ Running("bank")
  /\ \/ Call(bankNextRequest)
     \/ \E o \in Ops :
          \/ \E view \in Views : Execute(o, view, bankInvoke(op[o].inp, view, NextTso))
          \/ Abandon(o, bankFailed(op[o].inp))
          \/ Commit(o)
          \/ LandLate(o)
          \/ CommitFailed(o, bankCommitFailed(op[o]))
     \/ Check(bankVerdict)
-----------------------------------------------------------------------------
(***************************************************************************)
(* The vbank case (testcase/vbank/client.go): transfers between accounts   *)
(* that are also created and deleted.  Every transaction that may write    *)
(* also writes a row of v_bank_txn_status under its start timestamp, from  *)
(* which the client tells the outcome of a commit that failed.             *)
(***************************************************************************)

CONSTANTS
  VBAccounts,                       \* 0 .. vbAccountNum - 1
  VBInitialBalance, VBCreateInitialBalance,
  VBCreateMinimum,                  \* what account 0 must hold
  VBAmounts,
  UpdateInPlace                     \* of the Config

Gone == -1
Others == VBAccounts \ {0}

vbInit == [a \in VBAccounts |-> VBInitialBalance]

VBReqType == {"read", "transfer", "create", "delete"}
VBResponse ==
  [ok |-> FALSE, unknown |-> FALSE, aborted |-> FALSE, id |-> 0, to |-> 0, amount |-> 0, accounts |-> <<>>]

VBGo(out, writes) == [out |-> out, writes |-> writes, locks |-> DOMAIN writes, pc |-> "commit"]
VBAborted == VBGo([VBResponse EXCEPT !.ok = TRUE, !.aborted = TRUE], <<>>)
VBError == [out |-> VBResponse, writes |-> <<>>, locks |-> {}, pc |-> "done"]

invokeTransferSelectForUpdate(view, from, to, amount) ==
  IF view[from] = Gone \/ view[from] < amount \/ view[to] = Gone THEN VBAborted
  ELSE VBGo([VBResponse EXCEPT !.ok = TRUE, !.id = from, !.to = to, !.amount = amount],
            [a \in {from, to} |-> IF a = from THEN view[a] - amount ELSE view[a] + amount])

(* Here an account may transfer to itself. *)
invokeTransferUpdateInPlace(view, from, to, amount) ==
  IF view[from] = Gone \/ view[from] < amount THEN VBAborted
  ELSE IF view[to] = Gone THEN VBError
  ELSE VBGo([VBResponse EXCEPT !.ok = TRUE, !.id = from, !.to = to, !.amount = amount],
            [a \in {from, to} |-> CASE from = to -> view[a]
                                    [] a = from -> view[a] - amount
                                    [] OTHER -> view[a] + amount])

invokeDeleteAccount(view, victim) ==
  IF view[victim] = Gone THEN VBAborted
  ELSE VBGo([VBResponse EXCEPT !.ok = TRUE, !.id = victim, !.amount = view[victim]],
            [a \in {0, victim} |-> IF a = 0 THEN view[0] + view[victim] ELSE Gone])

invokeCreateAccount(view, new) ==
  IF view[new] # Gone \/ view[0] < VBCreateMinimum THEN VBError
  ELSE VBGo([VBResponse EXCEPT !.ok = TRUE, !.id = new],
            [a \in {0, new} |-> IF a = 0 THEN view[0] - VBCreateInitialBalance
                                ELSE VBCreateInitialBalance])

(* The request says what to do; Invoke draws the accounts and the amount. *)
vbInvoke(inp, view, tso) ==
  CASE inp = "read" -> {VBGo([VBResponse EXCEPT !.ok = TRUE, !.accounts = view], <<>>)}
    [] inp = "transfer" /\ UpdateInPlace ->
         {invokeTransferUpdateInPlace(view, f, t, x) : f, t \in VBAccounts, x \in VBAmounts}
    [] inp = "transfer" /\ ~ UpdateInPlace ->
         UNION {{invokeTransferSelectForUpdate(view, f, t, x) : t \in VBAccounts \ {f}, x \in VBAmounts}
                  : f \in VBAccounts}
    [] inp = "create" -> {invokeCreateAccount(view, a) : a \in Others}
    [] inp = "delete" -> {invokeDeleteAccount(view, a) : a \in Others}

vbFailed(inp) == VBResponse

(* checkTxnStatus: is the status row there; a read has written none.  The  *)
(* question is asked until it is answered or the context is done.          *)
checkTxnStatus(o) == {o.srv = "landed" /\ o.inp # "read"} \cup (IF ctx = "done" THEN {FALSE} ELSE {})

vbCommitFailed(o) == {[o.out EXCEPT !.ok = committed] : committed \in checkTxnStatus(o)}
-----------------------------------------------------------------------------
(* The model's BankState, by account the balances listed under its ID. *)
VBState(db) == [a \in VBAccounts |-> IF db[a] = Gone THEN <<>> ELSE <<db[a]>>]

Add(balances, amount) == [i \in DOMAIN balances |-> balances[i] + amount]

vbStep(st, inp, out) ==
  CASE ~ out.ok \/ out.aborted -> [ok |-> TRUE, st |-> st]
    [] out.ok /\ inp = "read" -> [ok |-> st = VBState(out.accounts), st |-> st]
    [] out.ok /\ ~ out.aborted /\ inp = "transfer" ->
         [ok |-> TRUE,
          st |-> IF out.id = out.to THEN st
                 ELSE [st EXCEPT ![out.id] = Add(@, - out.amount), ![out.to] = Add(@, out.amount)]]
    [] out.ok /\ inp = "create" ->
         [ok |-> TRUE, st |-> [st EXCEPT ![0] = Add(@, - VBCreateInitialBalance),
                                         ![out.id] = Append(@, VBCreateInitialBalance)]]
    [] out.ok /\ ~ out.aborted /\ inp = "delete" ->
         [ok |-> TRUE, st |-> [st EXCEPT ![0] = Add(@, out.amount),
                                         ![out.id] = IF @ = <<>> THEN @ ELSE Tail(@)]]

vbVerdict == IF Linearizable(Recorded, VBState(snaps[1].db), vbStep) THEN "returned" ELSE "alarm"

VBankNext ==
  /\ Running("vbank")
  /\ \/ Call(VBReqType)
     \/ \E o \in Ops :
          \/ \E view \in Views : Execute(o, view, vbInvoke(op[o].inp, view, NextTso))
          \/ Abandon(o, vbFailed(op[o].inp))
          \/ Commit(o)
          \/ LandLate(o)
          \/ CommitFailed(o, vbCommitFailed(op[o]))
     \/ Check(vbVerdict)

(* A transaction was recorded as failed and has taken effect. *)
Misjudged ==
  \E o \in DOMAIN Recorded : op[o].srv = "landed" /\ ~ op[o].out.ok /\ op[o].writes # <<>>
=============================================================================

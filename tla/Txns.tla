-------------------------------- MODULE Txns --------------------------------
(***************************************************************************)
(* What the cases share that run transactions or check linearizability.    *)
(***************************************************************************)
EXTENDS Naturals, SequencesExt, Case
-----------------------------------------------------------------------------
(***************************************************************************)
(* What porcupine.Checker decides (pkg/check/porcupine/porcupine.go): is   *)
(* there an order of the operations that keeps their real-time order and   *)
(* that the model's Step accepts.  The search itself is in a library.      *)
(* ops[o] has the fields inp, out and after, the operations that returned  *)
(* before o was called; one of unknown outcome returns at the end of the   *)
(* history, so before no call.                                             *)
(***************************************************************************)

Orders(S) == {s \in [1 .. Cardinality(S) -> S] : \A i, j \in DOMAIN s : i # j => s[i] # s[j]}

KeepsRealTime(ops, s) == \A i, j \in DOMAIN s : i < j => s[j] \notin ops[s[i]].after

Linearizations(ops) == {s \in Orders(DOMAIN ops) : KeepsRealTime(ops, s)}

(* Step(state, inp, out) is [ok, st]. *)
Accepts(ops, s, init, Step(_, _, _)) ==
  LET Next(acc, o) == LET r == Step(acc.st, ops[o].inp, ops[o].out)
                      IN  [ok |-> acc.ok /\ r.ok, st |-> r.st]
  IN  FoldLeft(Next, [ok |-> TRUE, st |-> init], s).ok

Linearizable(ops, init, Step(_, _, _)) ==
  \E s \in Linearizations(ops) : Accepts(ops, s, init, Step)
-----------------------------------------------------------------------------
(***************************************************************************)
(* What the cases share that run transactions against a store and check    *)
(* the history afterwards: the store, and the stages of one call of        *)
(* Invoke.  The store is external: snapshot isolation, the first committer *)
(* wins; the reply to a commit may be lost, and a commit whose outcome the *)
(* client does not know may still take effect later.  An unsound store     *)
(* answers from an older state, or lets a conflicting commit through.      *)
(***************************************************************************)

CONSTANTS
  Clients,       \* how many operations may be open at once
  MaxOps         \* bound: operations of a round, by case

VARIABLES
  snaps,         \* external: the committed states in order, [db, wrote]
  op             \* [pc, cl, inp, after, tso, snap, out, writes, locks, srv]

txnVars == <<snaps, op>>

Ops == 1 .. MaxOps[case]
NoOp == [pc |-> "idle", cl |-> 0, inp |-> "none", after |-> {}, tso |-> 0, snap |-> 0,
         out |-> "none", writes |-> <<>>, locks |-> {}, srv |-> "none"]

TxnInit(states) ==
  /\ \E db \in states : snaps = <<[db |-> db, wrote |-> {}]>>
  /\ op = [o \in Ops |-> NoOp]

Open == {o \in Ops : op[o].pc \notin {"idle", "done"}}
Free == (1 .. Clients) \ {op[o].cl : o \in Open}
Recorded == [o \in {o \in Ops : op[o].pc = "done"} |-> op[o]]
-----------------------------------------------------------------------------
(* The store. *)
Now == Last(snaps).db
Conflict(o) ==
  \E i \in op[o].snap + 1 .. Len(snaps) : snaps[i].wrote \cap op[o].locks # {}

Land(o) ==
  snaps' = IF op[o].writes = <<>> THEN snaps ELSE Append(snaps, [db |-> [k \in DOMAIN Now |-> IF k \in DOMAIN op[o].writes
                                                       THEN op[o].writes[k] ELSE Now[k]],
                          wrote |-> DOMAIN op[o].writes])

(* What a transaction that starts now reads. *)
Views ==
  {Now} \cup (IF ~ MayBreak THEN {}
              ELSE {[k \in DOMAIN Now |-> IF k \in K THEN Now[k] ELSE snaps[i].db[k]] :
                      K \in SUBSET DOMAIN Now, i \in DOMAIN snaps})

(* Timestamps are unique and grow. *)
NextTso == 1 + Cardinality({o \in Ops : op[o].tso # 0})
-----------------------------------------------------------------------------
(* A client loop takes a request and records it. *)
CallBy(c, inp) ==
  \E o \in Ops :
    /\ ctx = "live"
    /\ op[o].pc = "idle" /\ \A p \in 1 .. o - 1 : op[p].pc # "idle"
    /\ op' = [op EXCEPT ![o] = [@ EXCEPT !.pc = "called", !.cl = c, !.inp = inp,
                                 !.after = {p \in Ops : op[p].pc = "done" /\ ~ op[p].out.unknown}]]
    /\ Continue
    /\ UNCHANGED <<broken, snaps>>

(* Where the clients are alike it does not matter which. *)
Call(requests) == Free # {} /\ \E inp \in requests : CallBy(Min(Free), inp)

(* Invoke up to the commit: `ways' are the ways to go on from what it      *)
(* reads, [out, writes, locks, pc].  A response is recorded at once; to    *)
(* record it later could only loosen the real-time order.                  *)
Execute(o, view, ways) ==
  /\ op[o].pc = "called"
  /\ \E r \in ways :
       /\ op' = [op EXCEPT ![o] = [@ EXCEPT !.pc = r.pc, !.tso = NextTso, !.snap = Len(snaps),
                                            !.out = r.out, !.writes = r.writes, !.locks = r.locks]]
       /\ broken' = IF view = Now THEN broken ELSE broken \cup {"view"}
  /\ Continue
  /\ UNCHANGED snaps

(* An error before the commit: nothing is written. *)
Abandon(o, out) ==
  /\ op[o].pc = "called"
  /\ op' = [op EXCEPT ![o].pc = "done", ![o].out = out]
  /\ Continue
  /\ UNCHANGED <<broken, snaps>>

(* Commit returns nil, or an error that says nothing about its outcome. *)
Commit(o) ==
  /\ op[o].pc = "commit"
  /\ \/ /\ ~ Conflict(o) \/ MayBreak
        /\ Land(o)
        /\ \E pc \in {"done", "error"} : op' = [op EXCEPT ![o].pc = pc, ![o].srv = "landed"]
        /\ broken' = IF Conflict(o) THEN broken \cup {"lost update"} ELSE broken
     \/ /\ op' = [op EXCEPT ![o].pc = "error", ![o].srv = "pending"]
        /\ UNCHANGED <<snaps, broken>>
  /\ Continue

(* A pending commit takes effect after all. *)
LandLate(o) ==
  /\ op[o].srv = "pending" /\ ~ Conflict(o)
  /\ Land(o)
  /\ op' = [op EXCEPT ![o].srv = "landed"]
  /\ Continue
  /\ UNCHANGED broken

(* What Invoke answers after a commit that failed. *)
CommitFailed(o, answers) ==
  /\ op[o].pc = "error"
  /\ \E out \in answers : op' = [op EXCEPT ![o].pc = "done", ![o].out = out]
  /\ Continue
  /\ UNCHANGED <<broken, snaps>>

(* The history is verified. *)
Check(verdict) ==
  /\ Open = {} /\ (ctx = "done" \/ \A o \in Ops : op[o].pc = "done")
  /\ End(verdict)
  /\ UNCHANGED <<broken, txnVars>>
=============================================================================

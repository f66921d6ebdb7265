----------------------------- MODULE Registers ------------------------------
(***************************************************************************)
(* The cases on rows that hold one value: the registers and long fork.     *)
(***************************************************************************)
EXTENDS Txns
-----------------------------------------------------------------------------
(***************************************************************************)
(* The cases whose operations are single reads and writes: the register    *)
(* and the cas-register of pkg/model, and testcase/rawkv-linearizability.  *)
(* The clients of the first two are not part of the program; any client    *)
(* of an atomic register stands for them.  A key is its own register.      *)
(***************************************************************************)

CONSTANTS
  Keys,          \* of rawkv
  Values         \* what is written; 0 is rawkv's hash of no value

NoValue == -1    \* the cas-register that was never written

Response == [value |-> 0, exists |-> FALSE, ok |-> FALSE, unknown |-> FALSE]
UnknownResponse == [Response EXCEPT !.unknown = TRUE]

Reply(out) == [out |-> out, writes |-> <<>>, locks |-> {}, pc |-> "done"]
Write(k, v, out, locks) == [out |-> out, writes |-> [x \in {k} |-> v], locks |-> locks, pc |-> "commit"]
-----------------------------------------------------------------------------
(* external: an atomic register under the one key "r". *)
RegisterRequests ==
  [op : {"read"}] \cup [op : {"write"}, arg1 : Values]
CasRegisterRequests ==
  RegisterRequests \cup [op : {"cas"}, arg1 : Values, arg2 : Values]

RegisterRun(inp, view, tso) ==
  {CASE inp.op = "read" -> Reply([Response EXCEPT !.value = view["r"], !.exists = view["r"] # NoValue])
     [] inp.op = "write" -> Write("r", inp.arg1, [Response EXCEPT !.ok = TRUE], {})
     [] inp.op = "cas" /\ view["r"] = inp.arg1 ->
          Write("r", inp.arg2, [Response EXCEPT !.ok = TRUE], {"r"})
     [] OTHER -> Reply(Response)}

registerInit == 0
registerStep(st, inp, out) ==
  IF inp.op = "read" THEN [ok |-> out.value = st \/ out.unknown, st |-> st]
  ELSE [ok |-> TRUE, st |-> inp.arg1]

casRegisterInit == NoValue
casRegisterStep(st, inp, out) ==
  CASE inp.op = "read" ->
         [ok |-> (~ out.exists /\ st = NoValue) \/ (out.exists /\ st = out.value) \/ out.unknown,
          st |-> st]
    [] inp.op = "write" -> [ok |-> TRUE, st |-> inp.arg1]
    [] OTHER -> [ok |-> out.unknown \/ out.ok = (inp.arg1 = st),
                 st |-> IF inp.arg1 = st THEN inp.arg2 ELSE st]
-----------------------------------------------------------------------------
(* rawkv: Op 0, 1 and 2 of a request are get, put and delete. *)
rawkvNextRequest ==
  [op : {"get", "delete"}, key : Keys] \cup [op : {"put"}, key : Keys, val : Values]

rawkvInvoke(inp, view, tso) ==
  {CASE inp.op = "get" -> Reply([Response EXCEPT !.value = view[inp.key]])
     [] inp.op = "put" -> Write(inp.key, inp.val, Response, {})
     [] OTHER -> Write(inp.key, 0, Response, {})}


(* An error of any call leaves its outcome open. *)
rawkvFailed(inp) == UnknownResponse
rawkvCommitFailed(o) == {UnknownResponse}

(* A put or delete always takes effect: one of unknown outcome comes last. *)
rawkvStep(st, inp, out) ==
  CASE inp.op = "get" -> [ok |-> out.unknown \/ st[inp.key] = out.value, st |-> st]
    [] inp.op = "put" -> [ok |-> TRUE, st |-> [st EXCEPT ![inp.key] = inp.val]]
    [] OTHER -> [ok |-> TRUE, st |-> [st EXCEPT ![inp.key] = 0]]
-----------------------------------------------------------------------------
(* Prepare and Init: the model starts from the dumped state. *)
RegisterVerdict ==
  IF CASE case = "register" -> Linearizable(Recorded, snaps[1].db["r"], registerStep)
       [] case = "cas-register" -> Linearizable(Recorded, snaps[1].db["r"], casRegisterStep)
       [] case = "rawkv" -> Linearizable(Recorded, snaps[1].db, rawkvStep)
  THEN "returned" ELSE "alarm"

RegisterStep(requests, Run(_, _, _)) ==
  \/ Call(requests)
  \/ \E o \in Ops :
       \/ \E view \in Views : Execute(o, view, Run(op[o].inp, view, NextTso))
       \/ Abandon(o, rawkvFailed(op[o].inp))
       \/ Commit(o)
       \/ LandLate(o)
       \/ CommitFailed(o, rawkvCommitFailed(op[o]))
  \/ Check(RegisterVerdict)

RegisterNext ==
  \/ Running("register") /\ RegisterStep(RegisterRequests, RegisterRun)
  \/ Running("cas-register") /\ RegisterStep(CasRegisterRequests, RegisterRun)
  \/ Running("rawkv") /\ RegisterStep(rawkvNextRequest, rawkvInvoke)
-----------------------------------------------------------------------------
(***************************************************************************)
(* The long-fork workload (db/tidb/long_fork.go): every key is written     *)
(* once, and reads of a whole group of keys must be comparable: two reads  *)
(* that each miss a write the other saw show a fork of the history.        *)
(***************************************************************************)

CONSTANTS
  LFGroupSize,
  LFKeys         \* bound: 0 .. n, whole groups

VARIABLES
  nextKey,       \* lfState.nextKey
  workers        \* lfState.workers: client -> the key it wrote last, or None

lfVars == <<nextKey, workers>>

None == -1
LFResponse == [ok |-> FALSE, unknown |-> FALSE, values |-> <<>>]

LFInit == nextKey = 0 /\ workers = [c \in 1 .. Clients |-> None]

makeKeysInGroup(key) == LET lower == key - (key % LFGroupSize) IN lower .. lower + LFGroupSize - 1

(* NextRequest, under the mutex: a client reads the group of the key it    *)
(* wrote last; then it reads another one's group, or writes a fresh key.   *)
LFCall(c) ==
  LET read(key) == CallBy(c, [kind |-> "read", keys |-> makeKeysInGroup(key)])
      others == {workers[d] : d \in 1 .. Clients} \ {None}
  IN
  /\ c \in Free
  /\ \/ /\ workers[c] # None
        /\ read(workers[c])
        /\ workers' = [workers EXCEPT ![c] = None]
        /\ UNCHANGED nextKey
     \/ /\ workers[c] = None
        /\ \E key \in others : read(key)
        /\ UNCHANGED lfVars
     \/ /\ workers[c] = None /\ nextKey \in LFKeys
        /\ CallBy(c, [kind |-> "write", keys |-> {nextKey}])
        /\ workers' = [workers EXCEPT ![c] = nextKey]
        /\ nextKey' = nextKey + 1

(* A missing row is read as a value that is not valid. *)
lfInvoke(inp, view, tso) ==
  {[out |-> [LFResponse EXCEPT !.ok = TRUE,
               !.values = IF inp.kind = "read" THEN [k \in inp.keys |-> view[k] # 0] ELSE <<>>],
    writes |-> IF inp.kind = "write" THEN [k \in inp.keys |-> 1] ELSE <<>>,
    locks |-> {}, pc |-> "commit"]}

lfFailed(inp) == LFResponse

(* A read whose Begin fails rolls back a transaction it does not have. *)
NilRollback(o) ==
  /\ op[o].pc = "called" /\ op[o].inp.kind = "read"
  /\ End("failed")
  /\ UNCHANGED <<broken, txnVars>>
lfCommitFailed(o) ==
  {IF o.inp.kind = "read" THEN [o.out EXCEPT !.ok = FALSE, !.unknown = TRUE] ELSE LFResponse}
-----------------------------------------------------------------------------
GroupReads == {o \in DOMAIN Recorded : op[o].out.ok /\ op[o].out.values # <<>>}

ensureNoLongForks ==
  \A p, q \in GroupReads :
    LET v == op[p].out.values
        w == op[q].out.values
    IN  DOMAIN v = DOMAIN w =>
          ~ ((\E k \in DOMAIN v : v[k] /\ ~ w[k]) /\ (\E k \in DOMAIN v : w[k] /\ ~ v[k]))

ensureNoMultipleWritesToOneKey ==
  \A p, q \in DOMAIN Recorded :
    p # q /\ op[p].inp.kind = "write" /\ op[q].inp.kind = "write" => op[p].inp.keys # op[q].inp.keys

lfVerdict ==
  IF ensureNoMultipleWritesToOneKey /\ ensureNoLongForks THEN "returned" ELSE "alarm"

LongForkNext ==
  /\ Running("long-fork")
  /\ \/ \E c \in 1 .. Clients : LFCall(c)
     \/ /\ UNCHANGED lfVars
        /\ \/ \E o \in Ops :
                \/ \E view \in Views : Execute(o, view, lfInvoke(op[o].inp, view, NextTso))
                \/ Abandon(o, lfFailed(op[o].inp))
                \/ NilRollback(o)
                \/ Commit(o)
                \/ LandLate(o)
                \/ CommitFailed(o, lfCommitFailed(op[o]))
           \/ Check(lfVerdict)
=============================================================================

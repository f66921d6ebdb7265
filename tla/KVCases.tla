------------------------------ MODULE KVCases -------------------------------
(***************************************************************************)
(* The cases that talk to TiKV: resolve-lock and ttl.                      *)
(***************************************************************************)
EXTENDS Case, FiniteSetsExt
-----------------------------------------------------------------------------
(***************************************************************************)
(* The resolve-lock case (testcase/resolve-lock/resolve_lock.go).  Every   *)
(* round writes locks in every region, then has TiDB collect garbage at a  *)
(* safe point while a second goroutine writes more locks, whose start      *)
(* timestamps count down from the round's first timestamp: these may       *)
(* survive the collection, the others may not, and CheckData looks for     *)
(* survivors.  TiKV and the garbage collector are external.  A lock is     *)
(* [r, h, ts]: its region (a table of its own), its handle and the start   *)
(* timestamp of its transaction.                                           *)
(***************************************************************************)

CONSTANTS
  Regions,         \* the tables, one region each
  LockPerRegion,   \* rows locked per table; one transaction holds them all
  ScanLimit,       \* locks one scan returns at most (10 in CheckData)
  MaxRounds,       \* bound: rounds before the context is done
  EnableGreenGC,
  RetryGC,         \* calls of resolveLocks before Start gives up (5)
  MaxLogical       \* rounds in a row without green GC that are tolerated (50)

VARIABLES
  clock,           \* external: PD's clock
  locks,           \* external: the locks in TiKV
  rl,              \* Start: [pc, ts, round, lastGreenGC, tries]
  safePoint, safeLockTs, mockLockTs, handleID,
  async            \* the goroutine of asyncGenerateLocksDuringGC: [pc, todo]

resolveVars == <<clock, locks, rl, safePoint, safeLockTs, mockLockTs, handleID, async>>

Base == 100        \* a clock far enough from 0 for the timestamps that count down

ResolveInit ==
  /\ clock = Base
  /\ locks = {}
  /\ rl = [pc |-> "top", ts |-> 0, round |-> 0, lastGreenGC |-> -1, tries |-> 0]
  /\ safePoint = 0 /\ safeLockTs = 0 /\ mockLockTs = 0 /\ handleID = 0
  /\ async = [pc |-> "none", todo |-> {}]

At(pc) == rl.pc = pc
To(pc) == rl' = [rl EXCEPT !.pc = pc]

(* getTs: an error of PD that goes on for too long is answered with 0. *)
GetTs(t) == (t = clock + 1 /\ clock' = t) \/ (t = 0 /\ UNCHANGED clock)

NotLocked(r, h) == \A l \in locks : <<l.r, l.h>> # <<r, h>>

(* lockBatch: one prewrite for the rows of a table.  It fails as a whole   *)
(* when a row is locked already, which is logged only.                     *)
Prewrite(r, h, t) ==
  IF \A i \in h .. h + LockPerRegion - 1 : NotLocked(r, i)
  THEN {[r |-> r, h |-> i, ts |-> t] : i \in h .. h + LockPerRegion - 1}
  ELSE {}
-----------------------------------------------------------------------------
(* The head of Start's loop; the context it is given is used here alone. *)
BeginRound ==
  /\ At("top")
  /\ \/ ctx = "done" /\ End("returned") /\ UNCHANGED <<rl, clock>>
     \/ ctx = "live" /\ rl.round < MaxRounds /\ \E t \in {0, clock + 1} :
          /\ GetTs(t)
          /\ \/ t = 0 /\ End("returned") /\ UNCHANGED rl
             \/ t # 0 /\ rl' = [rl EXCEPT !.pc = "generate", !.ts = t] /\ Continue
     \/ ctx = "live" /\ End("failed") /\ UNCHANGED <<rl, clock>>
  /\ UNCHANGED <<broken, locks, safePoint, safeLockTs, mockLockTs, handleID, async>>

(* generateLocks: the workers take the tables from a channel; one          *)
(* timestamp stands for those they draw.  A table may be skipped when PD   *)
(* is gone.  Start waits for all of them.                                  *)
GenerateLocks ==
  /\ At("generate")
  /\ \/ End("failed") /\ UNCHANGED <<rl, clock, locks>>
     \/ \E done \in SUBSET Regions :
          /\ locks' = locks \cup UNION {Prewrite(r, handleID, clock + 1) : r \in done}
          /\ clock' = clock + 1
          /\ To("async") /\ Continue
  /\ UNCHANGED <<broken, safePoint, safeLockTs, mockLockTs, handleID, async>>

asyncGenerateLocksDuringGC ==
  /\ At("async")
  /\ handleID' = LockPerRegion
  /\ safeLockTs' = rl.ts /\ mockLockTs' = rl.ts
  /\ async' = [pc |-> "running", todo |-> Regions]
  /\ To("safePoint") /\ Continue
  /\ UNCHANGED <<broken, clock, locks, safePoint>>

(* A worker of the goroutine takes a table: getLockTs counts down. *)
AsyncLock(r) ==
  /\ async.pc = "running" /\ r \in async.todo
  /\ async' = [async EXCEPT !.todo = @ \ {r}]
  /\ mockLockTs' = mockLockTs - 1
  /\ locks' = locks \cup Prewrite(r, handleID, mockLockTs - 1)
  /\ Continue
  /\ UNCHANGED <<broken, clock, rl, safePoint, safeLockTs, handleID>>

(* All tables done, the timeout of two seconds, an error, or cancel. *)
AsyncEnd ==
  /\ async.pc = "running"
  /\ async' = [pc |-> "ended", todo |-> {}]
  /\ Continue
  /\ UNCHANGED <<broken, clock, locks, rl, safePoint, safeLockTs, mockLockTs, handleID>>
-----------------------------------------------------------------------------
(* The safe point.  When PD gives no timestamp it is 0, and the test that  *)
(* follows looks at the round's first timestamp instead.                   *)
GetSafePoint ==
  /\ At("safePoint")
  /\ \/ End("failed") /\ UNCHANGED <<rl, clock, safePoint>>
     \/ \E t \in {0, clock + 1} :
          /\ GetTs(t) /\ safePoint' = t
          /\ rl' = [rl EXCEPT !.pc = "gc", !.tries = 0] /\ Continue
  /\ UNCHANGED <<broken, locks, safeLockTs, mockLockTs, handleID, async>>

Covered == {l \in locks : l.ts <= safePoint}
Unsafe == {l \in Covered : l.ts >= safeLockTs}

(* resolveLocks: TiDB resolves the locks up to the safe point.  It may do  *)
(* so by green GC (physical) or not; an unsound one leaves one that it has *)
(* to resolve.                                                             *)
ResolveLocks ==
  /\ At("gc")
  /\ \E physical \in BOOLEAN :
       /\ physical => EnableGreenGC
       /\ \/ locks' = locks \ Covered /\ UNCHANGED broken
          \/ /\ MayBreak
             /\ \E l \in Unsafe : locks' = locks \ (Covered \ {l})
             /\ broken' = broken \cup {"left"}
       /\ LET last == IF physical THEN rl.round ELSE rl.lastGreenGC
              tired == EnableGreenGC /\ rl.round - last > MaxLogical
          IN \/ tired /\ End("failed") /\ UNCHANGED rl
             \/ ~ tired /\ rl' = [rl EXCEPT !.pc = "wait", !.lastGreenGC = last] /\ Continue
  /\ UNCHANGED <<clock, safePoint, safeLockTs, mockLockTs, handleID, async>>

(* An unavailable region is tried again. *)
ResolveLocksFails ==
  /\ At("gc")
  /\ \/ End("failed") /\ UNCHANGED rl
     \/ /\ rl.tries + 1 < RetryGC
        /\ rl' = [rl EXCEPT !.tries = @ + 1] /\ Continue
  /\ UNCHANGED <<broken, clock, locks, safePoint, safeLockTs, mockLockTs, handleID, async>>

(* One scan of a region: the locks up to the safe point, in key order. *)
Scan(r) ==
  LET here == {l \in Covered : l.r = r}
  IN {l \in here : Cardinality({m \in here : m.h < l.h}) < ScanLimit}

(* Mutant of SafeLock: compared with the safe point. *)
BeforeSafePoint(l) == l.ts < safePoint

(* A lock from before those that must be resolved. *)
SafeLock(l) == l.ts < safeLockTs

(* cancel, wg.Wait, CheckData and reset.  CheckData scans each region      *)
(* once: a scan never returns as many locks as the limit it is compared    *)
(* with.  The locks taken for safe are resolved.                           *)
CheckData ==
  /\ At("wait") /\ async.pc = "ended"
  /\ LET found == UNION {Scan(r) : r \in Regions}
         unsafeLocks == {l \in found : ~ SafeLock(l)}
     IN \/ /\ unsafeLocks # {}
           /\ End("alarm")
           /\ UNCHANGED <<rl, locks, safePoint, safeLockTs, mockLockTs, handleID, async>>
        \/ /\ End("failed")
           /\ UNCHANGED <<rl, locks, safePoint, safeLockTs, mockLockTs, handleID, async>>
        \/ /\ unsafeLocks = {} /\ Continue
           /\ locks' = locks \ found
           /\ rl' = [rl EXCEPT !.pc = "top", !.round = @ + 1]
           /\ handleID' = 0 /\ safePoint' = 0 /\ safeLockTs' = 0 /\ mockLockTs' = 0
           /\ async' = [pc |-> "none", todo |-> {}]
  /\ UNCHANGED <<broken, clock>>

ResolveStep ==
  \/ BeginRound \/ GenerateLocks \/ asyncGenerateLocksDuringGC
  \/ GetSafePoint \/ ResolveLocks \/ ResolveLocksFails \/ CheckData
  \/ AsyncEnd \/ \E r \in Regions : AsyncLock(r)

ResolveNext == Running("resolve-lock") /\ ResolveStep
-----------------------------------------------------------------------------
(***************************************************************************)
(* The ttl case (testcase/ttl/ttl.go): each worker writes a range of keys  *)
(* with a time to live, looks at them half-way, writes them again with     *)
(* another one and waits until they must be gone.  TiKV is external.  A    *)
(* key range is told by its prefix; its keys are written and read          *)
(* together.  Calls take no time, sleeps do: the clock moves when every    *)
(* worker sleeps.                                                          *)
(***************************************************************************)

CONSTANTS
  Concurrency,          \* workers
  TTLCandidates,        \* times to live, 0 for ever
  ToleranceOfTTL, ZeroTTLVerifyDelay,
  Modulus,              \* of the unsigned numbers (2^64)
  MaxCases              \* bound: calls of RunCase per worker

VARIABLES
  now,                  \* external: seconds
  kv,                   \* external: prefix -> the time its keys expire, or Absent
  i,                    \* Start's loop variable, which its closures share
  worker,               \* [pc, prefix, ttl, wake, runs]
  stopped

ttlVars == <<now, kv, i, worker, stopped>>

Workers == 0 .. Concurrency - 1
KeyPrefixes == 0 .. Concurrency
Absent == -1
Never == 1000

TTLInit ==
  /\ now = 0
  /\ kv = [p \in KeyPrefixes |-> Absent]
  /\ i = 0
  /\ worker = [w \in Workers |-> [pc |-> "none", prefix |-> 0, ttl |-> 0, wake |-> 0, runs |-> 0]]
  /\ stopped = FALSE

Deadline(ttl) == IF ttl = 0 THEN Never ELSE now + ttl

(* Put and BatchPut.  An unsound store gets the time to live wrong. *)
Put(p, ttl) ==
  \E d \in {Deadline(ttl)} \cup (IF MayBreak THEN {Never, now + 1} ELSE {}) :
    /\ kv' = [kv EXCEPT ![p] = d]
    /\ broken' = IF d = Deadline(ttl) THEN broken ELSE broken \cup {"ttl"}

Present(p) == kv[p] # Absent /\ kv[p] > now
KeyTTL(p) == IF kv[p] = Never THEN 0 ELSE kv[p] - now

(* The difference of unsigned numbers is never negative. *)
equalInTolerance(lhs, rhs) == (lhs - rhs) % Modulus <= ToleranceOfTTL

(* expectGetSucceed, expectKeyTTL and expectScanSucceed. *)
AsExpected(p, ttl) == Present(p) /\ equalInTolerance(KeyTTL(p), ttl)

Leave(w, pc, sleep) == [worker EXCEPT ![w].pc = pc, ![w].wake = now + sleep]

(* waitAndFatal waits for every RunCase to end, its own caller's too. *)
waitAndFatal(w, why) ==
  /\ worker' = [worker EXCEPT ![w].pc = why]
  /\ stopped' = TRUE
  /\ UNCHANGED <<kv, broken>>

Awake(w, pc) == worker[w].pc = pc /\ worker[w].wake <= now
-----------------------------------------------------------------------------
(* Start: one goroutine per worker. *)
Spawn ==
  /\ i < Concurrency
  /\ i' = i + 1
  /\ worker' = [worker EXCEPT ![i].pc = "loop"]
  /\ Continue
  /\ UNCHANGED <<broken, now, kv, stopped>>

(* The head of a worker's loop.  The prefix is made from the loop variable *)
(* as it is now.                                                           *)
Loop(w) ==
  /\ Awake(w, "loop")
  /\ \/ /\ ctx = "done" \/ stopped
        /\ worker' = Leave(w, "ended", 0)
     \/ /\ ctx = "live" /\ ~ stopped /\ worker[w].runs < MaxCases
        /\ \E ttl \in TTLCandidates :
             worker' = [worker EXCEPT ![w].pc = "insert", ![w].prefix = i, ![w].ttl = ttl,
                                      ![w].runs = @ + 1]
  /\ Continue
  /\ UNCHANGED <<broken, now, kv, i, stopped>>

(* RunCase: no key may be there, then they are written. *)
Insert(w) ==
  LET me == worker[w] IN
  /\ Awake(w, "insert")
  /\ \/ Present(me.prefix) /\ waitAndFatal(w, "alarm")
     \/ /\ ~ Present(me.prefix)
        /\ Put(me.prefix, me.ttl)
        /\ worker' = Leave(w, "update", IF me.ttl = 0 THEN ZeroTTLVerifyDelay ELSE me.ttl \div 2)
        /\ UNCHANGED stopped
  /\ Continue
  /\ UNCHANGED <<now, i>>

(* Half-way; then the keys get another time to live. *)
Update(w) ==
  LET me == worker[w] IN
  /\ Awake(w, "update")
  /\ \/ stopped /\ worker' = Leave(w, "loop", 0) /\ UNCHANGED <<kv, stopped, broken>>
     \/ ~ stopped /\ ~ AsExpected(me.prefix, me.ttl \div 2) /\ waitAndFatal(w, "alarm")
     \/ /\ ~ stopped /\ AsExpected(me.prefix, me.ttl \div 2)
        /\ \E ttl \in TTLCandidates \ {0} :
             /\ Put(me.prefix, ttl)
             /\ worker' = [Leave(w, "verify", 0) EXCEPT ![w].ttl = ttl]
        /\ UNCHANGED stopped
  /\ Continue
  /\ UNCHANGED <<now, i>>

(* The new time to live at once, half-way, and once it is over. *)
Verify(w) ==
  LET me == worker[w] IN
  /\ \/ /\ Awake(w, "verify")
        /\ \/ ~ AsExpected(me.prefix, me.ttl) /\ waitAndFatal(w, "alarm")
           \/ /\ AsExpected(me.prefix, me.ttl)
              /\ worker' = Leave(w, "half", me.ttl \div 2) /\ UNCHANGED <<kv, stopped, broken>>
     \/ /\ Awake(w, "half")
        /\ \/ ~ AsExpected(me.prefix, me.ttl \div 2) /\ waitAndFatal(w, "alarm")
           \/ /\ AsExpected(me.prefix, me.ttl \div 2)
              /\ worker' = Leave(w, "expired", me.ttl \div 2 + 4 * ToleranceOfTTL)
              /\ UNCHANGED <<kv, stopped, broken>>
     \/ /\ Awake(w, "expired")
        /\ \/ Present(me.prefix) /\ waitAndFatal(w, "alarm")
           \/ /\ ~ Present(me.prefix)
              /\ worker' = Leave(w, "loop", 0) /\ UNCHANGED <<kv, stopped, broken>>
  /\ Continue
  /\ UNCHANGED <<now, i>>

(* An error of any call fails the case, that of the first look excepted. *)
CallFails(w) ==
  /\ worker[w].pc \in {"insert", "update", "verify", "half", "expired"}
  /\ worker[w].wake <= now
  /\ waitAndFatal(w, "failed")
  /\ Continue
  /\ UNCHANGED <<now, i>>

InRunCase(w) == worker[w].pc \notin {"none", "loop", "ended"}

(* c.wg.Wait, then log.Fatal. *)
Fatal(w) ==
  /\ worker[w].pc \in {"alarm", "failed"}
  /\ outcome' = IF \E v \in Workers : InRunCase(v) THEN outcome ELSE worker[w].pc
  /\ UNCHANGED <<case, ctx, broken, ttlVars>>

ReturnNil ==
  /\ i = Concurrency /\ \A w \in Workers : worker[w].pc = "ended"
  /\ End("returned")
  /\ UNCHANGED <<broken, ttlVars>>

Sleeping == {w \in Workers : InRunCase(w) /\ worker[w].pc \notin {"alarm", "failed"}}

Tick ==
  /\ i = Concurrency
  /\ \A w \in Workers : worker[w].pc # "loop"
  /\ Sleeping # {} /\ \A w \in Sleeping : worker[w].wake > now
  /\ now' = Min({worker[w].wake : w \in Sleeping})
  /\ Continue
  /\ UNCHANGED <<broken, kv, i, worker, stopped>>

TTLStep ==
  \/ Spawn \/ ReturnNil \/ Tick
  \/ \E w \in Workers :
       Loop(w) \/ Insert(w) \/ Update(w) \/ Verify(w) \/ CallFails(w) \/ Fatal(w)

TTLNext == Running("ttl") /\ TTLStep
=============================================================================

------------------------------ MODULE RedisQuota ------------------------------
(***************************************************************************)
(* RedisQuotaLedger (storage/redis.py) under several workers.  One step is *)
(* one Redis command; between two commands of a worker any other worker    *)
(* may issue one.  A worker holds a lock of its tenant and user while it   *)
(* counts, one for slots and another for requests, so two users of a       *)
(* tenant count at the same time on the tenant's keys.  The middleware     *)
(* (gateway/middleware.py) gives the slots back when the response is       *)
(* complete and when either call refuses.                                  *)
(*                                                                         *)
(* One request ceiling stands for the per-minute, per-day and per-month    *)
(* ones, which are counted alike on keys that name their window; the       *)
(* requests of the model fall in one window.                               *)
(***************************************************************************)
EXTENDS Integers, FiniteSets

CONSTANTS
  Requests,
  Users, Tenant, UserOf,
  TenantLimit, UserLimit,    \* requests per window
  TenantSlots, UserSlots,    \* max_concurrency
  LocksExpire,               \* whether a worker may stall past a lock's TTL
  SlotsExpire,               \* whether requests may outlive the TTL of inflight keys
  MaxCrashes                 \* how many workers may die

Subjects == {Tenant} \union Users

ASSUME RedisAssumption ==
  /\ IsFiniteSet(Requests) /\ IsFiniteSet(Users)
  /\ UserOf \in [Requests -> Users] /\ Tenant \notin Users
  /\ {TenantLimit, UserLimit, TenantSlots, UserSlots} \subseteq Nat
  /\ {LocksExpire, SlotsExpire} \subseteq BOOLEAN /\ MaxCrashes \in Nat

VARIABLES
  pc,        \* pc[r]: the next command of request r
  inflight,  \* inflight[s]: fabric:quota:<kind>:<s>:inflight
  rpm,       \* rpm[s]: fabric:quota:<kind>:<s>:rpm:<window>
  lock,      \* lock[k][u]: token of lock k of the tenant and user u, or Nobody
  bumps,     \* bumps[r]: the values r's increments returned, until they are compared
  served     \* history: requests the ledger admitted

vars == <<pc, inflight, rpm, lock, bumps, served>>

Nobody == "nobody"
Locks  == {"clock", "lock"}   \* of acquire_concurrency and of admit
Limit(s) == IF s = Tenant THEN TenantLimit ELSE UserLimit
Ceiling(s) == IF s = Tenant THEN TenantSlots ELSE UserSlots

Unbumped == [s \in Subjects |-> 0]

Init ==
  /\ pc = [r \in Requests |-> "new"]
  /\ inflight = [s \in Subjects |-> 0]
  /\ rpm = [s \in Subjects |-> 0]
  /\ lock = [k \in Locks |-> [u \in Users |-> Nobody]]
  /\ bumps = [r \in Requests |-> Unbumped]
  /\ served = {}

\* Request r issues the command at pc `from` and goes on to `to`.
Goes(r, from, to) == pc[r] = from /\ pc' = [pc EXCEPT ![r] = to]

-----------------------------------------------------------------------------
\* redis_lock: SET NX until the deadline; GET then DEL to leave.

TakeLock(r, k, from, to) ==
  /\ Goes(r, from, to)
  /\ lock[k][UserOf[r]] = Nobody
  /\ lock' = [lock EXCEPT ![k][UserOf[r]] = r]
  /\ UNCHANGED <<inflight, rpm, bumps, served>>

\* X_Mistake is a plausible mistake in X, used to test the properties.
GiveUpLock_Waits(r, k, from) ==
  /\ Goes(r, from, from)
  /\ UNCHANGED <<inflight, rpm, lock, bumps, served>>

\* The deadline passes: the caller is told that the quota store is unreachable.
GiveUpLock(r, k, from) ==
  /\ Goes(r, from, "refund tenant")
  /\ lock[k][UserOf[r]] \notin {Nobody, r}
  /\ UNCHANGED <<inflight, rpm, lock, bumps, served>>

\* The token still is ours, so the key will be deleted; or the TTL has passed.
CheckLock(r, k, from, to, done) ==
  /\ Goes(r, from, IF lock[k][UserOf[r]] = r THEN to ELSE done)
  /\ UNCHANGED <<inflight, rpm, lock, bumps, served>>

DropLock(r, k, from, to) ==
  /\ Goes(r, from, to)
  /\ lock' = [lock EXCEPT ![k][UserOf[r]] = Nobody]
  /\ UNCHANGED <<inflight, rpm, bumps, served>>

-----------------------------------------------------------------------------
\* acquire_concurrency: GET and INCR for the tenant, then for the user

ReadSlots(r, from, s, free, full) ==
  /\ Goes(r, from, IF inflight[s] >= Ceiling(s) THEN full ELSE free)
  /\ UNCHANGED <<inflight, rpm, lock, bumps, served>>

TakeSlot(r, from, s, to) ==
  /\ Goes(r, from, to)
  /\ inflight' = [inflight EXCEPT ![s] = @ + 1]
  /\ UNCHANGED <<rpm, lock, bumps, served>>

\* The user's ceiling is reached: the tenant's slot, just taken, is given back.
ReturnSlot(r) ==
  /\ Goes(r, "undo tenant slot", "refuse slots")
  /\ inflight' = [inflight EXCEPT ![Tenant] = @ - 1]
  /\ UNCHANGED <<rpm, lock, bumps, served>>

AcquireConcurrency(r) ==
  \/ TakeLock(r, "clock", "new", "read tenant slots")
  \/ GiveUpLock(r, "clock", "new")
  \/ ReadSlots(r, "read tenant slots", Tenant, "take tenant slot", "refuse slots")
  \/ TakeSlot(r, "take tenant slot", Tenant, "read user slots")
  \/ ReadSlots(r, "read user slots", UserOf[r], "take user slot", "undo tenant slot")
  \/ TakeSlot(r, "take user slot", UserOf[r], "leave slots")
  \/ ReturnSlot(r)
  \/ CheckLock(r, "clock", "leave slots", "unlock slots", "admit")
  \/ DropLock(r, "clock", "unlock slots", "admit")
  \/ CheckLock(r, "clock", "refuse slots", "unlock refused", "refund tenant")
  \/ DropLock(r, "clock", "unlock refused", "refund tenant")

-----------------------------------------------------------------------------
\* admit: INCR every counter, then compare what the increments returned

Bump_ReadsFirst(r, from, s, to) ==
  /\ Goes(r, from, to)
  /\ rpm' = [rpm EXCEPT ![s] = @ + 1]
  /\ bumps' = [bumps EXCEPT ![r][s] = rpm[s]]
  /\ UNCHANGED <<inflight, lock, served>>

Bump(r, from, s, to) ==
  /\ Goes(r, from, to)
  /\ rpm' = [rpm EXCEPT ![s] = @ + 1]
  /\ bumps' = [bumps EXCEPT ![r][s] = rpm'[s]]
  /\ UNCHANGED <<inflight, lock, served>>

Over(r) == \E s \in {Tenant, UserOf[r]} : bumps[r][s] > Limit(s)

\* The spend counters are read and the request decided upon.
Decide(r) ==
  /\ Goes(r, "decide", IF Over(r) THEN "unbump tenant" ELSE "leave admit")
  /\ served' = IF Over(r) THEN served ELSE served \union {r}
  /\ bumps' = [bumps EXCEPT ![r] = Unbumped]
  /\ UNCHANGED <<inflight, rpm, lock>>

Unbump(r, from, s, to) ==
  /\ Goes(r, from, to)
  /\ rpm' = [rpm EXCEPT ![s] = @ - 1]
  /\ UNCHANGED <<inflight, lock, bumps, served>>

Admit(r) ==
  \/ TakeLock(r, "lock", "admit", "bump tenant")
  \/ GiveUpLock(r, "lock", "admit")
  \/ Bump(r, "bump tenant", Tenant, "bump user")
  \/ Bump(r, "bump user", UserOf[r], "decide")
  \/ Decide(r)
  \/ Unbump(r, "unbump tenant", Tenant, "unbump user")
  \/ Unbump(r, "unbump user", UserOf[r], "refuse admit")
  \/ CheckLock(r, "lock", "leave admit", "unlock admitted", "running")
  \/ DropLock(r, "lock", "unlock admitted", "running")
  \/ CheckLock(r, "lock", "refuse admit", "unlock admit", "refund tenant")
  \/ DropLock(r, "lock", "unlock admit", "refund tenant")

-----------------------------------------------------------------------------
\* release_concurrency: DECR, and SET 0 when that went below zero

GiveBack(r, from, s, negative, to) ==
  /\ Goes(r, from, IF inflight[s] - 1 < 0 THEN negative ELSE to)
  /\ inflight' = [inflight EXCEPT ![s] = @ - 1]
  /\ UNCHANGED <<rpm, lock, bumps, served>>

ToZero_Stops(r, from, s, to) ==
  /\ Goes(r, from, "done")
  /\ inflight' = [inflight EXCEPT ![s] = 0]
  /\ UNCHANGED <<rpm, lock, bumps, served>>

ToZero(r, from, s, to) ==
  /\ Goes(r, from, to)
  /\ inflight' = [inflight EXCEPT ![s] = 0]
  /\ UNCHANGED <<rpm, lock, bumps, served>>

ReleaseConcurrency(r) ==
  \/ GiveBack(r, "refund tenant", Tenant, "zero tenant", "refund user")
  \/ ToZero(r, "zero tenant", Tenant, "refund user")
  \/ GiveBack(r, "refund user", UserOf[r], "zero user", "done")
  \/ ToZero(r, "zero user", UserOf[r], "done")

\* The response is complete.
Finish(r) ==
  /\ Goes(r, "running", "refund tenant")
  /\ UNCHANGED <<inflight, rpm, lock, bumps, served>>

Step(r) == AcquireConcurrency(r) \/ Admit(r) \/ ReleaseConcurrency(r) \/ Finish(r)

-----------------------------------------------------------------------------
\* The environment

LockExpires(k, u) ==
  /\ lock[k][u] # Nobody
  /\ LocksExpire \/ pc[lock[k][u]] = "crashed"
  /\ lock' = [lock EXCEPT ![k][u] = Nobody]
  /\ UNCHANGED <<pc, inflight, rpm, bumps, served>>

\* An inflight key expires 120 s after the last acquire of its subject, while
\* the requests it counts still run: nobody takes that long to be admitted.
SlotsExpired(s) ==
  /\ SlotsExpire
  /\ \A r \in Requests :
       s \in {Tenant, UserOf[r]} => pc[r] \in {"new", "running", "done", "crashed"}
  /\ inflight[s] # 0
  /\ inflight' = [inflight EXCEPT ![s] = 0]
  /\ UNCHANGED <<pc, rpm, lock, bumps, served>>

Crash(r) ==
  /\ Cardinality({q \in Requests : pc[q] = "crashed"}) < MaxCrashes
  /\ pc[r] \notin {"new", "done", "crashed"}
  /\ pc' = [pc EXCEPT ![r] = "crashed"]
  /\ bumps' = [bumps EXCEPT ![r] = Unbumped]
  /\ UNCHANGED <<inflight, rpm, lock, served>>

Next ==
  \/ \E r \in Requests : Step(r) \/ Crash(r)
  \/ \E k \in Locks, u \in Users : LockExpires(k, u)
  \/ \E s \in Subjects : SlotsExpired(s)

Spec == Init /\ [][Next]_vars

\* Workers run on and responses end.  Nothing is assumed of abandoned locks: who
\* waits for one gives up at the deadline.
FairSpec ==
  /\ Spec
  /\ \A r \in Requests : WF_vars(Step(r))

-----------------------------------------------------------------------------
\* Properties

TypeOK ==
  /\ inflight \in [Subjects -> Int]
  /\ rpm \in [Subjects -> Nat]
  /\ lock \in [Locks -> [Users -> Requests \union {Nobody}]]
  /\ bumps \in [Requests -> [Subjects -> Nat]]
  /\ served \in SUBSET Requests

By(s) == {r \in Requests : s \in {Tenant, UserOf[r]}}
Crashed(s) == {r \in By(s) : pc[r] = "crashed"}

\* "Limits apply fleet-wide": however the workers' commands interleave, locks that
\* expire under a stalled worker included, no more requests are admitted in a
\* window than the tenant's and the user's ceilings.
FleetCeiling == \A s \in Subjects : Cardinality(served \intersect By(s)) <= Limit(s)

\* "A refused request is not counted" (test_quota.py): once nobody is being decided
\* upon, a counter stands for the requests admitted, and at most for those of
\* workers that died half way.
Undecided == {"bump tenant", "bump user", "decide", "unbump tenant", "unbump user"}

RefundsAreComplete ==
  \A s \in Subjects :
    (\A r \in By(s) : pc[r] \notin Undecided) =>
      /\ rpm[s] >= Cardinality(served \intersect By(s))
      /\ rpm[s] <= Cardinality((served \intersect By(s)) \union Crashed(s))

\* Slots are not leaked: when every request of a subject has ended, the subject is
\* charged for none but those of workers that died.
QuietMeansFree ==
  \A s \in Subjects :
    (\A r \in By(s) : pc[r] \in {"new", "done", "crashed"}) =>
      inflight[s] <= Cardinality(Crashed(s))

\* No request waits forever, whoever dies holding the lock it needs.
EveryRequestEnds == \A r \in Requests : <>(pc[r] \in {"done", "crashed"})

\* "Atomic quota admission uses a Lua script so concurrent workers cannot
\* GET/modify/SET past a ceiling" (redis.py:7).  Does not hold of the tenant's
\* concurrency ceiling: there is no script, and the lock names the user too.
SlotCeiling ==
  \A s \in Subjects : Cardinality({r \in By(s) : pc[r] = "running"}) <= Ceiling(s)
=============================================================================

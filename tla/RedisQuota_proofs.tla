--------------------------- MODULE RedisQuota_proofs ---------------------------
(***************************************************************************)
(* Safety of RedisQuota for every finite set of requests and users, every  *)
(* ceiling, every expiry of locks and keys and any number of crashes.      *)
(*                                                                         *)
(* The locks play no part in it: no conjunct of the invariant mentions     *)
(* who holds one.  What carries the argument is that a counter is compared *)
(* by the value its own increment returned.                                *)
(***************************************************************************)
EXTENDS RedisQuota, FiniteSetTheorems, TLAPS

-----------------------------------------------------------------------------
\* Cardinalities of sets of requests

\* A set of requests is at least as large as its subsets.
LEMMA CardMono ==
  ASSUME NEW T \in SUBSET Requests, NEW S \in SUBSET T
  PROVE  /\ Cardinality(S) \in Nat /\ Cardinality(T) \in Nat
         /\ Cardinality(S) <= Cardinality(T)
<1>1. IsFiniteSet(T)
  BY RedisAssumption, FS_Subset
<1>. QED  BY <1>1, FS_Subset, FS_CardinalityType

\* Adding a request adds at most one.
LEMMA CardWith ==
  ASSUME NEW S \in SUBSET Requests, NEW r \in Requests
  PROVE  /\ Cardinality(S) \in Nat /\ Cardinality(S \union {r}) \in Nat
         /\ Cardinality(S \union {r}) <= Cardinality(S) + 1
         /\ r \notin S => Cardinality(S \union {r}) = Cardinality(S) + 1
<1>1. IsFiniteSet(S)
  BY RedisAssumption, FS_Subset
<1>2. Cardinality(S) \in Nat
  BY <1>1, FS_CardinalityType
<1>3. Cardinality(S \union {r}) = IF r \in S THEN Cardinality(S) ELSE Cardinality(S) + 1
  BY <1>1, FS_AddElement
<1>. QED  BY <1>2, <1>3

\* Taking a request away takes away one.
LEMMA CardWithout ==
  ASSUME NEW S \in SUBSET Requests, NEW r \in S
  PROVE  /\ Cardinality(S) \in Nat /\ Cardinality(S \ {r}) \in Nat
         /\ Cardinality(S \ {r}) = Cardinality(S) - 1
<1>1. IsFiniteSet(S)
  BY RedisAssumption, FS_Subset
<1>. QED  BY <1>1, FS_RemoveElement, FS_CardinalityType

-----------------------------------------------------------------------------
\* The invariant

\* Commands before the decision: a request that still has one to issue is not
\* served.
Entering ==
  { "new", "read tenant slots", "take tenant slot", "read user slots", "take user slot",
    "leave slots", "unlock slots", "admit", "bump tenant" }

Deciding == {"bump user", "decide", "unbump tenant", "unbump user"}

Leaving ==
  { "undo tenant slot", "refuse slots", "unlock refused", "leave admit", "unlock admitted",
    "refuse admit", "unlock admit", "running", "refund tenant", "zero tenant",
    "refund user", "zero user", "done", "crashed" }

\* Where a request has incremented rpm[s] and has not taken it back, and where it
\* has not compared yet.
BumpedAt(s) == IF s = Tenant THEN {"bump user", "decide", "unbump tenant"}
               ELSE {"decide", "unbump tenant", "unbump user"}
UnsureAt(s) == IF s = Tenant THEN {"bump user", "decide"} ELSE {"decide"}

Counted(s) == {r \in By(s) : r \in served \/ pc[r] \in BumpedAt(s)}

\* Who has been admitted, or will be as far as s is concerned.
Winning(s) == {r \in By(s) : \/ r \in served
                             \/ pc[r] \in UnsureAt(s) /\ bumps[r][s] <= Limit(s)}

\* Where a request may hold a slot of s.
SlotAt(s) ==
  { "leave slots", "unlock slots", "admit", "bump tenant", "bump user", "decide",
    "unbump tenant", "unbump user", "leave admit", "unlock admitted", "refuse admit",
    "unlock admit", "running", "refund tenant" }
  \union IF s = Tenant THEN {"read user slots", "take user slot", "undo tenant slot"}
         ELSE {"zero tenant", "refund user"}

Holding(s) == {r \in By(s) : pc[r] \in SlotAt(s) \/ pc[r] = "crashed"}

Types == TypeOK /\ pc \in [Requests -> Entering \union Deciding \union Leaving]

Counting ==
  /\ \A r \in served : pc[r] \in Leaving
  /\ \A s \in Subjects :
       /\ Cardinality(Counted(s)) <= rpm[s]
       /\ rpm[s] <= Cardinality(Counted(s) \union Crashed(s))
       /\ Cardinality(Winning(s)) <= Limit(s)

Charging == \A s \in Subjects : inflight[s] <= Cardinality(Holding(s))

IInv == Types /\ Counting /\ Charging

-----------------------------------------------------------------------------
\* Steps

\* A request is never at two subjects of one kind; ceilings are numbers.
LEMMA Constants ==
  /\ \A s \in Subjects : Limit(s) \in Nat /\ By(s) \in SUBSET Requests
  /\ \A r \in Requests : UserOf[r] \in Users /\ UserOf[r] # Tenant
  /\ Tenant \in Subjects /\ Users \subseteq Subjects
BY RedisAssumption DEF Limit, By, Subjects

\* Every step of a request but the counting ones leaves the counters of requests
\* alone, and moves nobody to or from a place where they matter.
Elsewhere(r) ==
  /\ \E to \in (Entering \union Leaving) \ {"crashed"} : pc' = [pc EXCEPT ![r] = to]
  /\ pc[r] \in (Entering \union Leaving) \ {"crashed"}
  /\ pc[r] \in Leaving => pc'[r] \in Leaving
  /\ UNCHANGED <<rpm, bumps, served>>

CountingStep(r) ==
  \/ Bump(r, "bump tenant", Tenant, "bump user")
  \/ Bump(r, "bump user", UserOf[r], "decide")
  \/ Decide(r)
  \/ Unbump(r, "unbump tenant", Tenant, "unbump user")
  \/ Unbump(r, "unbump user", UserOf[r], "refuse admit")

\* Only the counting steps touch the counters of requests.
LEMMA StepsElsewhere ==
  ASSUME Types, NEW r \in Requests, Step(r), ~CountingStep(r)
  PROVE  Elsewhere(r)
<1>1. CASE AcquireConcurrency(r)
  BY <1>1 DEF AcquireConcurrency, TakeLock, GiveUpLock, ReadSlots, TakeSlot, ReturnSlot,
       CheckLock, DropLock, Goes, Elsewhere, Entering, Leaving, Types
<1>2. CASE Admit(r)
  BY <1>2 DEF Admit, CountingStep, TakeLock, GiveUpLock, CheckLock, DropLock, Goes,
       Elsewhere, Entering, Leaving, Types
<1>3. CASE ReleaseConcurrency(r)
  BY <1>3 DEF ReleaseConcurrency, GiveBack, ToZero, Goes, Elsewhere, Entering, Leaving, Types
<1>4. CASE Finish(r)
  BY <1>4 DEF Finish, Goes, Elsewhere, Entering, Leaving, Types
<1>. QED  BY <1>1, <1>2, <1>3, <1>4 DEF Step

\* Steps that do not count keep what is counted.
LEMMA ElsewhereCounts ==
  ASSUME Types, Counting, NEW r \in Requests, Elsewhere(r)
  PROVE  Counting'
<1>1. PICK to \in (Entering \union Leaving) \ {"crashed"} : pc' = [pc EXCEPT ![r] = to]
  BY DEF Elsewhere
<1>2. \A q \in Requests : pc'[q] = IF q = r THEN to ELSE pc[q]
  BY <1>1 DEF Types
<1>3. ASSUME NEW s \in Subjects
      PROVE  Counted(s)' = Counted(s) /\ Crashed(s)' = Crashed(s) /\ Winning(s)' = Winning(s)
  <2>1. \A q \in Requests : /\ pc'[q] \in BumpedAt(s) <=> pc[q] \in BumpedAt(s)
                            /\ pc'[q] \in UnsureAt(s) <=> pc[q] \in UnsureAt(s)
                            /\ pc'[q] = "crashed" <=> pc[q] = "crashed"
    BY <1>2 DEF Elsewhere, BumpedAt, UnsureAt, Entering, Leaving
  <2>2. By(s)' = By(s) /\ By(s) \in SUBSET Requests
    BY DEF By
  <2>3. served' = served /\ bumps' = bumps
    BY DEF Elsewhere
  <2>4. BumpedAt(s)' = BumpedAt(s) /\ UnsureAt(s)' = UnsureAt(s) /\ Limit(s)' = Limit(s)
    BY DEF BumpedAt, UnsureAt, Limit
  <2>. QED  BY <2>1, <2>2, <2>3, <2>4, Zenon DEF Counted, Crashed, Winning
<1>4. \A q \in served' : pc'[q] \in Leaving
  BY <1>2 DEF Counting, Elsewhere, Types, TypeOK
<1>. QED  BY <1>3, <1>4 DEF Counting, Elsewhere, Limit

\* Where r increments the counter of s, and where it takes that back.
IncrementsAt(r, s, from, to) ==
  \/ s = Tenant /\ from = "bump tenant" /\ to = "bump user"
  \/ s = UserOf[r] /\ from = "bump user" /\ to = "decide"

DecrementsAt(r, s, from, to) ==
  \/ s = Tenant /\ from = "unbump tenant" /\ to = "unbump user"
  \/ s = UserOf[r] /\ from = "unbump user" /\ to = "refuse admit"

\* An increment: the request is one more that is counted, and the value it gets
\* is above everybody who is to be admitted already.
LEMMA BumpCounts ==
  ASSUME Types, Counting, NEW r \in Requests, NEW s \in Subjects, NEW from, NEW to,
         Bump(r, from, s, to),
         IncrementsAt(r, s, from, to)
  PROVE  Counting'
<1>1. /\ s \in Subjects /\ r \in By(s) /\ By(s) \in SUBSET Requests /\ UserOf[r] # Tenant
      /\ \A t \in Subjects \ {s} : r \in By(t) => {s, t} = {Tenant, UserOf[r]}
  BY Constants DEF By, IncrementsAt
<1>2. /\ \A q \in Requests : pc'[q] = IF q = r THEN to ELSE pc[q]
      /\ pc[r] = from /\ served' = served
  BY DEF Bump, Goes, Types
<1>3. /\ \A t \in Subjects : rpm'[t] = IF t = s THEN rpm[t] + 1 ELSE rpm[t]
      /\ \A q \in Requests, t \in Subjects :
           bumps'[q][t] = IF q = r /\ t = s THEN rpm[s] + 1 ELSE bumps[q][t]
      /\ \A t \in Subjects : rpm[t] \in Nat
  BY <1>1 DEF Bump, Types, TypeOK
<1>4. r \notin served /\ \A q \in served' : pc'[q] \in Leaving
  BY <1>2 DEF Counting, Leaving, Types, TypeOK, IncrementsAt
<1>5. \A t \in Subjects : Crashed(t)' = Crashed(t)
  BY <1>2 DEF Crashed, By, IncrementsAt
<1>6. ASSUME NEW t \in Subjects \ {s}
      PROVE  /\ Counted(t)' = Counted(t) /\ Winning(t)' = Winning(t)
  <2>1. \A q \in By(t) : /\ pc'[q] \in BumpedAt(t) <=> pc[q] \in BumpedAt(t)
                         /\ pc'[q] \in UnsureAt(t) <=> pc[q] \in UnsureAt(t)
    BY <1>1, <1>2, Constants DEF BumpedAt, UnsureAt, IncrementsAt
  <2>2. By(t)' = By(t) /\ By(t) \in SUBSET Requests
    BY DEF By
  <2>3. \A q \in By(t) : bumps'[q][t] = bumps[q][t]
    BY <1>3, <2>2
  <2>4. BumpedAt(t)' = BumpedAt(t) /\ UnsureAt(t)' = UnsureAt(t) /\ Limit(t)' = Limit(t)
    BY DEF BumpedAt, UnsureAt, Limit
  <2>. QED  BY <1>2, <2>1, <2>2, <2>3, <2>4, Zenon DEF Counted, Winning
<1>7. /\ r \notin Counted(s) /\ r \notin Crashed(s) /\ r \notin Winning(s)
      /\ Counted(s)' = Counted(s) \union {r}
      /\ Winning(s) \subseteq Counted(s)
      /\ Winning(s)' = IF rpm[s] + 1 <= Limit(s) THEN Winning(s) \union {r} ELSE Winning(s)
  <2>1. /\ to \in BumpedAt(s) /\ to \in UnsureAt(s)
        /\ from \notin BumpedAt(s) /\ from # "crashed" /\ from \notin UnsureAt(s)
        /\ UnsureAt(s) \subseteq BumpedAt(s)
    BY <1>1 DEF BumpedAt, UnsureAt, IncrementsAt
  <2>2. By(s)' = By(s) /\ By(s) \in SUBSET Requests
    BY DEF By
  <2>3. BumpedAt(s)' = BumpedAt(s) /\ UnsureAt(s)' = UnsureAt(s) /\ Limit(s)' = Limit(s)
    BY DEF BumpedAt, UnsureAt, Limit
  <2>4. \A q \in By(s) : bumps'[q][s] = IF q = r THEN rpm[s] + 1 ELSE bumps[q][s]
    BY <1>1, <1>3
  <2>5. r \notin Counted(s) /\ r \notin Crashed(s) /\ r \notin Winning(s)
    BY <1>2, <1>4, <2>1 DEF Counted, Crashed, Winning
  <2>6. Counted(s)' = Counted(s) \union {r}
    BY <1>1, <1>2, <2>1, <2>2, <2>3 DEF Counted
  <2>7. Winning(s) \subseteq Counted(s)
    BY <2>1 DEF Counted, Winning
  <2>8. ASSUME rpm[s] + 1 <= Limit(s)
        PROVE  Winning(s)' = Winning(s) \union {r}
    BY <1>1, <1>2, <2>1, <2>2, <2>3, <2>4, <2>8 DEF Winning
  <2>9. ASSUME ~(rpm[s] + 1 <= Limit(s))
        PROVE  Winning(s)' = Winning(s)
    BY <1>1, <1>2, <1>4, <2>1, <2>2, <2>3, <2>4, <2>9 DEF Winning
  <2>. QED  BY <2>5, <2>6, <2>7, <2>8, <2>9
<1>8. /\ Counted(s) \in SUBSET Requests /\ Crashed(s) \in SUBSET Requests
      /\ Winning(s) \in SUBSET Requests
  BY <1>1 DEF Counted, Crashed, Winning
<1>9. Cardinality(Counted(s)') <= rpm'[s]
  <2>1. /\ Cardinality(Counted(s) \union {r}) = Cardinality(Counted(s)) + 1
        /\ Cardinality(Counted(s)) \in Nat
    BY <1>7, <1>8, CardWith
  <2>2. Cardinality(Counted(s)) <= rpm[s] /\ rpm'[s] = rpm[s] + 1 /\ rpm[s] \in Nat
    BY <1>1, <1>3 DEF Counting
  <2>3. Cardinality(Counted(s)') = Cardinality(Counted(s)) + 1
    BY <1>7, <2>1, Zenon
  <2>4. Cardinality(Counted(s)) \in Nat
    BY <2>1
  <2>. QED  BY <2>2, <2>3, <2>4
<1>10. rpm'[s] <= Cardinality((Counted(s) \union Crashed(s))')
  <2>1. (Counted(s) \union Crashed(s))' = (Counted(s) \union Crashed(s)) \union {r}
    BY <1>1, <1>5, <1>7
  <2>2. r \notin Counted(s) \union Crashed(s)
    BY <1>7
  <2>3. /\ Cardinality((Counted(s) \union Crashed(s)) \union {r})
             = Cardinality(Counted(s) \union Crashed(s)) + 1
        /\ Cardinality(Counted(s) \union Crashed(s)) \in Nat
    BY <1>8, <2>2, CardWith
  <2>4. /\ rpm[s] <= Cardinality(Counted(s) \union Crashed(s))
        /\ rpm'[s] = rpm[s] + 1 /\ rpm[s] \in Nat
    BY <1>1, <1>3 DEF Counting
  <2>5. Cardinality((Counted(s) \union Crashed(s))') = Cardinality(Counted(s) \union Crashed(s)) + 1
    BY <2>1, <2>3, Zenon
  <2>. QED  BY <2>3, <2>4, <2>5
<1>11. Cardinality(Winning(s)') <= Limit(s)
  <2>1. Cardinality(Winning(s)) <= Cardinality(Counted(s)) /\ Cardinality(Counted(s)) <= rpm[s]
    BY <1>1, <1>7, <1>8, CardMono, Zenon DEF Counting
  <2>0. /\ Cardinality(Winning(s)) \in Nat /\ Cardinality(Counted(s)) \in Nat
        /\ Cardinality(Winning(s) \union {r}) \in Nat
        /\ Cardinality(Winning(s) \union {r}) <= Cardinality(Winning(s)) + 1
        /\ rpm[s] \in Nat /\ Limit(s) \in Nat
    BY <1>1, <1>3, <1>8, CardWith, Constants
  <2>2. CASE rpm[s] + 1 <= Limit(s)
    BY <1>7, <2>0, <2>1, <2>2
  <2>3. CASE ~(rpm[s] + 1 <= Limit(s))
    BY <1>1, <1>7, <2>3 DEF Counting
  <2>. QED  BY <2>2, <2>3
<1>. QED  BY <1>3, <1>4, <1>5, <1>6, <1>9, <1>10, <1>11 DEF Counting, Limit

AfterDecision(r) == IF Over(r) THEN "unbump tenant" ELSE "leave admit"

\* The decision: who is served was to be admitted already.
LEMMA DecideCounts ==
  ASSUME Types, Counting, NEW r \in Requests, Decide(r)
  PROVE  Counting'
<1>1. /\ \A q \in Requests : pc'[q] = IF q = r THEN AfterDecision(r) ELSE pc[q]
      /\ pc[r] = "decide" /\ rpm' = rpm
      /\ served' = IF Over(r) THEN served ELSE served \union {r}
      /\ \A q \in Requests : q # r => bumps'[q] = bumps[q]
  BY DEF Decide, Goes, Types, TypeOK, AfterDecision
<1>2. /\ \A q \in served' : pc'[q] \in Leaving
      /\ served' \in SUBSET Requests /\ served \in SUBSET Requests
  BY <1>1 DEF Counting, Leaving, Types, TypeOK, AfterDecision
<1>3. ASSUME NEW s \in Subjects
      PROVE  /\ Counted(s)' = Counted(s) /\ Crashed(s)' = Crashed(s)
             /\ Winning(s)' \subseteq Winning(s)
  <2>1. By(s)' = By(s) /\ By(s) \in SUBSET Requests
    BY DEF By
  <2>2. BumpedAt(s)' = BumpedAt(s) /\ UnsureAt(s)' = UnsureAt(s) /\ Limit(s)' = Limit(s)
    BY DEF BumpedAt, UnsureAt, Limit
  <2>3. /\ "decide" \in BumpedAt(s) /\ "unbump tenant" \in BumpedAt(s)
        /\ "decide" \in UnsureAt(s) /\ AfterDecision(r) \notin UnsureAt(s)
    BY DEF BumpedAt, UnsureAt, AfterDecision
  <2>4. r \in By(s) /\ ~Over(r) => bumps[r][s] <= Limit(s)
    BY Constants DEF Over, By, Limit, Types, TypeOK
  <2>5. Counted(s)' = Counted(s)
    BY <1>1, <2>1, <2>2, <2>3 DEF Counted, AfterDecision
  <2>6. Crashed(s)' = Crashed(s)
    BY <1>1, <2>1 DEF Crashed, AfterDecision
  <2>7. Winning(s)' \subseteq Winning(s)
    BY <1>1, <2>1, <2>2, <2>3, <2>4 DEF Winning, AfterDecision
  <2>. QED  BY <2>5, <2>6, <2>7
<1>4. ASSUME NEW s \in Subjects
      PROVE  /\ Cardinality(Winning(s)') <= Cardinality(Winning(s))
             /\ Cardinality(Winning(s)') \in Nat /\ Cardinality(Winning(s)) \in Nat
             /\ Limit(s) \in Nat
  BY <1>3, CardMono, Constants DEF Winning, By
<1>5. ASSUME NEW s \in Subjects
      PROVE  Cardinality(Winning(s)') <= Limit(s)
  <2>1. Cardinality(Winning(s)) <= Limit(s)
    BY DEF Counting
  <2>. QED  BY <1>4, <2>1
<1>. QED  BY <1>1, <1>2, <1>3, <1>5 DEF Counting, Limit

\* Taking an increment back: the request was counted.
LEMMA UnbumpCounts ==
  ASSUME Types, Counting, NEW r \in Requests, NEW s \in Subjects, NEW from, NEW to,
         Unbump(r, from, s, to),
         DecrementsAt(r, s, from, to)
  PROVE  Counting' /\ rpm' \in [Subjects -> Nat]
<1>1. /\ r \in By(s) /\ By(s) \in SUBSET Requests /\ UserOf[r] # Tenant
      /\ \A t \in Subjects \ {s} : r \in By(t) => {s, t} = {Tenant, UserOf[r]}
  BY Constants DEF By, DecrementsAt
<1>2. /\ \A q \in Requests : pc'[q] = IF q = r THEN to ELSE pc[q]
      /\ pc[r] = from /\ served' = served /\ bumps' = bumps
      /\ \A t \in Subjects : rpm'[t] = IF t = s THEN rpm[t] - 1 ELSE rpm[t]
      /\ \A t \in Subjects : rpm[t] \in Nat
      /\ DOMAIN rpm' = Subjects /\ rpm' = [t \in Subjects |-> rpm'[t]]
  <2>1. rpm \in [Subjects -> Nat] /\ rpm' = [rpm EXCEPT ![s] = @ - 1]
    BY DEF Unbump, Types, TypeOK
  <2>2. \A q \in Requests : pc'[q] = IF q = r THEN to ELSE pc[q]
    BY DEF Unbump, Goes, Types
  <2>3. pc[r] = from /\ served' = served /\ bumps' = bumps
    BY DEF Unbump, Goes
  <2>4. \A t \in Subjects : rpm'[t] = IF t = s THEN rpm[t] - 1 ELSE rpm[t]
    BY <2>1, Zenon
  <2>5. \A t \in Subjects : rpm[t] \in Nat
    BY <2>1, Zenon
  <2>6. DOMAIN rpm' = Subjects /\ rpm' = [t \in Subjects |-> rpm'[t]]
    BY <2>1, Zenon
  <2>. QED  BY <2>2, <2>3, <2>4, <2>5, <2>6, Zenon
<1>3. r \notin served /\ \A q \in served' : pc'[q] \in Leaving
  BY <1>2 DEF Counting, Leaving, Types, TypeOK, DecrementsAt
<1>4. ASSUME NEW t \in Subjects
      PROVE  /\ Crashed(t)' = Crashed(t) /\ Winning(t)' = Winning(t)
             /\ t # s => Counted(t)' = Counted(t)
             /\ t = s => r \in Counted(t) /\ Counted(t)' = Counted(t) \ {r}
  <2>1. By(t)' = By(t) /\ By(t) \in SUBSET Requests
    BY DEF By
  <2>2. BumpedAt(t)' = BumpedAt(t) /\ UnsureAt(t)' = UnsureAt(t) /\ Limit(t)' = Limit(t)
    BY DEF BumpedAt, UnsureAt, Limit
  <2>3. /\ from \notin UnsureAt(t) /\ to \notin UnsureAt(t)
        /\ t = s => from \in BumpedAt(t) /\ to \notin BumpedAt(t)
        /\ t # s /\ r \in By(t) => (from \in BumpedAt(t) <=> to \in BumpedAt(t))
    BY <1>1, Constants DEF BumpedAt, UnsureAt, DecrementsAt
  <2>4. Crashed(t)' = Crashed(t)
    BY <1>2, <2>1 DEF Crashed, DecrementsAt
  <2>5. Winning(t)' = Winning(t)
    BY <1>2, <2>1, <2>2, <2>3 DEF Winning
  <2>6. t # s => Counted(t)' = Counted(t)
    BY <1>2, <2>1, <2>2, <2>3 DEF Counted
  <2>7. t = s => r \in Counted(t) /\ Counted(t)' = Counted(t) \ {r}
    BY <1>1, <1>2, <1>3, <2>1, <2>2, <2>3 DEF Counted
  <2>. QED  BY <2>4, <2>5, <2>6, <2>7
<1>5. /\ Counted(s) \in SUBSET Requests /\ Crashed(s) \in SUBSET Requests
  BY <1>1 DEF Counted, Crashed
<1>6. /\ Cardinality(Counted(s)) \in Nat
      /\ Cardinality(Counted(s)') = Cardinality(Counted(s)) - 1
      /\ Cardinality(Counted(s)') \in Nat
      /\ Cardinality(Counted(s)) <= rpm[s]
  BY <1>4, <1>5, CardWithout DEF Counting
<1>7. /\ Cardinality(Counted(s)') <= rpm'[s]
      /\ rpm'[s] \in Nat
  <2>1. rpm'[s] = rpm[s] - 1 /\ rpm[s] \in Nat
    BY <1>2
  <2>. QED  BY <1>6, <2>1
<1>8. rpm'[s] <= Cardinality((Counted(s) \union Crashed(s))')
  <2>. DEFINE all == Counted(s) \union Crashed(s)
  <2>1. (Counted(s) \union Crashed(s))' = all \ {r}
    BY <1>2, <1>4 DEF Crashed, DecrementsAt
  <2>2. r \in all /\ all \in SUBSET Requests
    BY <1>4, <1>5
  <2>3. Cardinality(all \ {r}) = Cardinality(all) - 1 /\ Cardinality(all) \in Nat
    BY <2>2, CardWithout
  <2>4. rpm[s] <= Cardinality(all) /\ rpm'[s] = rpm[s] - 1 /\ rpm[s] \in Nat
    BY <1>2 DEF Counting
  <2>. HIDE DEF all
  <2>5. Cardinality((Counted(s) \union Crashed(s))') = Cardinality(all) - 1
    BY <2>1, <2>3, Zenon
  <2>. QED  BY <2>3, <2>4, <2>5
<1>9. rpm' \in [Subjects -> Nat]
  BY <1>2, <1>7
<1>. QED  BY <1>2, <1>3, <1>4, <1>7, <1>8, <1>9 DEF Counting, Limit

\* A worker that dies takes its request from those that are counted to those
\* that have crashed.
LEMMA CrashCounts ==
  ASSUME Types, Counting, NEW r \in Requests, Crash(r)
  PROVE  Counting'
<1>1. /\ \A q \in Requests : pc'[q] = IF q = r THEN "crashed" ELSE pc[q]
      /\ rpm' = rpm /\ served' = served
      /\ \A q \in Requests : q # r => bumps'[q] = bumps[q]
  BY DEF Crash, Types, TypeOK
<1>2. /\ \A q \in served' : pc'[q] \in Leaving
      /\ served \in SUBSET Requests
  BY <1>1 DEF Counting, Leaving, Types, TypeOK
<1>3. ASSUME NEW s \in Subjects
      PROVE  /\ Counted(s)' \subseteq Counted(s) /\ Winning(s)' \subseteq Winning(s)
             /\ Counted(s) \union Crashed(s) \subseteq (Counted(s) \union Crashed(s))'
             /\ Counted(s) \in SUBSET Requests /\ Winning(s) \in SUBSET Requests
             /\ (Counted(s) \union Crashed(s))' \in SUBSET Requests
  <2>1. By(s)' = By(s) /\ By(s) \in SUBSET Requests
    BY DEF By
  <2>2. BumpedAt(s)' = BumpedAt(s) /\ UnsureAt(s)' = UnsureAt(s) /\ Limit(s)' = Limit(s)
    BY DEF BumpedAt, UnsureAt, Limit
  <2>3. "crashed" \notin BumpedAt(s) /\ "crashed" \notin UnsureAt(s)
    BY DEF BumpedAt, UnsureAt
  <2>4. Counted(s)' \subseteq Counted(s)
    BY <1>1, <2>1, <2>2, <2>3 DEF Counted
  <2>5. Winning(s)' \subseteq Winning(s)
    BY <1>1, <2>1, <2>2, <2>3 DEF Winning
  <2>6. Counted(s) \union Crashed(s) \subseteq (Counted(s) \union Crashed(s))'
    BY <1>1, <2>1, <2>2 DEF Counted, Crashed
  <2>. QED  BY <2>1, <2>4, <2>5, <2>6 DEF Counted, Winning, Crashed
<1>4. ASSUME NEW s \in Subjects
      PROVE  /\ Cardinality(Counted(s)') <= rpm[s]
             /\ rpm[s] <= Cardinality((Counted(s) \union Crashed(s))')
             /\ Cardinality(Winning(s)') <= Limit(s)
  <2>1. /\ Cardinality(Counted(s)') <= Cardinality(Counted(s))
        /\ Cardinality(Counted(s)') \in Nat /\ Cardinality(Counted(s)) \in Nat
    BY <1>3, CardMono
  <2>2. /\ Cardinality(Winning(s)') <= Cardinality(Winning(s))
        /\ Cardinality(Winning(s)') \in Nat /\ Cardinality(Winning(s)) \in Nat
    BY <1>3, CardMono
  <2>3. /\ Cardinality(Counted(s) \union Crashed(s))
             <= Cardinality((Counted(s) \union Crashed(s))')
        /\ Cardinality(Counted(s) \union Crashed(s)) \in Nat
        /\ Cardinality((Counted(s) \union Crashed(s))') \in Nat
    BY <1>3, CardMono
  <2>4. /\ Cardinality(Counted(s)) <= rpm[s] /\ Cardinality(Winning(s)) <= Limit(s)
        /\ rpm[s] <= Cardinality(Counted(s) \union Crashed(s))
        /\ rpm[s] \in Nat /\ Limit(s) \in Nat
    BY Constants DEF Counting, Types, TypeOK
  <2>. QED  BY <2>1, <2>2, <2>3, <2>4
<1>. QED  BY <1>1, <1>2, <1>4 DEF Counting, Limit

-----------------------------------------------------------------------------
\* Slots

HoldsAt(s) == SlotAt(s) \union {"crashed"}

\* How a step that moves r to `to` may change what a subject is charged for.
Charges(r, to, s) ==
  \/ inflight'[s] = inflight[s] /\ (r \in By(s) /\ pc[r] \in HoldsAt(s) => to \in HoldsAt(s))
  \/ inflight'[s] = inflight[s] + 1 /\ r \in By(s) /\ pc[r] \notin HoldsAt(s) /\ to \in HoldsAt(s)
  \/ inflight'[s] = inflight[s] - 1
  \/ inflight'[s] = 0

\* A step that changes the slots as `Charges` says keeps them within those who hold one.
LEMMA ChargesWithin ==
  ASSUME Types, Charging, NEW r \in Requests, NEW to, pc' = [pc EXCEPT ![r] = to],
         NEW s \in Subjects, Charges(r, to, s)
  PROVE  inflight'[s] <= Cardinality(Holding(s)')
<1>1. \A q \in Requests : pc'[q] = IF q = r THEN to ELSE pc[q]
  BY DEF Types
<1>2. By(s)' = By(s) /\ By(s) \in SUBSET Requests /\ SlotAt(s)' = SlotAt(s)
  BY DEF By, SlotAt
<1>3. Holding(s) \in SUBSET Requests /\ Holding(s)' \in SUBSET Requests
  BY <1>2 DEF Holding
<1>4. /\ inflight[s] \in Int /\ inflight[s] <= Cardinality(Holding(s))
      /\ Cardinality(Holding(s)) \in Nat /\ Cardinality(Holding(s)') \in Nat
  BY <1>3, CardMono DEF Charging, Types, TypeOK
<1>5. CASE inflight'[s] = inflight[s] /\ (r \in By(s) /\ pc[r] \in HoldsAt(s) => to \in HoldsAt(s))
  <2>1. Holding(s) \subseteq Holding(s)'
    BY <1>1, <1>2, <1>5 DEF Holding, HoldsAt
  <2>2. Cardinality(Holding(s)) <= Cardinality(Holding(s)')
    BY <1>3, <2>1, CardMono
  <2>. QED  BY <1>4, <1>5, <2>2
<1>6. CASE /\ inflight'[s] = inflight[s] + 1
           /\ r \in By(s) /\ pc[r] \notin HoldsAt(s) /\ to \in HoldsAt(s)
  <2>1. r \notin Holding(s) /\ Holding(s) \union {r} \subseteq Holding(s)'
    BY <1>1, <1>2, <1>6 DEF Holding, HoldsAt
  <2>2. Cardinality(Holding(s) \union {r}) = Cardinality(Holding(s)) + 1
    BY <1>3, <2>1, CardWith
  <2>3. Cardinality(Holding(s) \union {r}) <= Cardinality(Holding(s)')
    BY <1>3, <2>1, CardMono
  <2>. QED  BY <1>4, <1>6, <2>2, <2>3
<1>7. CASE inflight'[s] = inflight[s] - 1
  <2>1. Holding(s) \ {r} \subseteq Holding(s)'
    BY <1>1, <1>2 DEF Holding
  <2>2. Cardinality(Holding(s) \ {r}) <= Cardinality(Holding(s)')
    BY <1>3, <2>1, CardMono
  <2>3. CASE r \in Holding(s)
    <3>1. Cardinality(Holding(s) \ {r}) = Cardinality(Holding(s)) - 1
      BY <1>3, <2>3, CardWithout
    <3>. QED  BY <1>4, <1>7, <2>2, <3>1
  <2>4. CASE r \notin Holding(s)
    <3>1. Holding(s) \ {r} = Holding(s)
      BY <2>4
    <3>2. Cardinality(Holding(s)) <= Cardinality(Holding(s)')
      BY <2>2, <3>1, Zenon
    <3>. QED  BY <1>4, <1>7, <3>2
  <2>. QED  BY <2>3, <2>4
<1>8. CASE inflight'[s] = 0
  BY <1>4, <1>8
<1>. QED  BY <1>5, <1>6, <1>7, <1>8 DEF Charges

\* Taking, returning and giving back a slot, and every other command of a request.
LEMMA StepCharges ==
  ASSUME Types, Charging, NEW r \in Requests, Step(r)
  PROVE  Charging'
<1>1. ASSUME NEW s \in Subjects
      PROVE  \E to : pc' = [pc EXCEPT ![r] = to] /\ Charges(r, to, s)
  <2>1. /\ inflight[s] \in Int /\ UserOf[r] \in Subjects /\ UserOf[r] # Tenant
        /\ r \in By(s) <=> s \in {Tenant, UserOf[r]}
        /\ inflight \in [Subjects -> Int]
    BY Constants DEF Types, TypeOK, By
  <2>2. CASE AcquireConcurrency(r)
    BY <2>1, <2>2 DEF AcquireConcurrency, TakeLock, GiveUpLock, ReadSlots, TakeSlot, ReturnSlot,
         CheckLock, DropLock, Goes, Charges, HoldsAt, SlotAt
  <2>3. CASE Admit(r)
    BY <2>1, <2>3 DEF Admit, TakeLock, GiveUpLock, Bump, Decide, Unbump,
         CheckLock, DropLock, Goes, Charges, HoldsAt, SlotAt
  <2>4. CASE ReleaseConcurrency(r)
    BY <2>1, <2>4 DEF ReleaseConcurrency, GiveBack, ToZero, Goes, Charges, HoldsAt, SlotAt
  <2>5. CASE Finish(r)
    BY <2>1, <2>5 DEF Finish, Goes, Charges, HoldsAt, SlotAt
  <2>. QED  BY <2>2, <2>3, <2>4, <2>5 DEF Step
<1>. QED  BY <1>1, ChargesWithin DEF Charging

-----------------------------------------------------------------------------
\* Types

PCs == Entering \union Deciding \union Leaving

\* A command of a request keeps the types.
LEMMA StepTypes ==
  ASSUME Types, NEW r \in Requests, Step(r), rpm' \in [Subjects -> Nat]
  PROVE  Types'
<1>1. /\ UserOf[r] \in Users /\ UserOf[r] \in Subjects /\ Tenant \in Subjects
      /\ pc \in [Requests -> PCs] /\ inflight \in [Subjects -> Int]
      /\ lock \in [Locks -> [Users -> Requests \union {Nobody}]]
      /\ bumps \in [Requests -> [Subjects -> Nat]] /\ served \in SUBSET Requests
  BY Constants DEF Types, TypeOK, PCs
<1>2. pc' \in [Requests -> PCs]
  <2>1. PICK to \in PCs : pc' = [pc EXCEPT ![r] = to]
    BY DEF Step, AcquireConcurrency, Admit, ReleaseConcurrency, Finish, TakeLock, GiveUpLock,
         ReadSlots, TakeSlot, ReturnSlot, CheckLock, DropLock, Bump, Decide, Unbump,
         GiveBack, ToZero, Goes, PCs, Entering, Deciding, Leaving
  <2>. QED  BY <1>1, <2>1
<1>3. inflight' \in [Subjects -> Int]
  <2>1. \/ inflight' = inflight
        \/ \E s \in Subjects : \/ inflight' = [inflight EXCEPT ![s] = @ + 1]
                               \/ inflight' = [inflight EXCEPT ![s] = @ - 1]
                               \/ inflight' = [inflight EXCEPT ![s] = 0]
    BY <1>1 DEF Step, AcquireConcurrency, Admit, ReleaseConcurrency, Finish, TakeLock,
         GiveUpLock, ReadSlots, TakeSlot, ReturnSlot, CheckLock, DropLock, Bump, Decide,
         Unbump, GiveBack, ToZero
  <2>. QED  BY <1>1, <2>1
<1>4. lock' \in [Locks -> [Users -> Requests \union {Nobody}]]
  <2>1. \/ lock' = lock
        \/ \E k \in Locks, holder \in Requests \union {Nobody} :
             lock' = [lock EXCEPT ![k][UserOf[r]] = holder]
    BY <1>1 DEF Step, AcquireConcurrency, Admit, ReleaseConcurrency, Finish, TakeLock,
         GiveUpLock, ReadSlots, TakeSlot, ReturnSlot, CheckLock, DropLock, Bump, Decide,
         Unbump, GiveBack, ToZero, Locks
  <2>2. ASSUME NEW k \in Locks, NEW holder \in Requests \union {Nobody}
        PROVE  [lock EXCEPT ![k][UserOf[r]] = holder]
                 \in [Locks -> [Users -> Requests \union {Nobody}]]
    <3>1. [lock[k] EXCEPT ![UserOf[r]] = holder] \in [Users -> Requests \union {Nobody}]
      BY <1>1
    <3>. QED  BY <1>1, <3>1
  <2>. QED  BY <1>1, <2>1, <2>2
<1>5. bumps' \in [Requests -> [Subjects -> Nat]] /\ served' \in SUBSET Requests
  <2>1. CASE Bump(r, "bump tenant", Tenant, "bump user")
    BY <1>1, <2>1 DEF Bump
  <2>2. CASE Bump(r, "bump user", UserOf[r], "decide")
    BY <1>1, <2>2 DEF Bump
  <2>3. CASE Decide(r)
    BY <1>1, <2>3 DEF Decide, Unbumped
  <2>4. CASE Unbump(r, "unbump tenant", Tenant, "unbump user")
    BY <1>1, <2>4 DEF Unbump
  <2>5. CASE Unbump(r, "unbump user", UserOf[r], "refuse admit")
    BY <1>1, <2>5 DEF Unbump
  <2>6. CASE ~CountingStep(r)
    BY <1>1, <2>6, StepsElsewhere DEF Elsewhere
  <2>. QED  BY <2>1, <2>2, <2>3, <2>4, <2>5, <2>6 DEF CountingStep
<1>. QED  BY <1>2, <1>3, <1>4, <1>5 DEF Types, TypeOK, PCs

-----------------------------------------------------------------------------
\* The invariant is inductive

\* Nothing is counted, and nobody charged, before the first request.
LEMMA InitIInv == Init => IInv
<1>. SUFFICES ASSUME Init PROVE IInv
  OBVIOUS
<1>1. Types
  BY DEF Init, Types, TypeOK, Entering, Unbumped
<1>2. ASSUME NEW s \in Subjects
      PROVE  /\ Counted(s) = {} /\ Winning(s) = {} /\ Holding(s) = {}
             /\ Crashed(s) = {} /\ rpm[s] = 0 /\ inflight[s] = 0
  BY DEF Init, Counted, Winning, Holding, Crashed, By, BumpedAt, UnsureAt, SlotAt
<1>3. Cardinality({}) = 0
  BY FS_EmptySet
<1>4. ASSUME NEW s \in Subjects
      PROVE  /\ Cardinality(Counted(s)) = 0 /\ Cardinality(Winning(s)) = 0
             /\ Cardinality(Holding(s)) = 0 /\ Cardinality(Counted(s) \union Crashed(s)) = 0
  <2>1. Counted(s) \union Crashed(s) = {}
    BY <1>2
  <2>. QED  BY <1>2, <1>3, <2>1, Zenon
<1>5. Charging
  BY <1>2, <1>4 DEF Charging
<1>6. \A r \in served : pc[r] \in Leaving
  BY DEF Init
<1>7. Counting
  BY <1>2, <1>4, <1>6, Constants DEF Counting
<1>. QED  BY <1>1, <1>5, <1>7 DEF IInv

\* Every command of a request preserves the invariant.
LEMMA StepIInv ==
  ASSUME IInv, NEW r \in Requests, Step(r)
  PROVE  IInv'
<1>1. Types /\ Counting /\ Charging
  BY DEF IInv
<1>2. UserOf[r] \in Subjects /\ Tenant \in Subjects
  BY Constants
<1>3. Counting' /\ rpm' \in [Subjects -> Nat]
  <2>0. rpm \in [Subjects -> Nat]
    BY <1>1 DEF Types, TypeOK
  <2>1. CASE Bump(r, "bump tenant", Tenant, "bump user")
    <3>1. IncrementsAt(r, Tenant, "bump tenant", "bump user")
      BY DEF IncrementsAt
    <3>2. rpm' = [rpm EXCEPT ![Tenant] = rpm[Tenant] + 1]
      BY <2>1, Zenon DEF Bump
    <3>3. rpm' \in [Subjects -> Nat]
      BY <1>2, <2>0, <3>2
    <3>. QED  BY <1>1, <1>2, <2>1, <3>1, <3>3, BumpCounts
  <2>2. CASE Bump(r, "bump user", UserOf[r], "decide")
    <3>1. IncrementsAt(r, UserOf[r], "bump user", "decide")
      BY DEF IncrementsAt
    <3>2. rpm' = [rpm EXCEPT ![UserOf[r]] = rpm[UserOf[r]] + 1]
      BY <2>2, Zenon DEF Bump
    <3>3. rpm' \in [Subjects -> Nat]
      BY <1>2, <2>0, <3>2
    <3>. QED  BY <1>1, <1>2, <2>2, <3>1, <3>3, BumpCounts
  <2>3. CASE Decide(r)
    BY <1>1, <2>0, <2>3, DecideCounts DEF Decide
  <2>4. CASE Unbump(r, "unbump tenant", Tenant, "unbump user")
    <3>1. DecrementsAt(r, Tenant, "unbump tenant", "unbump user")
      BY DEF DecrementsAt
    <3>. QED  BY <1>1, <1>2, <2>4, <3>1, UnbumpCounts
  <2>5. CASE Unbump(r, "unbump user", UserOf[r], "refuse admit")
    <3>1. DecrementsAt(r, UserOf[r], "unbump user", "refuse admit")
      BY DEF DecrementsAt
    <3>. QED  BY <1>1, <1>2, <2>5, <3>1, UnbumpCounts
  <2>6. CASE ~CountingStep(r)
    <3>1. Elsewhere(r)
      BY <1>1, <2>6, StepsElsewhere
    <3>. QED  BY <1>1, <2>0, <3>1, ElsewhereCounts DEF Elsewhere
  <2>. QED  BY <2>1, <2>2, <2>3, <2>4, <2>5, <2>6 DEF CountingStep
<1>4. Charging'
  BY <1>1, StepCharges
<1>5. Types'
  BY <1>1, <1>3, StepTypes
<1>. QED  BY <1>3, <1>4, <1>5 DEF IInv

\* A worker that dies leaves what it had counted to `Crashed`.
LEMMA CrashIInv ==
  ASSUME IInv, NEW r \in Requests, Crash(r)
  PROVE  IInv'
<1>1. Types /\ Counting /\ Charging
  BY DEF IInv
<1>2. Types'
  BY <1>1 DEF Crash, Types, TypeOK, Leaving, Unbumped
<1>3. ASSUME NEW s \in Subjects
      PROVE  pc' = [pc EXCEPT ![r] = "crashed"] /\ Charges(r, "crashed", s)
  BY DEF Crash, Charges, HoldsAt
<1>4. Charging'
  BY <1>1, <1>3, ChargesWithin DEF Charging
<1>. QED  BY <1>1, <1>2, <1>4, CrashCounts DEF IInv

\* Locks play no part in the invariant, and a key that expires frees slots.
LEMMA ExpiryIInv ==
  ASSUME IInv, \/ \E k \in Locks, u \in Users : LockExpires(k, u)
               \/ \E s \in Subjects : SlotsExpired(s)
  PROVE  IInv'
<1>1. /\ UNCHANGED <<pc, rpm, bumps, served>>
      /\ \A s \in Subjects : inflight'[s] \in {inflight[s], 0}
      /\ inflight' \in [Subjects -> Int]
      /\ lock' \in [Locks -> [Users -> Requests \union {Nobody}]]
  <2>1. ASSUME NEW k \in Locks, NEW u \in Users, LockExpires(k, u)
        PROVE  lock' \in [Locks -> [Users -> Requests \union {Nobody}]]
    <3>1. lock \in [Locks -> [Users -> Requests \union {Nobody}]]
      BY DEF IInv, Types, TypeOK
    <3>2. [lock[k] EXCEPT ![u] = Nobody] \in [Users -> Requests \union {Nobody}]
      BY <3>1
    <3>3. lock' = [lock EXCEPT ![k] = [lock[k] EXCEPT ![u] = Nobody]]
      BY <2>1, <3>1 DEF LockExpires
    <3>. QED  BY <3>1, <3>2, <3>3
  <2>2. ASSUME NEW s \in Subjects, SlotsExpired(s)
        PROVE  /\ inflight' \in [Subjects -> Int]
               /\ \A t \in Subjects : inflight'[t] \in {inflight[t], 0}
    BY <2>2 DEF SlotsExpired, IInv, Types, TypeOK
  <2>. QED  BY <2>1, <2>2 DEF LockExpires, SlotsExpired, IInv, Types, TypeOK
<1>2. Types'
  BY <1>1 DEF IInv, Types, TypeOK
<1>3. ASSUME NEW s \in Subjects
      PROVE  /\ Counted(s)' = Counted(s) /\ Winning(s)' = Winning(s)
             /\ Crashed(s)' = Crashed(s) /\ Holding(s)' = Holding(s)
  BY <1>1 DEF Counted, Winning, Crashed, Holding, By, BumpedAt, UnsureAt, SlotAt, Limit
<1>4. Counting'
  BY <1>1, <1>3 DEF Counting, Limit, IInv
<1>5. Charging'
  <2>1. ASSUME NEW s \in Subjects
        PROVE  inflight'[s] <= Cardinality(Holding(s)')
    <3>1. Cardinality(Holding(s)) \in Nat
      BY CardMono, Constants DEF Holding
    <3>2. inflight[s] <= Cardinality(Holding(s)) /\ inflight[s] \in Int
      BY DEF IInv, Charging, Types, TypeOK
    <3>. QED  BY <1>1, <1>3, <3>1, <3>2
  <2>. QED  BY <2>1 DEF Charging
<1>. QED  BY <1>2, <1>4, <1>5 DEF IInv

\* Every step preserves the inductive invariant.
LEMMA NextIInv == IInv /\ [Next]_vars => IInv'
<1>. SUFFICES ASSUME IInv, [Next]_vars PROVE IInv'
  OBVIOUS
<1>1. CASE UNCHANGED vars
  BY <1>1 DEF vars, IInv, Types, TypeOK, Counting, Charging, Counted, Winning, Holding,
       Crashed, By, BumpedAt, UnsureAt, SlotAt, Limit
<1>. QED  BY <1>1, StepIInv, CrashIInv, ExpiryIInv DEF Next

\* The inductive invariant holds in every reachable state.
LEMMA Inductive == Spec => []IInv
<1>. QED  BY InitIInv, NextIInv, PTL DEF Spec

-----------------------------------------------------------------------------
\* The results

\* Counters of requests never go below zero, and every variable keeps its type.
THEOREM TypeCorrect == Spec => []TypeOK
<1>1. IInv => TypeOK
  BY DEF IInv, Types
<1>. QED  BY <1>1, Inductive, PTL

\* Whatever the interleaving of Redis commands, locks that expire and workers
\* that die included, the fleet admits no more requests than a ceiling allows.
THEOREM FleetCeilingHolds == Spec => []FleetCeiling
<1>1. ASSUME IInv, NEW s \in Subjects
      PROVE  Cardinality(served \intersect By(s)) <= Limit(s)
  <2>1. served \intersect By(s) \subseteq Winning(s) /\ Winning(s) \in SUBSET Requests
    BY DEF Winning, By
  <2>2. /\ Cardinality(served \intersect By(s)) <= Cardinality(Winning(s))
        /\ Cardinality(served \intersect By(s)) \in Nat /\ Cardinality(Winning(s)) \in Nat
    BY <2>1, CardMono
  <2>3. Cardinality(Winning(s)) <= Limit(s)
    BY <1>1 DEF IInv, Counting
  <2>. QED  BY <2>2, <2>3, Constants
<1>2. IInv => FleetCeiling
  BY <1>1 DEF FleetCeiling
<1>. QED  BY <1>2, Inductive, PTL

\* Once nobody is being decided upon, a counter stands for the requests admitted
\* and at most for those of workers that died half way: no refund is missed, and
\* none is made twice.
THEOREM RefundsComplete == Spec => []RefundsAreComplete
<1>1. ASSUME IInv, NEW s \in Subjects, \A r \in By(s) : pc[r] \notin Undecided
      PROVE  /\ rpm[s] >= Cardinality(served \intersect By(s))
             /\ rpm[s] <= Cardinality((served \intersect By(s)) \union Crashed(s))
  <2>1. Counted(s) = served \intersect By(s)
    BY <1>1 DEF Counted, BumpedAt, Undecided
  <2>2. /\ Cardinality(Counted(s)) <= rpm[s]
        /\ rpm[s] <= Cardinality(Counted(s) \union Crashed(s))
    BY <1>1 DEF IInv, Counting
  <2>. QED  BY <2>1, <2>2
<1>2. IInv => RefundsAreComplete
  BY <1>1 DEF RefundsAreComplete
<1>. QED  BY <1>2, Inductive, PTL

\* A subject without requests in progress is charged for no slot but those of
\* workers that died.
THEOREM QuietIsFree == Spec => []QuietMeansFree
<1>1. ASSUME IInv, NEW s \in Subjects, \A r \in By(s) : pc[r] \in {"new", "done", "crashed"}
      PROVE  inflight[s] <= Cardinality(Crashed(s))
  <2>1. Holding(s) = Crashed(s)
    BY <1>1 DEF Holding, Crashed, SlotAt
  <2>2. inflight[s] <= Cardinality(Holding(s))
    BY <1>1 DEF IInv, Charging
  <2>. QED  BY <2>1, <2>2
<1>2. IInv => QuietMeansFree
  BY <1>1 DEF QuietMeansFree
<1>. QED  BY <1>2, Inductive, PTL
=============================================================================

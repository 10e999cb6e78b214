----------------------------- MODULE Gateway_proofs -----------------------------
(***************************************************************************)
(* Safety of QuotaLedger for every finite set of requests, every set of    *)
(* users and projects, every ceiling and every length of the windows; and  *)
(* of Gateway, which drives it: that it does to the ledger what            *)
(* QuotaLedger says, and how often it meters a request.                    *)
(*                                                                         *)
(* Which subject is evicted does not matter: an evicted counter is fresh,  *)
(* so it charges nothing, and is in `lost`.  The order in which subjects   *)
(* were used is therefore not part of the invariant.                       *)
(***************************************************************************)
EXTENDS Gateway, FiniteSetTheorems, TLAPS

Counters == [window : [Periods -> Int], used : [Dims -> Nat], inflight : Nat]

IsLedger(l) ==
  /\ l = [order |-> l.order, counters |-> l.counters, lost |-> l.lost]
  /\ l.counters \in [Subjects -> Counters]

\* A subject is charged for at most n[s] slots.
Slotted(l, n) == \A s \in Subjects : l.counters[s].inflight <= n[s]

ThisMinute == now \div Span["minute"]

Current(l, s) == l.counters[s].window["minute"] = ThisMinute

\* The ledger knows at least of the admissions `adm` of this minute, and they are
\* within the ceilings.
Aware(l, adm) ==
  \A s \in Subjects \ l.lost :
    PerMinute(s) # None /\ adm[s] > 0 =>
      /\ Current(l, s)
      /\ adm[s] <= l.counters[s].used["minute"]
      /\ adm[s] <= PerMinute(s)

Charged(r) == {Tenant, UserOf[r]}

\* The constants have the types the ledger's operations need.
LEMMA Constants ==
  /\ \A p \in Periods : Span[p] \in Nat \ {0}
  /\ \A d \in Dims : PeriodOf(d) \in Periods
  /\ \A s \in Subjects : PerMinute(s) \in Nat \union {None}
  /\ "minute" \in Dims /\ "minute" \in Periods /\ "spend" \in Dims
  /\ \A r \in Requests : /\ Tenant \in Subjects /\ UserOf[r] \in Subjects
                         /\ UserOf[r] \in Users /\ UserOf[r] # Tenant
  /\ \A p \in Projects : p \in Subjects /\ p \notin Users /\ p # Tenant
BY QuotaAssumption DEF Periods, Dims, PeriodOf, PerMinute, Subjects

-----------------------------------------------------------------------------
\* The ledger's operations

\* Rolling a counter moves it to the current windows, and forgets only what was
\* counted in others.
LEMMA RolledType ==
  ASSUME now \in Nat, NEW c \in Counters
  PROVE  /\ Rolled(c, now) \in Counters
         /\ Rolled(c, now).inflight = c.inflight
         /\ Rolled(c, now).window["minute"] = ThisMinute
         /\ c.window["minute"] = ThisMinute =>
              Rolled(c, now).used["minute"] = c.used["minute"]
<1>. DEFINE window == [p \in Periods |-> now \div Span[p]]
            used == [dim \in Dims |-> IF now \div Span[PeriodOf(dim)] # c.window[PeriodOf(dim)]
                                      THEN 0 ELSE c.used[dim]]
<1>1. Rolled(c, now) = [c EXCEPT !.window = window, !.used = used]
  BY Zenon DEF Rolled
<1>2. window \in [Periods -> Int]
  <2>1. \A m \in Nat, n \in Nat \ {0} : m \div n \in Int
    OBVIOUS
  <2>. QED  BY <2>1, Constants
<1>3. used \in [Dims -> Nat]
  BY DEF Counters
<1>4. window["minute"] = ThisMinute
  BY Constants DEF ThisMinute
<1>5. c.window["minute"] = ThisMinute => used["minute"] = c.used["minute"]
  BY Constants DEF ThisMinute, PeriodOf
<1>. HIDE DEF window, used
<1>. QED  BY <1>1, <1>2, <1>3, <1>4, <1>5 DEF Counters

\* Tracking a subject, and evicting another, loses nothing that is not in `lost`.
LEMMA CountersForKeeps ==
  ASSUME now \in Nat, NEW l, IsLedger(l), NEW s \in Subjects
  PROVE  LET m == CountersFor(l, s) IN
         /\ IsLedger(m) /\ l.lost \subseteq m.lost
         /\ \A x \in Subjects : m.counters[x].inflight \in {l.counters[x].inflight, 0}
         /\ \A x \in Subjects \ m.lost : Current(l, x) =>
              Current(m, x) /\ m.counters[x].used["minute"] = l.counters[x].used["minute"]
         /\ Current(m, s)
<1>. DEFINE m == CountersFor(l, s)
<1>1. PICK dropped :
        /\ m.counters = [x \in Subjects |-> IF x = s THEN Rolled(l.counters[s], now)
                                            ELSE IF x \in dropped THEN Fresh
                                            ELSE l.counters[x]]
        /\ m.lost = l.lost \union dropped
        /\ m = [order |-> m.order, counters |-> m.counters, lost |-> m.lost]
  BY DEF CountersFor
<1>. HIDE DEF m
<1>2. Fresh \in Counters /\ Fresh.inflight = 0
  BY DEF Fresh, Counters
<1>3. /\ Rolled(l.counters[s], now) \in Counters
      /\ Rolled(l.counters[s], now).inflight = l.counters[s].inflight
      /\ Rolled(l.counters[s], now).window["minute"] = ThisMinute
      /\ Current(l, s) => Rolled(l.counters[s], now).used["minute"]
                            = l.counters[s].used["minute"]
  BY RolledType DEF IsLedger, Current
<1>4. IsLedger(m)
  BY <1>1, <1>2, <1>3 DEF IsLedger
<1>5. ASSUME NEW x \in Subjects
      PROVE  m.counters[x].inflight \in {l.counters[x].inflight, 0}
  BY <1>1, <1>2, <1>3
<1>6. ASSUME NEW x \in Subjects \ m.lost, Current(l, x)
      PROVE  Current(m, x) /\ m.counters[x].used["minute"] = l.counters[x].used["minute"]
  BY <1>1, <1>3, <1>6 DEF Current
<1>7. Current(m, s)
  BY <1>1, <1>3 DEF Current
<1>. QED  BY <1>1, <1>4, <1>5, <1>6, <1>7 DEF m

\* What holds of a ledger still holds when subjects have been tracked.
LEMMA CountersForAware ==
  ASSUME now \in Nat, NEW l, IsLedger(l), NEW s \in Subjects,
         NEW n \in [Subjects -> Nat], NEW adm
  PROVE  LET m == CountersFor(l, s) IN
         /\ Slotted(l, n) => Slotted(m, n)
         /\ Aware(l, adm) => Aware(m, adm)
<1>. DEFINE m == CountersFor(l, s)
<1>1. /\ l.lost \subseteq m.lost
      /\ \A x \in Subjects : m.counters[x].inflight \in {l.counters[x].inflight, 0}
      /\ \A x \in Subjects \ m.lost : Current(l, x) =>
           Current(m, x) /\ m.counters[x].used["minute"] = l.counters[x].used["minute"]
  BY CountersForKeeps
<1>. HIDE DEF m
<1>2. ASSUME Slotted(l, n), NEW x \in Subjects
      PROVE  m.counters[x].inflight <= n[x]
  <2>1. m.counters[x].inflight = l.counters[x].inflight \/ m.counters[x].inflight = 0
    BY <1>1
  <2>2. l.counters[x].inflight <= n[x] /\ n[x] \in Nat
    BY <1>2 DEF Slotted
  <2>. QED  BY <2>1, <2>2
<1>3. Aware(l, adm) => Aware(m, adm)
  BY <1>1 DEF Aware
<1>. QED  BY <1>2, <1>3 DEF Slotted, m

\* Fetching the counters of a request brings those of its tenant and its user, unless
\* one was evicted for the other, to the current minute, and loses nothing else.
LEMMA FetchedKeeps ==
  ASSUME now \in Nat, NEW l, IsLedger(l), NEW r \in Requests,
         NEW n \in [Subjects -> Nat], NEW adm
  PROVE  LET f == Fetched(l, r) IN
         /\ IsLedger(f)
         /\ Slotted(l, n) => Slotted(f, n)
         /\ Aware(l, adm) => Aware(f, adm)
         /\ \A s \in Charged(r) \ f.lost : Current(f, s)
<1>. DEFINE m == CountersFor(l, Tenant)
            f == CountersFor(m, UserOf[r])
<1>1. IsLedger(m) /\ Current(m, Tenant)
  BY CountersForKeeps, Constants
<1>2. (Slotted(l, n) => Slotted(m, n)) /\ (Aware(l, adm) => Aware(m, adm))
  BY CountersForAware, Constants
<1>. HIDE DEF m
<1>3. /\ IsLedger(f) /\ Current(f, UserOf[r])
      /\ Tenant \notin f.lost => Current(f, Tenant)
  BY <1>1, CountersForKeeps, Constants
<1>4. (Slotted(m, n) => Slotted(f, n)) /\ (Aware(m, adm) => Aware(f, adm))
  BY <1>1, CountersForAware, Constants
<1>5. Fetched(l, r) = f
  BY DEF Fetched, m
<1>. HIDE DEF f
<1>. QED  BY <1>2, <1>3, <1>4, <1>5 DEF Charged

Plus(n, r) == [s \in Subjects |-> IF s \in Charged(r) THEN n[s] + 1 ELSE n[s]]

\* Taking and giving back slots changes nothing else.
LEMMA SlotsKeeps ==
  ASSUME NEW l, IsLedger(l), NEW r \in Requests, NEW n \in [Subjects -> Nat], NEW adm,
         NEW delta \in {1, -1}
  PROVE  LET m == Slots(l, r, delta) IN
         /\ IsLedger(m)
         /\ Aware(l, adm) => Aware(m, adm)
         /\ Slotted(l, n) => Slotted(m, IF delta = 1 THEN Plus(n, r) ELSE n)
         /\ delta = -1 /\ Slotted(l, Plus(n, r)) => Slotted(m, n)
<1>. DEFINE m == Slots(l, r, delta)
            floor(k) == IF k + delta > 0 THEN k + delta ELSE 0
            next == [s \in Subjects |->
                       IF s \in Charged(r)
                       THEN [l.counters[s] EXCEPT !.inflight = floor(l.counters[s].inflight)]
                       ELSE l.counters[s]]
<1>1. m = [l EXCEPT !.counters = next]
  BY Zenon DEF Slots, Charged
<1>2. ASSUME NEW s \in Subjects
      PROVE  /\ next[s] \in Counters
             /\ next[s].window = l.counters[s].window /\ next[s].used = l.counters[s].used
             /\ next[s].inflight = IF s \in Charged(r) THEN floor(l.counters[s].inflight)
                                   ELSE l.counters[s].inflight
             /\ l.counters[s].inflight \in Nat
  <2>. DEFINE c == l.counters[s]
  <2>1. c \in Counters
    BY DEF IsLedger
  <2>2. floor(c.inflight) \in Nat
    BY <2>1 DEF Counters
  <2>3. next[s] = IF s \in Charged(r) THEN [c EXCEPT !.inflight = floor(c.inflight)] ELSE c
    OBVIOUS
  <2>. HIDE DEF c, floor, next
  <2>4. /\ next[s] \in Counters /\ next[s].window = c.window /\ next[s].used = c.used
        /\ next[s].inflight = IF s \in Charged(r) THEN floor(c.inflight) ELSE c.inflight
        /\ c.inflight \in Nat
    BY <2>1, <2>2, <2>3 DEF Counters
  <2>. QED  BY <2>4 DEF c
<1>3. /\ IsLedger(m) /\ m.lost = l.lost /\ m.counters = next
  <2>1. next = [s \in Subjects |-> next[s]]
    OBVIOUS
  <2>. HIDE DEF next, m
  <2>2. next \in [Subjects -> Counters]
    BY <1>2, <2>1
  <2>3. m = [order |-> l.order, counters |-> next, lost |-> l.lost]
    BY <1>1 DEF IsLedger
  <2>. QED  BY <2>2, <2>3 DEF IsLedger
<1>. HIDE DEF next, m
<1>4. Aware(l, adm) => Aware(m, adm)
  BY <1>2, <1>3 DEF Aware, Current
<1>5. ASSUME Slotted(l, n), NEW s \in Subjects
      PROVE  m.counters[s].inflight <= (IF delta = 1 THEN Plus(n, r) ELSE n)[s]
  <2>1. l.counters[s].inflight <= n[s] /\ n[s] \in Nat
    BY <1>5 DEF Slotted
  <2>. QED  BY <1>2, <1>3, <2>1 DEF Plus
<1>6. ASSUME delta = -1, Slotted(l, Plus(n, r)), NEW s \in Subjects
      PROVE  m.counters[s].inflight <= n[s]
  <2>1. l.counters[s].inflight <= Plus(n, r)[s] /\ n[s] \in Nat
    BY <1>6 DEF Slotted
  <2>. QED  BY <1>2, <1>3, <1>6, <2>1 DEF Plus
<1>. QED  BY <1>3, <1>4, <1>5, <1>6 DEF Slotted, m

\* Taking slots charges one slot to the tenant and to the user, or none.
LEMMA AcquireKeeps ==
  ASSUME now \in Nat, NEW l, IsLedger(l), NEW r \in Requests,
         NEW n \in [Subjects -> Nat], NEW adm
  PROVE  LET a == Acquire(l, r) IN
         /\ IsLedger(a.ledger)
         /\ Aware(l, adm) => Aware(a.ledger, adm)
         /\ Slotted(l, n) /\ a.ok => Slotted(a.ledger, Plus(n, r))
         /\ Slotted(l, n) /\ ~a.ok => Slotted(a.ledger, n)
<1>. DEFINE f == Fetched(l, r)
            a == Acquire(l, r)
            taken == Slots(f, r, 1)
<1>1. /\ IsLedger(f) 
      /\ Aware(l, adm) => Aware(f, adm)
      /\ Slotted(l, n) => Slotted(f, n)
  BY FetchedKeeps
<1>2. \/ a.ok /\ a.ledger = taken
      \/ ~a.ok /\ a.ledger = f
  BY DEF Acquire
<1>. HIDE DEF f
<1>3. /\ IsLedger(taken)
      /\ Aware(f, adm) => Aware(taken, adm)
      /\ Slotted(f, n) => Slotted(taken, Plus(n, r))
  <2>1. 1 \in {1, -1} /\ 1 = 1
    OBVIOUS
  <2>. QED  BY <1>1, <2>1, SlotsKeeps
<1>. HIDE DEF a, taken
<1>4. CASE a.ok /\ a.ledger = taken
  BY <1>1, <1>3, <1>4 DEF a
<1>5. CASE ~a.ok /\ a.ledger = f
  BY <1>1, <1>5 DEF a
<1>. QED  BY <1>2, <1>4, <1>5

\* Giving slots back never leaves more slots charged than a request in progress
\* accounts for, whether or not the request had taken any.
LEMMA ReleaseKeeps ==
  ASSUME now \in Nat, NEW l, IsLedger(l), NEW r \in Requests,
         NEW n \in [Subjects -> Nat], NEW adm
  PROVE  LET m == Release(l, r) IN
         /\ IsLedger(m)
         /\ Aware(l, adm) => Aware(m, adm)
         /\ Slotted(l, n) \/ Slotted(l, Plus(n, r)) => Slotted(m, n)
<1>. DEFINE f == Fetched(l, r)
            given == Slots(f, r, -1)
<1>1. Plus(n, r) \in [Subjects -> Nat]
  BY DEF Plus
<1>2. /\ IsLedger(f)
      /\ Aware(l, adm) => Aware(f, adm)
      /\ Slotted(l, n) => Slotted(f, n)
  BY FetchedKeeps
<1>3. Slotted(l, Plus(n, r)) => Slotted(f, Plus(n, r))
  BY <1>1, FetchedKeeps
<1>. HIDE DEF f
<1>4. /\ IsLedger(given)
      /\ Aware(f, adm) => Aware(given, adm)
      /\ Slotted(f, n) => Slotted(given, n)
      /\ Slotted(f, Plus(n, r)) => Slotted(given, n)
  <2>1. -1 \in {1, -1} /\ -1 # 1 /\ -1 = -1
    OBVIOUS
  <2>. QED  BY <1>2, <2>1, SlotsKeeps
<1>5. Release(l, r) = given
  BY DEF Release, f
<1>. HIDE DEF given
<1>. QED  BY <1>2, <1>3, <1>4, <1>5

\* Counting a request adds one to the counters it names, in the windows they are in.
LEMMA CountedKeeps ==
  ASSUME NEW l, IsLedger(l), NEW subjects, NEW dims, "minute" \in dims
  PROVE  LET m == Counted(l, subjects, dims) IN
         /\ IsLedger(m) /\ m.lost = l.lost
         /\ \A s \in Subjects :
              /\ m.counters[s].inflight = l.counters[s].inflight
              /\ Current(m, s) <=> Current(l, s)
              /\ l.counters[s].used["minute"] \in Nat
              /\ s \in subjects =>
                   m.counters[s].used["minute"] = l.counters[s].used["minute"] + 1
              /\ s \notin subjects =>
                   m.counters[s].used["minute"] = l.counters[s].used["minute"]
<1>. DEFINE m == Counted(l, subjects, dims)
            more(c) == [dim \in Dims |-> IF dim \in dims THEN c.used[dim] + 1 ELSE c.used[dim]]
            next == [s \in Subjects |->
                       IF s \in subjects THEN [l.counters[s] EXCEPT !.used = more(l.counters[s])]
                       ELSE l.counters[s]]
<1>1. m = [l EXCEPT !.counters = next]
  BY Zenon DEF Counted
<1>2. ASSUME NEW s \in Subjects
      PROVE  /\ next[s] \in Counters
             /\ next[s].window = l.counters[s].window
             /\ next[s].inflight = l.counters[s].inflight
             /\ l.counters[s].used["minute"] \in Nat
             /\ s \in subjects => next[s].used["minute"] = l.counters[s].used["minute"] + 1
             /\ s \notin subjects => next[s].used["minute"] = l.counters[s].used["minute"]
  <2>. DEFINE c == l.counters[s]
  <2>1. c \in Counters
    BY DEF IsLedger
  <2>2. /\ more(c) \in [Dims -> Nat]
        /\ more(c)["minute"] = c.used["minute"] + 1
        /\ c.used["minute"] \in Nat
    BY <2>1, Constants DEF Counters
  <2>3. next[s] = IF s \in subjects THEN [c EXCEPT !.used = more(c)] ELSE c
    OBVIOUS
  <2>. HIDE DEF c, more, next
  <2>4. /\ next[s] \in Counters /\ next[s].window = c.window /\ next[s].inflight = c.inflight
        /\ next[s].used = IF s \in subjects THEN more(c) ELSE c.used
    BY <2>1, <2>2, <2>3 DEF Counters
  <2>. QED  BY <2>2, <2>4 DEF c
<1>3. /\ IsLedger(m) /\ m.lost = l.lost /\ m.counters = next
  <2>1. next = [s \in Subjects |-> next[s]]
    OBVIOUS
  <2>. HIDE DEF next, m
  <2>2. next \in [Subjects -> Counters]
    BY <1>2, <2>1
  <2>3. m = [order |-> l.order, counters |-> next, lost |-> l.lost]
    BY <1>1 DEF IsLedger
  <2>. QED  BY <2>2, <2>3 DEF IsLedger
<1>. HIDE DEF next, m
<1>. QED  BY <1>2, <1>3 DEF Current, m

HasProject(r) == ProjectPerMinute # None /\ ProjectOf[r] # NoProject

\* Whom an admission counts for.
Counts(r) == Charged(r) \union (IF HasProject(r) THEN {ProjectOf[r]} ELSE {})

\* A ledger from which request r may be admitted: what it holds for those the
\* admission counts for is current and below their ceilings.
Ready(g, r) ==
  \A s \in Counts(r) \ g.lost :
    /\ Current(g, s)
    /\ PerMinute(s) # None => g.counters[s].used["minute"] < PerMinute(s)

\* Counting an admitted request is counting it once for each of them.
CountedFor(g, m, r) ==
  /\ m.lost = g.lost
  /\ \A s \in Subjects :
       /\ m.counters[s].inflight = g.counters[s].inflight
       /\ Current(m, s) <=> Current(g, s)
       /\ g.counters[s].used["minute"] \in Nat
       /\ s \in Counts(r) => m.counters[s].used["minute"] = g.counters[s].used["minute"] + 1
       /\ s \notin Counts(r) => m.counters[s].used["minute"] = g.counters[s].used["minute"]

\* A granted admission starts from a ledger that is ready, and counts the request;
\* a refused one has only tracked subjects.
LEMMA AdmitCounts ==
  ASSUME now \in Nat, NEW l, IsLedger(l), NEW r \in Requests,
         NEW n \in [Subjects -> Nat], NEW adm
  PROVE  \E g : /\ IsLedger(g) /\ IsLedger(Admit(l, r).ledger)
                /\ Slotted(l, n) => Slotted(g, n)
                /\ Aware(l, adm) => Aware(g, adm)
                /\ Admit(l, r).ok => Ready(g, r) /\ CountedFor(g, Admit(l, r).ledger, r)
                /\ ~Admit(l, r).ok => Admit(l, r).ledger = g
<1>. DEFINE a        == Admit(l, r)
            f        == Fetched(l, r)
            headroom == /\ Headroom(f.counters[Tenant], TenantLimit)
                        /\ Headroom(f.counters[UserOf[r]], UserLimit)
            tracked  == CountersFor(f, ProjectOf[r])
            g        == IF headroom /\ HasProject(r) THEN tracked ELSE f
            counted  == Counted(g, Charged(r), {"minute", "day", "month"})
            all      == Counted(counted, {ProjectOf[r]}, {"minute"})
<1>1. /\ ~a.ok => a.ledger = g
      /\ a.ok => /\ headroom
                 /\ HasProject(r) =>
                      g.counters[ProjectOf[r]].used["minute"] < ProjectPerMinute
                 /\ a.ledger = IF HasProject(r) THEN all ELSE counted
  BY Zenon DEF Admit, HasProject, Charged
<1>2. /\ IsLedger(f)
      /\ Slotted(l, n) => Slotted(f, n)
      /\ Aware(l, adm) => Aware(f, adm)
      /\ \A s \in Charged(r) \ f.lost : Current(f, s)
  BY FetchedKeeps
<1>3. headroom => \A s \in Charged(r) :
        PerMinute(s) # None => f.counters[s].used["minute"] < PerMinute(s)
  BY Constants DEF Headroom, Within, Charged, PerMinute
<1>4. HasProject(r) => /\ ProjectOf[r] \in Projects /\ ProjectOf[r] \in Subjects
                       /\ ProjectOf[r] \notin Charged(r)
                       /\ PerMinute(ProjectOf[r]) = ProjectPerMinute
  BY QuotaAssumption, Constants DEF HasProject, Charged, PerMinute
<1>. HIDE DEF f, headroom
<1>5. HasProject(r) =>
        /\ IsLedger(tracked) /\ f.lost \subseteq tracked.lost
        /\ Slotted(f, n) => Slotted(tracked, n)
        /\ Aware(f, adm) => Aware(tracked, adm)
        /\ \A s \in Subjects \ tracked.lost : Current(f, s) =>
             /\ Current(tracked, s)
             /\ tracked.counters[s].used["minute"] = f.counters[s].used["minute"]
        /\ Current(tracked, ProjectOf[r])
  BY <1>2, <1>4, CountersForKeeps, CountersForAware
<1>. HIDE DEF tracked
<1>6. /\ IsLedger(g) /\ f.lost \subseteq g.lost
      /\ Slotted(l, n) => Slotted(g, n)
      /\ Aware(l, adm) => Aware(g, adm)
      /\ \A s \in Charged(r) \ g.lost :
           /\ Current(g, s)
           /\ g.counters[s].used["minute"] = f.counters[s].used["minute"]
      /\ headroom /\ HasProject(r) => Current(g, ProjectOf[r])
  <2>1. Charged(r) \subseteq Subjects
    BY Constants DEF Charged
  <2>2. CASE headroom /\ HasProject(r)
    BY <1>2, <1>5, <2>1, <2>2
  <2>3. CASE ~(headroom /\ HasProject(r))
    BY <1>2, <2>3
  <2>. QED  BY <2>2, <2>3
<1>. HIDE DEF g
<1>7. a.ok => Ready(g, r)
  BY <1>1, <1>3, <1>4, <1>6 DEF Ready, Counts
<1>8. /\ "minute" \in {"minute", "day", "month"} /\ "minute" \in {"minute"}
  OBVIOUS
<1>9. /\ IsLedger(counted) /\ counted.lost = g.lost
      /\ \A s \in Subjects :
           /\ counted.counters[s].inflight = g.counters[s].inflight
           /\ Current(counted, s) <=> Current(g, s)
           /\ g.counters[s].used["minute"] \in Nat
           /\ s \in Charged(r) =>
                counted.counters[s].used["minute"] = g.counters[s].used["minute"] + 1
           /\ s \notin Charged(r) =>
                counted.counters[s].used["minute"] = g.counters[s].used["minute"]
  BY <1>6, <1>8, CountedKeeps
<1>. HIDE DEF counted
<1>10. /\ IsLedger(all) /\ all.lost = counted.lost
       /\ \A s \in Subjects :
            /\ all.counters[s].inflight = counted.counters[s].inflight
            /\ Current(all, s) <=> Current(counted, s)
            /\ s \in {ProjectOf[r]} =>
                 all.counters[s].used["minute"] = counted.counters[s].used["minute"] + 1
            /\ s \notin {ProjectOf[r]} =>
                 all.counters[s].used["minute"] = counted.counters[s].used["minute"]
  BY <1>8, <1>9, CountedKeeps
<1>. HIDE DEF all
<1>11. ~HasProject(r) => CountedFor(g, counted, r)
  BY <1>9 DEF CountedFor, Counts
<1>12. HasProject(r) => CountedFor(g, all, r)
  BY <1>4, <1>9, <1>10 DEF CountedFor, Counts
<1>13. IsLedger(a.ledger) /\ (a.ok => CountedFor(g, a.ledger, r))
  BY <1>1, <1>6, <1>9, <1>10, <1>11, <1>12
<1>. HIDE DEF a
<1>14. /\ IsLedger(g) /\ IsLedger(a.ledger)
       /\ Slotted(l, n) => Slotted(g, n)
       /\ Aware(l, adm) => Aware(g, adm)
       /\ a.ok => Ready(g, r) /\ CountedFor(g, a.ledger, r)
       /\ ~a.ok => a.ledger = g
  BY <1>1, <1>6, <1>7, <1>13
<1>. QED  BY <1>14 DEF a

Counting(adm, r) ==
  [s \in Subjects |-> IF s \in {Tenant, UserOf[r], ProjectOf[r]} THEN adm[s] + 1 ELSE adm[s]]

\* A granted admission is within the ceilings, because the counters it was compared
\* with hold at least the admissions of this minute; and the ledger then knows of it.
LEMMA AdmitKeeps ==
  ASSUME NEW g, IsLedger(g), NEW m, NEW r \in Requests, NEW adm \in [Subjects -> Nat],
         Ready(g, r), CountedFor(g, m, r), Aware(g, adm)
  PROVE  Aware(m, Counting(adm, r))
<1>1. ASSUME NEW s \in Subjects \ m.lost, PerMinute(s) # None
      PROVE  s \in {Tenant, UserOf[r], ProjectOf[r]} <=> s \in Counts(r)
  <2>1. s = ProjectOf[r] => ProjectOf[r] # NoProject /\ ProjectOf[r] \in Projects
    BY QuotaAssumption
  <2>2. s = ProjectOf[r] => HasProject(r)
    BY <1>1, <2>1, Constants DEF HasProject, PerMinute
  <2>. QED  BY <2>2 DEF Counts, Charged
<1>2. ASSUME NEW s \in Subjects \ m.lost, PerMinute(s) # None, s \in Counts(r)
      PROVE  /\ Current(m, s)
             /\ adm[s] + 1 <= m.counters[s].used["minute"]
             /\ adm[s] + 1 <= PerMinute(s)
  <2>1. Current(g, s) /\ g.counters[s].used["minute"] < PerMinute(s)
    BY <1>2 DEF Ready, CountedFor
  <2>2. /\ m.counters[s].used["minute"] = g.counters[s].used["minute"] + 1
        /\ g.counters[s].used["minute"] \in Nat
        /\ Current(m, s)
    BY <1>2, <2>1 DEF CountedFor
  <2>3. adm[s] \in Nat /\ (adm[s] > 0 => adm[s] <= g.counters[s].used["minute"])
    BY <1>2 DEF Aware, CountedFor
  <2>4. PerMinute(s) \in Nat
    BY <1>2, Constants
  <2>. QED  BY <2>1, <2>2, <2>3, <2>4
<1>3. ASSUME NEW s \in Subjects \ m.lost, PerMinute(s) # None, s \notin Counts(r), adm[s] > 0
      PROVE  /\ Current(m, s)
             /\ adm[s] <= m.counters[s].used["minute"]
             /\ adm[s] <= PerMinute(s)
  BY <1>3 DEF Aware, CountedFor
<1>4. ASSUME NEW s \in Subjects \ m.lost, PerMinute(s) # None
      PROVE  Counting(adm, r)[s] = IF s \in Counts(r) THEN adm[s] + 1 ELSE adm[s]
  BY <1>1, <1>4 DEF Counting
<1>. SUFFICES ASSUME NEW s \in Subjects \ m.lost, PerMinute(s) # None,
                     Counting(adm, r)[s] > 0
              PROVE  /\ Current(m, s)
                     /\ Counting(adm, r)[s] <= m.counters[s].used["minute"]
                     /\ Counting(adm, r)[s] <= PerMinute(s)
  BY DEF Aware
<1>5. CASE s \in Counts(r)
  BY <1>2, <1>4, <1>5
<1>6. CASE s \notin Counts(r)
  BY <1>3, <1>4, <1>6
<1>. QED  BY <1>5, <1>6

\* Metering a request changes neither slots nor requests of the minute.
LEMMA RecordUsageKeeps ==
  ASSUME now \in Nat, NEW l, IsLedger(l), NEW r \in Requests, NEW k \in Spends,
         NEW n \in [Subjects -> Nat], NEW adm
  PROVE  LET m == RecordUsage(l, r, k) IN
         /\ IsLedger(m)
         /\ Slotted(l, n) => Slotted(m, n)
         /\ Aware(l, adm) => Aware(m, adm)
<1>. DEFINE f    == Fetched(l, r)
            m    == RecordUsage(l, r, k)
            next == [s \in Subjects |->
                       IF s \in Charged(r)
                       THEN [f.counters[s] EXCEPT !.used["spend"] = @ + k]
                       ELSE f.counters[s]]
<1>1. /\ IsLedger(f)
      /\ Slotted(l, n) => Slotted(f, n)
      /\ Aware(l, adm) => Aware(f, adm)
  BY FetchedKeeps
<1>2. m = [f EXCEPT !.counters = next]
  BY Zenon DEF RecordUsage, Charged
<1>3. k \in Nat
  BY QuotaAssumption
<1>. HIDE DEF f, m
<1>4. ASSUME NEW s \in Subjects
      PROVE  /\ next[s] \in Counters
             /\ next[s].window = f.counters[s].window
             /\ next[s].inflight = f.counters[s].inflight
             /\ next[s].used["minute"] = f.counters[s].used["minute"]
  <2>. DEFINE c == f.counters[s]
              more == [c.used EXCEPT !["spend"] = @ + k]
  <2>1. c \in Counters
    BY <1>1 DEF IsLedger
  <2>2. more \in [Dims -> Nat] /\ more["minute"] = c.used["minute"]
    BY <1>3, <2>1, Constants DEF Counters, Dims
  <2>3. next[s] = IF s \in Charged(r) THEN [c EXCEPT !.used = more] ELSE c
    OBVIOUS
  <2>. HIDE DEF c, more, next
  <2>4. /\ next[s] \in Counters /\ next[s].window = c.window
        /\ next[s].inflight = c.inflight /\ next[s].used["minute"] = c.used["minute"]
    BY <2>1, <2>2, <2>3 DEF Counters
  <2>. QED  BY <2>4 DEF c
<1>5. /\ IsLedger(m) /\ m.lost = f.lost /\ m.counters = next
  <2>1. next = [s \in Subjects |-> next[s]]
    OBVIOUS
  <2>. HIDE DEF next
  <2>2. next \in [Subjects -> Counters]
    BY <1>4, <2>1
  <2>3. m = [order |-> f.order, counters |-> next, lost |-> f.lost]
    BY <1>1, <1>2 DEF IsLedger
  <2>. QED  BY <2>2, <2>3 DEF IsLedger
<1>. HIDE DEF next
<1>6. (Slotted(f, n) => Slotted(m, n)) /\ (Aware(f, adm) => Aware(m, adm))
  BY <1>4, <1>5 DEF Slotted, Aware, Current
<1>. QED  BY <1>1, <1>5, <1>6 DEF m

-----------------------------------------------------------------------------
\* The middleware

Load == [s \in Subjects |-> Cardinality(Active(s))]

\* The inductive invariant.  TypeOK's bound on the tracked subjects is not needed.
IInv ==
  /\ now \in Nat
  /\ phase \in [Requests -> {"idle", "running", "metered"}]
  /\ admitted \in [Subjects -> Nat]
  /\ IsLedger(ledger)
  /\ Slotted(ledger, Load)
  /\ Aware(ledger, admitted)

\* At most the finitely many requests are active.
LEMMA LoadType == Load \in [Subjects -> Nat]
<1>1. ASSUME NEW s \in Subjects
      PROVE  Cardinality(Active(s)) \in Nat
  <2>1. IsFiniteSet(Active(s))
    BY QuotaAssumption, FS_Subset DEF Active
  <2>. QED  BY <2>1, FS_CardinalityType
<1>. QED  BY <1>1 DEF Load

\* Starting a request makes it active, for its tenant and its user.
LEMMA LoadAccepted ==
  ASSUME IInv, NEW r \in Requests, phase[r] = "idle",
         phase' = [phase EXCEPT ![r] = "running"]
  PROVE  Load' = Plus(Load, r)
<1>1. ASSUME NEW s \in Subjects, s \in Charged(r)
      PROVE  Cardinality(Active(s)') = Cardinality(Active(s)) + 1
  <2>1. Active(s)' = Active(s) \union {r} /\ r \notin Active(s)
    BY <1>1 DEF Active, Charged, IInv
  <2>2. IsFiniteSet(Active(s))
    BY QuotaAssumption, FS_Subset DEF Active
  <2>. QED  BY <2>1, <2>2, FS_AddElement
<1>2. ASSUME NEW s \in Subjects, s \notin Charged(r)
      PROVE  Active(s)' = Active(s)
  BY <1>2 DEF Active, Charged, IInv
<1>. QED  BY <1>1, <1>2, Zenon DEF Load, Plus

\* Ending a request undoes that.
LEMMA LoadFinished ==
  ASSUME IInv, NEW r \in Requests, phase[r] # "idle",
         phase' = [phase EXCEPT ![r] = "idle"]
  PROVE  Load = Plus(Load', r)
<1>1. ASSUME NEW s \in Subjects, s \in Charged(r)
      PROVE  Cardinality(Active(s)) = Cardinality(Active(s)') + 1
  <2>1. Active(s) = Active(s)' \union {r} /\ r \notin Active(s)'
    BY <1>1 DEF Active, Charged, IInv
  <2>2. IsFiniteSet(Active(s)')
    BY QuotaAssumption, FS_Subset DEF Active
  <2>. QED  BY <2>1, <2>2, FS_AddElement
<1>2. ASSUME NEW s \in Subjects, s \notin Charged(r)
      PROVE  Active(s)' = Active(s)
  BY <1>2 DEF Active, Charged, IInv
<1>3. ASSUME NEW s \in Subjects
      PROVE  Load'[s] = Cardinality(Active(s)') /\ Load[s] = Cardinality(Active(s))
  BY DEF Load
<1>4. Plus(Load', r) = [s \in Subjects |-> IF s \in Charged(r) THEN Load'[s] + 1 ELSE Load'[s]]
  BY DEF Plus
<1>. QED  BY <1>1, <1>2, <1>3, <1>4, Zenon DEF Load

\* A fresh ledger charges nothing.
LEMMA InitIInv == Init => IInv
<1>. SUFFICES ASSUME Init PROVE IInv
  OBVIOUS
<1>1. /\ now = 0 /\ phase = [r \in Requests |-> "idle"]
      /\ admitted = [s \in Subjects |-> 0]
      /\ ledger = [order |-> <<>>, counters |-> [s \in Subjects |-> Fresh], lost |-> {}]
  BY DEF Init
<1>2. Fresh \in Counters /\ Fresh.inflight = 0
  BY DEF Fresh, Counters
<1>3. IsLedger(ledger)
  BY <1>1, <1>2 DEF IsLedger
<1>4. Slotted(ledger, Load)
  <2>1. \A s \in Subjects : ledger.counters[s].inflight = 0
    BY <1>1, <1>2
  <2>2. \A s \in Subjects : Load[s] \in Nat
    BY LoadType
  <2>. QED  BY <2>1, <2>2 DEF Slotted
<1>5. Aware(ledger, admitted)
  BY <1>1 DEF Aware
<1>. QED  BY <1>1, <1>3, <1>4, <1>5 DEF IInv

\* The next minute begins without admissions.
LEMMA TickKeeps == IInv /\ Tick => IInv'
<1>. SUFFICES ASSUME IInv, Tick PROVE IInv'
  OBVIOUS
<1>1. /\ now' = now + 1 /\ phase' = phase
      /\ admitted' = [s \in Subjects |-> 0]
      /\ ledger' = [ledger EXCEPT !.lost = {}]
  BY DEF Tick
<1>2. IsLedger(ledger') /\ ledger'.counters = ledger.counters
  BY <1>1 DEF IInv, IsLedger
<1>3. Load' = Load
  BY <1>1 DEF Load, Active
<1>4. Slotted(ledger', Load')
  BY <1>2, <1>3 DEF Slotted, IInv
<1>5. Aware(ledger, admitted)'
  BY <1>1 DEF Aware
<1>. QED  BY <1>1, <1>2, <1>4, <1>5 DEF IInv, IsLedger, Slotted

\* What a step that does not change the minute has to show.
LEMMA SameMinute ==
  ASSUME IInv, now' = now,
         phase' \in [Requests -> {"idle", "running", "metered"}],
         admitted' \in [Subjects -> Nat],
         IsLedger(ledger'), Slotted(ledger', Load'), Aware(ledger', admitted')
  PROVE  IInv'
<1>1. Aware(ledger, admitted)'
  BY DEF Aware, Current, ThisMinute, PerMinute
<1>2. Slotted(ledger, Load)' /\ IsLedger(ledger)'
  BY DEF Slotted, IsLedger
<1>. QED  BY <1>1, <1>2 DEF IInv

\* An accepted request is charged one slot, and the ledger knows of its admission.
LEMMA AcceptKeeps == ASSUME IInv, NEW r \in Requests, Accept(r) PROVE IInv'
<1>. DEFINE slot == Acquire(ledger, r)
            pass == Admit(slot.ledger, r)
<1>1. /\ phase[r] = "idle" /\ slot.ok /\ pass.ok
      /\ ledger' = pass.ledger
      /\ phase' = [phase EXCEPT ![r] = "running"]
      /\ admitted' = Counting(admitted, r)
      /\ now' = now
  BY Zenon DEF Accept, Counting
<1>2. Load \in [Subjects -> Nat] /\ Load' = Plus(Load, r) /\ Load' \in [Subjects -> Nat]
  <2>1. Load \in [Subjects -> Nat] /\ Load' = Plus(Load, r)
    BY <1>1, LoadType, LoadAccepted
  <2>. QED  BY <2>1 DEF Plus
<1>3. now \in Nat /\ IsLedger(ledger) /\ Slotted(ledger, Load) /\ Aware(ledger, admitted)
  BY DEF IInv
<1>4. /\ IsLedger(slot.ledger) /\ Aware(slot.ledger, admitted)
      /\ Slotted(slot.ledger, Load')
  BY <1>1, <1>2, <1>3, AcquireKeeps
<1>. HIDE DEF slot
<1>5. PICK g : /\ IsLedger(g) /\ IsLedger(pass.ledger)
               /\ Slotted(g, Load') /\ Aware(g, admitted)
               /\ Ready(g, r) /\ CountedFor(g, pass.ledger, r)
  BY <1>1, <1>2, <1>3, <1>4, AdmitCounts
<1>. HIDE DEF pass
<1>6. Aware(pass.ledger, Counting(admitted, r))
  BY <1>5, AdmitKeeps DEF IInv
<1>7. Slotted(pass.ledger, Load')
  BY <1>5 DEF Slotted, CountedFor
<1>8. phase' \in [Requests -> {"idle", "running", "metered"}]
  BY <1>1 DEF IInv
<1>9. admitted' \in [Subjects -> Nat]
  BY <1>1 DEF IInv, Counting
<1>. QED  BY <1>1, <1>5, <1>6, <1>7, <1>8, <1>9, SameMinute

\* A refused request leaves no slot charged that it had taken.
LEMMA RefuseKeeps == ASSUME IInv, NEW r \in Requests, Refuse(r) PROVE IInv'
<1>. DEFINE slot == Acquire(ledger, r)
            pass == Admit(slot.ledger, r)
            left == IF slot.ok THEN pass.ledger ELSE slot.ledger
<1>1. /\ ~(slot.ok /\ pass.ok)
      /\ ledger' = Release(left, r)
      /\ phase' = phase /\ admitted' = admitted /\ now' = now
  BY DEF Refuse, Refused
<1>2. Load \in [Subjects -> Nat] /\ Plus(Load, r) \in [Subjects -> Nat] /\ Load' = Load
  <2>1. Load \in [Subjects -> Nat]
    BY LoadType
  <2>2. Plus(Load, r) \in [Subjects -> Nat]
    BY <2>1 DEF Plus
  <2>. QED  BY <1>1, <2>1, <2>2 DEF Load, Active
<1>3. now \in Nat /\ IsLedger(ledger) /\ Slotted(ledger, Load) /\ Aware(ledger, admitted)
  BY DEF IInv
<1>4. /\ IsLedger(slot.ledger) /\ Aware(slot.ledger, admitted)
      /\ slot.ok => Slotted(slot.ledger, Plus(Load, r))
      /\ ~slot.ok => Slotted(slot.ledger, Load)
  BY <1>2, <1>3, AcquireKeeps
<1>. HIDE DEF slot
<1>5. slot.ok => /\ IsLedger(pass.ledger) /\ Aware(pass.ledger, admitted)
                 /\ Slotted(pass.ledger, Plus(Load, r))
  <2>. SUFFICES ASSUME slot.ok
                PROVE  /\ IsLedger(pass.ledger) /\ Aware(pass.ledger, admitted)
                       /\ Slotted(pass.ledger, Plus(Load, r))
    OBVIOUS
  <2>1. PICK g : /\ IsLedger(g) /\ Slotted(g, Plus(Load, r)) /\ Aware(g, admitted)
                 /\ pass.ledger = g
    BY <1>1, <1>2, <1>3, <1>4, AdmitCounts
  <2>. QED  BY <2>1
<1>. HIDE DEF pass
<1>6. /\ IsLedger(left) /\ Aware(left, admitted)
      /\ Slotted(left, Load) \/ Slotted(left, Plus(Load, r))
  BY <1>4, <1>5
<1>. HIDE DEF left
<1>7. /\ IsLedger(ledger') /\ Aware(ledger', admitted) /\ Slotted(ledger', Load)
  BY <1>1, <1>2, <1>3, <1>6, ReleaseKeeps
<1>. QED  BY <1>1, <1>2, <1>7, SameMinute DEF IInv

\* Metering keeps a request active.
LEMMA MeterKeeps == ASSUME IInv, NEW r \in Requests, Meter(r) PROVE IInv'
<1>1. PICK k \in Spends : ledger' = RecordUsage(ledger, r, k)
  BY DEF Meter
<1>2. /\ phase[r] = "running" /\ phase' = [phase EXCEPT ![r] = "metered"]
      /\ admitted' = admitted /\ now' = now
      /\ phase' \in [Requests -> {"idle", "running", "metered"}]
  BY DEF Meter, IInv
<1>3. Load' = Load
  <2>1. \A q \in Requests : phase'[q] # "idle" <=> phase[q] # "idle"
    BY <1>2 DEF IInv
  <2>2. \A s \in Subjects : Active(s)' = Active(s)
    BY <2>1 DEF Active
  <2>. QED  BY <2>2 DEF Load
<1>4. /\ IsLedger(ledger') /\ Slotted(ledger', Load) /\ Aware(ledger', admitted)
  BY <1>1, LoadType, RecordUsageKeeps DEF IInv
<1>. QED  BY <1>2, <1>3, <1>4, SameMinute DEF IInv

\* Ending a request gives its slot back.
LEMMA FinishKeeps == ASSUME IInv, NEW r \in Requests, Finish(r) PROVE IInv'
<1>1. /\ phase[r] # "idle" /\ phase' = [phase EXCEPT ![r] = "idle"]
      /\ ledger' = Release(ledger, r)
      /\ admitted' = admitted /\ now' = now
      /\ phase' \in [Requests -> {"idle", "running", "metered"}]
  BY DEF Finish, IInv
<1>2. Load = Plus(Load', r)
  BY <1>1, LoadFinished
<1>3. Load' \in [Subjects -> Nat]
  <2>1. \A s \in Subjects : IsFiniteSet(Active(s)')
    BY QuotaAssumption, FS_Subset DEF Active
  <2>2. \A s \in Subjects : Cardinality(Active(s)') \in Nat
    BY <2>1, FS_CardinalityType
  <2>. QED  BY <2>2 DEF Load
<1>4. /\ IsLedger(ledger') /\ Slotted(ledger', Load') /\ Aware(ledger', admitted)
  BY <1>1, <1>2, <1>3, ReleaseKeeps DEF IInv
<1>. QED  BY <1>1, <1>4, SameMinute DEF IInv

\* Every step preserves the inductive invariant.
LEMMA NextIInv == IInv /\ [Next]_vars => IInv'
<1>. SUFFICES ASSUME IInv, [Next]_vars PROVE IInv'
  OBVIOUS
<1>1. CASE Tick
  BY <1>1, TickKeeps
<1>2. ASSUME NEW r \in Requests, Accept(r) PROVE IInv'
  BY <1>2, AcceptKeeps
<1>3. ASSUME NEW r \in Requests, Refuse(r) PROVE IInv'
  BY <1>3, RefuseKeeps
<1>4. ASSUME NEW r \in Requests, Meter(r) PROVE IInv'
  BY <1>4, MeterKeeps
<1>5. ASSUME NEW r \in Requests, Finish(r) PROVE IInv'
  BY <1>5, FinishKeeps
<1>6. CASE UNCHANGED vars
  <2>1. ledger' = ledger /\ phase' = phase /\ now' = now /\ admitted' = admitted
    BY <1>6 DEF vars
  <2>2. Load' = Load
    BY <2>1 DEF Load, Active
  <2>. QED  BY <2>1, <2>2, SameMinute DEF IInv
<1>. QED  BY <1>1, <1>2, <1>3, <1>4, <1>5, <1>6 DEF Next

\* The inductive invariant holds in every reachable state.
LEMMA Inductive == Spec => []IInv
BY InitIInv, NextIInv, PTL DEF Spec

\* No slot is leaked: whatever order requests acquire, are refused, are metered and
\* finish in, and whichever subjects are evicted, a subject is charged for no more
\* slots than it has requests in progress.
THEOREM NoSlotLeaks == Spec => []SlotsAreHeld
<1>1. IInv => SlotsAreHeld
  BY DEF IInv, Slotted, SlotsAreHeld, Load
<1>. QED  BY <1>1, Inductive, PTL

\* In one minute no more requests are admitted for a tenant, a user or a project than
\* its ceiling, unless the ledger has had to forget that subject in the same minute.
THEOREM CeilingsAreKept == Spec => []CeilingsHold
<1>1. ASSUME IInv, NEW s \in Subjects \ ledger.lost, PerMinute(s) # None
      PROVE  admitted[s] <= PerMinute(s)
  <2>1. admitted[s] \in Nat /\ PerMinute(s) \in Nat
    BY <1>1, Constants DEF IInv
  <2>2. admitted[s] > 0 => admitted[s] <= PerMinute(s)
    BY <1>1 DEF IInv, Aware
  <2>. QED  BY <2>1, <2>2
<1>2. IInv => CeilingsHold
  BY <1>1 DEF CeilingsHold
<1>. QED  BY <1>2, Inductive, PTL

-----------------------------------------------------------------------------
\* Gateway: where a request is suspended, what it was charged and what the ledger
\* knows of it

Places == { "idle", "verifying", "arrived", "completing", "streaming", "closing",
            "done", "leaving" }

Chats == [at : Places, known : BOOLEAN, charges : Nat]

\* Nothing is known and nothing charged before the handler has been answered; the
\* last frame goes out before the record, the end of a stream follows it.
Sound(c) ==
  /\ c.at \in {"idle", "verifying", "arrived", "completing"} => ~c.known
  /\ c.at = "closing" => c.known /\ c.charges = 0
  /\ c.at \in {"done", "leaving"} => c.charges = IF c.known THEN 1 ELSE 0
  /\ c.charges = 0 \/ (c.known /\ c.charges = 1)

\* The ledger counts a request from its admission on, as metered once it was charged.
PhaseFor(c) == IF c.at \in {"idle", "verifying"} THEN "idle"
               ELSE IF c.charges = 0 THEN "running" ELSE "metered"

ChatInv ==
  /\ chat \in [Requests -> Chats]
  /\ phase \in [Requests -> {"idle", "running", "metered"}]
  /\ \A r \in Requests : Sound(chat[r]) /\ phase[r] = PhaseFor(chat[r])

LedgerStep(r) == Accept(r) \/ Refuse(r) \/ Meter(r) \/ Finish(r)

\* What a step of a handler comes to: a step of the ledger, or none.
Handled(r) ==
  \E c \in Chats :
    /\ Sound(c) /\ chat' = [chat EXCEPT ![r] = c]
    /\ \/ LedgerStep(r) /\ phase' = [phase EXCEPT ![r] = PhaseFor(c)]
       \/ UNCHANGED vars /\ PhaseFor(c) = PhaseFor(chat[r])

LEMMA CalmIsSound == Calm \in Chats /\ Sound(Calm) /\ PhaseFor(Calm) = "idle"
<1>1. Calm = [at |-> "idle", known |-> FALSE, charges |-> 0]
  BY DEF Calm
<1>2. Calm.at = "idle" /\ Calm.known = FALSE /\ Calm.charges = 0
  BY <1>1
<1>3. Calm \in Chats
  BY <1>1 DEF Chats, Places
<1>. QED  BY <1>2, <1>3 DEF Sound, PhaseFor

LEMMA OneMore ==
  ASSUME NEW c \in Chats
  PROVE  LET d == [c EXCEPT !.charges = @ + 1]
         IN  d \in Chats /\ d.at = c.at /\ d.known = c.known /\ d.charges = c.charges + 1
<1>. DEFINE d == [c EXCEPT !.charges = @ + 1]
<1>1. d.at = c.at /\ d.known = c.known /\ d.charges = c.charges + 1
  BY DEF Chats
<1>2. c.charges + 1 \in Nat
  BY DEF Chats
<1>3. d \in Chats
  BY <1>2 DEF Chats
<1>. QED  BY <1>1, <1>3

\* A request that was not charged yet is metered, which charges it.
LEMMA MeteredOnce ==
  ASSUME ChatInv, NEW r \in Requests, NEW c \in Chats, Metered(r, c),
         chat[r].at \notin {"idle", "verifying"}, chat[r].charges = 0,
         c.charges = 0, c.known, c.at \in {"leaving", "streaming", "done"}
  PROVE  Handled(r)
<1>. DEFINE d == [c EXCEPT !.charges = @ + 1]
<1>6. d \in Chats /\ d.at = c.at /\ d.known = c.known /\ d.charges = c.charges + 1
  BY OneMore, Zenon
<1>. HIDE DEF d
<1>1. d \in Chats /\ d.at = c.at /\ d.known = c.known /\ d.charges = 1
  BY <1>6
<1>2. Sound(d) /\ PhaseFor(d) = "metered"
  BY <1>1 DEF Sound, PhaseFor
<1>3. phase[r] = "running"
  BY DEF ChatInv, PhaseFor
<1>4. chat' = [chat EXCEPT ![r] = d] /\ phase' = [phase EXCEPT ![r] = PhaseFor(d)]
  BY <1>2 DEF Metered, d
<1>5. Meter(r)
  BY <1>3 DEF Metered, Meter
<1>. QED  BY <1>1, <1>2, <1>4, <1>5 DEF Handled, LedgerStep

\* Nothing is metered.
LEMMA NotMetered ==
  ASSUME ChatInv, NEW r \in Requests, NEW c \in Chats,
         chat' = [chat EXCEPT ![r] = c], UNCHANGED vars,
         Sound(c), PhaseFor(c) = PhaseFor(chat[r])
  PROVE  Handled(r)
BY DEF Handled

\* record(), whoever calls it, meters a request that was answered and not charged yet.
LEMMA RecordedOnce ==
  ASSUME ChatInv, NEW r \in Requests, NEW c \in Chats, Recorded(r, c),
         chat[r].at \notin {"idle", "verifying"}, c.charges = chat[r].charges,
         chat[r].known => c.known, c.at \in {"leaving", "streaming", "done"},
         c.at = "done" => c.known
  PROVE  Handled(r)
<1>1. /\ chat[r].charges = 0 \/ (chat[r].known /\ chat[r].charges = 1)
      /\ chat[r] \in Chats
  BY DEF ChatInv, Sound
<1>2. CASE c.known /\ c.charges = 0
  BY <1>2, MeteredOnce DEF Recorded
<1>3. CASE ~(c.known /\ c.charges = 0)
  <2>1. c.charges = IF c.known THEN 1 ELSE 0
    BY <1>1, <1>3
  <2>2. PhaseFor(c) = PhaseFor(chat[r])
    BY DEF PhaseFor
  <2>4. Sound(c)
    BY <2>1 DEF Sound, Chats
  <2>3. chat' = [chat EXCEPT ![r] = c] /\ UNCHANGED vars
    BY <1>3 DEF Recorded, Unmetered
  <2>. QED  BY <2>2, <2>3, <2>4, NotMetered
<1>. QED  BY <1>2, <1>3

\* Every step of a request is handled.
LEMMA ServeSteps ==
  ASSUME ChatInv, NEW r \in Requests, Serve(r)
  PROVE  Handled(r)
<1>1. chat[r] \in Chats /\ Sound(chat[r]) /\ phase[r] = PhaseFor(chat[r])
  BY DEF ChatInv
<1>2. ASSUME NEW place \in Places, chat' = [chat EXCEPT ![r].at = place],
             UNCHANGED vars,
             Sound([chat[r] EXCEPT !.at = place]),
             PhaseFor([chat[r] EXCEPT !.at = place]) = PhaseFor(chat[r])
      PROVE  Handled(r)
  <2>1. chat' = [chat EXCEPT ![r] = [chat[r] EXCEPT !.at = place]]
    BY <1>2
  <2>2. [chat[r] EXCEPT !.at = place] \in Chats
    BY <1>1 DEF Chats
  <2>. QED  BY <1>2, <2>1, <2>2, NotMetered
<1>. USE DEF At, Moves
<1>3. CASE Present(r)
  <2>1. chat[r].at = "idle" /\ chat' = [chat EXCEPT ![r].at = "verifying"] /\ UNCHANGED vars
    BY <1>3 DEF Present
  <2>. QED  BY <1>1, <1>2, <2>1 DEF Sound, PhaseFor, Chats, Places
<1>4. CASE Unidentified(r)
  <2>1. chat[r].at = "verifying" /\ chat' = [chat EXCEPT ![r].at = "idle"] /\ UNCHANGED vars
    BY <1>4 DEF Unidentified
  <2>. QED  BY <1>1, <1>2, <2>1 DEF Sound, PhaseFor, Chats, Places
<1>5. CASE Admitted(r)
  <2>. DEFINE c == [chat[r] EXCEPT !.at = "arrived"]
  <2>1. c \in Chats /\ Sound(c) /\ PhaseFor(c) = "running"
    BY <1>1, <1>5 DEF Admitted, Vouched, Sound, PhaseFor, Chats, Places
  <2>2. chat' = [chat EXCEPT ![r] = c]
    BY <1>5 DEF Admitted
  <2>3. Accept(r) /\ phase' = [phase EXCEPT ![r] = "running"]
    BY <1>5 DEF Admitted, Accept
  <2>. QED  BY <2>1, <2>2, <2>3 DEF Handled, LedgerStep
<1>6. CASE Rejected(r)
  <2>. DEFINE c == [chat[r] EXCEPT !.at = "idle"]
  <2>1. c \in Chats /\ Sound(c) /\ PhaseFor(c) = "idle" /\ phase[r] = "idle"
    BY <1>1, <1>6 DEF Rejected, Vouched, Sound, PhaseFor, Chats, Places
  <2>2. chat' = [chat EXCEPT ![r] = c]
    BY <1>6 DEF Rejected
  <2>3. Refuse(r) /\ phase' = [phase EXCEPT ![r] = "idle"]
    BY <1>6, <2>1 DEF Rejected, Refuse, ChatInv
  <2>. QED  BY <2>1, <2>2, <2>3 DEF Handled, LedgerStep
<1>7. CASE TurnDown(r) \/ Abandon(r)
  <2>1. /\ chat[r].at \in {"arrived", "completing", "done"}
        /\ chat' = [chat EXCEPT ![r].at = "leaving"] /\ UNCHANGED vars
    BY <1>7 DEF TurnDown, Abandon, Ends
  <2>. QED  BY <1>1, <1>2, <2>1 DEF Sound, PhaseFor, Chats, Places
<1>8. CASE Dispatch(r)
  <2>1. PICK place \in {"completing", "streaming"} :
          chat' = [chat EXCEPT ![r].at = place]
    BY <1>8 DEF Dispatch
  <2>2. chat[r].at = "arrived" /\ UNCHANGED vars
    BY <1>8 DEF Dispatch
  <2>. QED  BY <1>1, <1>2, <2>1, <2>2 DEF Sound, PhaseFor, Chats, Places
<1>9. CASE Answer(r) \/ CompleteFails(r)
  <2>. DEFINE c == [chat[r] EXCEPT !.at = "leaving", !.known = TRUE]
  <2>1. chat[r].at = "completing" /\ chat[r].charges = 0
    BY <1>1, <1>9 DEF Answer, CompleteFails, Sound
  <2>2. CASE Metered(r, c)
    <3>1. c \in Chats /\ c.charges = 0 /\ c.known /\ c.at = "leaving"
      BY <1>1, <2>1 DEF Chats, Places
    <3>. QED  BY <2>1, <2>2, <3>1, MeteredOnce
  <2>3. CASE Ends(r)
    <3>1. chat' = [chat EXCEPT ![r].at = "leaving"] /\ UNCHANGED vars
      BY <2>3 DEF Ends
    <3>. QED  BY <1>1, <1>2, <2>1, <3>1 DEF Sound, PhaseFor, Chats, Places
  <2>. QED  BY <1>9, <2>2, <2>3 DEF Answer, CompleteFails
<1>10. CASE Delta(r) \/ Flush(r)
  <2>2. chat[r].at = "streaming" /\ UNCHANGED vars
    BY <1>10 DEF Delta, Flush, Unmetered
  <2>4. [chat[r] EXCEPT !.known = TRUE] = [chat[r] EXCEPT !.known = TRUE, !.at = "streaming"]
    BY <1>1, <2>2 DEF Chats
  <2>5. ASSUME Delta(r)
        PROVE  chat' = [chat EXCEPT ![r] = [chat[r] EXCEPT !.known = TRUE, !.at = "streaming"]]
    BY <2>4, <2>5 DEF Delta, Unmetered
  <2>6. ASSUME Flush(r)
        PROVE  /\ chat' = [chat EXCEPT ![r] = [chat[r] EXCEPT !.known = TRUE, !.at = "closing"]]
               /\ chat[r].charges = 0
    BY <2>6 DEF Flush, Unmetered
  <2>1. PICK place \in {"streaming", "closing"} :
          /\ chat' = [chat EXCEPT ![r] = [chat[r] EXCEPT !.known = TRUE, !.at = place]]
          /\ place = "closing" => chat[r].charges = 0
    BY <1>10, <2>5, <2>6
  <2>. DEFINE c == [chat[r] EXCEPT !.known = TRUE, !.at = place]
  <2>3. c \in Chats /\ Sound(c) /\ PhaseFor(c) = PhaseFor(chat[r])
    BY <1>1, <2>1, <2>2 DEF Sound, PhaseFor, Chats, Places
  <2>. QED  BY <2>1, <2>2, <2>3, NotMetered
<1>11. ASSUME NEW place \in {"leaving", "streaming", "done"}, NEW known \in BOOLEAN,
              chat[r].at \in {"streaming", "closing", "done"},
              Recorded(r, [chat[r] EXCEPT !.known = known, !.at = place]),
              chat[r].known => known, place = "done" => known
       PROVE  Handled(r)
  <2>. DEFINE c == [chat[r] EXCEPT !.known = known, !.at = place]
  <2>1. c \in Chats /\ c.charges = chat[r].charges /\ c.known = known /\ c.at = place
    BY <1>1 DEF Chats, Places
  <2>. HIDE DEF c
  <2>2. Recorded(r, c)
    BY <1>11 DEF c
  <2>. QED  BY <1>11, <2>1, <2>2, RecordedOnce
<1>12. \A place \in Places :
         [chat[r] EXCEPT !.at = place] = [chat[r] EXCEPT !.known = chat[r].known, !.at = place]
  BY <1>1 DEF Chats
<1>13. CASE Close(r) \/ Exhaust(r) \/ Cancel(r)
  <2>1. PICK place \in {"leaving", "streaming", "done"} :
          /\ Recorded(r, [chat[r] EXCEPT !.at = place])
          /\ place = "done" => chat[r].known
          /\ chat[r].at \in {"streaming", "closing", "done"}
    BY <1>13 DEF Close, Exhaust, Cancel
  <2>2. Recorded(r, [chat[r] EXCEPT !.known = chat[r].known, !.at = place])
    BY <1>12, <2>1 DEF Places
  <2>. QED  BY <1>1, <1>11, <2>1, <2>2 DEF Chats
<1>14. CASE StreamFails(r)
  <2>1. PICK decided \in BOOLEAN :
          Recorded(r, [chat[r] EXCEPT !.known = chat[r].known \/ decided, !.at = "leaving"])
    BY <1>14 DEF StreamFails
  <2>2. (chat[r].known \/ decided) \in BOOLEAN /\ chat[r].at = "streaming"
    BY <1>14 DEF StreamFails
  <2>. QED  BY <1>11, <2>1, <2>2
<1>15. CASE Leave(r)
  <2>1. Calm \in Chats /\ Sound(Calm) /\ PhaseFor(Calm) = "idle"
    BY CalmIsSound
  <2>2. chat' = [chat EXCEPT ![r] = Calm] /\ Finish(r) /\ phase' = [phase EXCEPT ![r] = "idle"]
    BY <1>15 DEF Leave, Finish
  <2>. QED  BY <2>1, <2>2 DEF Handled, LedgerStep
<1>. QED  BY <1>3, <1>4, <1>5, <1>6, <1>7, <1>8, <1>9, <1>10, <1>13, <1>14, <1>15 DEF Serve

LEMMA ChatInit == GatewayInit => ChatInv
<1>. SUFFICES ASSUME GatewayInit PROVE ChatInv
  OBVIOUS
<1>1. chat = [r \in Requests |-> Calm] /\ phase = [r \in Requests |-> "idle"]
  BY DEF GatewayInit, Init
<1>. QED  BY <1>1, CalmIsSound DEF ChatInv

\* A step that is handled keeps the invariant and is one of the ledger's.
LEMMA HandledKeeps ==
  ASSUME ChatInv, NEW r \in Requests, Handled(r)
  PROVE  ChatInv' /\ [Next]_vars
<1>1. PICK c \in Chats :
        /\ Sound(c) /\ chat' = [chat EXCEPT ![r] = c]
        /\ \/ LedgerStep(r) /\ phase' = [phase EXCEPT ![r] = PhaseFor(c)]
           \/ UNCHANGED vars /\ PhaseFor(c) = PhaseFor(chat[r])
  BY Zenon DEF Handled
<1>2. PhaseFor(c) \in {"idle", "running", "metered"}
  BY DEF PhaseFor
<1>3. phase' = [phase EXCEPT ![r] = PhaseFor(c)]
  <2>1. CASE UNCHANGED vars /\ PhaseFor(c) = PhaseFor(chat[r])
    <3>1. phase' = phase /\ phase[r] = PhaseFor(c)
      BY <2>1 DEF vars, ChatInv
    <3>. QED  BY <3>1 DEF ChatInv
  <2>. QED  BY <1>1, <2>1
<1>4. chat' \in [Requests -> Chats] /\ phase' \in [Requests -> {"idle", "running", "metered"}]
  BY <1>1, <1>2, <1>3 DEF ChatInv
<1>5. ASSUME NEW q \in Requests
      PROVE  Sound(chat'[q]) /\ phase'[q] = PhaseFor(chat'[q])
  <2>1. CASE q = r
    <3>1. chat'[q] = c /\ phase'[q] = PhaseFor(c)
      BY <1>1, <1>3, <2>1 DEF ChatInv
    <3>. QED  BY <1>1, <3>1
  <2>2. CASE q # r
    <3>1. chat'[q] = chat[q] /\ phase'[q] = phase[q]
      BY <1>1, <1>3, <2>2 DEF ChatInv
    <3>. QED  BY <3>1 DEF ChatInv
  <2>. QED  BY <2>1, <2>2
<1>6. ChatInv'
  BY <1>4, <1>5 DEF ChatInv, Sound, PhaseFor
<1>7. [Next]_vars
  BY <1>1, Zenon DEF LedgerStep, Next
<1>. QED  BY <1>6, <1>7

LEMMA GatewayStep ==
  ASSUME ChatInv, [GatewayNext]_gatewayVars
  PROVE  ChatInv' /\ [Next]_vars
<1>1. ASSUME NEW r \in Requests, Serve(r) PROVE ChatInv' /\ [Next]_vars
  BY <1>1, ServeSteps, HandledKeeps
<1>2. ASSUME chat' = chat, phase' = phase PROVE ChatInv'
  BY <1>2 DEF ChatInv, Sound, PhaseFor
<1>3. ASSUME NEW u \in Users, NEW tables, NEW until, Revoke(u, tables, until)
      PROVE  ChatInv' /\ [Next]_vars
  BY <1>2, <1>3 DEF Revoke, vars
<1>4. CASE Tick /\ UNCHANGED chatVars
  BY <1>2, <1>4 DEF Tick, chatVars, Next
<1>5. CASE UNCHANGED gatewayVars
  BY <1>2, <1>5 DEF gatewayVars, chatVars, vars
<1>. QED  BY <1>1, <1>3, <1>4, <1>5 DEF GatewayNext

LEMMA ChatsAreSound == GatewaySpec => []ChatInv
BY ChatInit, GatewayStep, PTL DEF GatewaySpec

\* Whatever order of frames, errors and hang-ups a request ends in, a handler that has
\* learnt where the request was routed meters it, and once; any other never does.
THEOREM MeteredExactlyOnce == GatewaySpec => []AnsweredIsMetered
<1>1. ChatInv => AnsweredIsMetered
  BY DEF ChatInv, Sound, AnsweredIsMetered, At
<1>. QED  BY <1>1, ChatsAreSound, PTL

\* The gateway implements the ledger: whatever the middleware and the chat route do,
\* each step accepts, refuses, meters or finishes one request as QuotaLedger says, in
\* a phase where the ledger allows it, or leaves the ledger alone.
THEOREM GatewayImplementsLedger == GatewaySpec => ImplementsLedger
<1>1. GatewayInit => Init
  BY DEF GatewayInit
<1>. QED  BY <1>1, GatewayStep, ChatsAreSound, PTL DEF GatewaySpec, ImplementsLedger

\* So a client that hangs up, an error or a handler that is cut short never leaves a
\* slot charged, and the per-minute ceilings hold of what the middleware lets in.
THEOREM GatewayKeepsLedger == GatewaySpec => [](SlotsAreHeld /\ CeilingsHold)
<1>1. ImplementsLedger <=> Spec
  BY DEF ImplementsLedger, Spec
<1>. QED  BY <1>1, GatewayImplementsLedger, NoSlotLeaks, CeilingsAreKept, PTL
-----------------------------------------------------------------------------
\* The denylist

\* A finite set of numbers can be enumerated in increasing order.
LEMMA Increasing ==
  ASSUME NEW S \in SUBSET Int, IsFiniteSet(S)
  PROVE  \E p \in [1..Cardinality(S) -> S] :
            /\ \A i, j \in 1..Cardinality(S) : i < j => p[i] < p[j]
            /\ \A x \in S : \E i \in 1..Cardinality(S) : p[i] = x
<1>. DEFINE n == Cardinality(S)
            before(x) == {y \in S : y < x}
            rank == [x \in S |-> Cardinality(before(x)) + 1]
<1>1. n \in Nat /\ IsFiniteSet(1..n) /\ Cardinality(1..n) = n
  BY FS_CardinalityType, FS_Interval
<1>2. ASSUME NEW x \in S
      PROVE  /\ IsFiniteSet(before(x)) /\ Cardinality(before(x)) \in Nat
             /\ Cardinality(before(x)) < n
  <2>1. before(x) \in SUBSET (S \ {x})
    OBVIOUS
  <2>2. IsFiniteSet(S \ {x}) /\ Cardinality(S \ {x}) = n - 1
    BY FS_RemoveElement
  <2>. HIDE DEF before, n
  <2>3. IsFiniteSet(before(x)) /\ Cardinality(before(x)) <= n - 1
    BY <2>1, <2>2, FS_Subset
  <2>4. Cardinality(before(x)) \in Nat
    BY <2>3, FS_CardinalityType
  <2>. QED  BY <1>1, <2>3, <2>4
<1>3. ASSUME NEW x \in S, NEW y \in S, x < y
      PROVE  Cardinality(before(x)) < Cardinality(before(y))
  <2>1. before(x) \union {x} \in SUBSET before(y) /\ x \notin before(x)
    <3>1. \A z \in S : z \in Int
      OBVIOUS
    <3>2. \A z \in S : z < x => z < y
      BY <1>3, <3>1
    <3>3. ~(x < x)
      BY <3>1
    <3>. QED  BY <1>3, <3>2, <3>3
  <2>. HIDE DEF before
  <2>2. Cardinality(before(x) \union {x}) = Cardinality(before(x)) + 1
    BY <1>2, <2>1, FS_AddElement
  <2>3. Cardinality(before(x) \union {x}) <= Cardinality(before(y))
    BY <1>2, <2>1, FS_Subset
  <2>. QED  BY <1>2, <2>2, <2>3
<1>. HIDE DEF before, n
<1>4. rank \in [S -> 1..n]
  BY <1>1, <1>2
<1>5. \A x, y \in S : x < y => rank[x] < rank[y]
  BY <1>2, <1>3
<1>. HIDE DEF rank
<1>6. \A x, y \in S : (rank[x] = rank[y] => x = y) /\ (rank[x] < rank[y] => x < y)
  <2>. SUFFICES ASSUME NEW x \in S, NEW y \in S
                PROVE  (rank[x] = rank[y] => x = y) /\ (rank[x] < rank[y] => x < y)
    BY Zenon
  <2>1. x \in Int /\ y \in Int /\ rank[x] \in Int /\ rank[y] \in Int
    BY <1>1, <1>4
  <2>2. (x < y => rank[x] < rank[y]) /\ (y < x => rank[y] < rank[x])
    BY <1>5
  <2>. QED  BY <2>1, <2>2
<1>7. rank \in Injection(S, 1..n)
  BY <1>4, <1>6 DEF Injection, IsInjective
<1>8. rank \in Surjection(S, 1..n)
  BY <1>1, <1>7, FS_Injection DEF n
<1>9. \A i \in 1..n : \E x \in S : rank[x] = i
  BY <1>8 DEF Surjection
<1>. DEFINE p == [i \in 1..n |-> CHOOSE x \in S : rank[x] = i]
<1>10. p \in [1..n -> S] /\ \A i \in 1..n : rank[p[i]] = i
  BY <1>9
<1>. HIDE DEF p
<1>11. ASSUME NEW i \in 1..n, NEW j \in 1..n, i < j
       PROVE  p[i] < p[j]
  <2>1. p[i] \in S /\ p[j] \in S /\ rank[p[i]] < rank[p[j]]
    BY <1>10, <1>11
  <2>. QED  BY <1>6, <2>1
<1>12. \A x \in S : \E i \in 1..n : p[i] = x
  BY <1>4, <1>6, <1>10
<1>. QED  BY <1>10, <1>11, <1>12 DEF n

Times   == Nat \union {None}
Entries == [user : Users, until : Times]

\* A table has an entry of a user at most once.
IsTable(table) ==
  /\ table \in Seq(Entries)
  /\ \A i, j \in DOMAIN table : table[i].user = table[j].user => i = j

\* Purging keeps the entries that stand, and no other.
LEMMA PurgeKeeps ==
  ASSUME NEW table, IsTable(table)
  PROVE  LET left == Purged(table)
         IN  /\ IsTable(left)
             /\ \A i \in DOMAIN left : Unexpired(left[i]) /\ \E k \in DOMAIN table : table[k] = left[i]
             /\ \A k \in DOMAIN table : Unexpired(table[k]) => \E i \in DOMAIN left : left[i] = table[k]
<1>. DEFINE kept == {i \in DOMAIN table : Unexpired(table[i])}
            n == Cardinality(kept)
            place == CHOOSE p \in [1..n -> kept] : \A i, j \in DOMAIN p : i < j => p[i] < p[j]
            left == Purged(table)
<1>1. Len(table) \in Nat /\ DOMAIN table = 1..Len(table)
  BY DEF IsTable
<1>2. kept \in SUBSET Int /\ IsFiniteSet(kept)
  <2>1. IsFiniteSet(1..Len(table)) /\ kept \in SUBSET (1..Len(table))
    BY <1>1, FS_Interval
  <2>2. IsFiniteSet(kept)
    BY <2>1, FS_Subset
  <2>. QED  BY <1>1, <2>2
<1>3. \A x \in kept : x \in DOMAIN table /\ Unexpired(table[x])
  OBVIOUS
<1>4. \A x \in DOMAIN table : Unexpired(table[x]) => x \in kept
  OBVIOUS
<1>5. left = [i \in DOMAIN place |-> table[place[i]]]
  BY DEF Purged
<1>. HIDE DEF kept, left
<1>6. n \in Nat
  BY <1>2, FS_CardinalityType
<1>7. \E p \in [1..n -> kept] : /\ \A i, j \in 1..n : i < j => p[i] < p[j]
                                /\ \A x \in kept : \E i \in 1..n : p[i] = x
  BY <1>2, Increasing, Zenon
<1>8. \E p \in [1..n -> kept] : \A i, j \in DOMAIN p : i < j => p[i] < p[j]
  BY <1>7
<1>9. /\ place \in [1..n -> kept]
      /\ \A i, j \in 1..n : i < j => place[i] < place[j]
  BY <1>8
<1>. HIDE DEF place
<1>10. \A i, j \in 1..n : place[i] = place[j] => i = j
  <2>1. \A i \in 1..n : place[i] \in Int
    BY <1>2, <1>9
  <2>. QED  BY <1>6, <1>9, <2>1
<1>11. \A x \in kept : \E i \in 1..n : place[i] = x
  <2>1. place \in Injection(1..n, kept)
    BY <1>9, <1>10 DEF Injection, IsInjective
  <2>2. IsFiniteSet(1..n) /\ Cardinality(1..n) = n
    BY <1>6, FS_Interval
  <2>3. place \in Surjection(1..n, kept)
    BY <1>2, <2>1, <2>2, FS_Injection DEF n
  <2>. QED  BY <2>3 DEF Surjection
<1>. HIDE DEF n
<1>12. /\ left \in Seq(Entries) /\ DOMAIN left = 1..n
       /\ \A i \in 1..n : left[i] = table[place[i]] /\ place[i] \in kept
  <2>1. \A i \in 1..n : place[i] \in kept /\ table[place[i]] \in Entries
    BY <1>1, <1>3, <1>9 DEF IsTable
  <2>. QED  BY <1>5, <1>6, <1>9, <2>1
<1>13. \A i, j \in DOMAIN left : left[i].user = left[j].user => i = j
  BY <1>3, <1>10, <1>12 DEF IsTable
<1>. QED  BY <1>3, <1>4, <1>11, <1>12, <1>13 DEF IsTable, left

\* A table that is written has one entry of the user, and those of others as before.
LEMMA WrittenKeeps ==
  ASSUME NEW table, IsTable(table), NEW u \in Users, NEW until \in Times
  PROVE  LET left == Written(table, u, until)
         IN  /\ IsTable(left)
             /\ \A i \in DOMAIN left :
                  left[i] = [user |-> u, until |-> until]
                    \/ (left[i].user # u /\ \E k \in DOMAIN table : table[k] = left[i])
             /\ \E i \in DOMAIN left : left[i].user = u
             /\ \A k \in DOMAIN table : table[k].user # u => \E i \in DOMAIN left : left[i] = table[k]
<1>. DEFINE left == Written(table, u, until)
            entry == [user |-> u, until |-> until]
<1>1. /\ Len(table) \in Nat /\ DOMAIN table = 1..Len(table)
      /\ \A i \in DOMAIN table : table[i] \in Entries
      /\ entry \in Entries /\ entry.user = u
  <2>1. table \in Seq(Entries)
    BY DEF IsTable
  <2>2. entry \in Entries
    BY DEF Entries
  <2>. QED  BY <2>1, <2>2
<1>2. CASE \E i \in DOMAIN table : table[i].user = u
  <2>1. \A i \in DOMAIN table : table[i].user = u => [table[i] EXCEPT !.until = until] = entry
    BY <1>1 DEF Entries
  <2>2. left = [i \in DOMAIN table |-> IF table[i].user = u THEN entry ELSE table[i]]
    BY <1>2, <2>1 DEF Written
  <2>. HIDE DEF left
  <2>3. left \in Seq(Entries) /\ DOMAIN left = DOMAIN table
    BY <1>1, <2>2
  <2>4. \A i \in DOMAIN table : left[i].user = table[i].user
    BY <1>1, <2>2
  <2>5. IsTable(left)
    BY <2>3, <2>4 DEF IsTable
  <2>. QED  BY <1>1, <1>2, <2>2, <2>3, <2>4, <2>5 DEF left
<1>3. CASE ~\E i \in DOMAIN table : table[i].user = u
  <2>1. left = Append(table, entry)
    BY <1>3 DEF Written
  <2>. HIDE DEF left
  <2>2. /\ left \in Seq(Entries) /\ DOMAIN left = 1..Len(table) + 1
        /\ left[Len(table) + 1] = entry
        /\ \A i \in DOMAIN table : left[i] = table[i]
    BY <1>1, <2>1 DEF IsTable
  <2>3. \A i \in DOMAIN left : i \in DOMAIN table \/ i = Len(table) + 1
    BY <1>1, <2>2
  <2>4. IsTable(left)
    BY <1>3, <2>2, <2>3 DEF IsTable
  <2>. QED  BY <1>1, <1>3, <2>2, <2>3, <2>4 DEF left
<1>. QED  BY <1>2, <1>3

\* Only an overflow evicts.
LEMMA EvictedKeeps ==
  ASSUME NEW ids, NEW prints, IsTable(ids), IsTable(prints)
  PROVE  LET left == Evicted(ids, prints)
         IN  /\ IsTable(left.ids) /\ IsTable(left.prints)
             /\ \A i \in DOMAIN left.ids : \E k \in DOMAIN ids : ids[k] = left.ids[i]
             /\ \A i \in DOMAIN left.prints : \E k \in DOMAIN prints : prints[k] = left.prints[i]
             /\ Len(ids) + Len(prints) <= MaxEntries => left.ids = ids /\ left.prints = prints
<1>1. ASSUME NEW table, IsTable(table), NEW n \in Nat
      PROVE  LET rest == SubSeq(table, n + 1, Len(table))
             IN  /\ IsTable(rest)
                 /\ \A i \in DOMAIN rest : \E k \in DOMAIN table : table[k] = rest[i]
                 /\ n = 0 => rest = table
  <2>. DEFINE rest == SubSeq(table, n + 1, Len(table))
  <2>1. Len(table) \in Nat /\ DOMAIN table = 1..Len(table) /\ table \in Seq(Entries)
    BY <1>1 DEF IsTable
  <2>2. /\ rest \in Seq(Entries)
        /\ DOMAIN rest = 1..Len(table) - n
        /\ \A i \in DOMAIN rest : rest[i] = table[n + i]
    BY <2>1
  <2>. HIDE DEF rest
  <2>3. \A i \in DOMAIN rest : n + i \in DOMAIN table
    BY <2>1, <2>2
  <2>4. IsTable(rest)
    BY <1>1, <2>1, <2>2, <2>3 DEF IsTable
  <2>5. n = 0 => rest = table
    BY <2>1, <2>2
  <2>. QED  BY <2>2, <2>3, <2>4, <2>5 DEF rest
<1>. DEFINE excess == Len(ids) + Len(prints) - MaxEntries
            fromIds == IF excess <= 0 THEN 0 ELSE IF excess < Len(ids) THEN excess ELSE Len(ids)
            fromPrints == IF excess <= 0 THEN 0 ELSE excess - fromIds
            left == Evicted(ids, prints)
<1>2. left = [ids |-> SubSeq(ids, fromIds + 1, Len(ids)), prints |-> SubSeq(prints, fromPrints + 1, Len(prints))]
  BY DEF Evicted
<1>3. Len(ids) \in Nat /\ Len(prints) \in Nat /\ MaxEntries \in Nat
  BY GatewayAssumption DEF IsTable
<1>4. /\ fromIds \in Nat /\ fromPrints \in Nat
      /\ Len(ids) + Len(prints) <= MaxEntries => fromIds = 0 /\ fromPrints = 0
  BY <1>3
<1>. HIDE DEF fromIds, fromPrints, left
<1>5. left.ids = SubSeq(ids, fromIds + 1, Len(ids)) /\ left.prints = SubSeq(prints, fromPrints + 1, Len(prints))
  BY <1>2
<1>6. /\ IsTable(left.ids)
      /\ \A i \in DOMAIN left.ids : \E k \in DOMAIN ids : ids[k] = left.ids[i]
      /\ fromIds = 0 => left.ids = ids
  <2>. DEFINE rest == SubSeq(ids, fromIds + 1, Len(ids))
  <2>1. /\ IsTable(rest)
        /\ \A i \in DOMAIN rest : \E k \in DOMAIN ids : ids[k] = rest[i]
        /\ fromIds = 0 => rest = ids
    BY <1>1, <1>4
  <2>. HIDE DEF rest
  <2>. QED  BY <1>5, <2>1 DEF rest
<1>7. /\ IsTable(left.prints)
      /\ \A i \in DOMAIN left.prints : \E k \in DOMAIN prints : prints[k] = left.prints[i]
      /\ fromPrints = 0 => left.prints = prints
  <2>. DEFINE rest == SubSeq(prints, fromPrints + 1, Len(prints))
  <2>1. /\ IsTable(rest)
        /\ \A i \in DOMAIN rest : \E k \in DOMAIN prints : prints[k] = rest[i]
        /\ fromPrints = 0 => rest = prints
    BY <1>1, <1>4
  <2>. HIDE DEF rest
  <2>. QED  BY <1>5, <2>1 DEF rest
<1>8. Len(ids) + Len(prints) <= MaxEntries => left.ids = ids /\ left.prints = prints
  BY <1>4, <1>6, <1>7
<1>. HIDE DEF left
<1>. QED  BY <1>6, <1>7, <1>8, Zenon DEF left
\* While no overflow could have evicted, the tables hold what was ordered last, for
\* everyone whose order stands, and nothing else.
DenyInv ==
  /\ now \in Nat
  /\ IsTable(deny["ids"]) /\ IsTable(deny["prints"])
  /\ deny.orders \in [Tables -> [Users -> Times]]
  /\ \A t \in Tables : \A i \in DOMAIN deny[t] : deny[t][i].until = deny.orders[t][deny[t][i].user]
  /\ ~deny.overfull =>
       \A t \in Tables, u \in Users :
         Stands(deny.orders[t][u]) => \E i \in DOMAIN deny[t] : deny[t][i].user = u

\* Distinct entries of the two tables are orders that stand at once.
LEMMA RoomForAll ==
  ASSUME NEW ids, NEW prints, IsTable(ids), IsTable(prints), NEW F, IsFiniteSet(F),
         \A i \in DOMAIN ids : <<"ids", ids[i].user>> \in F,
         \A i \in DOMAIN prints : <<"prints", prints[i].user>> \in F
  PROVE  Len(ids) + Len(prints) <= Cardinality(F)
<1>. DEFINE m == Len(ids)
            n == Len(prints)
            f == [i \in 1..m + n |-> IF i <= m THEN <<"ids", ids[i].user>>
                                              ELSE <<"prints", prints[i - m].user>>]
<1>1. /\ m \in Nat /\ DOMAIN ids = 1..m
      /\ n \in Nat /\ DOMAIN prints = 1..n
      /\ \A i, j \in 1..m : ids[i].user = ids[j].user => i = j
      /\ \A i, j \in 1..n : prints[i].user = prints[j].user => i = j
  BY DEF IsTable
<1>. HIDE DEF m, n
<1>2. \A i \in 1..m : <<"ids", ids[i].user>> \in F
  BY <1>1
<1>3. \A i \in 1..n : <<"prints", prints[i].user>> \in F
  BY <1>1
<1>4. \A i \in 1..m + n : IF i <= m THEN i \in 1..m ELSE i - m \in 1..n
  BY <1>1
<1>5. /\ f \in [1..m + n -> F]
      /\ \A i \in 1..m : f[i] = <<"ids", ids[i].user>>
      /\ \A i \in 1..m + n : ~(i <= m) => f[i] = <<"prints", prints[i - m].user>>
  BY <1>1, <1>2, <1>3, <1>4
<1>. HIDE DEF f
<1>6. ASSUME NEW i \in 1..m + n, NEW j \in 1..m + n, f[i] = f[j]
      PROVE  i = j
  <2>1. CASE i <= m /\ j <= m
    BY <1>1, <1>4, <1>5, <1>6, <2>1
  <2>2. CASE ~(i <= m) /\ ~(j <= m)
    <3>1. prints[i - m].user = prints[j - m].user
      BY <1>5, <1>6, <2>2
    <3>2. i - m = j - m
      BY <1>1, <1>4, <2>2, <3>1
    <3>. QED  BY <1>1, <3>2
  <2>3. CASE i <= m <=> ~(j <= m)
    BY <1>4, <1>5, <1>6, <2>3
  <2>. QED  BY <2>1, <2>2, <2>3
<1>7. f \in Injection(1..m + n, F)
  BY <1>5, <1>6 DEF Injection, IsInjective
<1>8. Cardinality(1..m + n) = m + n
  BY <1>1, FS_Interval
<1>. QED  BY <1>7, <1>8, FS_Injection DEF m, n

LEMMA RevokeKeeps ==
  ASSUME DenyInv, NEW u \in Users, NEW tables \in SUBSET Tables, NEW until \in Times,
         Revoke(u, tables, until)
  PROVE  DenyInv'
<1>. DEFINE purged(t) == Purged(deny[t])
            kept(t) == IF t \in tables THEN Written(purged(t), u, until) ELSE purged(t)
            orders == [t \in Tables |-> IF t \in tables THEN [deny.orders[t] EXCEPT ![u] = until]
                                        ELSE deny.orders[t]]
            left == Evicted(kept("ids"), kept("prints"))
            F == Standing(orders) \union (tables \X {u})
<1>1. /\ deny'["ids"] = left.ids /\ deny'["prints"] = left.prints /\ deny'.orders = orders
      /\ deny'.overfull = (deny.overfull \/ Cardinality(F) > MaxEntries)
      /\ now' = now
  BY DEF Revoke, Denied, vars
<1>2. /\ Tables = {"ids", "prints"}
      /\ \A t \in Tables : IsTable(deny[t])
  BY DEF Tables, DenyInv
<1>3. /\ orders \in [Tables -> [Users -> Times]]
      /\ \A t \in Tables, w \in Users :
           orders[t][w] = IF t \in tables /\ w = u THEN until ELSE deny.orders[t][w]
  BY DEF DenyInv
<1>. HIDE DEF orders, left, F
<1>4. ASSUME NEW t \in Tables
      PROVE  /\ IsTable(kept(t))
             /\ \A i \in DOMAIN kept(t) :
                  /\ kept(t)[i].user \in Users
                  /\ kept(t)[i].until = orders[t][kept(t)[i].user]
                  /\ Stands(orders[t][kept(t)[i].user]) \/ (t \in tables /\ kept(t)[i].user = u)
             /\ \A k \in DOMAIN deny[t] :
                  Stands(deny[t][k].until) => \E i \in DOMAIN kept(t) : kept(t)[i].user = deny[t][k].user
             /\ t \in tables => \E i \in DOMAIN kept(t) : kept(t)[i].user = u
  <2>. DEFINE p == purged(t)
  <2>1. /\ IsTable(p)
        /\ \A i \in DOMAIN p : Unexpired(p[i]) /\ \E k \in DOMAIN deny[t] : deny[t][k] = p[i]
        /\ \A k \in DOMAIN deny[t] : Unexpired(deny[t][k]) => \E i \in DOMAIN p : p[i] = deny[t][k]
    BY <1>2, PurgeKeeps
  <2>. HIDE DEF p
  <2>2. \A i \in DOMAIN p : /\ p[i].user \in Users /\ Stands(p[i].until)
                            /\ p[i].until = deny.orders[t][p[i].user]
    <3>1. \A i \in DOMAIN p : p[i] \in Entries
      BY <2>1 DEF IsTable
    <3>. QED  BY <2>1, <3>1 DEF DenyInv, Unexpired, Entries
  <2>3. CASE t \notin tables
    <3>1. kept(t) = p
      BY <2>3 DEF p
    <3>2. \A w \in Users : orders[t][w] = deny.orders[t][w]
      BY <1>3, <2>3
    <3>3. \A k \in DOMAIN deny[t] :
            Stands(deny[t][k].until) => \E i \in DOMAIN p : p[i].user = deny[t][k].user
      BY <2>1 DEF Unexpired
    <3>4. \A i \in DOMAIN p : /\ p[i].user \in Users /\ p[i].until = orders[t][p[i].user]
                              /\ Stands(orders[t][p[i].user])
      BY <2>2, <3>2
    <3>. QED  BY <2>1, <2>3, <3>1, <3>3, <3>4
  <2>4. CASE t \in tables
    <3>. DEFINE w == Written(p, u, until)
    <3>1. kept(t) = w
      BY <2>4 DEF p
    <3>2. /\ IsTable(w)
          /\ \A i \in DOMAIN w : w[i] = [user |-> u, until |-> until]
                                   \/ (w[i].user # u /\ \E k \in DOMAIN p : p[k] = w[i])
          /\ \E i \in DOMAIN w : w[i].user = u
          /\ \A k \in DOMAIN p : p[k].user # u => \E i \in DOMAIN w : w[i] = p[k]
      BY <2>1, WrittenKeeps
    <3>. HIDE DEF w
    <3>3. orders[t][u] = until /\ \A x \in Users : x # u => orders[t][x] = deny.orders[t][x]
      BY <1>3, <2>4
    <3>4. ASSUME NEW i \in DOMAIN w
          PROVE  /\ w[i].user \in Users /\ w[i].until = orders[t][w[i].user]
                 /\ Stands(orders[t][w[i].user]) \/ w[i].user = u
      <4>1. CASE w[i] = [user |-> u, until |-> until]
        BY <3>3, <4>1
      <4>2. CASE w[i].user # u /\ \E k \in DOMAIN p : p[k] = w[i]
        BY <2>2, <3>3, <4>2
      <4>. QED  BY <3>2, <4>1, <4>2
    <3>5. \A k \in DOMAIN deny[t] :
            Stands(deny[t][k].until) => \E i \in DOMAIN w : w[i].user = deny[t][k].user
      BY <2>1, <3>2 DEF Unexpired
    <3>. QED  BY <2>4, <3>1, <3>2, <3>4, <3>5
  <2>. QED  BY <2>3, <2>4
<1>5. /\ IsTable(left.ids) /\ IsTable(left.prints)
      /\ \A i \in DOMAIN left.ids : \E k \in DOMAIN kept("ids") : kept("ids")[k] = left.ids[i]
      /\ \A i \in DOMAIN left.prints : \E k \in DOMAIN kept("prints") : kept("prints")[k] = left.prints[i]
      /\ Len(kept("ids")) + Len(kept("prints")) <= MaxEntries =>
           left.ids = kept("ids") /\ left.prints = kept("prints")
  <2>1. IsTable(kept("ids")) /\ IsTable(kept("prints"))
    BY <1>2, <1>4
  <2>. HIDE DEF kept
  <2>. QED  BY <2>1, EvictedKeeps DEF left
<1>. HIDE DEF kept
<1>6. \A t \in Tables : \A i \in DOMAIN deny'[t] : deny'[t][i].until = orders[t][deny'[t][i].user]
  BY <1>1, <1>2, <1>4, <1>5
<1>7. ASSUME ~deny'.overfull, NEW t \in Tables, NEW w \in Users, Stands(orders[t][w])
      PROVE  \E i \in DOMAIN deny'[t] : deny'[t][i].user = w
  <2>1. IsFiniteSet(F)
    <3>1. IsFiniteSet(Tables) /\ IsFiniteSet(Users)
      <4>1. IsFiniteSet({"ids"} \union {"prints"})
        BY FS_Singleton, FS_AddElement
      <4>2. Tables = {"ids"} \union {"prints"}
        BY <1>2
      <4>. QED  BY <4>1, <4>2, GatewayAssumption
    <3>2. IsFiniteSet(Tables \X Users)
      BY <3>1, FS_Product
    <3>3. F \in SUBSET (Tables \X Users)
      BY DEF F, Standing
    <3>. QED  BY <3>2, <3>3, FS_Subset
  <2>2. \A x \in Tables : \A i \in DOMAIN kept(x) : <<x, kept(x)[i].user>> \in F
    BY <1>4 DEF F, Standing
  <2>3. Len(kept("ids")) + Len(kept("prints")) <= Cardinality(F)
    BY <1>2, <1>4, <2>1, <2>2, RoomForAll
  <2>4. ~deny.overfull /\ Cardinality(F) <= MaxEntries
    <3>1. ~deny.overfull /\ ~(Cardinality(F) > MaxEntries)
      BY <1>1, <1>7, Zenon
    <3>2. Cardinality(F) \in Nat /\ MaxEntries \in Nat
      BY <2>1, GatewayAssumption, FS_CardinalityType
    <3>. QED  BY <3>1, <3>2
  <2>5. Len(kept("ids")) + Len(kept("prints")) <= MaxEntries
    <3>1. Len(kept("ids")) \in Nat /\ Len(kept("prints")) \in Nat
      BY <1>2, <1>4 DEF IsTable
    <3>. QED  BY <2>1, <2>3, <2>4, <3>1, GatewayAssumption, FS_CardinalityType
  <2>6. deny'[t] = kept(t)
    BY <1>1, <1>2, <1>5, <2>5
  <2>7. CASE t \in tables /\ w = u
    BY <1>4, <2>6, <2>7
  <2>8. CASE ~(t \in tables /\ w = u)
    <3>1. orders[t][w] = deny.orders[t][w]
      BY <1>3, <2>8
    <3>2. PICK k \in DOMAIN deny[t] : deny[t][k].user = w
      BY <1>7, <2>4, <3>1 DEF DenyInv
    <3>3. Stands(deny[t][k].until)
      BY <1>7, <3>1, <3>2 DEF DenyInv
    <3>. QED  BY <1>4, <2>6, <3>2, <3>3
  <2>. QED  BY <2>7, <2>8
<1>8. \A x : Stands(x)' <=> Stands(x)
  BY <1>1 DEF Stands
<1>. QED  BY <1>1, <1>3, <1>5, <1>6, <1>7, <1>8 DEF DenyInv

LEMMA DenyStep ==
  ASSUME DenyInv, ChatInv, [GatewayNext]_gatewayVars
  PROVE  DenyInv'
<1>1. ASSUME deny' = deny, now' \in {now, now + 1}
      PROVE  DenyInv'
  <2>1. \A t \in Tables, u \in Users : Stands(deny.orders[t][u])' => Stands(deny.orders[t][u])
    <3>1. \A t \in Tables, u \in Users : deny.orders[t][u] \in Int
      BY DEF DenyInv, Times, None
    <3>. QED  BY <1>1, <3>1 DEF DenyInv, Stands
  <2>. QED  BY <1>1, <2>1 DEF DenyInv
<1>2. now' \in {now, now + 1}
  <2>1. [Next]_vars
    BY GatewayStep
  <2>. QED  BY <2>1 DEF Next, Tick, Accept, Refuse, Meter, Finish, vars
<1>3. ASSUME NEW u \in Users, NEW tables \in (SUBSET Tables) \ {{}}, NEW life \in Lifetimes,
             Revoke(u, tables, IF life = None THEN None ELSE now + life)
      PROVE  DenyInv'
  <2>1. (IF life = None THEN None ELSE now + life) \in Times
    BY GatewayAssumption DEF DenyInv, Times
  <2>. QED  BY <1>3, <2>1, RevokeKeeps
<1>4. ASSUME NEW r \in Requests, Serve(r)
      PROVE  deny' = deny
  BY <1>4 DEF Serve, Present, Unidentified, Admitted, Rejected, TurnDown, Dispatch, Answer, CompleteFails,
     Delta, Flush, Close, Exhaust, StreamFails, Cancel, Abandon, Leave, Ends, Metered, Unmetered, Recorded
<1>5. CASE \E r \in Requests : Serve(r)
  BY <1>1, <1>2, <1>4, <1>5
<1>6. CASE (Tick /\ UNCHANGED chatVars) \/ UNCHANGED gatewayVars
  BY <1>1, <1>2, <1>6 DEF chatVars, gatewayVars
<1>. QED  BY <1>3, <1>5, <1>6 DEF GatewayNext

\* Only an admission brings a request to the handler.
LEMMA ArrivesVouched ==
  ASSUME ChatInv, NEW r \in Requests, Serve(r), chat[r].at # "arrived", chat'[r].at = "arrived"
  PROVE  Vouched(r)
<1>1. chat \in [Requests -> Chats]
  BY DEF ChatInv
<1>2. \A c : chat' = [chat EXCEPT ![r] = c] => chat'[r] = c
  BY <1>1
<1>3. ASSUME NEW place, Moves(r, place) PROVE place = "arrived"
  BY <1>1, <1>3 DEF Moves, Chats
<1>4. ASSUME NEW c \in Chats, Metered(r, c) \/ Unmetered(r, c) PROVE c.at = "arrived"
  BY <1>1, <1>4 DEF Metered, Unmetered, Chats
<1>5. chat[r] \in Chats
  BY <1>1
<1>6. ~(Present(r) \/ Unidentified(r) \/ Rejected(r) \/ TurnDown(r) \/ Abandon(r))
  BY <1>3 DEF Present, Unidentified, Rejected, TurnDown, Abandon, Ends
<1>7. ~Dispatch(r)
  BY <1>3 DEF Dispatch
<1>8. ASSUME NEW c \in Chats, c.at # "arrived"
      PROVE  ~Recorded(r, c) /\ ~Metered(r, c) /\ ~Unmetered(r, c)
  BY <1>4, <1>8 DEF Recorded
<1>9. ASSUME NEW k \in BOOLEAN, NEW place \in Places, place # "arrived",
             NEW c \in {[chat[r] EXCEPT !.at = place], [chat[r] EXCEPT !.known = k, !.at = place]}
      PROVE  ~Recorded(r, c) /\ ~Metered(r, c) /\ ~Unmetered(r, c)
  <2>1. c \in Chats /\ c.at = place
    BY <1>5, <1>9 DEF Chats
  <2>. QED  BY <1>8, <1>9, <2>1
<1>10. ~(Answer(r) \/ CompleteFails(r))
  BY <1>3, <1>9 DEF Answer, CompleteFails, Ends, Places
<1>11. ~Delta(r)
  <2>1. ASSUME At(r, "streaming")
        PROVE  LET c == [chat[r] EXCEPT !.known = TRUE] IN c \in Chats /\ c.at = "streaming"
    BY <1>5, <2>1 DEF At, Chats
  <2>. QED  BY <1>8, <2>1 DEF Delta
<1>12. ~(Flush(r) \/ Close(r) \/ Exhaust(r) \/ Cancel(r))
  BY <1>9 DEF Flush, Close, Exhaust, Cancel, Places
<1>13. ~StreamFails(r)
  <2>1. \A decided \in BOOLEAN : (chat[r].known \/ decided) \in BOOLEAN
    OBVIOUS
  <2>. QED  BY <1>9, <2>1 DEF StreamFails, Places
<1>14. ~Leave(r)
  BY <1>1 DEF Leave, Calm
<1>. QED  BY <1>6, <1>7, <1>10, <1>11, <1>12, <1>13, <1>14 DEF Serve, Admitted

\* However revocations, expiries, evictions and admissions interleave, and whatever was
\* being verified when it came: as long as no more revocations stood at once than the
\* denylist holds, nobody is admitted whose token id or fingerprint is revoked.
THEOREM RevocationsAreHonoured == GatewaySpec => RevokedIsRefused
<1>1. GatewayInit => DenyInv
  <2>. SUFFICES ASSUME GatewayInit PROVE DenyInv
    OBVIOUS
  <2>1. /\ now = 0
        /\ deny = [ ids |-> <<>>, prints |-> <<>>, overfull |-> FALSE,
                    orders |-> [t \in Tables |-> [u \in Users |-> 0]] ]
    BY DEF GatewayInit, Init
  <2>2. /\ deny["ids"] = <<>> /\ deny["prints"] = <<>>
        /\ \A t \in Tables : deny[t] = <<>>
        /\ deny.orders = [t \in Tables |-> [u \in Users |-> 0]]
    BY <2>1 DEF Tables
  <2>3. ~Stands(0)
    BY <2>1 DEF Stands, None
  <2>4. IsTable(<<>>)
    BY DEF IsTable
  <2>5. /\ now \in Nat /\ deny.orders \in [Tables -> [Users -> Times]]
        /\ \A t \in Tables, u \in Users : deny.orders[t][u] = 0
    BY <2>1, <2>2 DEF Times
  <2>6. \A t \in Tables : DOMAIN deny[t] = {}
    BY <2>2
  <2>. QED  BY <2>2, <2>3, <2>4, <2>5, <2>6 DEF DenyInv
<1>2. ASSUME DenyInv, ChatInv, [GatewayNext]_gatewayVars,
             NEW r \in Requests, ~At(r, "arrived"), chat'[r].at = "arrived", ~deny.overfull, NEW t \in Tables
      PROVE  <<t, UserOf[r]>> \notin Standing(deny.orders)
  <2>1. Vouched(r)
    <3>1. PICK q \in Requests : Serve(q)
      <4>1. chat' # chat
        BY <1>2 DEF At
      <4>. QED  BY <1>2, <4>1 DEF GatewayNext, Revoke, chatVars, gatewayVars
    <3>2. PICK c \in Chats : chat' = [chat EXCEPT ![q] = c]
      BY <1>2, <3>1, ServeSteps DEF Handled
    <3>3. q = r
      BY <1>2, <3>2 DEF ChatInv, At
    <3>4. Serve(r) /\ chat[r].at # "arrived" /\ chat'[r].at = "arrived"
      BY <1>2, <3>1, <3>3 DEF At
    <3>. QED  BY <1>2, <3>4, ArrivesVouched
  <2>. QED  BY <1>2, <2>1 DEF Vouched, Listed, Unexpired, Standing, DenyInv, Tables
<1>3. GatewaySpec => []DenyInv
  BY <1>1, DenyStep, ChatsAreSound, PTL DEF GatewaySpec
<1>4. DenyInv /\ ChatInv /\ [GatewayNext]_gatewayVars =>
        [\A r \in Requests :
           ~At(r, "arrived") /\ chat'[r].at = "arrived" /\ ~deny.overfull =>
             \A t \in Tables : <<t, UserOf[r]>> \notin Standing(deny.orders)]_gatewayVars
  BY <1>2
<1>. QED  BY <1>3, <1>4, ChatsAreSound, PTL DEF GatewaySpec, RevokedIsRefused
=============================================================================

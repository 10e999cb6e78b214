------------------------------ MODULE QuotaLedger ------------------------------
(***************************************************************************)
(* The in-process quota ledger (tenancy/quota.py) as the gateway's         *)
(* middleware drives it (gateway/middleware.py): a request of one tenant   *)
(* takes a concurrency slot, is admitted against the request and spend     *)
(* ceilings, runs, is metered by the chat route and gives the slot back.   *)
(*                                                                         *)
(* Token and cost ceilings behave alike and are one dimension, "spend".    *)
(* The middleware names no provider and no model to admit(), so the        *)
(* per-provider and per-model ceilings are never reached.                  *)
(***************************************************************************)
EXTENDS Integers, Sequences, FiniteSets

CONSTANTS
  Requests,
  Users, Projects, Tenant,   \* subjects a counter is kept for
  UserOf,                    \* UserOf[r]
  ProjectOf,                 \* ProjectOf[r], or NoProject
  NoProject,
  TenantLimit, UserLimit,    \* ceilings per dimension; None stands for unlimited
  ProjectPerMinute,          \* TenantLimit's project_requests_per_minute
  TenantSlots, UserSlots,    \* max_concurrency
  Span,                      \* Span[p]: minutes in period p
  MaxTracked,                \* max_tracked_subjects
  Spends                     \* what metering one request may record

None     == -1
Subjects == {Tenant} \union Users \union Projects
Periods  == {"minute", "day", "month"}
Dims     == {"minute", "day", "month", "spend"}
PeriodOf(dim) == IF dim = "spend" THEN "day" ELSE dim

ASSUME QuotaAssumption ==
  /\ IsFiniteSet(Requests)
  /\ UserOf \in [Requests -> Users]
  /\ ProjectOf \in [Requests -> Projects \union {NoProject}] /\ NoProject \notin Subjects
  /\ Tenant \notin Users \union Projects /\ Users \intersect Projects = {}
  /\ TenantLimit \in [Dims -> Nat \union {None}] /\ UserLimit \in [Dims -> Nat \union {None}]
  /\ {ProjectPerMinute, TenantSlots, UserSlots} \subseteq Nat \union {None}
  /\ Span \in [Periods -> Nat \ {0}]
  /\ MaxTracked \in Nat /\ MaxTracked >= 3    \* admit() holds three counters at once
  /\ Spends \in SUBSET Nat

VARIABLES
  ledger,     \* order: tracked subjects, least recently used first; counters;
              \* history lost: subjects evicted in the current minute
  now,        \* minutes
  phase,      \* phase[r]: "idle", "running" or "metered"
  admitted    \* history: admissions per subject in the current minute

vars == <<ledger, now, phase, admitted>>

Fresh == [ window   |-> [p \in Periods |-> -1],
           used     |-> [dim \in Dims |-> 0],
           inflight |-> 0 ]

Init ==
  /\ ledger = [order |-> <<>>, counters |-> [s \in Subjects |-> Fresh], lost |-> {}]
  /\ now = 0
  /\ phase = [r \in Requests |-> "idle"]
  /\ admitted = [s \in Subjects |-> 0]

-----------------------------------------------------------------------------
\* Counters.  X_Mistake is a plausible mistake in X, used to test the properties.

\* _Counters.roll: a dimension starts again when its window is not the current one.
Rolled(c, t) ==
  [c EXCEPT !.window = [p \in Periods |-> t \div Span[p]],
            !.used   = [dim \in Dims |->
                          IF t \div Span[PeriodOf(dim)] # c.window[PeriodOf(dim)]
                          THEN 0 ELSE @[dim]]]

\* _counters_for: track `s`, dropping the least recently used subject if need be.
CountersFor(l, s) ==
  LET order   == Append(SelectSeq(l.order, LAMBDA x : x # s), s)
      dropped == IF Len(order) > MaxTracked THEN {order[1]} ELSE {}
  IN  [ order    |-> IF dropped = {} THEN order ELSE Tail(order),
        counters |-> [x \in Subjects |-> IF x = s THEN Rolled(l.counters[s], now)
                                         ELSE IF x \in dropped THEN Fresh
                                         ELSE l.counters[x]],
        lost     |-> l.lost \union dropped ]

Fetched(l, r) == CountersFor(CountersFor(l, Tenant), UserOf[r])

Within(value, limit) == limit = None \/ value < limit

Headroom_OffByOne(c, limits) ==
  \A dim \in Dims : limits[dim] = None \/ c.used[dim] <= limits[dim]

Headroom(c, limits) == \A dim \in Dims : Within(c.used[dim], limits[dim])

Counted(l, subjects, dims) ==
  [l EXCEPT !.counters = [s \in Subjects |->
     IF s \in subjects
     THEN [l.counters[s] EXCEPT !.used = [dim \in Dims |->
             IF dim \in dims THEN @[dim] + 1 ELSE @[dim]]]
     ELSE l.counters[s]]]

Slots(l, r, delta) ==
  [l EXCEPT !.counters = [s \in Subjects |->
     IF s \in {Tenant, UserOf[r]}
     THEN [l.counters[s] EXCEPT !.inflight = IF @ + delta > 0 THEN @ + delta ELSE 0]
     ELSE l.counters[s]]]

-----------------------------------------------------------------------------
\* The ledger's operations: [ok |-> whether granted, ledger |-> what they leave]

Acquire(l, r) ==
  LET f  == Fetched(l, r)
      ok == /\ Within(f.counters[Tenant].inflight, TenantSlots)
            /\ Within(f.counters[UserOf[r]].inflight, UserSlots)
  IN  [ok |-> ok, ledger |-> IF ok THEN Slots(f, r, 1) ELSE f]

Release(l, r) == Slots(Fetched(l, r), r, -1)

Admit(l, r) ==
  LET f         == Fetched(l, r)
      headroom  == /\ Headroom(f.counters[Tenant], TenantLimit)
                   /\ Headroom(f.counters[UserOf[r]], UserLimit)
      project   == ProjectPerMinute # None /\ ProjectOf[r] # NoProject
      g         == IF headroom /\ project THEN CountersFor(f, ProjectOf[r]) ELSE f
      ok        == /\ headroom
                   /\ project => g.counters[ProjectOf[r]].used["minute"] < ProjectPerMinute
      requests  == Counted(g, {Tenant, UserOf[r]}, {"minute", "day", "month"})
  IN  [ ok     |-> ok,
        ledger |-> IF ~ok THEN g
                   ELSE IF project THEN Counted(requests, {ProjectOf[r]}, {"minute"})
                   ELSE requests ]

RecordUsage(l, r, n) ==
  LET f == Fetched(l, r)
  IN  [f EXCEPT !.counters = [s \in Subjects |->
         IF s \in {Tenant, UserOf[r]}
         THEN [f.counters[s] EXCEPT !.used["spend"] = @ + n]
         ELSE f.counters[s]]]

-----------------------------------------------------------------------------
\* The middleware

\* The ledger after a request is refused by acquire_concurrency() or admit().
Refused_Leaks(l, r) == l

Refused(l, r) == Release(l, r)

\* Everything from acquire_concurrency() to the decision runs without an await.
Refuse(r) ==
  LET slot == Acquire(ledger, r)
      pass == Admit(slot.ledger, r)
  IN  /\ phase[r] = "idle"
      /\ ~(slot.ok /\ pass.ok)
      /\ ledger' = Refused(IF slot.ok THEN pass.ledger ELSE slot.ledger, r)
      /\ UNCHANGED <<now, phase, admitted>>

Accept(r) ==
  LET slot == Acquire(ledger, r)
      pass == Admit(slot.ledger, r)
  IN  /\ phase[r] = "idle"
      /\ slot.ok /\ pass.ok
      /\ ledger' = pass.ledger
      /\ phase' = [phase EXCEPT ![r] = "running"]
      /\ admitted' = [s \in Subjects |->
                        IF s \in {Tenant, UserOf[r], ProjectOf[r]}
                        THEN admitted[s] + 1 ELSE admitted[s]]
      /\ UNCHANGED now

\* The chat route records what a served request used, once.
Meter(r) ==
  /\ phase[r] = "running"
  /\ \E n \in Spends : ledger' = RecordUsage(ledger, r, n)
  /\ phase' = [phase EXCEPT ![r] = "metered"]
  /\ UNCHANGED <<now, admitted>>

\* The response is complete, or the handler was cut short.
Finish(r) ==
  /\ phase[r] \in {"running", "metered"}
  /\ ledger' = Release(ledger, r)
  /\ phase' = [phase EXCEPT ![r] = "idle"]
  /\ UNCHANGED <<now, admitted>>

Tick ==
  /\ now' = now + 1
  /\ admitted' = [s \in Subjects |-> 0]
  /\ ledger' = [ledger EXCEPT !.lost = {}]
  /\ UNCHANGED phase

Next == Tick \/ \E r \in Requests : Accept(r) \/ Refuse(r) \/ Meter(r) \/ Finish(r)

Spec == Init /\ [][Next]_vars

-----------------------------------------------------------------------------
\* Properties

Active(s) == {r \in Requests : phase[r] # "idle" /\ s \in {Tenant, UserOf[r]}}

TypeOK ==
  /\ \A s \in Subjects : /\ ledger.counters[s].inflight \in Nat
                         /\ ledger.counters[s].used \in [Dims -> Nat]
                         /\ ledger.counters[s].window \in [Periods -> Int]
  /\ ledger.order \in Seq(Subjects) /\ Len(ledger.order) <= MaxTracked
  /\ phase \in [Requests -> {"idle", "running", "metered"}]

\* No slot is leaked: refusals, evictions and window changes included, a subject
\* is charged for no more slots than it has requests in progress, so a quiet
\* tenant is never refused for concurrency.
SlotsAreHeld ==
  \A s \in Subjects : ledger.counters[s].inflight <= Cardinality(Active(s))

PerMinute(s) == IF s = Tenant THEN TenantLimit["minute"]
                ELSE IF s \in Users THEN UserLimit["minute"]
                ELSE ProjectPerMinute

\* "Both levels are enforced": in one minute no more requests are admitted for the
\* tenant, a user or a project than its ceiling, unless the ledger has had to
\* forget that subject in the same minute.
CeilingsHold ==
  \A s \in Subjects \ ledger.lost : PerMinute(s) # None => admitted[s] <= PerMinute(s)

\* The ceiling the policy names "max_concurrency" (quota.py:48).  Does not hold:
\* the middleware gives back a slot for a request that was refused one.
ConcurrencyIsCapped ==
  /\ TenantSlots # None => Cardinality(Active(Tenant)) <= TenantSlots
  /\ UserSlots # None => \A u \in Users : Cardinality(Active(u)) <= UserSlots
=============================================================================

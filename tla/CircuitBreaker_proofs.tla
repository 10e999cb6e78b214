------------------------ MODULE CircuitBreaker_proofs ------------------------
(***************************************************************************)
(* Proofs about CircuitBreaker for every policy and every finite set of    *)
(* requests.  The operators of BreakerState are typed first; after that no *)
(* proof looks at how the error average is computed.                       *)
(***************************************************************************)
EXTENDS CircuitBreaker, FiniteSetTheorems, TLAPS

-----------------------------------------------------------------------------
\* The record operators

\* Saturating a count keeps it a count within the cap.
LEMMA SaturateType ==
  ASSUME NEW cap \in Nat, NEW n \in 0..cap
  PROVE  Saturate(n + 1, cap) \in 0..cap /\ Saturate(n + 1, cap) >= n
BY DEF Saturate

\* The error average stays an integer.
LEMMA BlendType ==
  ASSUME NEW current \in Int, NEW sample \in Int
  PROVE  Blend(current, sample) \in Int
<1>1. Alpha \in Int /\ Scale \in Int /\ Scale > 0
  BY PolicyAssumption
<1>2. (Alpha * sample + (Scale - Alpha) * current) \in Int
  BY <1>1
<1>3. QED
  BY <1>1, <1>2 DEF Blend

\* A deployment nobody has called yet has a well-typed record.
LEMMA FreshType == FreshBreaker \in Breakers
BY PolicyAssumption DEF FreshBreaker, Breakers, States, CLOSED, Unmeasured

\* The constants the operators reset fields to are in range.
LEMMA Resets ==
  /\ 0 \in Nat /\ 0 \in 0..OpenDuration /\ 0 \in 0..ConsecutiveFailures
  /\ {CLOSED, OPEN, HALF_OPEN} \subseteq States
BY PolicyAssumption DEF States

\* Opening a record, by a trip or by an operator, keeps its type.
LEMMA OpenedType ==
  ASSUME NEW b \in Breakers
  PROVE  /\ Opened(b) \in Breakers
         /\ \A hold \in BOOLEAN : ForcedOpen(b, hold) \in Breakers
<1>1. Opened(b) \in Breakers
  BY Resets, Zenon DEF Opened, Breakers
<1>2. ASSUME NEW hold \in BOOLEAN
      PROVE  ForcedOpen(b, hold) \in Breakers
  BY <1>1, Zenon DEF ForcedOpen, Breakers
<1>3. QED
  BY <1>1, <1>2

\* Closing a record keeps its type.
LEMMA ClosedType ==
  ASSUME NEW b \in Breakers
  PROVE  Closed(b) \in Breakers
BY Resets, Zenon DEF Closed, Breakers

\* Ageing a trip keeps the record's type.
LEMMA AgedType ==
  ASSUME NEW b \in Breakers
  PROVE  Aged(b) \in Breakers
BY PolicyAssumption, SaturateType DEF Aged, Breakers

\* Recording a success keeps the record's type.
LEMMA SuccessType ==
  ASSUME NEW b \in Breakers
  PROVE  RecordSuccess(b) \in Breakers
<1> DEFINE seen == [b EXCEPT !.samples = Saturate(@ + 1, MinimumSamples),
                             !.consecutive_failures = 0,
                             !.ewma_error = Blend(@, 0)]
           probed == [seen EXCEPT !.half_open_successes = @ + 1]
<1>1. Saturate(b.samples + 1, MinimumSamples) \in 0..MinimumSamples
  BY PolicyAssumption, SaturateType DEF Breakers
<1>2. Blend(b.ewma_error, 0) \in Int
  BY BlendType DEF Breakers
<1>3. seen \in Breakers
  BY <1>1, <1>2, Resets, Zenon DEF Breakers
<1>4. seen.half_open_successes + 1 \in Nat
  BY <1>3 DEF Breakers
<1>5. probed \in Breakers
  BY <1>3, <1>4, Zenon DEF Breakers
<1>6. Closed(probed) \in Breakers
  BY <1>5, ClosedType
<1>7. QED
  BY <1>3, <1>5, <1>6 DEF RecordSuccess

\* Recording a failure keeps the record's type.
LEMMA FailureType ==
  ASSUME NEW b \in Breakers
  PROVE  RecordFailure(b) \in Breakers
<1> DEFINE seen == [b EXCEPT !.samples = Saturate(@ + 1, MinimumSamples),
                             !.consecutive_failures = Saturate(@ + 1, ConsecutiveFailures),
                             !.ewma_error = Blend(@, Scale)]
<1>1. /\ Saturate(b.samples + 1, MinimumSamples) \in 0..MinimumSamples
      /\ Saturate(b.consecutive_failures + 1, ConsecutiveFailures) \in 0..ConsecutiveFailures
  BY PolicyAssumption, SaturateType DEF Breakers
<1>2. Blend(b.ewma_error, Scale) \in Int
  BY BlendType, PolicyAssumption DEF Breakers
<1>3. seen \in Breakers
  BY <1>1, <1>2 DEF Breakers
<1>4. Opened(seen) \in Breakers
  BY <1>3, OpenedType
<1>5. QED
  BY <1>3, <1>4 DEF RecordFailure

\* Asking for admission keeps the record's type.
LEMMA AdmitsType ==
  ASSUME NEW b \in Breakers
  PROVE  AfterAdmits(b) \in Breakers
BY DEF AfterAdmits, Breakers, States, HALF_OPEN

\* Entering in_flight() keeps the record's type.
LEMMA EnteredType ==
  ASSUME NEW b \in Breakers
  PROVE  Entered(b) \in Breakers
<1>1. b.queue_depth + 1 \in Nat /\ b.half_open_in_flight + 1 \in Nat
  BY DEF Breakers
<1>2. QED
  BY <1>1 DEF Entered, Breakers

\* Leaving in_flight() keeps the record's type: both counts are floored at 0.
LEMMA ExitedType ==
  ASSUME NEW b \in Breakers
  PROVE  Exited(b) \in Breakers
<1>1. Less(b.queue_depth) \in Nat /\ Less(b.half_open_in_flight) \in Nat
  BY DEF Less, Breakers
<1>2. QED
  BY <1>1 DEF Exited, Breakers

-----------------------------------------------------------------------------
\* Type correctness

\* Every variable keeps its type, in particular no counter of the record goes
\* below zero or past the threshold it saturates at.
THEOREM TypeCorrect == Spec => []TypeOK
<1>1. Init => TypeOK
  BY FreshType, PolicyAssumption DEF Init, TypeOK, Phases
<1>2. TypeOK /\ [Next]_vars => TypeOK'
  <2> SUFFICES ASSUME TypeOK, [Next]_vars
               PROVE  TypeOK'
    OBVIOUS
  <2> USE DEF Phases
  <2>0. /\ breaker \in Breakers
        /\ phase \in [Requests -> Phases]
    BY DEF TypeOK
  <2>1. CASE Tick
    BY <2>0, <2>1, AgedType DEF Tick, TypeOK
  <2>2. CASE Operator
    <3>1. CASE ForceClose
      BY <2>0, <3>1, ClosedType DEF ForceClose, TypeOK
    <3>2. CASE Reset
      BY <2>0, <3>2, FreshType DEF Reset, TypeOK
    <3>3. ASSUME NEW hold \in BOOLEAN, ForceOpen(hold)
          PROVE  TypeOK'
      BY <2>0, <3>3, OpenedType DEF ForceOpen, TypeOK
    <3>4. QED
      BY <2>2, <3>1, <3>2, <3>3 DEF Operator
  <2>3. ASSUME NEW r \in Requests, Request(r)
        PROVE  TypeOK'
    <3>0. Exited(breaker) \in Breakers
      BY <2>0, ExitedType
    <3>1. CASE Plan(r)
      BY <2>0, <3>1, AdmitsType DEF Plan, TypeOK
    <3>2. CASE NotReached(r)
      BY <2>0, <3>2 DEF NotReached, TypeOK
    <3>3. CASE Begin(r)
      BY <2>0, <3>0, <3>3, EnteredType DEF Begin, TypeOK
    <3>4. CASE Complete(r)
      BY <2>0, <3>0, <3>4, SuccessType DEF Complete, TypeOK
    <3>5. CASE Fail(r)
      BY <2>0, <3>0, <3>5, FailureType DEF Fail, TypeOK
    <3>6. CASE FirstEvent(r)
      BY <2>0, <3>0, <3>6, SuccessType DEF FirstEvent, TypeOK
    <3>7. CASE Leave(r)
      BY <2>0, <3>0, <3>7 DEF Leave, TypeOK
    <3>8. CASE Unbuilt(r)
      <4>1. RecordFailure(Exited(Entered(breaker))) \in Breakers
        BY <2>0, EnteredType, ExitedType, FailureType
      <4>2. QED
        BY <2>0, <3>8, <4>1 DEF Unbuilt, TypeOK
    <3>9. QED
      BY <2>3, <3>1, <3>2, <3>3, <3>4, <3>5, <3>6, <3>7, <3>8 DEF Request
  <2>4. CASE UNCHANGED vars
    BY <2>4 DEF vars, TypeOK
  <2>5. QED
    BY <2>1, <2>2, <2>3, <2>4 DEF Next
<1>3. QED
  BY <1>1, <1>2, PTL DEF Spec

-----------------------------------------------------------------------------
\* What one record satisfies at all times, and how far each operator moves its
\* queue depth.

RecordInv(b) ==
  /\ b.held_open => b.state = OPEN
  /\ b.state = OPEN => b.half_open_in_flight = 0
  /\ b.half_open_in_flight <= b.queue_depth

\* A fresh record satisfies the invariant with an empty queue.
LEMMA FreshRecord == RecordInv(FreshBreaker) /\ FreshBreaker.queue_depth = 0
BY DEF RecordInv, FreshBreaker, OPEN, CLOSED

\* Opening establishes the invariant and keeps the queue depth.
LEMMA OpenedRecord ==
  ASSUME NEW b \in Breakers
  PROVE  /\ RecordInv(Opened(b))
         /\ \A hold \in BOOLEAN : RecordInv(ForcedOpen(b, hold))
         /\ Opened(b).queue_depth = b.queue_depth
         /\ \A hold \in BOOLEAN : ForcedOpen(b, hold).queue_depth = b.queue_depth
BY DEF RecordInv, Opened, ForcedOpen, Breakers, OPEN

\* Closing establishes the invariant and keeps the queue depth.
LEMMA ClosedRecord ==
  ASSUME NEW b \in Breakers
  PROVE  RecordInv(Closed(b)) /\ Closed(b).queue_depth = b.queue_depth
BY DEF RecordInv, Closed, Breakers, OPEN, CLOSED

\* Ageing keeps the invariant and the queue depth.
LEMMA AgedRecord ==
  ASSUME NEW b \in Breakers, RecordInv(b)
  PROVE  RecordInv(Aged(b)) /\ Aged(b).queue_depth = b.queue_depth
BY DEF RecordInv, Aged, Breakers

\* Asking for admission keeps the invariant and the queue depth.
LEMMA AdmitsRecord ==
  ASSUME NEW b \in Breakers, RecordInv(b)
  PROVE  RecordInv(AfterAdmits(b)) /\ AfterAdmits(b).queue_depth = b.queue_depth
BY DEF RecordInv, AfterAdmits, CoolingOff, Breakers, OPEN, HALF_OPEN

\* Entering in_flight() keeps the invariant and adds one to the queue depth.
LEMMA EnteredRecord ==
  ASSUME NEW b \in Breakers, RecordInv(b)
  PROVE  RecordInv(Entered(b)) /\ Entered(b).queue_depth = b.queue_depth + 1
BY DEF RecordInv, Entered, Breakers, OPEN, HALF_OPEN

\* Leaving in_flight() keeps the invariant and takes one from the queue depth.
LEMMA ExitedRecord ==
  ASSUME NEW b \in Breakers, RecordInv(b)
  PROVE  RecordInv(Exited(b)) /\ Exited(b).queue_depth = Less(b.queue_depth)
BY DEF RecordInv, Exited, Less, Breakers

\* Recording a success keeps the invariant and the queue depth.
LEMMA SuccessRecord ==
  ASSUME NEW b \in Breakers, RecordInv(b)
  PROVE  RecordInv(RecordSuccess(b)) /\ RecordSuccess(b).queue_depth = b.queue_depth
BY DEF RecordInv, RecordSuccess, Closed, Breakers, OPEN, CLOSED, HALF_OPEN

\* Recording a failure keeps the invariant and the queue depth.
LEMMA FailureRecord ==
  ASSUME NEW b \in Breakers, RecordInv(b)
  PROVE  RecordInv(RecordFailure(b)) /\ RecordFailure(b).queue_depth = b.queue_depth
BY DEF RecordInv, RecordFailure, Opened, Breakers, OPEN, CLOSED, HALF_OPEN

-----------------------------------------------------------------------------
\* The safety invariant

IInv ==
  /\ TypeOK
  /\ RecordInv(breaker)
  /\ breaker.queue_depth <= Cardinality(InFlight)

\* The requests in flight are finitely many.
LEMMA InFlightFinite ==
  IsFiniteSet(InFlight) /\ Cardinality(InFlight) \in Nat
BY RequestsAssumption, FS_Subset, FS_CardinalityType DEF InFlight

\* A request that begins joins InFlight.
LEMMA InFlightGrows ==
  ASSUME phase \in [Requests -> Phases], NEW r \in Requests,
         phase[r] = "planned", phase' = [phase EXCEPT ![r] = "running"]
  PROVE  Cardinality(InFlight') = Cardinality(InFlight) + 1
<1>1. InFlight' = InFlight \union {r} /\ r \notin InFlight
  BY DEF InFlight, Phases
<1>2. QED
  BY <1>1, InFlightFinite, FS_AddElement

\* A request that ends leaves InFlight.
LEMMA InFlightShrinks ==
  ASSUME phase \in [Requests -> Phases], NEW r \in Requests,
         phase[r] \in {"running", "streaming"}, phase' = [phase EXCEPT ![r] = "idle"]
  PROVE  Cardinality(InFlight') = Cardinality(InFlight) - 1 /\ r \in InFlight
<1>1. InFlight' = InFlight \ {r} /\ r \in InFlight
  BY DEF InFlight, Phases
<1>2. QED
  BY <1>1, InFlightFinite, FS_RemoveElement

\* A request that ends gives its unit of queue depth back.
LEMMA ExitKeepsBound ==
  ASSUME breaker \in Breakers, breaker.queue_depth <= Cardinality(InFlight),
         phase \in [Requests -> Phases], NEW r \in Requests,
         phase[r] \in {"running", "streaming"}, phase' = [phase EXCEPT ![r] = "idle"]
  PROVE  Less(breaker.queue_depth) <= Cardinality(InFlight')
<1>1. Cardinality(InFlight) \in Nat /\ Cardinality(InFlight) >= 1
  <2>1. InFlight # {}
    BY InFlightShrinks
  <2>2. QED
    BY <2>1, InFlightFinite, FS_EmptySet
<1>2. Cardinality(InFlight') = Cardinality(InFlight) - 1
  BY InFlightShrinks
<1>3. breaker.queue_depth \in Nat
  BY DEF Breakers
<1>4. QED
  BY <1>1, <1>2, <1>3 DEF Less

\* Every step keeps the inductive invariant.
LEMMA Inductive == IInv /\ TypeOK' /\ [Next]_vars => IInv'
<1> SUFFICES ASSUME IInv, TypeOK', [Next]_vars
             PROVE  IInv'
  OBVIOUS
<1>0. /\ breaker \in Breakers /\ phase \in [Requests -> Phases]
      /\ RecordInv(breaker) /\ breaker.queue_depth <= Cardinality(InFlight)
      /\ Cardinality(InFlight) \in Nat /\ breaker.queue_depth \in Nat
  BY InFlightFinite DEF IInv, TypeOK, Breakers
<1>1. ASSUME phase' = phase, RecordInv(breaker'),
             breaker'.queue_depth <= breaker.queue_depth,
             breaker'.queue_depth \in Nat
      PROVE  IInv'
  <2>1. InFlight' = InFlight
    BY <1>1 DEF InFlight
  <2>2. breaker'.queue_depth <= Cardinality(InFlight')
    BY <1>0, <1>1, <2>1
  <2>3. QED
    BY <1>1, <2>2 DEF IInv, RecordInv
<1>2. breaker'.queue_depth \in Nat
  BY DEF TypeOK, Breakers
<1>3. CASE Tick
  BY <1>0, <1>1, <1>2, <1>3, AgedRecord DEF Tick
<1>4. CASE Operator
  <2>1. CASE ForceClose
    BY <1>0, <1>1, <1>2, <2>1, ClosedRecord DEF ForceClose
  <2>2. CASE Reset
    BY <1>0, <1>1, <1>2, <2>2, FreshRecord DEF Reset
  <2>3. ASSUME NEW hold \in BOOLEAN, ForceOpen(hold)
        PROVE  IInv'
    BY <1>0, <1>1, <1>2, <2>3, OpenedRecord DEF ForceOpen
  <2>4. QED
    BY <1>4, <2>1, <2>2, <2>3 DEF Operator
<1>5. ASSUME NEW r \in Requests, Request(r)
      PROVE  IInv'
  <2>0. Exited(breaker) \in Breakers /\ RecordInv(Exited(breaker))
    BY <1>0, ExitedType, ExitedRecord
  <2>1. CASE Plan(r)
    <3>1. /\ breaker' = AfterAdmits(breaker)
          /\ \A q \in Requests : phase'[q] \in {"running", "streaming"}
                                 <=> phase[q] \in {"running", "streaming"}
      BY <1>0, <2>1 DEF Plan, Phases
    <3>2. InFlight' = InFlight
      BY <3>1 DEF InFlight
    <3>3. RecordInv(breaker') /\ breaker'.queue_depth = breaker.queue_depth
      BY <1>0, <3>1, AdmitsRecord
    <3>4. QED
      BY <1>0, <3>2, <3>3 DEF IInv, RecordInv
  <2>2. CASE NotReached(r)
    <3>1. InFlight' = InFlight /\ breaker' = breaker
      BY <1>0, <2>2 DEF NotReached, InFlight, Phases
    <3>2. QED
      BY <1>0, <3>1 DEF IInv, RecordInv
  <2>3. CASE Begin(r)
    <3>1. breaker' = Entered(breaker)
      BY <2>3 DEF Begin
    <3>2. RecordInv(breaker') /\ breaker'.queue_depth = breaker.queue_depth + 1
      BY <1>0, <3>1, EnteredRecord
    <3>3. Cardinality(InFlight') = Cardinality(InFlight) + 1
      BY <1>0, <2>3, InFlightGrows DEF Begin
    <3>4. breaker'.queue_depth <= Cardinality(InFlight')
      BY <1>0, <3>2, <3>3
    <3>5. QED
      BY <3>2, <3>4 DEF IInv, RecordInv
  <2>4. ASSUME phase[r] \in {"running", "streaming"},
               phase' = [phase EXCEPT ![r] = "idle"],
               RecordInv(breaker'), breaker'.queue_depth = Less(breaker.queue_depth)
        PROVE  IInv'
    <3>1. breaker'.queue_depth <= Cardinality(InFlight')
      BY <1>0, <2>4, ExitKeepsBound
    <3>2. QED
      BY <2>4, <3>1 DEF IInv, RecordInv
  <2>5. CASE Complete(r)
    <3>1. breaker' = RecordSuccess(Exited(breaker))
      BY <2>5 DEF Complete
    <3>2. RecordInv(breaker') /\ breaker'.queue_depth = Less(breaker.queue_depth)
      BY <1>0, <2>0, <3>1, SuccessRecord, ExitedRecord
    <3>3. QED
      BY <2>4, <2>5, <3>2 DEF Complete
  <2>6. CASE Fail(r)
    <3>1. breaker' = RecordFailure(Exited(breaker))
      BY <2>6 DEF Fail
    <3>2. RecordInv(breaker') /\ breaker'.queue_depth = Less(breaker.queue_depth)
      BY <1>0, <2>0, <3>1, FailureRecord, ExitedRecord
    <3>3. QED
      BY <2>4, <2>6, <3>2 DEF Fail
  <2>7. CASE FirstEvent(r)
    <3>1. breaker' = RecordSuccess(breaker)
      BY <2>7 DEF FirstEvent
    <3>2. RecordInv(breaker') /\ breaker'.queue_depth = breaker.queue_depth
      BY <1>0, <3>1, SuccessRecord
    <3>3. InFlight' = InFlight
      BY <1>0, <2>7 DEF FirstEvent, InFlight, Phases
    <3>4. QED
      BY <1>0, <3>2, <3>3 DEF IInv, RecordInv
  <2>8. CASE Leave(r)
    <3>1. breaker' = Exited(breaker)
      BY <2>8 DEF Leave
    <3>2. QED
      BY <1>0, <2>0, <2>4, <2>8, <3>1, ExitedRecord DEF Leave
  <2>9. CASE Unbuilt(r)
    <3>1. /\ Entered(breaker) \in Breakers /\ RecordInv(Entered(breaker))
          /\ Entered(breaker).queue_depth = breaker.queue_depth + 1
      BY <1>0, EnteredType, EnteredRecord
    <3>2. /\ Exited(Entered(breaker)) \in Breakers /\ RecordInv(Exited(Entered(breaker)))
          /\ Exited(Entered(breaker)).queue_depth = breaker.queue_depth
      BY <1>0, <3>1, ExitedType, ExitedRecord DEF Less
    <3>3. RecordInv(breaker') /\ breaker'.queue_depth = breaker.queue_depth
      BY <2>9, <3>2, FailureRecord DEF Unbuilt
    <3>4. InFlight' = InFlight
      BY <1>0, <2>9 DEF Unbuilt, InFlight, Phases
    <3>5. QED
      BY <1>0, <3>3, <3>4 DEF IInv, RecordInv
  <2>10. QED
    BY <1>5, <2>1, <2>2, <2>3, <2>5, <2>6, <2>7, <2>8, <2>9 DEF Request
<1>6. CASE UNCHANGED vars
  BY <1>0, <1>1, <1>6 DEF vars
<1>7. QED
  BY <1>3, <1>4, <1>5, <1>6 DEF Next

\* The inductive invariant holds throughout.
THEOREM Invariance == Spec => []IInv
<1>1. Init => IInv
  <2> SUFFICES ASSUME Init
               PROVE  IInv
    OBVIOUS
  <2>1. TypeOK
    BY FreshType, PolicyAssumption DEF Init, TypeOK, Phases
  <2>2. RecordInv(breaker) /\ breaker.queue_depth = 0
    BY FreshRecord DEF Init
  <2>3. QED
    BY <2>1, <2>2, InFlightFinite DEF IInv
<1>2. QED
  BY <1>1, TypeCorrect, Inductive, PTL DEF Spec

\* A held breaker is open, and an open breaker counts no probe.
THEOREM HeldIsOpen == Spec => [](HeldMeansOpen /\ OpenCountsNoProbe)
<1>1. IInv => HeldMeansOpen /\ OpenCountsNoProbe
  BY DEF IInv, RecordInv, HeldMeansOpen, OpenCountsNoProbe
<1>2. QED
  BY <1>1, Invariance, PTL

\* No probe slot leaks: counted probes never outnumber the requests in flight.
THEOREM NoSlotLeaks == Spec => []SlotsAreHeld
<1>1. IInv => SlotsAreHeld
  BY DEF IInv, RecordInv, SlotsAreHeld
<1>2. QED
  BY <1>1, Invariance, PTL

\* A half-open breaker with nothing in flight admits the next request.
THEOREM NeverStuckHalfOpen == Spec => []QuiescentHalfOpenAdmits
<1>1. IInv => QuiescentHalfOpenAdmits
  <2> SUFFICES ASSUME IInv, breaker.state = HALF_OPEN, InFlight = {}
               PROVE  Admits(breaker)
    BY DEF QuiescentHalfOpenAdmits
  <2>1. Cardinality(InFlight) = 0
    BY FS_EmptySet
  <2>2. breaker.queue_depth = 0 /\ breaker.half_open_in_flight = 0
    BY <2>1 DEF IInv, RecordInv, TypeOK, Breakers
  <2>3. QED
    BY <2>2, PolicyAssumption
       DEF Admits, Saturated, CoolingOff, OPEN, HALF_OPEN
<1>2. QED
  BY <1>1, Invariance, PTL

-----------------------------------------------------------------------------
\* What an open period does without an operator

\* A late answer leaves an open breaker as it found it.
LEMMA LateAnswers ==
  ASSUME NEW b \in Breakers, b.state = OPEN
  PROVE  \A c \in {RecordSuccess(b), RecordFailure(b), Entered(b), Exited(b)} :
           /\ c.state = OPEN
           /\ c.since_opened = b.since_opened
           /\ c.held_open = b.held_open
<1>1. RecordSuccess(b).state = OPEN /\ RecordSuccess(b).since_opened = b.since_opened
      /\ RecordSuccess(b).held_open = b.held_open
  BY DEF RecordSuccess, Breakers, OPEN, HALF_OPEN
<1>2. RecordFailure(b).state = OPEN /\ RecordFailure(b).since_opened = b.since_opened
      /\ RecordFailure(b).held_open = b.held_open
  BY DEF RecordFailure, Breakers, OPEN, CLOSED, HALF_OPEN
<1>3. Entered(b).state = OPEN /\ Entered(b).since_opened = b.since_opened
      /\ Entered(b).held_open = b.held_open
  BY DEF Entered, Breakers, OPEN
<1>4. Exited(b).state = OPEN /\ Exited(b).since_opened = b.since_opened
      /\ Exited(b).held_open = b.held_open
  BY DEF Exited, Breakers, OPEN
<1>5. QED
  BY <1>1, <1>2, <1>3, <1>4

\* Planning leaves a breaker that is still cooling off alone, and admits nothing.
LEMMA CoolingOffRefuses ==
  ASSUME NEW b \in Breakers, b.state = OPEN
  PROVE  /\ b.held_open => AfterAdmits(b) = b /\ ~Admits(b)
         /\ \/ AfterAdmits(b) = b
            \/ AfterAdmits(b).state = HALF_OPEN /\ b.since_opened = OpenDuration
BY PolicyAssumption DEF AfterAdmits, Admits, CoolingOff, Breakers, OPEN, HALF_OPEN

\* The non-operator steps taken while the breaker is open.
OpenStep ==
  \/ /\ breaker'.state = OPEN
     /\ breaker'.since_opened >= breaker.since_opened
     /\ breaker'.held_open = breaker.held_open
     /\ \A r \in Requests : phase'[r] = "planned" => phase[r] = "planned"
  \/ /\ ~breaker.held_open
     /\ \/ breaker'.state = OPEN /\ breaker'.since_opened >= breaker.since_opened
        \/ breaker'.state = HALF_OPEN /\ breaker.since_opened = OpenDuration

\* Every step from an open breaker that no operator takes is an OpenStep.
LEMMA OpenSteps ==
  ASSUME TypeOK, [Next]_vars, breaker.state = OPEN, ~Operator
  PROVE  OpenStep
<1>0. /\ breaker \in Breakers /\ phase \in [Requests -> Phases]
      /\ breaker.since_opened \in 0..OpenDuration
  BY DEF TypeOK, Breakers
<1>1. CASE Tick
  <2>1. Aged(breaker).state = OPEN /\ Aged(breaker).held_open = breaker.held_open
    BY <1>0 DEF Aged, Breakers
  <2>2. Aged(breaker).since_opened = Saturate(breaker.since_opened + 1, OpenDuration)
    BY <1>0 DEF Aged, Breakers
  <2>3. Aged(breaker).since_opened >= breaker.since_opened
    BY <1>0, <2>2, PolicyAssumption DEF Saturate
  <2>4. QED
    BY <1>1, <2>1, <2>3 DEF Tick, OpenStep
<1>2. ASSUME NEW r \in Requests, Request(r)
      PROVE  OpenStep
  <2>1. CASE Plan(r)
    <3>1. breaker' = AfterAdmits(breaker) /\ (~Admits(breaker) => phase' = phase)
      BY <2>1 DEF Plan
    <3>2. CASE breaker.held_open
      <4>1. breaker' = breaker /\ phase' = phase
        BY <1>0, <3>1, <3>2, CoolingOffRefuses
      <4>2. QED
        BY <1>0, <4>1 DEF OpenStep
    <3>3. CASE ~breaker.held_open
      <4>1. \/ breaker' = breaker
            \/ breaker'.state = HALF_OPEN /\ breaker.since_opened = OpenDuration
        BY <1>0, <3>1, CoolingOffRefuses
      <4>2. QED
        BY <1>0, <3>3, <4>1 DEF OpenStep
    <3>4. QED
      BY <3>2, <3>3
  <2>2. CASE NotReached(r)
    BY <1>0, <2>2 DEF NotReached, OpenStep
  <2>3. CASE Begin(r)
    BY <1>0, <2>3, LateAnswers DEF Begin, OpenStep
  <2>4. CASE FirstEvent(r)
    BY <1>0, <2>4, LateAnswers DEF FirstEvent, OpenStep
  <2>5. Exited(breaker) \in Breakers /\ Exited(breaker).state = OPEN
        /\ Exited(breaker).since_opened = breaker.since_opened
        /\ Exited(breaker).held_open = breaker.held_open
    BY <1>0, ExitedType, LateAnswers
  <2>6. CASE Complete(r)
    BY <1>0, <2>5, <2>6, LateAnswers DEF Complete, OpenStep
  <2>7. CASE Fail(r)
    BY <1>0, <2>5, <2>7, LateAnswers DEF Fail, OpenStep
  <2>8. CASE Leave(r)
    BY <1>0, <2>5, <2>8 DEF Leave, OpenStep
  <2>9. CASE Unbuilt(r)
    <3>1. /\ Entered(breaker) \in Breakers /\ Entered(breaker).state = OPEN
          /\ Entered(breaker).since_opened = breaker.since_opened
          /\ Entered(breaker).held_open = breaker.held_open
      BY <1>0, EnteredType, LateAnswers
    <3>2. /\ Exited(Entered(breaker)) \in Breakers /\ Exited(Entered(breaker)).state = OPEN
          /\ Exited(Entered(breaker)).since_opened = breaker.since_opened
          /\ Exited(Entered(breaker)).held_open = breaker.held_open
      BY <3>1, ExitedType, LateAnswers
    <3>3. QED
      BY <1>0, <2>9, <3>2, LateAnswers DEF Unbuilt, OpenStep
  <2>10. QED
    BY <1>2, <2>1, <2>2, <2>3, <2>4, <2>6, <2>7, <2>8, <2>9 DEF Request
<1>3. CASE UNCHANGED vars
  BY <1>0, <1>3 DEF vars, OpenStep
<1>4. QED
  BY <1>1, <1>2, <1>3 DEF Next

\* A hold is ended by an operator only, and nothing is planned on a held deployment.
THEOREM HoldSticks == Spec => HoldNeedsOperator
<1>1. IInv /\ [Next]_vars =>
        [breaker.held_open /\ ~Operator =>
           /\ breaker'.held_open /\ breaker'.state = OPEN
           /\ \A r \in Requests : phase'[r] = "planned" => phase[r] = "planned"]_vars
  BY OpenSteps DEF IInv, RecordInv, OpenStep
<1>2. QED
  BY <1>1, Invariance, PTL DEF Spec, HoldNeedsOperator

\* Late answers neither end nor prolong an open period.
THEOREM OpenPeriod == Spec => OpenPeriodRunsItsCourse
<1>1. IInv /\ [Next]_vars =>
        [breaker.state = OPEN /\ ~Operator =>
           \/ breaker'.state = OPEN /\ breaker'.since_opened >= breaker.since_opened
           \/ breaker'.state = HALF_OPEN /\ breaker.since_opened = OpenDuration]_vars
  BY OpenSteps DEF IInv, OpenStep
<1>2. QED
  BY <1>1, Invariance, PTL DEF Spec, OpenPeriodRunsItsCourse
=============================================================================

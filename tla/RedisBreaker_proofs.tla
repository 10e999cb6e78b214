------------------------- MODULE RedisBreaker_proofs -------------------------
(***************************************************************************)
(* Proofs about RedisBreaker for every policy, time to live and set of     *)
(* workers, however far their clocks are apart.                            *)
(***************************************************************************)
EXTENDS RedisBreaker, TLAPS

Calling == [phase : Phases, op : Ops, data : Records, overtaken : BOOLEAN]

-----------------------------------------------------------------------------
\* The record operators

\* The bounds the fields saturate at are counts.
LEMMA Bounds ==
  /\ MaxAge \in Nat /\ 0 \in 0..MaxAge /\ 0 \in 0..ConsecutiveFailures
  /\ MinimumSamples \in Nat /\ ConsecutiveFailures \in Nat /\ Ttl \in Nat /\ Ttl > 0
BY PolicyAssumption, RedisBreakerAssumption DEF MaxAge

\* Saturating a count keeps it within its cap.
LEMMA SaturateType ==
  ASSUME NEW cap \in Nat, NEW n \in 0..cap
  PROVE  Saturate(n + 1, cap) \in 0..cap
BY DEF Saturate

\* The error average stays an integer.
LEMMA BlendType ==
  ASSUME NEW current \in Int, NEW sample \in Int
  PROVE  Blend(current, sample) \in Int
<1>1. Alpha \in Int /\ Scale \in Int /\ Scale > 0
  BY PolicyAssumption
<1>2. (Alpha * sample + (Scale - Alpha) * current) \in Int
  BY <1>1
<1>3. QED
  BY <1>1, <1>2 DEF Blend

\* What _empty() returns, and the constants fields are set to, are well typed.
LEMMA EmptyType == Empty \in Records /\ Between \in Calling
BY Bounds, PolicyAssumption
   DEF Empty, Between, Calling, Records, Phases, Ops, States, CLOSED, Unmeasured

\* Opening keeps the record's type.
LEMMA ReopenedType ==
  ASSUME NEW b \in Records, NEW w \in Workers
  PROVE  Reopened(b, w) \in Records
BY Bounds DEF Reopened, Records, States

\* Closing keeps the record's type.
LEMMA ReclosedType ==
  ASSUME NEW b \in Records
  PROVE  Reclosed(b) \in Records
BY Bounds DEF Reclosed, Records, States

\* Recording a success keeps the record's type.
LEMMA SuccessType ==
  ASSUME NEW b \in Records
  PROVE  AfterSuccess(b) \in Records
<1> DEFINE seen == [b EXCEPT !.samples = Saturate(@ + 1, MinimumSamples),
                             !.consecutive_failures = 0,
                             !.ewma_error = Blend(@, 0)]
           probed == [seen EXCEPT !.half_open_successes = @ + 1]
<1>1. Saturate(b.samples + 1, MinimumSamples) \in 0..MinimumSamples
  BY Bounds, SaturateType DEF Records
<1>2. Blend(b.ewma_error, 0) \in Int
  BY BlendType DEF Records
<1>3. seen \in Records
  BY <1>1, <1>2, Bounds, Zenon DEF Records
<1>4. seen.half_open_successes + 1 \in Nat
  BY <1>3 DEF Records
<1>5. probed \in Records
  BY <1>3, <1>4, Zenon DEF Records
<1>6. Reclosed(probed) \in Records
  BY <1>5, ReclosedType
<1>7. QED
  BY <1>3, <1>5, <1>6 DEF AfterSuccess

\* Recording a failure keeps the record's type.
LEMMA FailureType ==
  ASSUME NEW b \in Records, NEW w \in Workers
  PROVE  AfterFailure(b, w) \in Records
<1> DEFINE seen == [b EXCEPT !.samples = Saturate(@ + 1, MinimumSamples),
                             !.consecutive_failures = Saturate(@ + 1, ConsecutiveFailures),
                             !.ewma_error = Blend(@, Scale)]
<1>1. /\ Saturate(b.samples + 1, MinimumSamples) \in 0..MinimumSamples
      /\ Saturate(b.consecutive_failures + 1, ConsecutiveFailures) \in 0..ConsecutiveFailures
  BY Bounds, SaturateType DEF Records
<1>2. Blend(b.ewma_error, Scale) \in Int
  BY BlendType, PolicyAssumption DEF Records
<1>3. seen \in Records
  BY <1>1, <1>2 DEF Records
<1>4. Reopened(seen, w) \in Records
  BY <1>3, ReopenedType
<1>5. [Reopened(seen, w) EXCEPT !.half_open_successes = 0] \in Records
  BY <1>4 DEF Records
<1>6. QED
  BY <1>3, <1>4, <1>5 DEF AfterFailure

\* Asking for admission keeps the record's type.
LEMMA AskingType ==
  ASSUME NEW b \in Records, NEW w \in Workers
  PROVE  AfterAsking(b, w) \in Records
BY Bounds DEF AfterAsking, Records, States

\* Whatever a method leaves of a record is a record.
LEMMA LeftType ==
  ASSUME NEW b \in Records, NEW w \in Workers, NEW op \in Ops, op # "none"
  PROVE  Left(op, b, w) \in Records
<1>1. [Reopened(b, w) EXCEPT !.held_open = TRUE] \in Records
  BY ReopenedType DEF Records
<1>2. [Reclosed(b) EXCEPT !.consecutive_failures = 0] \in Records
  BY ReclosedType, Bounds DEF Records
<1>3. QED
  BY <1>1, <1>2, AskingType, SuccessType, FailureType DEF Left, Ops

\* So is a record that has aged.
LEMMA OlderType ==
  ASSUME NEW b \in Records
  PROVE  Older(b) \in Records
<1>1. Saturate(b.age + 1, MaxAge) \in 0..MaxAge
  BY Bounds, SaturateType DEF Records
<1>2. QED
  BY <1>1 DEF Older, Records

\* A call leads to a place and a method that exist.
LEMMA CallsType ==
  ASSUME NEW phase \in Phases, NEW call \in Calls(phase)
  PROVE  call[1] \in Ops \ {"none"} /\ call[2] \in Phases
BY DEF Calls, Phases, Ops

-----------------------------------------------------------------------------
\* Type correctness

\* Every variable keeps its type, for records however often they expire.
THEOREM TypeCorrect == Spec => []TypeOK
<1>1. Init => TypeOK
  BY EmptyType, Bounds DEF Init, TypeOK, Calling
<1>2. TypeOK /\ [Next]_vars => TypeOK'
  <2> SUFFICES ASSUME TypeOK, [Next]_vars
               PROVE  TypeOK'
    OBVIOUS
  <2> USE DEF TypeOK, Calling
  <2>1. ASSUME NEW w \in Workers, Begin(w)
        PROVE  TypeOK'
    <3>1. PICK call \in Calls(worker[w].phase) :
            worker' = [worker EXCEPT ![w] = [phase |-> call[2], op |-> call[1],
                                             data |-> record, overtaken |-> FALSE]]
      BY <2>1 DEF Begin
    <3>2. call[1] \in Ops /\ call[2] \in Phases
      BY CallsType
    <3>3. QED
      BY <2>1, <3>1, <3>2 DEF Begin
  <2>2. ASSUME NEW w \in Workers, Finish(w)
        PROVE  TypeOK'
    <3> DEFINE left == Left(worker[w].op, worker[w].data, w)
    <3>1. left \in Records
      BY <2>2, LeftType DEF Finish
    <3>2. record' \in Records /\ idle' \in 0..(Ttl - 1) /\ lock' \in Workers \union {NoWorker}
      BY <2>2, <3>1, Bounds DEF Finish
    <3>3. ASSUME NEW v \in Workers
          PROVE  worker'[v] \in Calling
      <4>1. CASE v = w
        <5>1. worker'[v] = [Between EXCEPT !.phase =
                              IF worker[w].op = "admits" /\ Granted(left)
                              THEN "running" ELSE worker[w].phase]
          BY <2>2, <4>1 DEF Finish
        <5>2. QED
          BY <5>1, EmptyType DEF Phases
      <4>2. CASE v # w
        BY <2>2, <4>2 DEF Finish
      <4>3. QED
        BY <4>1, <4>2
    <3>4. QED
      BY <2>2, <3>2, <3>3 DEF Finish
  <2>3. ASSUME NEW w \in Workers, Drop(w)
        PROVE  TypeOK'
    BY <2>3 DEF Drop, Phases
  <2>4. ASSUME NEW w \in Workers, Crash(w)
        PROVE  TypeOK'
    BY <2>4, EmptyType DEF Crash
  <2>5. ASSUME Reset PROVE TypeOK'
    <3>1. ASSUME NEW w \in Workers
          PROVE  worker'[w] \in Calling
      BY <2>5 DEF Reset
    <3>2. QED
      BY <2>5, <3>1, EmptyType, Bounds DEF Reset
  <2>6. ASSUME LockExpires PROVE TypeOK'
    BY <2>6 DEF LockExpires
  <2>7. ASSUME Tick PROVE TypeOK'
    <3>1. ASSUME NEW w \in Workers
          PROVE  worker'[w] \in Calling
      <4> DEFINE late == worker[w].overtaken \/ (idle + 1 >= Ttl /\ worker[w].op # "none")
      <4>1. worker'[w] = [worker[w] EXCEPT !.data = Older(@), !.overtaken = late]
        BY <2>7, Zenon DEF Tick
      <4>2. late \in BOOLEAN
        OBVIOUS
      <4>3. worker[w] \in Calling /\ Older(worker[w].data) \in Records
        BY OlderType
      <4> HIDE DEF late
      <4>4. QED
        BY <4>1, <4>2, <4>3
    <3>2. record' \in Records
      BY <2>7, EmptyType, OlderType, Zenon DEF Tick
    <3>3. idle' = (IF idle + 1 >= Ttl THEN 0 ELSE idle + 1)
      BY <2>7, Zenon DEF Tick
    <3>4. idle' \in 0..(Ttl - 1)
      BY <3>3, Bounds
    <3>5. lock' = lock /\ worker' = [w \in Workers |-> worker'[w]]
      BY <2>7, Zenon DEF Tick
    <3>6. QED
      BY <3>1, <3>2, <3>4, <3>5
  <2>8. CASE UNCHANGED vars
    BY <2>8 DEF vars
  <2>9. QED
    BY <2>1, <2>2, <2>3, <2>4, <2>5, <2>6, <2>7, <2>8 DEF Next
<1>3. QED
  BY <1>1, <1>2, PTL DEF Spec

-----------------------------------------------------------------------------
\* Atomicity of the methods

\* A worker that was not overtaken is alone with the record it has read: the
\* strengthening that makes UpdatesAreAtomic follow from one step.
LEMMA GuardedHolds == Spec => []Guarded
<1>1. Init => Guarded
  BY DEF Init, Guarded, Between
<1>2. TypeOK /\ Guarded /\ [Next]_vars => Guarded'
  <2> SUFFICES ASSUME TypeOK, Guarded, [Next]_vars,
                      NEW v \in Workers, worker'[v].op # "none", ~worker'[v].overtaken
               PROVE  lock' = v /\ worker'[v].data = record'
    BY DEF Guarded
  <2> USE DEF TypeOK
  <2>1. ASSUME NEW w \in Workers, Begin(w)
        PROVE  lock' = v /\ worker'[v].data = record'
    <3>1. CASE v = w
      BY <2>1, <3>1 DEF Begin
    <3>2. CASE v # w
      <4>1. worker'[v] = worker[v]
        BY <2>1, <3>2 DEF Begin
      <4>2. lock = v
        BY <4>1 DEF Guarded
      <4>3. QED
        BY <2>1, <4>2, RedisBreakerAssumption DEF Begin, LockFree
    <3>3. QED
      BY <3>1, <3>2
  <2>2. ASSUME NEW w \in Workers, Finish(w)
        PROVE  lock' = v /\ worker'[v].data = record'
    <3>1. v # w
      BY <2>2 DEF Finish, Between
    <3>2. worker'[v].op = worker[v].op
          /\ (worker'[v].overtaken <=>
                worker[v].op # "none" /\ (worker[v].overtaken \/ lock # w))
      BY <2>2, <3>1 DEF Finish
    <3>3. lock = w /\ ~worker[v].overtaken
      BY <3>2
    <3>4. lock = v
      BY <3>2, <3>3 DEF Guarded
    <3>5. QED
      BY <3>1, <3>3, <3>4
  <2>3. ASSUME NEW w \in Workers, Drop(w)
        PROVE  lock' = v /\ worker'[v].data = record'
    BY <2>3 DEF Drop, Guarded
  <2>4. ASSUME NEW w \in Workers, Crash(w)
        PROVE  lock' = v /\ worker'[v].data = record'
    BY <2>4 DEF Crash, Guarded, Between
  <2>5. ASSUME Reset
        PROVE  lock' = v /\ worker'[v].data = record'
    BY <2>5 DEF Reset
  <2>6. ASSUME LockExpires
        PROVE  lock' = v /\ worker'[v].data = record'
    <3>1. v # lock
      BY <2>6 DEF LockExpires
    <3>2. worker'[v] = worker[v]
      BY <2>6, <3>1 DEF LockExpires
    <3>3. QED
      BY <3>1, <3>2 DEF Guarded
  <2>7. ASSUME Tick
        PROVE  lock' = v /\ worker'[v].data = record'
    <3> DEFINE gone == idle + 1 >= Ttl
    <3>1. /\ worker'[v].op = worker[v].op
          /\ worker'[v].data = Older(worker[v].data)
          /\ worker'[v].overtaken <=>
               worker[v].overtaken \/ (gone /\ worker[v].op # "none")
      BY <2>7 DEF Tick
    <3>2. ~gone /\ ~worker[v].overtaken
      BY <3>1
    <3>3. record' = Older(record) /\ lock' = lock
      BY <2>7, <3>2 DEF Tick
    <3>4. QED
      BY <3>1, <3>2, <3>3 DEF Guarded
  <2>8. CASE UNCHANGED vars
    BY <2>8 DEF vars, Guarded
  <2>9. QED
    BY <2>1, <2>2, <2>3, <2>4, <2>5, <2>6, <2>7, <2>8 DEF Next
<1>3. QED
  BY <1>1, <1>2, TypeCorrect, PTL DEF Spec

\* A method that nothing overtook leaves the record as if it had run at once, so no
\* failure, trip or hold of another worker is lost.
THEOREM MethodsAreAtomic == Spec => UpdatesAreAtomic
<1>1. TypeOK /\ Guarded /\ [Next]_vars =>
        \A w \in Workers :
          /\ worker[w].op # "none" /\ ~worker[w].overtaken
          /\ worker'[w].op = "none" /\ record' # record
          => record' = Left(worker[w].op, record, w)
  <2> SUFFICES ASSUME TypeOK, Guarded, [Next]_vars,
                      NEW w \in Workers,
                      worker[w].op # "none", ~worker[w].overtaken,
                      worker'[w].op = "none", record' # record
               PROVE  record' = Left(worker[w].op, record, w)
    OBVIOUS
  <2> USE DEF TypeOK
  <2>1. lock = w /\ worker[w].data = record
    BY DEF Guarded
  <2>2. CASE Finish(w)
    BY <2>1, <2>2 DEF Finish
  <2>3. ASSUME NEW v \in Workers, v # w, Finish(v)
        PROVE  FALSE
    BY <2>3 DEF Finish
  <2>4. ASSUME NEW v \in Workers, Begin(v) \/ Drop(v) \/ Crash(v)
        PROVE  FALSE
    BY <2>4 DEF Begin, Drop, Crash
  <2>5. CASE LockExpires
    BY <2>5 DEF LockExpires
  <2>6. CASE Reset
    <3>1. worker'[w].op = worker[w].op
      BY <2>6 DEF Reset
    <3>2. QED
      BY <3>1
  <2>7. CASE Tick
    <3>1. worker'[w].op = worker[w].op
      BY <2>7 DEF Tick
    <3>2. QED
      BY <3>1
  <2>8. CASE UNCHANGED vars
    BY <2>8 DEF vars
  <2>9. QED
    BY <2>2, <2>3, <2>4, <2>5, <2>6, <2>7, <2>8 DEF Next
<1>2. QED
  BY <1>1, TypeCorrect, GuardedHolds, PTL DEF Spec, UpdatesAreAtomic

-----------------------------------------------------------------------------
\* Holds

HeldIsOpen(b) == b.held_open => b.state = OPEN

Holds == HeldIsOpen(record) /\ \A w \in Workers : HeldIsOpen(worker[w].data)

\* No method leaves a held record that is not open, and only the operator's release
\* leaves a held record open to anybody.
LEMMA LeftHolds ==
  ASSUME NEW b \in Records, NEW w \in Workers, NEW op \in Ops, op # "none",
         HeldIsOpen(b)
  PROVE  /\ HeldIsOpen(Left(op, b, w))
         /\ b.held_open /\ op # "release" =>
              Left(op, b, w).held_open /\ Left(op, b, w).state = OPEN
<1>0. b.state \in States /\ b.held_open \in BOOLEAN
  BY DEF Records
<1>1. CASE op = "admits"
  <2>1. Left(op, b, w) = AfterAsking(b, w)
    BY <1>1, Zenon DEF Left
  <2>2. b.held_open => AfterAsking(b, w) = b
    BY DEF AfterAsking, MayProbe
  <2>3. ~b.held_open => ~AfterAsking(b, w).held_open
    BY DEF AfterAsking, Records
  <2>4. QED
    BY <2>1, <2>2, <2>3 DEF HeldIsOpen
<1>2. CASE op = "success"
  <2>1. Left(op, b, w) = AfterSuccess(b)
    BY <1>2 DEF Left
  <2>2. CASE b.state # HALF_OPEN
    <3>1. AfterSuccess(b).held_open = b.held_open /\ AfterSuccess(b).state = b.state
      BY <2>2 DEF AfterSuccess, Records
    <3>2. QED
      BY <2>1, <3>1 DEF HeldIsOpen
  <2>3. CASE b.state = HALF_OPEN
    <3>1. ~b.held_open
      BY <2>3 DEF HeldIsOpen, OPEN, HALF_OPEN
    <3>2. ~AfterSuccess(b).held_open
      BY <2>3, <3>1 DEF AfterSuccess, Reclosed, Records
    <3>3. QED
      BY <2>1, <3>1, <3>2 DEF HeldIsOpen
  <2>4. QED
    BY <2>2, <2>3
<1>3. CASE op = "failure"
  BY <1>3 DEF Left, AfterFailure, Reopened, HeldIsOpen, Records, OPEN, HALF_OPEN, CLOSED
<1>4. CASE op = "hold"
  BY <1>4 DEF Left, Reopened, HeldIsOpen, Records, OPEN
<1>5. CASE op = "release"
  BY <1>5 DEF Left, Reclosed, HeldIsOpen, Records
<1>6. QED
  BY <1>1, <1>2, <1>3, <1>4, <1>5 DEF Ops

\* Held records are open, those that workers have read included.
LEMMA HoldsHold == Spec => []Holds
<1>1. Init => Holds
  BY DEF Init, Holds, HeldIsOpen, Between, Empty
<1>2. TypeOK /\ Holds /\ [Next]_vars => Holds'
  <2> SUFFICES ASSUME TypeOK, Holds, [Next]_vars
               PROVE  Holds'
    OBVIOUS
  <2> USE DEF TypeOK
  <2>0. /\ HeldIsOpen(Empty) /\ HeldIsOpen(Between.data)
        /\ \A b \in Records : HeldIsOpen(b) => HeldIsOpen(Older(b))
    BY DEF HeldIsOpen, Empty, Between, Older, Records
  <2>1. ASSUME NEW w \in Workers, Begin(w)
        PROVE  Holds'
    <3>1. record' = record
      BY <2>1 DEF Begin
    <3>2. ASSUME NEW v \in Workers
          PROVE  worker'[v].data \in {record, worker[v].data}
      BY <2>1 DEF Begin
    <3>3. QED
      BY <3>1, <3>2 DEF Holds
  <2>2. ASSUME NEW w \in Workers, Finish(w)
        PROVE  Holds'
    <3>1. worker[w] \in Calling /\ worker[w].op # "none" /\ HeldIsOpen(worker[w].data)
      BY <2>2 DEF Finish, Holds, Calling
    <3>2. HeldIsOpen(Left(worker[w].op, worker[w].data, w))
      BY <3>1, LeftHolds DEF Calling
    <3>3. HeldIsOpen(record')
      BY <2>2, <3>2 DEF Finish, Holds
    <3>4. ASSUME NEW v \in Workers
          PROVE  worker'[v].data \in {Between.data, worker[v].data}
      <4>1. CASE v = w
        BY <2>2, <4>1 DEF Finish, Between
      <4>2. CASE v # w
        BY <2>2, <4>2 DEF Finish
      <4>3. QED
        BY <4>1, <4>2
    <3>5. QED
      BY <2>0, <3>3, <3>4 DEF Holds
  <2>3. ASSUME NEW w \in Workers, Drop(w)
        PROVE  Holds'
    BY <2>3 DEF Drop, Holds
  <2>4. ASSUME NEW w \in Workers, Crash(w)
        PROVE  Holds'
    BY <2>0, <2>4 DEF Crash, Holds
  <2>5. ASSUME Reset
        PROVE  Holds'
    BY <2>0, <2>5 DEF Reset, Holds
  <2>6. ASSUME LockExpires
        PROVE  Holds'
    BY <2>6 DEF LockExpires, Holds
  <2>7. ASSUME Tick
        PROVE  Holds'
    <3>1. record' \in {Empty, Older(record)}
      BY <2>7, Zenon DEF Tick
    <3>2. ASSUME NEW v \in Workers
          PROVE  worker'[v].data = Older(worker[v].data)
      BY <2>7 DEF Tick
    <3>3. QED
      BY <2>0, <3>1, <3>2 DEF Holds
  <2>8. CASE UNCHANGED vars
    BY <2>8 DEF vars, Holds
  <2>9. QED
    BY <2>1, <2>2, <2>3, <2>4, <2>5, <2>6, <2>7, <2>8 DEF Next
<1>3. QED
  BY <1>1, <1>2, TypeCorrect, PTL DEF Spec

\* Only an operator, the record's expiry or an overtaken worker ends a hold.
THEOREM HoldsOutliveTraffic == Spec => HoldOutlivesTraffic
<1> DEFINE Ended == record.held_open /\ ~(record'.held_open /\ record'.state = OPEN)
           Excused == \/ record' = Empty
                      \/ \E w \in Workers :
                           worker[w].op # "none" /\ worker'[w].op = "none" /\ EndsHold(w)
<1>1. TypeOK /\ Guarded /\ Holds /\ [Next]_vars /\ Ended => Excused
  <2> SUFFICES ASSUME TypeOK, Guarded, Holds, [Next]_vars, Ended
               PROVE  Excused
    OBVIOUS
  <2> USE DEF TypeOK
  <2>0. record.state = OPEN
    BY DEF Holds, HeldIsOpen
  <2>1. CASE record' = record
    BY <2>0, <2>1
  <2>2. ASSUME NEW w \in Workers, Finish(w), record' # record
        PROVE  Excused
    <3>1. worker[w].op # "none" /\ worker'[w].op = "none"
      BY <2>2 DEF Finish, Between
    <3>2. CASE EndsHold(w)
      BY <3>1, <3>2
    <3>3. CASE ~EndsHold(w)
      <4>1. worker[w].data = record /\ worker[w].op # "release" /\ worker[w].op \in Ops
        BY <3>1, <3>3 DEF Guarded, EndsHold
      <4>2. record' = Left(worker[w].op, record, w)
        BY <2>2, <4>1 DEF Finish
      <4>3. record'.held_open /\ record'.state = OPEN
        BY <3>1, <4>1, <4>2, LeftHolds DEF Holds
      <4>4. QED
        BY <4>3
    <3>4. QED
      BY <3>2, <3>3
  <2>3. CASE Reset
    BY <2>3 DEF Reset
  <2>4. CASE Tick
    <3>1. record' \in {Empty, Older(record)}
      BY <2>4, Zenon DEF Tick
    <3>2. Older(record).held_open = record.held_open /\ Older(record).state = record.state
      BY DEF Older, Records
    <3>3. QED
      BY <2>0, <3>1, <3>2
  <2>5. QED
    BY <2>1, <2>2, <2>3, <2>4 DEF Next, Begin, Drop, Crash, LockExpires, vars
<1>2. QED
  BY <1>1, TypeCorrect, GuardedHolds, HoldsHold, PTL DEF Spec, HoldOutlivesTraffic
=============================================================================

---------------------------- MODULE Metering_proofs ----------------------------
(***************************************************************************)
(* Safety of Metering for every finite set of requests, every sequence of  *)
(* events of theirs, every size of the retry buffer, every threshold, and  *)
(* any number of crashes and of repairs.                                   *)
(***************************************************************************)
EXTENDS Metering, SequenceTheorems, FiniteSetTheorems, TLAPS

-----------------------------------------------------------------------------
\* The elements of the sequences record_events works through

\* A sequence of elements of S, and the elements it has.
LEMMA ToSetOf ==
  ASSUME NEW S, NEW s \in Seq(S)
  PROVE  /\ ToSet(s) = {s[i] : i \in 1..Len(s)}
         /\ ToSet(s) \subseteq S
BY DEF ToSet

\* Concatenating joins the elements.
LEMMA ToSetConcat ==
  ASSUME NEW S, NEW s \in Seq(S), NEW t \in Seq(S)
  PROVE  /\ s \o t \in Seq(S)
         /\ ToSet(s \o t) = ToSet(s) \union ToSet(t)
<1>1. /\ s \o t \in Seq(S)
      /\ Len(s \o t) = Len(s) + Len(t)
      /\ \A i \in 1..Len(s) + Len(t) : (s \o t)[i] = IF i <= Len(s) THEN s[i] ELSE t[i - Len(s)]
  BY ConcatProperties
<1>2. ToSet(s \o t) = {(s \o t)[i] : i \in 1..Len(s) + Len(t)}
  BY <1>1, ToSetOf
<1>3. ToSet(s) = {s[i] : i \in 1..Len(s)} /\ ToSet(t) = {t[i] : i \in 1..Len(t)}
  BY ToSetOf
<1>4. Len(s) \in Nat /\ Len(t) \in Nat
  OBVIOUS
<1>5. ASSUME NEW e \in ToSet(s)
      PROVE  e \in ToSet(s \o t)
  <2>1. PICK i \in 1..Len(s) : e = s[i]
    BY <1>3
  <2>2. i \in 1..Len(s) + Len(t) /\ (s \o t)[i] = e
    BY <2>1, <1>1, <1>4
  <2>. QED  BY <2>2, <1>2
<1>6. ASSUME NEW e \in ToSet(t)
      PROVE  e \in ToSet(s \o t)
  <2>1. PICK i \in 1..Len(t) : e = t[i]
    BY <1>3
  <2>2. Len(s) + i \in 1..Len(s) + Len(t) /\ (s \o t)[Len(s) + i] = e
    BY <2>1, <1>1, <1>4
  <2>. QED  BY <2>2, <1>2
<1>7. ASSUME NEW e \in ToSet(s \o t)
      PROVE  e \in ToSet(s) \union ToSet(t)
  <2>1. PICK i \in 1..Len(s) + Len(t) : e = (s \o t)[i]
    BY <1>2
  <2>2. CASE i <= Len(s)
    BY <2>1, <2>2, <1>1, <1>3, <1>4
  <2>3. CASE ~(i <= Len(s))
    <3>1. i - Len(s) \in 1..Len(t) /\ e = t[i - Len(s)]
      BY <2>1, <2>3, <1>1, <1>4
    <3>. QED  BY <3>1, <1>3
  <2>. QED  BY <2>2, <2>3
<1>. QED  BY <1>1, <1>5, <1>6, <1>7

\* A sequence that is not empty has its head and what its tail has.
LEMMA ToSetHeadTail ==
  ASSUME NEW S, NEW s \in Seq(S), s # <<>>
  PROVE  /\ Head(s) \in S /\ Tail(s) \in Seq(S)
         /\ ToSet(s) = {Head(s)} \union ToSet(Tail(s))
<1>1. /\ Head(s) \in S /\ Tail(s) \in Seq(S)
      /\ Len(Tail(s)) = Len(s) - 1
      /\ \A i \in 1..Len(Tail(s)) : Tail(s)[i] = s[i + 1]
  BY HeadTailProperties
<1>2. Head(s) = s[1] /\ Len(s) \in Nat /\ Len(s) >= 1
  BY EmptySeq
<1>3. /\ ToSet(s) = {s[i] : i \in 1..Len(s)}
      /\ ToSet(Tail(s)) = {Tail(s)[i] : i \in 1..Len(s) - 1}
  BY <1>1, ToSetOf
<1>4. ASSUME NEW e \in ToSet(s)
      PROVE  e \in {Head(s)} \union ToSet(Tail(s))
  <2>1. PICK i \in 1..Len(s) : e = s[i]
    BY <1>3
  <2>2. CASE i = 1
    BY <2>1, <2>2, <1>2
  <2>3. CASE i # 1
    <3>1. i - 1 \in 1..Len(s) - 1 /\ e = Tail(s)[i - 1]
      BY <2>1, <2>3, <1>1, <1>2
    <3>. QED  BY <3>1, <1>3
  <2>. QED  BY <2>2, <2>3
<1>5. ASSUME NEW e \in ToSet(Tail(s))
      PROVE  e \in ToSet(s)
  <2>1. PICK i \in 1..Len(s) - 1 : e = Tail(s)[i]
    BY <1>3
  <2>2. i + 1 \in 1..Len(s) /\ e = s[i + 1]
    BY <2>1, <1>1, <1>2
  <2>. QED  BY <2>2, <1>3
<1>6. Head(s) \in ToSet(s)
  BY <1>2, <1>3
<1>. QED  BY <1>1, <1>4, <1>5, <1>6

\* One element.
LEMMA ToSetOne ==
  ASSUME NEW S, NEW e \in S
  PROVE  <<e>> \in Seq(S) /\ ToSet(<<e>>) = {e}
BY DEF ToSet

\* One element more.
LEMMA ToSetAppend ==
  ASSUME NEW S, NEW s \in Seq(S), NEW e \in S
  PROVE  Append(s, e) \in Seq(S) /\ ToSet(Append(s, e)) = ToSet(s) \union {e}
<1>1. <<e>> \in Seq(S) /\ ToSet(<<e>>) = {e}
  BY ToSetOne
<1>2. Append(s, e) = s \o <<e>>
  BY AppendIsConcat
<1>3. /\ s \o <<e>> \in Seq(S)
      /\ ToSet(s \o <<e>>) = ToSet(s) \union ToSet(<<e>>)
  BY <1>1, ToSetConcat
<1>. QED  BY <1>1, <1>2, <1>3

\* The first elements of a sequence.
LEMMA ToSetPrefix ==
  ASSUME NEW S, NEW s \in Seq(S), NEW n \in Nat, n <= Len(s)
  PROVE  /\ SubSeq(s, 1, n) \in Seq(S)
         /\ Len(SubSeq(s, 1, n)) = n
<1>1. \A i \in 1..n : s[i] \in S
  OBVIOUS
<1>. QED  BY <1>1, SubSeqProperties

-----------------------------------------------------------------------------
\* The invariant

\* An event of the ledger is being counted; a request it flagged will be.
Storing == job.at \in {"apply", "count"} => Event \in rows

\* The events the meter has an account of.
Accounted == rows \union Held \union fate.dropped \union fate.lost

Pending(at) == IF job.at = at THEN 1 ELSE 0

\* The increment of an event that was inserted is still to come; so is that of
\* a request that was flagged.  A repair writes back what it once read.
Trailing ==
  /\ flagged \subseteq {RequestOf(e) : e \in rows}
  /\ ~repair.late =>
       counters.invocations + Pending("apply") <= Cardinality(rows)
  /\ ~repair.late /\ repair.at # "idle" =>
       repair.read.invocations + Pending("apply") <= Cardinality(rows)
  /\ ~repair.done => counters.requests + Pending("count") <= Cardinality(flagged)

\* Since a request failed to store its events the worker is not ready.  A probe
\* that was under way may succeed once, which is not enough.
Waiting ==
  RecoveryThreshold > 1 =>
    /\ since # "answered" => ~Ready(live) /\ live.failed
    /\ since = "none" /\ probe # "asleep" => live.consecutive_successes = 0

IInv == TypeOK /\ Storing /\ NoEventVanishes /\ Trailing /\ Waiting

-----------------------------------------------------------------------------
\* Facts about the constants and the parts of a step

LEMMA Constants ==
  /\ \A r \in Requests : EventsOf[r] \in Seq(Events) /\ EventsOf[r] # <<>>
  /\ RetryMax \in Nat /\ MaxRepairs \in Nat /\ MaxCrashes \in Nat
  /\ \A r \in Requests : ToSet(EventsOf[r]) \subseteq Events
<1>. QED  BY MeteringAssumption DEF Events

\* An event is one of a request.
LEMMA RequestOfType ==
  ASSUME NEW e \in Events
  PROVE  RequestOf(e) \in Requests
<1>1. \E r \in Requests : e \in ToSet(EventsOf[r])
  BY DEF Events
<1>. QED  BY <1>1 DEF RequestOf

\* There are finitely many events.
LEMMA FiniteEvents == IsFiniteSet(Events)
<1>1. \A r \in Requests : IsFiniteSet(ToSet(EventsOf[r]))
  <2>. SUFFICES ASSUME NEW r \in Requests PROVE IsFiniteSet(ToSet(EventsOf[r]))
    OBVIOUS
  <2>. DEFINE s == EventsOf[r]
  <2>1. s \in Seq(Events) /\ Len(s) \in Nat
    BY Constants
  <2>2. ToSet(s) = {s[i] : i \in 1..Len(s)}
    BY <2>1, ToSetOf
  <2>3. IsFiniteSet(1..Len(s))
    BY <2>1, FS_Interval
  <2>. HIDE DEF s
  <2>4. [i \in 1..Len(s) |-> s[i]] \in Surjection(1..Len(s), ToSet(s))
    BY <2>2 DEF Surjection
  <2>5. IsFiniteSet(ToSet(s))
    BY <2>3, <2>4, FS_Surjection
  <2>. QED  BY <2>5 DEF s
<1>2. IsFiniteSet({ToSet(EventsOf[r]) : r \in Requests})
  <2>1. [r \in Requests |-> ToSet(EventsOf[r])]
          \in Surjection(Requests, {ToSet(EventsOf[r]) : r \in Requests})
    BY DEF Surjection
  <2>. QED  BY <2>1, FS_Surjection, MeteringAssumption
<1>. QED  BY <1>1, <1>2, FS_UNION DEF Events

\* A set of events and the requests they are of.
LEMMA Counting ==
  ASSUME NEW E \in SUBSET Events, NEW F \in SUBSET Requests
  PROVE  /\ IsFiniteSet(E) /\ Cardinality(E) \in Nat
         /\ IsFiniteSet({RequestOf(e) : e \in E})
         /\ Cardinality({RequestOf(e) : e \in E}) \in Nat
         /\ Cardinality(F) \in Nat
         /\ F \subseteq {RequestOf(e) : e \in E} =>
              Cardinality(F) <= Cardinality({RequestOf(e) : e \in E})
         /\ \A e \in Events : Cardinality(E \union {e}) =
              IF e \in E THEN Cardinality(E) ELSE Cardinality(E) + 1
         /\ \A r \in Requests : Cardinality(F \union {r}) =
              IF r \in F THEN Cardinality(F) ELSE Cardinality(F) + 1
<1>1. IsFiniteSet(E) /\ IsFiniteSet(F)
  BY FiniteEvents, MeteringAssumption, FS_Subset
<1>2. {RequestOf(e) : e \in E} \subseteq Requests
  BY RequestOfType
<1>3. IsFiniteSet({RequestOf(e) : e \in E})
  BY <1>2, MeteringAssumption, FS_Subset
<1>4. F \subseteq {RequestOf(e) : e \in E} =>
        Cardinality(F) <= Cardinality({RequestOf(e) : e \in E})
  BY <1>3, FS_Subset
<1>5. \A e \in Events : Cardinality(E \union {e}) =
        IF e \in E THEN Cardinality(E) ELSE Cardinality(E) + 1
  BY <1>1, FS_AddElement
<1>6. \A r \in Requests : Cardinality(F \union {r}) =
        IF r \in F THEN Cardinality(F) ELSE Cardinality(F) + 1
  BY <1>1, FS_AddElement
<1>. QED  BY <1>1, <1>3, <1>4, <1>5, <1>6, FS_CardinalityType

\* What does not fit is dropped, nothing else is lost.
LEMMA BufferedKeeps ==
  ASSUME TypeOK, NEW events \in Seq(Events), Buffered(events)
  PROVE  /\ buffer' \in Seq(Events) /\ Len(buffer') <= RetryMax
         /\ fate' = [fate EXCEPT !.dropped = fate'.dropped]
         /\ fate'.dropped \in SUBSET Events
         /\ ToSet(buffer) \union ToSet(events) \union fate.dropped
              \subseteq ToSet(buffer') \union fate'.dropped
<1>. DEFINE all == buffer \o events
            n   == IF Len(all) <= RetryMax THEN Len(all) ELSE RetryMax
<1>1. all \in Seq(Events) /\ ToSet(all) = ToSet(buffer) \union ToSet(events)
  BY ToSetConcat DEF TypeOK
<1>2. Len(all) \in Nat /\ RetryMax \in Nat
  BY <1>1, Constants
<1>3. n \in Nat /\ n <= Len(all) /\ n <= RetryMax
  BY <1>2
<1>4. /\ buffer' = SubSeq(all, 1, n)
      /\ fate' = [fate EXCEPT !.dropped = fate.dropped \union (ToSet(all) \ ToSet(buffer'))]
  BY DEF Buffered
<1>. HIDE DEF all, n
<1>5. buffer' \in Seq(Events) /\ Len(buffer') = n
  BY <1>1, <1>3, <1>4, ToSetPrefix
<1>6. ToSet(all) \subseteq Events
  BY <1>1, ToSetOf
<1>7. fate'.dropped = fate.dropped \union (ToSet(all) \ ToSet(buffer'))
  BY <1>4 DEF TypeOK
<1>. QED  BY <1>1, <1>3, <1>4, <1>5, <1>6, <1>7 DEF TypeOK

\* The event at hand, when there is one.
LEMMA EventAtHand ==
  ASSUME TypeOK, job.at # "idle"
  PROVE  /\ Event \in Events /\ Event \in Held
         /\ Flushing => /\ Event = Head(job.retry) /\ Tail(job.retry) \in Seq(Events)
                        /\ ToSet(job.retry) = {Event} \union ToSet(Tail(job.retry))
         /\ ~Flushing => /\ Event = Head(job.fresh) /\ Tail(job.fresh) \in Seq(Events)
                         /\ ToSet(job.fresh) = {Event} \union ToSet(Tail(job.fresh))
                         /\ job.retry = <<>> /\ job.still = <<>>
<1>1. CASE Flushing
  BY <1>1, ToSetHeadTail DEF TypeOK, Flushing, Event, Held
<1>2. CASE ~Flushing
  <2>1. job.fresh # <<>> /\ job.fresh \in Seq(Events)
    BY <1>2 DEF TypeOK, Flushing
  <2>. QED  BY <1>2, <2>1, ToSetHeadTail DEF TypeOK, Flushing, Event, Held
<1>. QED  BY <1>1, <1>2

\* Going on to the next event keeps an account of every event but the one at
\* hand, unless that one is to be kept.
LEMMA NextTaskKeeps ==
  ASSUME TypeOK, job.at # "idle", NEW kept \in BOOLEAN, NextTask(kept)
  PROVE  /\ job' \in [at : {"idle", "insert"}, retry : Seq(Events),
                      still : Seq(Events), fresh : Seq(Events)]
         /\ (job'.at # "idle") = (job'.retry # <<>> \/ job'.fresh # <<>>)
         /\ job'.retry = <<>> => job'.still = <<>>
         /\ buffer' \in Seq(Events) /\ Len(buffer') <= RetryMax
         /\ fate' = [fate EXCEPT !.dropped = fate'.dropped]
         /\ fate'.dropped \in SUBSET Events
         /\ phase' \in [Requests -> {"new", "running", "recording", "done", "lost"}]
         /\ \A r \in Requests : \/ phase'[r] = phase[r]
                                \/ phase[r] = "recording" /\ phase'[r] = "done"
         /\ Held \union fate.dropped
              \subseteq Held' \union fate'.dropped \union (IF kept THEN {} ELSE {Event})
<1>. DEFINE still == IF Flushing /\ kept THEN Append(job.still, Event) ELSE job.still
            retry == IF Flushing THEN Tail(job.retry) ELSE <<>>
            fresh == IF Flushing THEN job.fresh ELSE Tail(job.fresh)
            back  == IF Flushing THEN (IF retry = <<>> THEN still ELSE <<>>)
                     ELSE IF kept THEN <<Event>> ELSE <<>>
            skip  == IF kept THEN {} ELSE {Event}
<1>1. /\ Event \in Events
      /\ Flushing => Tail(job.retry) \in Seq(Events)
                     /\ ToSet(job.retry) = {Event} \union ToSet(Tail(job.retry))
      /\ ~Flushing => /\ Tail(job.fresh) \in Seq(Events)
                      /\ ToSet(job.fresh) = {Event} \union ToSet(Tail(job.fresh))
                      /\ job.retry = <<>> /\ job.still = <<>>
  BY EventAtHand
<1>2. job.still \in Seq(Events) /\ job.retry \in Seq(Events) /\ job.fresh \in Seq(Events)
  BY DEF TypeOK
<1>3. ToSet(<<>>) = {} /\ <<>> \in Seq(Events)
  BY DEF ToSet
<1>4. /\ still \in Seq(Events)
      /\ ToSet(still) = ToSet(job.still) \union (IF Flushing /\ kept THEN {Event} ELSE {})
  <2>1. /\ Append(job.still, Event) \in Seq(Events)
        /\ ToSet(Append(job.still, Event)) = ToSet(job.still) \union {Event}
    BY <1>1, <1>2, ToSetAppend
  <2>. QED  BY <1>2, <2>1
<1>5. retry \in Seq(Events) /\ fresh \in Seq(Events)
  BY <1>1, <1>2, <1>3
<1>6. back \in Seq(Events)
  BY <1>1, <1>3, <1>4, ToSetOne
<1>7. ToSet(job.retry) \union ToSet(job.fresh) =
        {Event} \union ToSet(retry) \union ToSet(fresh)
  BY <1>1, <1>3
<1>8. ToSet(job.still) \union {Event} \subseteq skip \union ToSet(back)
        \union (IF retry = <<>> THEN {} ELSE ToSet(still))
  BY <1>1, <1>3, <1>4, ToSetOne
<1>9. /\ job' = IF retry = <<>> /\ fresh = <<>> THEN Idle
                ELSE [at |-> "insert", retry |-> retry, fresh |-> fresh,
                      still |-> IF retry = <<>> THEN <<>> ELSE still]
      /\ Buffered(back)
      /\ phase' = IF job' = Idle
                  THEN [r \in Requests |-> IF phase[r] = "recording" THEN "done" ELSE phase[r]]
                  ELSE phase
  BY DEF NextTask
<1>. HIDE DEF still, retry, fresh, back
<1>10. /\ buffer' \in Seq(Events) /\ Len(buffer') <= RetryMax
       /\ fate' = [fate EXCEPT !.dropped = fate'.dropped]
       /\ fate'.dropped \in SUBSET Events
       /\ ToSet(buffer) \union ToSet(back) \union fate.dropped
            \subseteq ToSet(buffer') \union fate'.dropped
  BY <1>6, <1>9, BufferedKeeps
<1>11. /\ job'.retry = retry /\ job'.fresh = fresh
       /\ job'.still = IF retry = <<>> THEN <<>> ELSE still
       /\ job'.at = IF retry = <<>> /\ fresh = <<>> THEN "idle" ELSE "insert"
       /\ job' \in [at : {"idle", "insert"}, retry : Seq(Events),
                    still : Seq(Events), fresh : Seq(Events)]
  BY <1>3, <1>4, <1>5, <1>9 DEF Idle
<1>12. /\ phase' \in [Requests -> {"new", "running", "recording", "done", "lost"}]
       /\ \A r \in Requests : \/ phase'[r] = phase[r]
                              \/ phase[r] = "recording" /\ phase'[r] = "done"
  BY <1>9 DEF TypeOK
<1>13. Held' = ToSet(buffer') \union ToSet(retry)
                 \union (IF retry = <<>> THEN {} ELSE ToSet(still)) \union ToSet(fresh)
  BY <1>3, <1>11 DEF Held
<1>14. Held \union fate.dropped \subseteq Held' \union fate'.dropped \union skip
  <2>. HIDE DEF skip
  <2>. QED  BY <1>7, <1>8, <1>10, <1>13 DEF Held
<1>. QED  BY <1>10, <1>11, <1>12, <1>14

-----------------------------------------------------------------------------
\* Steps

LEMMA InitInv == Init => IInv
<1>. SUFFICES ASSUME Init PROVE IInv
  OBVIOUS
<1>1. Cardinality({}) = 0 /\ {RequestOf(e) : e \in {}} = {}
  BY FS_EmptySet
<1>2. <<>> \in Seq(Events) /\ Len(<<>>) = 0
  OBVIOUS
<1>3. Sums({}) = [invocations |-> 0, requests |-> 0]
  BY <1>1 DEF Sums
<1>4. TypeOK
  BY <1>2, <1>3, Constants, ThresholdAssumption
  DEF Init, TypeOK, Idle, LiveStates, Unprobed, UNHEALTHY, HEALTHY, SUSPECT, RECOVERING
<1>5. Storing
  BY DEF Init, Storing, Idle
<1>6. NoEventVanishes
  BY DEF Init, NoEventVanishes
<1>7. Trailing
  BY <1>1, <1>3 DEF Init, Trailing, Pending, Idle
<1>8. Waiting
  BY DEF Init, Waiting
<1>. QED  BY <1>4, <1>5, <1>6, <1>7, <1>8 DEF IInv

\* What an observation makes of the state of a dependency.
LEMMA Observations ==
  ASSUME NEW l \in LiveStates
  PROVE  /\ OnSuccess(l) \in LiveStates
         /\ \A serving \in BOOLEAN :
              /\ OnFailure(l, serving) \in LiveStates
              /\ OnFailure(l, serving).failed
              /\ OnFailure(l, serving).consecutive_successes = 0
              /\ serving \/ ~Ready(l) => ~Ready(OnFailure(l, serving))
         /\ RecoveryThreshold > 1 /\ l.failed /\ ~Ready(l) /\ l.consecutive_successes = 0 =>
              ~Ready(OnSuccess(l)) /\ OnSuccess(l).failed
<1>. USE ThresholdAssumption DEF LiveStates, HEALTHY, SUSPECT, UNHEALTHY, RECOVERING
<1>1. OnSuccess(l) \in LiveStates
  <2>1. 0 \in 0..FailThreshold /\ l.consecutive_successes + 1 \in Nat
    OBVIOUS
  <2>2. Healthy(l) \in LiveStates
    BY <2>1 DEF Healthy
  <2>3. [l EXCEPT !.consecutive_failures = 0, !.consecutive_successes = @ + 1,
                  !.status = RECOVERING] \in LiveStates
    BY <2>1
  <2>. QED  BY <2>2, <2>3 DEF OnSuccess
<1>2. ASSUME RecoveryThreshold > 1, l.failed, ~Ready(l), l.consecutive_successes = 0
      PROVE  ~Ready(OnSuccess(l)) /\ OnSuccess(l).failed
  <2>1. OnSuccess(l) = [l EXCEPT !.consecutive_failures = 0, !.consecutive_successes = 1,
                                 !.status = RECOVERING]
    BY <1>2 DEF OnSuccess, Ready
  <2>. QED  BY <1>2, <2>1 DEF Ready
<1>3. ASSUME NEW serving \in BOOLEAN
      PROVE  /\ OnFailure(l, serving) \in LiveStates
             /\ OnFailure(l, serving).failed
             /\ OnFailure(l, serving).consecutive_successes = 0
  <2>. DEFINE failures == IF l.consecutive_failures < FailThreshold
                          THEN l.consecutive_failures + 1 ELSE FailThreshold
              status == IF serving \/ failures >= FailThreshold \/ l.status = RECOVERING
                        THEN UNHEALTHY
                        ELSE IF l.status = HEALTHY THEN SUSPECT ELSE l.status
  <2>1. OnFailure(l, serving) =
          [status |-> status, consecutive_failures |-> failures,
           consecutive_successes |-> 0, failed |-> TRUE]
    <3>1. OnFailure(l, serving) =
            [l EXCEPT !.failed = TRUE, !.consecutive_successes = 0,
                      !.consecutive_failures = failures, !.status = status]
      BY DEF OnFailure
    <3>. QED  BY <3>1
  <2>2. failures \in 0..FailThreshold
    OBVIOUS
  <2>3. status \in {HEALTHY, SUSPECT, UNHEALTHY, RECOVERING}
    OBVIOUS
  <2>. HIDE DEF failures, status
  <2>. QED  BY <2>1, <2>2, <2>3
<1>4. ASSUME NEW serving \in BOOLEAN, serving \/ ~Ready(l)
      PROVE  ~Ready(OnFailure(l, serving))
  BY <1>4 DEF OnFailure, Ready
<1>. QED  BY <1>1, <1>2, <1>3, <1>4

\* The steps that end the work on an event, and what they give to NextTask.
Ending(kept) ==
  /\ job.at # "idle" /\ NextTask(kept)
  /\ UNCHANGED <<up, repair>>
  /\ rows \subseteq rows'
  /\ ~kept => Event \in rows

\* Every step of Recording: what it does to the job, and to the stores.
LEMMA RecordingSteps ==
  ASSUME IInv, Recording
  PROVE  \/ \E kept \in BOOLEAN : Ending(kept)
         \/ /\ job' = [job EXCEPT !.at = job'.at] /\ job.at # "idle"
            /\ job'.at \in {"apply", "count"}
            /\ Event \in Events /\ Event' = Event /\ Held' = Held
            /\ rows' = rows \union {Event}
            /\ UNCHANGED <<up, phase, buffer, fate, repair>>
<1>. USE DEF IInv, Storing, Ending, health, stores
<1>1. CASE Inserted
  BY <1>1, EventAtHand DEF Inserted, TypeOK, Event, Flushing, Held
<1>2. CASE Duplicate
  BY <1>2 DEF Duplicate
<1>3. CASE InsertFails
  BY <1>3 DEF InsertFails
<1>4. CASE Applied
  <2>1. CASE RequestOf(Event) \in flagged
    BY <1>4, <2>1 DEF Applied
  <2>2. CASE RequestOf(Event) \notin flagged
    <3>1. job' = [job EXCEPT !.at = "count"] /\ job.at = "apply"
          /\ UNCHANGED <<up, rows, phase, buffer, fate, repair>>
      BY <1>4, <2>2 DEF Applied
    <3>2. /\ job'.at = "count" /\ job' = [job EXCEPT !.at = job'.at]
          /\ Event' = Event /\ Held' = Held
      BY <3>1 DEF TypeOK, Event, Flushing, Held
    <3>3. Event \in Events /\ Event \in rows
      BY <3>1, EventAtHand
    <3>. QED  BY <3>1, <3>2, <3>3
  <2>. QED  BY <2>1, <2>2
<1>5. CASE ApplyFails
  BY <1>5 DEF ApplyFails, Flushing
<1>6. CASE Count
  BY <1>6 DEF Count
<1>7. CASE CountFails
  BY <1>7 DEF CountFails, Flushing
<1>. QED  BY <1>1, <1>2, <1>3, <1>4, <1>5, <1>6, <1>7 DEF Recording

\* The stores and the state of the dependency keep their types while recording.
LEMMA RecordingTypes ==
  ASSUME IInv, Recording
  PROVE  /\ rows' \in SUBSET Events /\ flagged' \in SUBSET Requests
         /\ counters' \in [invocations : Nat, requests : Nat]
         /\ live' \in LiveStates /\ probe' = probe
         /\ since' \in {"none", "asked", "answered"}
<1>. USE DEF IInv, TypeOK, health, stores
<1>1. ASSUME job.at # "idle"
      PROVE  Event \in Events /\ RequestOf(Event) \in Requests
  BY <1>1, EventAtHand, RequestOfType
<1>2. /\ [counters EXCEPT !.invocations = @ + 1] \in [invocations : Nat, requests : Nat]
      /\ [counters EXCEPT !.requests = @ + 1] \in [invocations : Nat, requests : Nat]
  OBVIOUS
<1>3. OnFailure(live, TRUE) \in LiveStates
  BY Observations
<1>4. CASE Inserted
  BY <1>1, <1>4 DEF Inserted
<1>5. CASE Duplicate
  BY <1>5 DEF Duplicate
<1>6. CASE InsertFails
  BY <1>1, <1>3, <1>6 DEF InsertFails
<1>7. CASE Applied
  BY <1>1, <1>2, <1>7 DEF Applied, Pipelined
<1>8. CASE ApplyFails
  BY <1>1, <1>2, <1>8 DEF ApplyFails, Pipelined
<1>9. CASE Count
  BY <1>2, <1>9 DEF Count
<1>10. CASE CountFails
  BY <1>2, <1>10 DEF CountFails
<1>. QED  BY <1>4, <1>5, <1>6, <1>7, <1>8, <1>9, <1>10 DEF Recording

LEMMA TypeStep ==
  ASSUME IInv, [Next]_vars
  PROVE  TypeOK'
<1>. USE DEF IInv, health, stores, meter
<1>. DEFINE Phases == {"new", "running", "recording", "done", "lost"}
<1>1. CASE Outage
  BY <1>1 DEF Outage, TypeOK
<1>2. CASE Monitor
  <2>1. OnSuccess(live) \in LiveStates /\ OnFailure(live, FALSE) \in LiveStates
    BY Observations DEF TypeOK
  <2>. QED  BY <1>2, <2>1 DEF Monitor, Ask, Answer, Observe, TypeOK
<1>3. ASSUME NEW r \in Requests, Admit(r)
      PROVE  TypeOK'
  BY <1>3 DEF Admit, TypeOK
<1>4. ASSUME NEW r \in Requests, Record(r)
      PROVE  TypeOK'
  <2>1. <<>> \in Seq(Events) /\ Len(<<>>) = 0
    OBVIOUS
  <2>2. EventsOf[r] \in Seq(Events) /\ EventsOf[r] # <<>> /\ RetryMax \in Nat
    BY Constants
  <2>3. phase' \in [Requests -> Phases]
    BY <1>4 DEF Record, TypeOK
  <2>4. /\ job' \in [at : {"idle", "insert", "apply", "count"}, retry : Seq(Events),
                     still : Seq(Events), fresh : Seq(Events)]
        /\ job'.at # "idle" /\ job'.fresh # <<>> /\ job'.still = <<>>
    BY <1>4, <2>1, <2>2 DEF Record, TypeOK
  <2>5. buffer' \in Seq(Events) /\ Len(buffer') <= RetryMax
    BY <1>4, <2>1, <2>2 DEF Record
  <2>. QED  BY <1>4, <2>3, <2>4, <2>5 DEF Record, TypeOK
<1>5. CASE Recording
  <2>1. ASSUME NEW kept \in BOOLEAN, Ending(kept)
        PROVE  TypeOK'
    <3>1. fate' \in [dropped : SUBSET Events, lost : SUBSET Events, crashes : Nat]
      BY <2>1, NextTaskKeeps DEF Ending, TypeOK
    <3>2. /\ job' \in [at : {"idle", "insert"}, retry : Seq(Events),
                       still : Seq(Events), fresh : Seq(Events)]
          /\ (job'.at # "idle") = (job'.retry # <<>> \/ job'.fresh # <<>>)
          /\ job'.retry = <<>> => job'.still = <<>>
          /\ buffer' \in Seq(Events) /\ Len(buffer') <= RetryMax
          /\ phase' \in [Requests -> Phases]
      BY <2>1, NextTaskKeeps DEF Ending
    <3>. QED  BY <1>5, <2>1, <3>1, <3>2, RecordingTypes DEF Ending, TypeOK
  <2>2. ASSUME job' = [job EXCEPT !.at = job'.at], job'.at \in {"apply", "count"},
               job.at # "idle", UNCHANGED <<up, phase, buffer, fate, repair>>
        PROVE  TypeOK'
    BY <1>5, <2>2, RecordingTypes DEF TypeOK
  <2>. QED  BY <1>5, <2>1, <2>2, RecordingSteps
<1>6. CASE Crash
  <2>1. Held \subseteq Events
    BY ToSetOf DEF Held, TypeOK
  <2>2. phase' \in [Requests -> Phases]
    BY <1>6 DEF Crash, TypeOK
  <2>3. fate' \in [dropped : SUBSET Events, lost : SUBSET Events, crashes : Nat]
    <3>1. Held \ rows \in SUBSET Events /\ fate.crashes + 1 \in Nat
      BY <2>1 DEF TypeOK
    <3>. QED  BY <1>6, <3>1 DEF Crash, TypeOK
  <2>4. live' \in LiveStates
    BY <1>6, ThresholdAssumption DEF Crash, LiveStates, Unprobed, UNHEALTHY, HEALTHY
  <2>5. /\ job' = Idle /\ buffer' = <<>> /\ RetryMax \in Nat
        /\ <<>> \in Seq(Events) /\ Len(<<>>) = 0
    BY <1>6, Constants DEF Crash
  <2>. QED  BY <1>6, <2>2, <2>3, <2>4, <2>5 DEF Crash, TypeOK, Idle
<1>7. CASE ReadLedger
  <2>1. Sums(rows) \in [invocations : Nat, requests : Nat]
    BY Counting DEF Sums, TypeOK
  <2>2. repair' \in [at : {"idle", "compare", "replace"}, runs : Nat,
                     read : [invocations : Nat, requests : Nat], late : BOOLEAN, done : BOOLEAN]
    <3>1. PICK late \in BOOLEAN : late = (repair.late \/ job.at \in {"apply", "count"})
      OBVIOUS
    <3>2. repair' = [repair EXCEPT !.at = "compare", !.runs = repair.runs + 1,
                                   !.read = Sums(rows), !.late = late]
      BY <1>7, <3>1 DEF ReadLedger
    <3>3. /\ repair.runs + 1 \in Nat
          /\ repair \in [at : {"idle", "compare", "replace"}, runs : Nat,
                         read : [invocations : Nat, requests : Nat],
                         late : BOOLEAN, done : BOOLEAN]
      BY DEF TypeOK
    <3>. QED  BY <2>1, <3>1, <3>2, <3>3
  <2>. QED  BY <1>7, <2>2 DEF ReadLedger, TypeOK
<1>8. CASE Compare
  BY <1>8 DEF Compare, TypeOK
<1>9. CASE Replace
  BY <1>9 DEF Replace, TypeOK
<1>10. CASE UNCHANGED vars
  BY <1>10 DEF vars, TypeOK
<1>. QED  BY <1>1, <1>2, <1>3, <1>4, <1>5, <1>6, <1>7, <1>8, <1>9, <1>10 DEF Next

LEMMA StoringStep ==
  ASSUME IInv, [Next]_vars
  PROVE  Storing'
<1>. USE DEF IInv, Storing, health, stores, meter
<1>1. CASE Outage \/ Compare \/ Replace \/ ReadLedger
  BY <1>1 DEF Outage, Compare, Replace, ReadLedger, Event, Flushing
<1>2. CASE Monitor
  BY <1>2 DEF Monitor, Ask, Answer, Observe, Event, Flushing
<1>3. ASSUME NEW r \in Requests, Admit(r) \/ Record(r)
      PROVE  Storing'
  BY <1>3 DEF Admit, Record
<1>4. CASE Recording
  <2>1. ASSUME NEW kept \in BOOLEAN, Ending(kept)
        PROVE  Storing'
    <3>1. job'.at \in {"idle", "insert"}
      BY <2>1, NextTaskKeeps DEF Ending
    <3>. QED  BY <3>1
  <2>2. ASSUME Event' = Event, rows' = rows \union {Event}
        PROVE  Storing'
    BY <2>2
  <2>. QED  BY <1>4, <2>1, <2>2, RecordingSteps
<1>5. CASE Crash
  BY <1>5 DEF Crash, Idle
<1>6. CASE UNCHANGED vars
  BY <1>6 DEF vars, Event, Flushing
<1>. QED  BY <1>1, <1>2, <1>3, <1>4, <1>5, <1>6 DEF Next

\* No step forgets an event; recording begins by taking those of its request.
LEMMA AccountStep ==
  ASSUME IInv, [Next]_vars
  PROVE  /\ Accounted \subseteq Accounted'
         /\ \A r \in Requests : phase'[r] \in {"recording", "done"} =>
              \/ phase[r] \in {"recording", "done"}
              \/ ToSet(EventsOf[r]) \subseteq Accounted'
<1>. USE DEF IInv, Accounted, health, stores, meter
<1>. DEFINE Goal == /\ Accounted \subseteq Accounted'
                    /\ \A r \in Requests : phase'[r] \in {"recording", "done"} =>
                         \/ phase[r] \in {"recording", "done"}
                         \/ ToSet(EventsOf[r]) \subseteq Accounted'
<1>1. CASE Outage \/ Compare \/ Replace \/ ReadLedger
  BY <1>1 DEF Outage, Compare, Replace, ReadLedger, Held
<1>2. CASE Monitor
  BY <1>2 DEF Monitor, Ask, Answer, Observe, Held
<1>3. ASSUME NEW r \in Requests, Admit(r)
      PROVE  Goal
  BY <1>3 DEF Admit, Held, TypeOK
<1>4. ASSUME NEW r \in Requests, Record(r)
      PROVE  Goal
  <2>1. /\ job.retry = <<>> /\ job.fresh = <<>> /\ job.still = <<>>
        /\ job' = [at |-> "insert", retry |-> buffer, still |-> <<>>, fresh |-> EventsOf[r]]
        /\ buffer' = <<>>
        /\ phase' = [phase EXCEPT ![r] = "recording"]
        /\ UNCHANGED <<rows, fate>>
    BY <1>4 DEF Record, TypeOK
  <2>2. ToSet(<<>>) = {}
    BY DEF ToSet
  <2>3. Held = ToSet(buffer) /\ Held' = ToSet(buffer) \union ToSet(EventsOf[r])
    BY <2>1, <2>2 DEF Held
  <2>. QED  BY <2>1, <2>3 DEF TypeOK
<1>5. CASE Recording
  <2>1. ASSUME NEW kept \in BOOLEAN, Ending(kept)
        PROVE  Goal
    <3>1. /\ fate' = [fate EXCEPT !.dropped = fate'.dropped]
          /\ \A r \in Requests : \/ phase'[r] = phase[r]
                                 \/ phase[r] = "recording" /\ phase'[r] = "done"
          /\ Held \union fate.dropped
               \subseteq Held' \union fate'.dropped \union (IF kept THEN {} ELSE {Event})
      BY <2>1, NextTaskKeeps DEF Ending
    <3>2. fate'.lost = fate.lost
      BY <3>1 DEF TypeOK
    <3>3. rows \subseteq rows' /\ (~kept => Event \in rows)
      BY <2>1 DEF Ending
    <3>. QED  BY <3>1, <3>2, <3>3
  <2>2. ASSUME Held' = Held, rows' = rows \union {Event}, UNCHANGED <<phase, fate>>
        PROVE  Goal
    BY <2>2
  <2>. QED  BY <1>5, <2>1, <2>2, RecordingSteps
<1>6. CASE Crash
  <2>1. /\ fate'.lost = fate.lost \union (Held \ rows) /\ fate'.dropped = fate.dropped
        /\ rows' = rows
        /\ \A r \in Requests : phase'[r] = phase[r] \/ phase'[r] = "lost"
    BY <1>6 DEF Crash, TypeOK
  <2>. QED  BY <2>1
<1>7. CASE UNCHANGED vars
  BY <1>7 DEF vars, Held
<1>. QED  BY <1>1, <1>2, <1>3, <1>4, <1>5, <1>6, <1>7 DEF Next

LEMMA NothingVanishesStep ==
  ASSUME IInv, [Next]_vars
  PROVE  NoEventVanishes'
<1>. SUFFICES ASSUME NEW r \in Requests, phase'[r] \in {"recording", "done"}
              PROVE  ToSet(EventsOf[r]) \subseteq Accounted'
  BY DEF NoEventVanishes, Accounted
<1>1. CASE phase[r] \in {"recording", "done"}
  BY <1>1, AccountStep DEF IInv, NoEventVanishes, Accounted
<1>2. CASE phase[r] \notin {"recording", "done"}
  BY <1>2, AccountStep
<1>. QED  BY <1>1, <1>2

\* Types of the numbers Trailing compares, and how they grow.
LEMMA Numbers ==
  ASSUME TypeOK
  PROVE  /\ counters.invocations \in Nat /\ counters.requests \in Nat
         /\ repair.read.invocations \in Nat /\ repair.read.requests \in Nat
         /\ Cardinality(rows) \in Nat /\ Cardinality(flagged) \in Nat
         /\ job.at # "idle" =>
              /\ Cardinality(rows \union {Event}) =
                   IF Event \in rows THEN Cardinality(rows) ELSE Cardinality(rows) + 1
              /\ RequestOf(Event) \in Requests
              /\ Cardinality(flagged \union {RequestOf(Event)}) =
                   IF RequestOf(Event) \in flagged THEN Cardinality(flagged)
                   ELSE Cardinality(flagged) + 1
<1>1. rows \in SUBSET Events /\ flagged \in SUBSET Requests
  BY DEF TypeOK
<1>2. job.at # "idle" => Event \in Events /\ RequestOf(Event) \in Requests
  BY EventAtHand, RequestOfType
<1>3. Cardinality(rows) \in Nat /\ Cardinality(flagged) \in Nat
  BY <1>1, Counting
<1>4. job.at # "idle" => Cardinality(rows \union {Event}) =
        IF Event \in rows THEN Cardinality(rows) ELSE Cardinality(rows) + 1
  BY <1>1, <1>2, Counting
<1>5. job.at # "idle" => Cardinality(flagged \union {RequestOf(Event)}) =
        IF RequestOf(Event) \in flagged THEN Cardinality(flagged) ELSE Cardinality(flagged) + 1
  BY <1>1, <1>2, Counting
<1>6. /\ counters.invocations \in Nat /\ counters.requests \in Nat
      /\ repair.read.invocations \in Nat /\ repair.read.requests \in Nat
  BY DEF TypeOK
<1>. QED  BY <1>2, <1>3, <1>4, <1>5, <1>6

LEMMA TrailingStep ==
  ASSUME IInv, [Next]_vars
  PROVE  Trailing'
<1>. USE DEF IInv, Trailing, health, stores, meter
<1>1. CASE Outage \/ Monitor \/ \E r \in Requests : Admit(r)
  BY <1>1 DEF Outage, Monitor, Ask, Answer, Observe, Admit, Pending
<1>2. ASSUME NEW r \in Requests, Record(r)
      PROVE  Trailing'
  BY <1>2 DEF Record, Pending
<1>3. CASE Recording
  <2>. /\ counters.invocations \in Nat /\ counters.requests \in Nat
       /\ repair.read.invocations \in Nat /\ counters \in [invocations : Nat, requests : Nat]
       /\ Cardinality(rows) \in Nat /\ Cardinality(flagged) \in Nat
       /\ Cardinality(rows') \in Nat /\ Cardinality(flagged') \in Nat
    <3>1. rows' \in SUBSET Events /\ flagged' \in SUBSET Requests
      BY TypeStep DEF TypeOK
    <3>2. Cardinality(rows') \in Nat /\ Cardinality(flagged') \in Nat
      BY <3>1, Counting
    <3>. QED  BY <3>2, Numbers DEF TypeOK
  <2>1. repair' = repair
    BY <1>3, RecordingSteps DEF Ending
  <2>2. ASSUME NEW kept \in BOOLEAN, NextTask(kept), job.at # "idle"
        PROVE  Pending("apply")' = 0 /\ Pending("count")' = 0
    BY <2>2, NextTaskKeeps DEF Pending
  <2>3. CASE Inserted
    <3>1. /\ Cardinality(rows') = Cardinality(rows) + 1
          /\ Pending("apply") = 0 /\ Pending("apply")' = 1
          /\ Pending("count") = 0 /\ Pending("count")' = 0
      BY <2>3, Numbers DEF Inserted, Pending, TypeOK
    <3>2. counters' = counters /\ flagged' = flagged /\ rows \subseteq rows'
      BY <2>3 DEF Inserted
    <3>. QED  BY <2>1, <3>1, <3>2
  <2>4. CASE Duplicate
    <3>1. /\ Pending("apply") = 0 /\ Pending("apply")' = 0
          /\ Pending("count") = 0 /\ Pending("count")' = 0
      BY <2>2, <2>4 DEF Duplicate, Pending
    <3>2. counters' = counters /\ flagged' = flagged /\ rows' = rows
      BY <2>4 DEF Duplicate
    <3>. QED  BY <2>1, <3>1, <3>2
  <2>5. CASE InsertFails
    <3>1. /\ Pending("apply") = 0 /\ Pending("apply")' = 0
          /\ Pending("count") = 0 /\ Pending("count")' = 0
      BY <2>2, <2>5 DEF InsertFails, Pending
    <3>2. /\ counters' = counters /\ flagged' = flagged
          /\ rows' = rows \/ rows' = rows \union {Event}
      BY <2>5 DEF InsertFails
    <3>3. Cardinality(rows) <= Cardinality(rows')
      BY <2>5, <3>2, Numbers DEF InsertFails
    <3>. QED  BY <2>1, <3>1, <3>2, <3>3
  <2>6. CASE Applied
    <3>1. /\ Pending("apply") = 1 /\ Pending("apply")' = 0 /\ Pending("count") = 0
          /\ Event \in rows /\ rows' = rows
      <4>1. job.at = "apply" /\ Event \in rows
        BY <2>6 DEF Applied, Storing
      <4>2. job'.at \in {"idle", "insert", "count"}
        BY <2>6, <4>1, NextTaskKeeps DEF Applied, TypeOK
      <4>. QED  BY <2>6, <4>1, <4>2 DEF Applied, Pending
    <3>2. /\ counters'.invocations = counters.invocations + 1
          /\ counters'.requests = counters.requests
          /\ flagged' = flagged \union {RequestOf(Event)}
      BY <2>6 DEF Applied, Pipelined
    <3>3. Cardinality(flagged) + Pending("count")' <= Cardinality(flagged')
      <4>1. CASE RequestOf(Event) \in flagged
        <5>1. Pending("count")' = 0
          BY <2>2, <2>6, <4>1 DEF Applied
        <5>. QED  BY <2>6, <3>2, <4>1, <5>1, Numbers DEF Applied
      <4>2. CASE RequestOf(Event) \notin flagged
        <5>1. Pending("count")' = 1
          BY <2>6, <4>2 DEF Applied, Pending, TypeOK
        <5>. QED  BY <2>6, <3>2, <4>2, <5>1, Numbers DEF Applied
      <4>. QED  BY <4>1, <4>2
    <3>4. Pending("count")' \in Nat
      BY DEF Pending
    <3>. QED  BY <2>1, <3>1, <3>2, <3>3, <3>4
  <2>7. CASE ApplyFails
    <3>1. /\ Pending("apply") = 1 /\ Pending("apply")' = 0
          /\ Pending("count") = 0 /\ Pending("count")' = 0
          /\ Event \in rows /\ rows' = rows
      BY <2>2, <2>7 DEF ApplyFails, Pending, Storing, Flushing
    <3>2. /\ \/ counters'.invocations = counters.invocations + 1
             \/ counters'.invocations = counters.invocations
          /\ counters'.requests = counters.requests
          /\ flagged' = flagged \union {RequestOf(Event)} \/ flagged' = flagged
      BY <2>7 DEF ApplyFails, Pipelined
    <3>3. Cardinality(flagged) <= Cardinality(flagged')
      <4>1. Cardinality(flagged) <= Cardinality(flagged \union {RequestOf(Event)})
        BY <2>7, Numbers DEF ApplyFails
      <4>2. CASE flagged' = flagged
        BY <4>2
      <4>3. CASE flagged' = flagged \union {RequestOf(Event)}
        BY <4>1, <4>3, Zenon
      <4>. QED  BY <3>2, <4>2, <4>3
    <3>4. flagged' \subseteq {RequestOf(e) : e \in rows}
      BY <3>1, <3>2
    <3>. QED  BY <2>1, <3>1, <3>2, <3>3, <3>4
  <2>8. CASE Count \/ CountFails
    <3>1. /\ Pending("apply") = 0 /\ Pending("apply")' = 0
          /\ Pending("count") = 1 /\ Pending("count")' = 0
          /\ rows' = rows /\ flagged' = flagged
      BY <2>2, <2>8 DEF Count, CountFails, Pending, Flushing
    <3>2. /\ counters'.invocations = counters.invocations
          /\ \/ counters'.requests = counters.requests + 1
             \/ counters'.requests = counters.requests
      BY <2>8 DEF Count, CountFails
    <3>. QED  BY <2>1, <3>1, <3>2
  <2>. QED  BY <1>3, <2>3, <2>4, <2>5, <2>6, <2>7, <2>8 DEF Recording
<1>4. CASE Crash
  BY <1>4, Numbers DEF Crash, Pending, Idle
<1>5. CASE ReadLedger
  <2>1. /\ repair'.late = (repair.late \/ job.at \in {"apply", "count"})
        /\ repair'.done = repair.done /\ repair'.read = Sums(rows)
        /\ UNCHANGED <<rows, counters, flagged, job>>
    BY <1>5 DEF ReadLedger, TypeOK
  <2>2. Sums(rows).invocations = Cardinality(rows) /\ Cardinality(rows) \in Nat
    BY Numbers DEF Sums
  <2>3. CASE job.at \in {"apply", "count"}
    BY <2>1, <2>3 DEF Pending
  <2>4. CASE job.at \notin {"apply", "count"}
    <3>1. Pending("apply") = 0 /\ Pending("apply")' = 0 /\ Pending("count")' = Pending("count")
      BY <2>1, <2>4 DEF Pending
    <3>2. repair'.late = repair.late
      BY <2>1, <2>4 DEF TypeOK
    <3>. QED  BY <2>1, <2>2, <3>1, <3>2
  <2>. QED  BY <2>3, <2>4
<1>6. CASE Compare
  <2>1. /\ repair'.late = repair.late /\ repair'.read = repair.read
        /\ repair'.done = repair.done /\ repair.at # "idle"
        /\ UNCHANGED <<rows, counters, flagged, job>>
    BY <1>6 DEF Compare, TypeOK
  <2>. QED  BY <2>1 DEF Pending
<1>7. CASE Replace
  <2>1. /\ repair'.late = repair.late /\ repair'.done /\ repair.at # "idle"
        /\ repair'.at = "idle" /\ counters' = repair.read
        /\ UNCHANGED <<rows, flagged, job>>
    BY <1>7 DEF Replace, TypeOK
  <2>. QED  BY <2>1 DEF Pending
<1>8. CASE UNCHANGED vars
  BY <1>8 DEF vars, Pending
<1>. QED  BY <1>1, <1>2, <1>3, <1>4, <1>5, <1>6, <1>7, <1>8 DEF Next

LEMMA WaitingStep ==
  ASSUME IInv, [Next]_vars
  PROVE  Waiting'
<1>. SUFFICES ASSUME RecoveryThreshold > 1
              PROVE  /\ since' # "answered" => ~Ready(live') /\ live'.failed
                     /\ since' = "none" /\ probe' # "asleep" => live'.consecutive_successes = 0
  BY DEF Waiting, Ready
<1>. USE DEF IInv, Waiting, health, stores, meter
<1>1. CASE Outage \/ Compare \/ Replace \/ ReadLedger
  BY <1>1 DEF Outage, Compare, Replace, ReadLedger
<1>2. CASE Ask \/ Answer
  BY <1>2 DEF Ask, Answer
<1>3. CASE Observe
  <2>1. CASE probe = "ok"
    <3>1. live' = OnSuccess(live) /\ probe' = "asleep"
          /\ since' = IF since = "asked" THEN "answered" ELSE since
      BY <1>3, <2>1 DEF Observe
    <3>2. CASE since' # "answered"
      <4>1. since = "none" /\ probe # "asleep" /\ live \in LiveStates
        BY <2>1, <3>1, <3>2 DEF TypeOK
      <4>. QED  BY <3>1, <4>1, Observations
    <3>. QED  BY <3>1, <3>2
  <2>2. CASE probe # "ok"
    <3>1. live' = OnFailure(live, FALSE) /\ probe' = "asleep" /\ since' = since
      BY <1>3, <2>2 DEF Observe
    <3>. QED  BY <3>1, Observations DEF TypeOK
  <2>. QED  BY <2>1, <2>2
<1>4. ASSUME NEW r \in Requests, Admit(r) \/ Record(r)
      PROVE  UNCHANGED <<since, live, probe>>
  BY <1>4 DEF Admit, Record
<1>5. CASE Recording /\ ~InsertFails
  BY <1>5 DEF Recording, Inserted, Duplicate, Applied, ApplyFails, Count, CountFails
<1>6. CASE InsertFails
  <2>1. CASE Flushing
    BY <1>6, <2>1 DEF InsertFails
  <2>2. CASE ~Flushing
    BY <1>6, <2>2, Observations DEF InsertFails, TypeOK
  <2>. QED  BY <2>1, <2>2
<1>7. CASE Crash
  BY <1>7 DEF Crash
<1>8. CASE UNCHANGED vars
  BY <1>8 DEF vars
<1>. QED  BY <1>1, <1>2, <1>3, <1>4, <1>5, <1>6, <1>7, <1>8 DEF Next, Monitor

-----------------------------------------------------------------------------
\* Theorems

LEMMA Invariance == Spec => []IInv
<1>1. Init => IInv
  BY InitInv
<1>2. IInv /\ [Next]_vars => IInv'
  BY TypeStep, StoringStep, NothingVanishesStep, TrailingStep, WaitingStep DEF IInv
<1>. QED  BY <1>1, <1>2, PTL DEF Spec

\* The variables have their types; the retry buffer stays within its limit, and
\* record_events is at work exactly while it has an event to store.
THEOREM TypeCorrect == Spec => []TypeOK
<1>. QED  BY Invariance, PTL DEF IInv

\* Every event given to record_events is stored, waits in the worker, was
\* counted as dropped, or was held by a worker that died.
THEOREM NothingVanishes == Spec => []NoEventVanishes
<1>. QED  BY Invariance, PTL DEF IInv

\* The fast counters trail the ledger, whatever is lost, replayed or
\* interrupted, up to the repairs that the property sets apart.
THEOREM CountersTrail == Spec => []FastCountersTrail
<1>1. IInv => FastCountersTrail
  <2>. SUFFICES ASSUME IInv PROVE FastCountersTrail
    OBVIOUS
  <2>1. /\ Sums(rows).invocations = Cardinality(rows)
        /\ Sums(rows).requests = Cardinality({RequestOf(e) : e \in rows})
        /\ Cardinality({RequestOf(e) : e \in rows}) \in Nat
        /\ Cardinality(flagged) <= Cardinality({RequestOf(e) : e \in rows})
    BY Counting DEF Sums, IInv, TypeOK, Trailing
  <2>2. Pending("apply") \in Nat /\ Pending("count") \in Nat
    BY DEF Pending
  <2>. QED  BY <2>1, <2>2, Numbers DEF FastCountersTrail, IInv, Trailing
<1>. QED  BY <1>1, Invariance, PTL

\* A worker that failed to store admits nothing before a probe sent later has
\* succeeded.
THEOREM OutageKeepsWorkOut == Spec => AdmissionIsVouched
<1>1. IInv /\ [Next]_vars =>
        [\A r \in Requests :
           RecoveryThreshold > 1 /\ phase[r] = "new" /\ phase'[r] = "running" =>
             since = "answered"]_vars
  <2>. SUFFICES ASSUME IInv, Next, NEW r \in Requests,
                       RecoveryThreshold > 1, phase[r] = "new", phase'[r] = "running"
                PROVE  since = "answered"
    OBVIOUS
  <2>. USE DEF IInv, health, stores, meter
  <2>1. CASE Outage \/ Monitor \/ ReadLedger \/ Compare \/ Replace
    BY <2>1 DEF Outage, Monitor, Ask, Answer, Observe, ReadLedger, Compare, Replace
  <2>2. ASSUME NEW q \in Requests, Admit(q)
        PROVE  since = "answered"
    BY <2>2 DEF Admit, Waiting
  <2>3. ASSUME NEW q \in Requests, Record(q)
        PROVE  FALSE
    BY <2>3 DEF Record, TypeOK
  <2>4. CASE Recording
    <3>1. \A kept \in BOOLEAN : Ending(kept) => phase'[r] = "new"
      BY NextTaskKeeps DEF Ending
    <3>. QED  BY <2>4, <3>1, RecordingSteps
  <2>5. CASE Crash
    BY <2>5 DEF Crash
  <2>. QED  BY <2>1, <2>2, <2>3, <2>4, <2>5 DEF Next
<1>. QED  BY <1>1, Invariance, PTL DEF Spec, AdmissionIsVouched
=============================================================================

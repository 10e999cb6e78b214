---------------------------- MODULE BreakerState ----------------------------
(***************************************************************************)
(* The per-deployment record of router/health.py (`_State`) and the        *)
(* functions HealthTracker applies to it while holding its lock.  Each     *)
(* operator maps a record to the record the method leaves behind, so a     *)
(* specification can keep one breaker or one per deployment.               *)
(*                                                                         *)
(* Time is kept as the age of the trip: `since_opened` stands for          *)
(* clock() - opened_at, saturated at OpenDuration because the code only    *)
(* compares it with that bound.  `samples` and `consecutive_failures`      *)
(* saturate at the thresholds they are compared with.  Latencies, the      *)
(* success and failure totals and last_error never influence admission.    *)
(***************************************************************************)
EXTENDS Integers

CONSTANTS
  ConsecutiveFailures,  \* BreakerPolicy.consecutive_failures
  ErrorRate,            \* BreakerPolicy.error_rate, in units of 1/Scale
  MinimumSamples,       \* BreakerPolicy.minimum_samples
  OpenDuration,         \* BreakerPolicy.open_duration_s, in clock ticks
  HalfOpenSuccesses,    \* BreakerPolicy.half_open_successes
  MaxConcurrency,       \* BreakerPolicy.max_concurrency; 0 stands for None
  Scale,                \* resolution of the error average
  Alpha                 \* EWMA weight of the newest sample, in units of 1/Scale

ASSUME PolicyAssumption ==
  /\ ConsecutiveFailures \in Nat \ {0}
  /\ Scale \in Nat \ {0}
  /\ ErrorRate \in 1..Scale
  /\ MinimumSamples \in Nat \ {0}
  /\ OpenDuration \in Nat
  /\ HalfOpenSuccesses \in Nat \ {0}
  /\ MaxConcurrency \in Nat
  /\ Alpha \in 1..Scale

CLOSED    == "closed"
OPEN      == "open"
HALF_OPEN == "half_open"
States    == {CLOSED, OPEN, HALF_OPEN}

Unmeasured == -1        \* ewma_error is None until the first sample

Breakers ==
  [ state                : States,
    samples              : 0..MinimumSamples,
    ewma_error           : Int,
    consecutive_failures : 0..ConsecutiveFailures,
    half_open_successes  : Nat,
    half_open_in_flight  : Nat,
    queue_depth          : Nat,
    since_opened         : 0..OpenDuration,
    held_open            : BOOLEAN ]

FreshBreaker ==
  [ state                |-> CLOSED,
    samples              |-> 0,
    ewma_error           |-> Unmeasured,
    consecutive_failures |-> 0,
    half_open_successes  |-> 0,
    half_open_in_flight  |-> 0,
    queue_depth          |-> 0,
    since_opened         |-> 0,
    held_open            |-> FALSE ]

Saturate(n, cap) == IF n < cap THEN n ELSE cap
Less(n)          == IF n > 0 THEN n - 1 ELSE 0

Blend(current, sample) ==
  IF current = Unmeasured
  THEN sample
  ELSE (Alpha * sample + (Scale - Alpha) * current) \div Scale

-----------------------------------------------------------------------------
\* Transitions.  An operator with a suffix, X_Mistake, is a plausible mistake in
\* the operator X that follows it; no specification uses it, and the properties
\* are tested by putting it in the place of X.

Opened_KeepsProbes(b) ==
  [b EXCEPT !.state = OPEN, !.since_opened = 0, !.half_open_successes = 0]

Opened(b) ==
  [b EXCEPT !.state = OPEN, !.since_opened = 0,
            !.half_open_successes = 0, !.half_open_in_flight = 0]

Closed(b) ==
  [b EXCEPT !.state = CLOSED, !.since_opened = 0,
            !.half_open_successes = 0, !.half_open_in_flight = 0,
            !.consecutive_failures = 0, !.held_open = FALSE]

Aged(b) == [b EXCEPT !.since_opened = Saturate(@ + 1, OpenDuration)]

-----------------------------------------------------------------------------
\* Recording

RecordSuccess(b) ==
  LET seen == [b EXCEPT !.samples = Saturate(@ + 1, MinimumSamples),
                        !.consecutive_failures = 0,
                        !.ewma_error = Blend(@, 0)]
      probed == [seen EXCEPT !.half_open_successes = @ + 1]
  IN  IF b.state # HALF_OPEN THEN seen
      ELSE IF probed.half_open_successes >= HalfOpenSuccesses THEN Closed(probed)
      ELSE probed

TrippedByStreak(b) == b.consecutive_failures >= ConsecutiveFailures
TrippedByRate(b)   == /\ b.samples >= MinimumSamples
                      /\ b.ewma_error >= ErrorRate

RecordFailure(b) ==
  LET seen == [b EXCEPT !.samples = Saturate(@ + 1, MinimumSamples),
                        !.consecutive_failures = Saturate(@ + 1, ConsecutiveFailures),
                        !.ewma_error = Blend(@, Scale)]
  IN  IF \/ b.state = HALF_OPEN
         \/ b.state = CLOSED /\ (TrippedByStreak(seen) \/ TrippedByRate(seen))
      THEN Opened(seen)
      ELSE seen

ForcedOpen(b, hold) == [Opened(b) EXCEPT !.held_open = hold]

-----------------------------------------------------------------------------
\* Admission: the record `admits` leaves behind, and its answer.

Saturated(b)  == MaxConcurrency # 0 /\ b.queue_depth >= MaxConcurrency
CoolingOff_IgnoresHold(b) == b.state = OPEN /\ b.since_opened < OpenDuration

CoolingOff(b) == b.state = OPEN /\ (b.held_open \/ b.since_opened < OpenDuration)

AfterAdmits(b) ==
  IF b.state = OPEN /\ ~Saturated(b) /\ ~CoolingOff(b)
  THEN [b EXCEPT !.state = HALF_OPEN, !.half_open_successes = 0]
  ELSE b

Admits(b) ==
  /\ ~Saturated(b)
  /\ ~CoolingOff(b)
  /\ b.state # CLOSED => b.half_open_in_flight < HalfOpenSuccesses

-----------------------------------------------------------------------------
\* The two ends of the in_flight() context manager.

Entered(b) ==
  [b EXCEPT !.queue_depth = @ + 1,
            !.half_open_in_flight = IF b.state = HALF_OPEN THEN @ + 1 ELSE @]

Exited_LeaksProbe(b) == [b EXCEPT !.queue_depth = Less(@)]

Exited(b) ==
  [b EXCEPT !.queue_depth = Less(@), !.half_open_in_flight = Less(@)]
=============================================================================

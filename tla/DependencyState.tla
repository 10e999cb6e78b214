--------------------------- MODULE DependencyState ---------------------------
(***************************************************************************)
(* What DependencyHealth (deps/health.py) remembers of one dependency      *)
(* (`_LiveState`) and what an observation makes of it.  `failed` stands    *)
(* for last_failure_at being set; times, reasons and metrics are left out. *)
(***************************************************************************)
EXTENDS Naturals

CONSTANTS
  FailThreshold,      \* failures in a row that a probe needs to condemn
  RecoveryThreshold   \* successes in a row that a failed dependency needs

ASSUME ThresholdAssumption ==
  FailThreshold \in Nat \ {0} /\ RecoveryThreshold \in Nat \ {0}

HEALTHY    == "healthy"
SUSPECT    == "suspect"
UNHEALTHY  == "unhealthy"
RECOVERING == "recovering"

LiveStates ==
  [ status                : {HEALTHY, SUSPECT, UNHEALTHY, RECOVERING},
    consecutive_failures  : 0..FailThreshold,   \* saturates: only compared
    consecutive_successes : Nat,
    failed                : BOOLEAN ]

\* A mandatory dependency before anything has been observed of it.
Unprobed ==
  [ status |-> UNHEALTHY, consecutive_failures |-> 0,
    consecutive_successes |-> 0, failed |-> FALSE ]

\* _compute_serving_ready, for a mandatory dependency
Ready(l) == l.status \notin {UNHEALTHY, RECOVERING}

Healthy(l) ==
  [l EXCEPT !.status = HEALTHY, !.consecutive_failures = 0, !.consecutive_successes = 0]

\* X_Mistake is a plausible mistake in X, used to test the properties.
OnSuccess_AtOnce(l) == Healthy(l)

OnSuccess_StartsOver(l) ==
  LET counted == [l EXCEPT !.consecutive_failures = 0, !.consecutive_successes = 1]
  IN  IF \/ l.status \in {HEALTHY, SUSPECT}
         \/ l.status = UNHEALTHY /\ ~l.failed
         \/ counted.consecutive_successes >= RecoveryThreshold
      THEN Healthy(l)
      ELSE [counted EXCEPT !.status = RECOVERING]

\* _on_success: one success clears a suspicion, or a start without failures.
OnSuccess(l) ==
  LET counted == [l EXCEPT !.consecutive_failures = 0, !.consecutive_successes = @ + 1]
  IN  IF \/ l.status \in {HEALTHY, SUSPECT}
         \/ l.status = UNHEALTHY /\ ~l.failed
         \/ counted.consecutive_successes >= RecoveryThreshold
      THEN Healthy(l)
      ELSE [counted EXCEPT !.status = RECOVERING]

\* _on_failure: of a request (serving) at once, of a probe after FailThreshold.
OnFailure(l, serving) ==
  LET failures == IF l.consecutive_failures < FailThreshold
                  THEN l.consecutive_failures + 1 ELSE FailThreshold
  IN  [l EXCEPT !.failed = TRUE,
                !.consecutive_successes = 0,
                !.consecutive_failures = failures,
                !.status = IF serving \/ failures >= FailThreshold \/ @ = RECOVERING
                           THEN UNHEALTHY
                           ELSE IF @ = HEALTHY THEN SUSPECT ELSE @]
=============================================================================

----------------------------- MODULE RedisBreaker -----------------------------
(***************************************************************************)
(* The circuit breaker that workers share through Redis                    *)
(* (RedisHealthTracker, storage/redis.py), for one deployment.  Every      *)
(* method takes a Redis lock, reads the JSON record, changes it and writes *)
(* it back with a time to live; the lock expires on its own, and so does a *)
(* record nobody writes.  Only the queue depth is kept per worker.         *)
(*                                                                         *)
(* The record has the fields of BreakerState, except that nothing ever     *)
(* counts its half_open_in_flight (the half-open breaker admits everybody) *)
(* and that opened_at is read off the clock of the worker that opened: it  *)
(* is kept as `age` since then and `by`, the worker.                       *)
(***************************************************************************)
EXTENDS BreakerState

CONSTANTS
  Workers, NoWorker,
  Offset,      \* Offset[w]: what the monotonic clock of w shows ahead of the others
  Ttl          \* ticks a record outlives its last write (ttl_s)

ASSUME RedisBreakerAssumption ==
  /\ NoWorker \notin Workers
  /\ Offset \in [Workers -> Nat]
  /\ Ttl \in Nat \ {0}

VARIABLES
  record,   \* the JSON record, _empty() when there is none
  idle,     \* ticks since it was written
  lock,     \* the worker whose token the lock holds, or NoWorker
  worker    \* worker[w]: phase, of its request; op, the method it is in, with
            \* data, the record it has read, and overtaken (history): whether its
            \* lock or the record was lost meanwhile, or written by a worker that
            \* had lost the lock

vars == <<record, idle, lock, worker>>

MaxAge == OpenDuration + Ttl

Phases == {"idle", "running", "streaming"}
Ops    == {"none", "admits", "success", "failure", "hold", "release"}

Records ==
  [ state : States, samples : 0..MinimumSamples, ewma_error : Int,
    consecutive_failures : 0..ConsecutiveFailures, half_open_successes : Nat,
    held_open : BOOLEAN, age : 0..MaxAge, by : Workers \union {NoWorker} ]

Empty ==
  [ state |-> CLOSED, samples |-> 0, ewma_error |-> Unmeasured,
    consecutive_failures |-> 0, half_open_successes |-> 0, held_open |-> FALSE,
    age |-> 0, by |-> NoWorker ]

Between == [phase |-> "idle", op |-> "none", data |-> Empty, overtaken |-> FALSE]

Init ==
  /\ record = Empty /\ idle = 0
  /\ lock = NoWorker
  /\ worker = [w \in Workers |-> Between]

-----------------------------------------------------------------------------
\* What each method makes of the record it has read

Reopened(b, w) ==
  [b EXCEPT !.state = OPEN, !.age = 0, !.by = w]

Reclosed(b) ==
  [b EXCEPT !.state = CLOSED, !.age = 0, !.by = NoWorker,
            !.half_open_successes = 0, !.held_open = FALSE]

AfterSuccess(b) ==
  LET seen == [b EXCEPT !.samples = Saturate(@ + 1, MinimumSamples),
                        !.consecutive_failures = 0,
                        !.ewma_error = Blend(@, 0)]
      probed == [seen EXCEPT !.half_open_successes = @ + 1]
  IN  IF b.state # HALF_OPEN THEN seen
      ELSE IF probed.half_open_successes >= HalfOpenSuccesses THEN Reclosed(probed)
      ELSE probed

AfterFailure(b, w) ==
  LET seen == [b EXCEPT !.samples = Saturate(@ + 1, MinimumSamples),
                        !.consecutive_failures = Saturate(@ + 1, ConsecutiveFailures),
                        !.ewma_error = Blend(@, Scale)]
  IN  IF b.state = HALF_OPEN THEN [Reopened(seen, w) EXCEPT !.half_open_successes = 0]
      ELSE IF b.state = CLOSED /\ (TrippedByStreak(seen) \/ TrippedByRate(seen))
      THEN Reopened(seen, w)
      ELSE seen

\* clock() - opened_at, where the two clocks may belong to different hosts.
SinceOpened(b, w) == b.age + Offset[w] - (IF b.by = NoWorker THEN 0 ELSE Offset[b.by])

MayProbe(b, w) == b.state = OPEN /\ ~b.held_open /\ SinceOpened(b, w) >= OpenDuration

\* Mistake: the hold is not looked at.
AfterAsking_IgnoresHold(b, w) ==
  IF b.state = OPEN /\ SinceOpened(b, w) >= OpenDuration
  THEN [b EXCEPT !.state = HALF_OPEN, !.half_open_successes = 0, !.age = 0, !.by = NoWorker]
  ELSE b

\* admits(); opened_at is of no more use in the half-open state.
AfterAsking(b, w) ==
  IF MayProbe(b, w)
  THEN [b EXCEPT !.state = HALF_OPEN, !.half_open_successes = 0, !.age = 0, !.by = NoWorker]
  ELSE b

Granted(b) == b.state # OPEN

Left(op, b, w) ==
  CASE op = "admits"  -> AfterAsking(b, w)
    [] op = "success" -> AfterSuccess(b)
    [] op = "failure" -> AfterFailure(b, w)
    [] op = "hold"    -> [Reopened(b, w) EXCEPT !.held_open = TRUE]
    [] op = "release" -> [Reclosed(b) EXCEPT !.consecutive_failures = 0]

-----------------------------------------------------------------------------
\* The steps of a worker

\* What a worker may call, and where its request is then: the first event of a
\* stream is a success, after which only a failure is recorded.
Calls(phase) ==
  {<<"hold", phase>>, <<"release", phase>>}
    \union (CASE phase = "idle"      -> {<<"admits", "idle">>}
              [] phase = "running"   -> {<<"success", "idle">>, <<"failure", "idle">>,
                                         <<"success", "streaming">>}
              [] phase = "streaming" -> {<<"failure", "idle">>})

\* Mistake: the lock is not waited for.
LockFree_Unheeded == lock \in Workers \union {NoWorker}

LockFree == lock = NoWorker

\* SET NX, then GET.  A call that cannot get the lock in two seconds raises and
\* has changed nothing.
Begin(w) ==
  /\ worker[w].op = "none" /\ LockFree
  /\ \E call \in Calls(worker[w].phase) :
       worker' = [worker EXCEPT ![w] = [phase |-> call[2], op |-> call[1],
                                        data |-> record, overtaken |-> FALSE]]
  /\ lock' = w
  /\ UNCHANGED <<record, idle>>

\* Mistake: admits() writes the record back in any case.
Writes_Always(op, b, left) == op # "none"

Writes(op, b, left) == op # "admits" \/ left # b

\* SET with the time to live (admits() writes only what it changed), then the lock
\* is deleted if the token in it is still this worker's.
Finish(w) ==
  LET b == worker[w].data
      left == Left(worker[w].op, b, w)
      writes == Writes(worker[w].op, b, left)
  IN  /\ worker[w].op # "none"
      /\ record' = IF writes THEN left ELSE record
      /\ idle' = IF writes THEN 0 ELSE idle
      /\ lock' = IF lock = w THEN NoWorker ELSE lock
      /\ worker' = [v \in Workers |->
           IF v = w
           THEN [Between EXCEPT !.phase = IF worker[w].op = "admits" /\ Granted(left)
                                          THEN "running" ELSE worker[w].phase]
           ELSE [worker[v] EXCEPT !.overtaken = worker[v].op # "none" /\ (@ \/ lock # w)]]

\* A request ends with nothing recorded: not reached, cancelled, stream finished.
Drop(w) ==
  /\ worker[w].phase # "idle" /\ worker[w].op = "none"
  /\ worker' = [worker EXCEPT ![w].phase = "idle"]
  /\ UNCHANGED <<record, idle, lock>>

\* reset() deletes the record without asking for the lock.
Reset ==
  /\ record' = Empty /\ idle' = 0
  /\ worker' = [w \in Workers |-> [worker[w] EXCEPT !.overtaken = worker[w].op # "none"]]
  /\ UNCHANGED lock

-----------------------------------------------------------------------------
\* Redis, time and crashes

\* The lock's time is up under a worker that is slow (redis_lock); a lock deleted
\* by a worker that read its own token just before looks the same.
LockExpires ==
  /\ lock # NoWorker
  /\ lock' = NoWorker
  /\ worker' = [worker EXCEPT ![lock].overtaken = worker[lock].op # "none"]
  /\ UNCHANGED <<record, idle>>

\* The worker dies in a method; its lock is left to expire.
Crash(w) ==
  /\ worker[w].op # "none"
  /\ worker' = [worker EXCEPT ![w] = Between]
  /\ UNCHANGED <<record, idle, lock>>

Older(b) == IF b.state = OPEN THEN [b EXCEPT !.age = Saturate(@ + 1, MaxAge)] ELSE b

\* Time passes; a record not written for Ttl ticks is gone.
Tick ==
  /\ record # Empty
  /\ LET gone == idle + 1 >= Ttl IN
     /\ record' = IF gone THEN Empty ELSE Older(record)
     /\ idle' = IF gone THEN 0 ELSE idle + 1
     /\ worker' = [w \in Workers |-> [worker[w] EXCEPT
          !.data = Older(@),
          !.overtaken = @ \/ (gone /\ worker[w].op # "none")]]
  /\ UNCHANGED lock

Next ==
  \/ \E w \in Workers : Begin(w) \/ Finish(w) \/ Drop(w) \/ Crash(w)
  \/ Reset \/ LockExpires \/ Tick

Spec == Init /\ [][Next]_vars

\* Only time is sure to pass.
FairSpec == Spec /\ WF_vars(Tick)

-----------------------------------------------------------------------------
\* Properties

TypeOK ==
  /\ record \in Records
  /\ idle \in 0..(Ttl - 1)
  /\ lock \in Workers \union {NoWorker}
  /\ worker \in [Workers -> [phase : Phases, op : Ops, data : Records, overtaken : BOOLEAN]]

\* Inductive: a worker that was not overtaken holds the lock and has read what the
\* record still is.
Guarded ==
  \A w \in Workers : worker[w].op # "none" /\ ~worker[w].overtaken =>
    lock = w /\ worker[w].data = record

\* "Two workers cannot GET/modify/SET the breaker past each other": a method
\* leaves the record as if it had run at once when it writes, so no failure, trip
\* or hold recorded by another worker is lost, unless the lock expired, the record
\* expired or reset() ran in the middle of it.
UpdatesAreAtomic ==
  [][\A w \in Workers :
       /\ worker[w].op # "none" /\ ~worker[w].overtaken
       /\ worker'[w].op = "none" /\ record' # record
       => record' = Left(worker[w].op, record, w)]_vars

EndsHold(w) == worker[w].op = "release" \/ worker[w].overtaken

\* A hold that remediation placed is ended by an operator, or by the record's time
\* to live, or by a worker that was overtaken: no traffic, no probe and no clock of
\* another host ends it.
HoldOutlivesTraffic ==
  [][record.held_open /\ ~(record'.held_open /\ record'.state = OPEN) =>
       \/ record' = Empty
       \/ \E w \in Workers : worker[w].op # "none" /\ worker'[w].op = "none" /\ EndsHold(w)]_vars

Forcing == \E w \in Workers : worker[w].op = "hold" /\ worker'[w].op = "none"

\* "State hashes expire so a vanished worker cannot pin a breaker open forever":
\* not even one whose clock is far ahead; unless force_open is called again and
\* again, the breaker keeps leaving the open state.
NobodyPinsOpen == <>[][~Forcing]_vars => []<>(record.state # OPEN)
=============================================================================

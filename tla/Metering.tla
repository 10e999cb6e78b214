------------------------------- MODULE Metering -------------------------------
(***************************************************************************)
(* Usage metering of one worker: DurableMeter (observability/metering.py)  *)
(* over the PostgreSQL ledger and the Redis counters (storage/usage.py),   *)
(* the health of PostgreSQL as the worker sees it (deps/), the admission   *)
(* that health decides (gateway/middleware.py) and the operator's          *)
(* reconciliation (observability/cli.py).                                  *)
(*                                                                         *)
(* record_events is synchronous: while it runs, nothing else of the worker *)
(* does but the thread a probe runs in.  Other workers, whose events share *)
(* the ledger and the counters but nothing else, are left out.             *)
(***************************************************************************)
EXTENDS DependencyState, Sequences, FiniteSets, SequencesExt

CONSTANTS
  Requests,
  EventsOf,          \* EventsOf[r]: one event per attempt, in order; a request that
                     \* attempted nothing is not recorded
  RetryMax,          \* retry_buffer
  AmbiguousCommits,  \* whether a commit may succeed and its answer be lost
  MaxRepairs,        \* how often an operator runs `reconcile --repair`
  MaxCrashes         \* how often the worker may die

Events == UNION {ToSet(EventsOf[r]) : r \in Requests}

ASSUME MeteringAssumption ==
  /\ IsFiniteSet(Requests)
  /\ \A r \in Requests :
       EventsOf[r] \in Seq(Events) /\ EventsOf[r] # <<>> /\ IsInjective(EventsOf[r])
  /\ \A q, r \in Requests : q # r => ToSet(EventsOf[q]) \intersect ToSet(EventsOf[r]) = {}
  /\ {RetryMax, MaxRepairs, MaxCrashes} \subseteq Nat
  /\ AmbiguousCommits \in BOOLEAN

RequestOf(e) == CHOOSE r \in Requests : e \in ToSet(EventsOf[r])

VARIABLES
  up,         \* whether PostgreSQL answers
  rows,       \* usage_events
  counters,   \* the day's Redis hash: invocations, requests
  flagged,    \* requests whose :req: key is set
  live,       \* the worker's _LiveState of PostgreSQL
  probe,      \* "asleep", "asked", "ok" or "failed"
  phase,      \* phase[r]: "new", "running", "recording", "done" or "lost"
  job,        \* progress of record_events
  buffer,     \* _retry
  fate,       \* history: dropped and lost events; crashes
  since,      \* history: what probes did since a request last failed to store
  repair      \* progress of reconcile; history `late`, `done`: see FastCountersTrail

vars == <<up, rows, counters, flagged, live, probe, phase, job, buffer, fate, since, repair>>

\* `retry` is what _flush_retry took out of the buffer, `still` what it will put
\* back, `fresh` the events of the request.
Idle == [at |-> "idle", retry |-> <<>>, still |-> <<>>, fresh |-> <<>>]

Sums(events) ==
  [invocations |-> Cardinality(events), requests |-> Cardinality({RequestOf(e) : e \in events})]

Init ==
  /\ up \in BOOLEAN
  /\ rows = {} /\ counters = Sums({}) /\ flagged = {}
  /\ live = Unprobed /\ probe = "asleep"
  /\ phase = [r \in Requests |-> "new"]
  /\ job = Idle /\ buffer = <<>>
  /\ fate = [dropped |-> {}, lost |-> {}, crashes |-> 0]
  /\ since = "answered"
  /\ repair = [at |-> "idle", runs |-> 0, read |-> Sums({}), late |-> FALSE, done |-> FALSE]

health  == <<live, probe, since>>
stores  == <<rows, counters, flagged>>
meter   == <<job, buffer, fate>>

-----------------------------------------------------------------------------
\* Health of PostgreSQL.  The monitor asks again when the last answer is observed.

Outage == up' = ~up /\ UNCHANGED <<stores, health, phase, meter, repair>>

Ask ==
  /\ probe = "asleep" /\ job.at = "idle"
  /\ probe' = "asked"
  /\ since' = IF since = "none" THEN "asked" ELSE since
  /\ UNCHANGED <<up, stores, live, phase, meter, repair>>

Answer ==
  /\ probe = "asked"
  /\ probe' = IF up THEN "ok" ELSE "failed"
  /\ UNCHANGED <<up, stores, live, since, phase, meter, repair>>

Observe ==
  /\ probe \in {"ok", "failed"} /\ job.at = "idle"
  /\ live' = IF probe = "ok" THEN OnSuccess(live) ELSE OnFailure(live, FALSE)
  /\ probe' = "asleep"
  /\ since' = IF probe = "ok" /\ since = "asked" THEN "answered" ELSE since
  /\ UNCHANGED <<up, stores, phase, meter, repair>>

-----------------------------------------------------------------------------
\* Requests

\* _admit_inference: new work is refused while PostgreSQL is known unhealthy.
Admit(r) ==
  /\ phase[r] = "new" /\ job.at = "idle"
  /\ Ready(live)
  /\ phase' = [phase EXCEPT ![r] = "running"]
  /\ UNCHANGED <<up, stores, health, meter, repair>>

\* record_events begins by taking the whole buffer.
Record(r) ==
  /\ phase[r] = "running" /\ job.at = "idle"
  /\ phase' = [phase EXCEPT ![r] = "recording"]
  /\ job' = [at |-> "insert", retry |-> buffer, still |-> <<>>, fresh |-> EventsOf[r]]
  /\ buffer' = <<>>
  /\ UNCHANGED <<up, stores, health, fate, repair>>

Flushing == job.retry # <<>>
Event    == IF Flushing THEN Head(job.retry) ELSE Head(job.fresh)

\* What fits of `events` goes into the buffer, the rest is dropped.
Buffered(events) ==
  LET all == buffer \o events
  IN  /\ buffer' = SubSeq(all, 1, IF Len(all) <= RetryMax THEN Len(all) ELSE RetryMax)
      /\ fate' = [fate EXCEPT !.dropped = @ \union (ToSet(all) \ ToSet(buffer'))]

\* An operator X_Mistake is a plausible mistake in X, used to test the properties.
NextTask_Forgets(kept) ==
  LET still == IF Flushing /\ kept THEN <<Event>> ELSE job.still
      retry == IF Flushing THEN Tail(job.retry) ELSE <<>>
      fresh == IF Flushing THEN job.fresh ELSE Tail(job.fresh)
  IN  /\ job' = IF retry = <<>> /\ fresh = <<>> THEN Idle
                ELSE [at |-> "insert", retry |-> retry, fresh |-> fresh,
                      still |-> IF retry = <<>> THEN <<>> ELSE still]
      /\ Buffered(IF Flushing THEN (IF retry = <<>> THEN still ELSE <<>>)
                  ELSE IF kept THEN <<Event>> ELSE <<>>)
      /\ phase' = IF job' = Idle
                  THEN [r \in Requests |-> IF phase[r] = "recording" THEN "done" ELSE phase[r]]
                  ELSE phase

\* The event is dealt with; `kept` says that it is to be tried again.  When the
\* last buffered event has been tried, those to keep go back into the buffer.
NextTask(kept) ==
  LET still == IF Flushing /\ kept THEN Append(job.still, Event) ELSE job.still
      retry == IF Flushing THEN Tail(job.retry) ELSE <<>>
      fresh == IF Flushing THEN job.fresh ELSE Tail(job.fresh)
  IN  /\ job' = IF retry = <<>> /\ fresh = <<>> THEN Idle
                ELSE [at |-> "insert", retry |-> retry, fresh |-> fresh,
                      still |-> IF retry = <<>> THEN <<>> ELSE still]
      /\ Buffered(IF Flushing THEN (IF retry = <<>> THEN still ELSE <<>>)
                  ELSE IF kept THEN <<Event>> ELSE <<>>)
      /\ phase' = IF job' = Idle
                  THEN [r \in Requests |-> IF phase[r] = "recording" THEN "done" ELSE phase[r]]
                  ELSE phase

-----------------------------------------------------------------------------
\* UsageLedger.insert and RedisUsageAggregates.apply, for the event at hand

Inserted ==
  /\ job.at = "insert" /\ up /\ Event \notin rows
  /\ rows' = rows \union {Event}
  /\ job' = [job EXCEPT !.at = "apply"]
  /\ UNCHANGED <<up, counters, flagged, health, phase, buffer, fate, repair>>

Duplicate_Counts ==
  /\ job.at = "insert" /\ up /\ Event \in rows
  /\ job' = [job EXCEPT !.at = "apply"]
  /\ UNCHANGED <<up, stores, health, phase, buffer, fate, repair>>

Duplicate ==
  /\ job.at = "insert" /\ up /\ Event \in rows
  /\ NextTask(FALSE)
  /\ UNCHANGED <<up, stores, health, repair>>

\* The database cannot be reached or the answer is lost: a fresh event is
\* deferred and the failure observed; a buffered one is kept, unobserved.
InsertFails ==
  /\ job.at = "insert"
  /\ \/ rows' = rows
     \/ AmbiguousCommits /\ up /\ rows' = rows \union {Event}
  /\ NextTask(TRUE)
  /\ live' = IF Flushing THEN live ELSE OnFailure(live, TRUE)
  /\ since' = IF Flushing THEN since ELSE "none"
  /\ UNCHANGED <<up, counters, flagged, probe, repair>>

\* The pipeline: the counters and the flag of the request, in one transaction.
Pipelined ==
  /\ counters' = [counters EXCEPT !.invocations = @ + 1]
  /\ flagged' = flagged \union {RequestOf(Event)}

Applied ==
  /\ job.at = "apply"
  /\ Pipelined
  /\ IF RequestOf(Event) \in flagged
     THEN NextTask(FALSE)
     ELSE job' = [job EXCEPT !.at = "count"] /\ UNCHANGED <<phase, buffer, fate>>
  /\ UNCHANGED <<up, rows, health, repair>>

\* Redis fails, before or after the pipeline took effect: persisting ignores it,
\* flushing keeps the event although it is stored.
ApplyFails ==
  /\ job.at = "apply"
  /\ Pipelined \/ UNCHANGED <<counters, flagged>>
  /\ NextTask(Flushing)
  /\ UNCHANGED <<up, rows, health, repair>>

\* The request was flagged by this event: HINCRBY requests.
Count ==
  /\ job.at = "count"
  /\ counters' = [counters EXCEPT !.requests = @ + 1]
  /\ NextTask(FALSE)
  /\ UNCHANGED <<up, rows, flagged, health, repair>>

CountFails ==
  /\ job.at = "count"
  /\ counters' \in {counters, [counters EXCEPT !.requests = @ + 1]}
  /\ NextTask(Flushing)
  /\ UNCHANGED <<up, rows, flagged, health, repair>>

-----------------------------------------------------------------------------
\* A crash of the worker, and its successor; the operator

Held == ToSet(buffer) \union ToSet(job.retry) \union ToSet(job.still) \union ToSet(job.fresh)

Crash ==
  /\ fate.crashes < MaxCrashes
  /\ fate' = [fate EXCEPT !.lost = @ \union (Held \ rows), !.crashes = @ + 1]
  /\ phase' = [r \in Requests |->
                 IF phase[r] \in {"running", "recording"} THEN "lost" ELSE phase[r]]
  /\ job' = Idle /\ buffer' = <<>>
  /\ live' = Unprobed /\ probe' = "asleep" /\ since' = "answered"
  /\ UNCHANGED <<up, stores, repair>>

\* reconcile: day_buckets, then snapshot, then replace_day if they differ.
ReadLedger ==
  /\ repair.runs < MaxRepairs /\ up /\ repair.at = "idle"
  /\ repair' = [repair EXCEPT !.at = "compare", !.runs = @ + 1, !.read = Sums(rows),
                              !.late = @ \/ job.at \in {"apply", "count"}]
  /\ UNCHANGED <<up, stores, health, phase, meter>>

Compare ==
  /\ repair.at = "compare"
  /\ repair' = [repair EXCEPT !.at = IF repair.read = counters THEN "idle" ELSE "replace"]
  /\ UNCHANGED <<up, stores, health, phase, meter>>

Replace ==
  /\ repair.at = "replace"
  /\ counters' = repair.read
  /\ repair' = [repair EXCEPT !.at = "idle", !.done = TRUE]
  /\ UNCHANGED <<up, rows, flagged, health, phase, meter>>

-----------------------------------------------------------------------------
Recording == Inserted \/ Duplicate \/ InsertFails \/ Applied \/ ApplyFails \/ Count \/ CountFails

Monitor == Ask \/ Answer \/ Observe

Next ==
  \/ Outage \/ Monitor
  \/ \E r \in Requests : Admit(r) \/ Record(r)
  \/ Recording
  \/ Crash
  \/ ReadLedger \/ Compare \/ Replace

Spec == Init /\ [][Next]_vars

\* Blocking calls return, and the monitor's loop runs on.
FairSpec == Spec /\ WF_vars(Recording) /\ WF_vars(Monitor)

-----------------------------------------------------------------------------
\* Properties

TypeOK ==
  /\ up \in BOOLEAN /\ rows \in SUBSET Events /\ flagged \in SUBSET Requests
  /\ counters \in [invocations : Nat, requests : Nat]
  /\ live \in LiveStates /\ probe \in {"asleep", "asked", "ok", "failed"}
  /\ phase \in [Requests -> {"new", "running", "recording", "done", "lost"}]
  /\ job \in [at : {"idle", "insert", "apply", "count"}, retry : Seq(Events),
              still : Seq(Events), fresh : Seq(Events)]
  /\ (job.at # "idle") = (job.retry # <<>> \/ job.fresh # <<>>)
  /\ job.retry = <<>> => job.still = <<>>
  /\ buffer \in Seq(Events) /\ Len(buffer) <= RetryMax
  /\ fate \in [dropped : SUBSET Events, lost : SUBSET Events, crashes : Nat]
  /\ since \in {"none", "asked", "answered"}
  /\ repair \in [at : {"idle", "compare", "replace"}, runs : Nat,
                 read : [invocations : Nat, requests : Nat], late : BOOLEAN, done : BOOLEAN]

\* What a provider was paid for is not silently forgotten: every event given to
\* record_events is stored, waits in the worker, was counted as dropped, or was
\* held by a worker that died.
NoEventVanishes ==
  \A r \in Requests : phase[r] \in {"recording", "done"} =>
    ToSet(EventsOf[r]) \subseteq rows \union Held \union fate.dropped \union fate.lost

\* "Redis is never incremented for a duplicate event" (metering.py): the counters
\* trail the ledger, whatever is lost, replayed or interrupted.  Repairs may
\* break this: of invocations when the ledger is read between an insert and its
\* increment, of requests in any case.
FastCountersTrail ==
  /\ ~repair.late => counters.invocations <= Sums(rows).invocations
  /\ ~repair.done => counters.requests <= Sums(rows).requests

\* "It is not filled by post-outage generations" (USAGE_METERING.md): after a
\* request failed to store its events, the worker admits no other before a probe
\* sent later than that failure has succeeded; a late answer does not count.
AdmissionIsVouched ==
  [][\A r \in Requests :
       RecoveryThreshold > 1 /\ phase[r] = "new" /\ phase'[r] = "running" =>
         since = "answered"]_vars

\* Readiness follows the database: an outage that lasts is noticed, a recovery
\* that lasts readmits.
ReadinessFollows ==
  /\ <>[]up => <>[]Ready(live)
  /\ <>[]~up => <>[]~Ready(live)
=============================================================================

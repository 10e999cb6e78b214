------------------------------- MODULE Benchmark -------------------------------
(***************************************************************************)
(* A load run (bench/load.py, bench/cli.py): generator processes drive the  *)
(* connections they share out among them, in a closed loop or at a fixed    *)
(* rate, and the parent merges what they collected and judges it; and the   *)
(* timing of a stage in process (bench/stages.py).                          *)
(*                                                                         *)
(* The gateway answers when it likes, fails a request, or refuses to be     *)
(* connected to.  Time is in ticks.                                        *)
(***************************************************************************)
EXTENDS Integers, SequencesExt

CONSTANTS
  Processes,      \* the generator processes
  PerProcess,     \* connections // processes, at least 1
  Interval,       \* ticks between two requests of one connection
  Warmup,         \* warmup_s
  Duration,       \* duration_s
  LateBound,      \* the 50 ms of offered_load_was_met
  MaxErrorRate,   \* --max-error-rate, in percent
  MaxTime,        \* bound on time
  MaxRequests     \* bound on the requests of one connection of the closed loop

VARIABLES
  now,
  mode,       \* "open": at a rate; "closed": as fast as answers come
  conn,       \* conn[p][i]: at ("idle", "ready", "sent", "over"), tick, due next, sent,
              \* when the request in progress was sent, and history count
  part,       \* part[p]: latencies, delays, ok, bad, errors; history slips, how
              \* long after its place in the schedule each request was sent
  process,    \* process[p]: "starting", "driving", "put" or "dead"
  verdict     \* "none", or what the command exits with: "passed", "failed"

vars == <<now, mode, conn, part, process, verdict>>

Offsets == 0..PerProcess - 1
Deadline == Warmup + Duration

\* Connections are spread within one interval.
FirstTick(i) == i * (Interval \div PerProcess)

Scheduled(i, count) == FirstTick(i) + count * Interval

Nobody == [latencies |-> <<>>, delays |-> <<>>, ok |-> 0, bad |-> 0, errors |-> 0, slips |-> <<>>]

Init ==
  /\ now = 0
  /\ mode \in {"open", "closed"}
  /\ conn = [p \in Processes |-> [i \in Offsets |->
               [at |-> "idle", tick |-> FirstTick(i), sent |-> 0, count |-> 0]]]
  /\ part = [p \in Processes |-> Nobody]
  /\ process = [p \in Processes |-> "starting"]
  /\ verdict = "none"

-----------------------------------------------------------------------------
\* A generator process

\* The loops look at the deadline between requests only, at what is due next or at
\* the clock; the closed one sends at once.
MoreToCome(c) == IF mode = "open" THEN c.tick < Deadline ELSE now < Deadline

Looped(c) ==
  IF ~MoreToCome(c) THEN [c EXCEPT !.at = "over"]
  ELSE IF mode = "open" THEN [c EXCEPT !.at = "ready"]
  ELSE [c EXCEPT !.at = "sent", !.sent = now]

Connect(p) ==
  /\ process[p] = "starting"
  /\ process' = [process EXCEPT ![p] = "driving"]
  /\ conn' = [conn EXCEPT ![p] = [i \in Offsets |-> Looped(@[i])]]
  /\ UNCHANGED <<now, mode, part, verdict>>

\* A connection that cannot be opened ends the process before it has put anything.
Die(p) ==
  /\ process[p] = "starting"
  /\ process' = [process EXCEPT ![p] = "dead"]
  /\ UNCHANGED <<now, mode, conn, part, verdict>>

\* A connection of the open loop sleeps until its tick.
Send(p, i) ==
  LET c == conn[p][i] IN
  /\ process[p] = "driving" /\ c.at = "ready" /\ now >= c.tick
  /\ conn' = [conn EXCEPT ![p][i].at = "sent", ![p][i].sent = now]
  /\ UNCHANGED <<now, mode, part, process, verdict>>

\* Mistake: the schedule is reckoned from the answer.
Rescheduled_FromNow(c) == now + Interval

Rescheduled(c) == c.tick + Interval

\* MaxRequests bounds the closed loop, whose last answer comes after the deadline.
Ready(p, i) ==
  LET c == conn[p][i] IN
  /\ mode = "closed" /\ now < Deadline => c.count + 1 < MaxRequests
  /\ conn' = [conn EXCEPT ![p][i] = Looped([c EXCEPT !.tick = Rescheduled(c), !.count = c.count + 1])]

Recorded(s, c, i, ok) ==
  [ latencies |-> Append(s.latencies, now - c.sent),
    ok |-> IF ok THEN s.ok + 1 ELSE s.ok, bad |-> IF ok THEN s.bad ELSE s.bad + 1, errors |-> s.errors,
    delays |-> IF mode = "open" THEN Append(s.delays, c.sent - c.tick) ELSE s.delays,
    slips |-> IF mode = "open" THEN Append(s.slips, c.sent - Scheduled(i, c.count)) ELSE s.slips ]

\* An answer before the warm-up is over is not recorded.
Answer(p, i, ok) ==
  /\ conn[p][i].at = "sent"
  /\ Ready(p, i)
  /\ part' = IF now < Warmup THEN part
             ELSE [part EXCEPT ![p] = Recorded(part[p], conn[p][i], i, ok)]
  /\ UNCHANGED <<now, mode, process, verdict>>

\* A request that fails is counted whenever it does; the connection is used again.
Break(p, i) ==
  /\ conn[p][i].at = "sent"
  /\ Ready(p, i)
  /\ part' = [part EXCEPT ![p].errors = @ + 1]
  /\ UNCHANGED <<now, mode, process, verdict>>

Put(p) ==
  /\ process[p] = "driving" /\ \A i \in Offsets : conn[p][i].at = "over"
  /\ process' = [process EXCEPT ![p] = "put"]
  /\ UNCHANGED <<now, mode, conn, part, verdict>>

-----------------------------------------------------------------------------
\* The parent

Delayed == UNION {{p} \X DOMAIN part[p].delays : p \in Processes}

Delay(d) == part[d[1]].delays[d[2]]

\* The place of a percentile among n sorted values; round() goes to the even of two
\* that are as near.
Place(percent, n) ==
  LET below == (percent * (n - 1)) \div 100
      rest  == (percent * (n - 1)) % 100
  IN  IF rest > 50 \/ (rest = 50 /\ below % 2 = 1) THEN below + 2 ELSE below + 1

\* _percentile of the delays: the value at that place among them.
Percentile(percent) ==
  LET place == Place(percent, Cardinality(Delayed))
  IN  CHOOSE v \in {Delay(d) : d \in Delayed} :
        /\ Cardinality({d \in Delayed : Delay(d) < v}) < place
        /\ place <= Cardinality({d \in Delayed : Delay(d) <= v})

\* error_rate, in percent: 0 when nothing was recorded.
ErrorRate ==
  LET Sum(of) == FoldFunction(+, 0, of)
      good    == Sum([p \in Processes |-> part[p].ok])
      total   == Sum([p \in Processes |-> Len(part[p].latencies) + part[p].errors])
  IN  IF total = 0 THEN 0 ELSE ((total - good) * 100) \div total

\* offered_load_was_met is False (and not None).
FellBehind == mode = "open" /\ Delayed # {} /\ Percentile(99) >= LateBound

\* run_load waits for as many parts as it started processes.
Judge ==
  /\ verdict = "none"
  /\ \A p \in Processes : process[p] = "put"
  /\ verdict' = IF ErrorRate > MaxErrorRate \/ FellBehind THEN "failed" ELSE "passed"
  /\ UNCHANGED <<now, mode, conn, part, process>>

Tick ==
  /\ verdict = "none" /\ now < MaxTime
  /\ now' = now + 1
  /\ UNCHANGED <<mode, conn, part, process, verdict>>

Next ==
  \/ \E p \in Processes : Connect(p) \/ Die(p) \/ Put(p)
  \/ \E p \in Processes, i \in Offsets :
       Send(p, i) \/ Break(p, i) \/ \E ok \in BOOLEAN : Answer(p, i, ok)
  \/ Judge \/ Tick

Spec == Init /\ [][Next]_vars

-----------------------------------------------------------------------------
\* Properties

\* A run at a rate that passes did offer that rate: however long the gateway let
\* connections wait, but for one in a hundred of the requests it recorded (a percentile
\* cannot tell, and none of fifty) each was sent within the bound of the time the
\* schedule had for it from the start, so a stall of the gateway cannot thin out the
\* load that is meant to show it.
PassingWasOffered ==
  LET recorded == UNION {{p} \X DOMAIN part[p].slips : p \in Processes}
      late     == {s \in recorded : part[s[1]].slips[s[2]] >= LateBound}
  IN  verdict = "passed" => 100 * Cardinality(late) <= Cardinality(recorded) + 49
=============================================================================

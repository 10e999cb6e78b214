----------------------------- MODULE UsageReports -----------------------------
(***************************************************************************)
(* The usage report of a worker (gateway/routes/usage.py) as its two meters  *)
(* give it (observability/metering.py): the one in memory keeps a record per *)
(* request next to the events of its attempts; the durable one has the       *)
(* events only (storage/usage.py) and derives the records.                   *)
(*                                                                         *)
(* An attempt is [id, model, error, depth, prompt, completion, source, cost, *)
(* completed], a decision [request, tenant, user, attempts].  What the route *)
(* saw of it is [prompt, completion, reported, price, error].                *)
(***************************************************************************)
EXTENDS Integers, FiniteSets, SequencesExt

CONSTANT BufferSize     \* requests an InMemoryMeter keeps, with four times as many events

LOCAL None == <<>>
LOCAL OrZero(x) == IF x = None THEN 0 ELSE x[1]

Sum(rows, field) == FoldLeft(LAMBDA sum, row : sum + row[field], 0, rows)
Newest(n, rows)  == IF Len(rows) <= n THEN rows ELSE SubSeq(rows, Len(rows) - n + 1, Len(rows))
First(n, rows)   == IF Len(rows) <= n THEN rows ELSE SubSeq(rows, 1, n)

-----------------------------------------------------------------------------
\* What is metered when a request ends

TokenSourceForProvider(reported, known) ==
  IF reported /\ known THEN "PROVIDER_MEASURED"
  ELSE IF known THEN "LOCAL_TOKENIZER_ESTIMATE"
  ELSE "UNAVAILABLE"

TokenSource(seen) ==
  TokenSourceForProvider(seen.reported, seen.reported \/ seen.prompt > 0 \/ seen.completion > 0)

\* The last attempt is given what the route saw, the others keep what they noted.
EventsFromDecision(d, seen) ==
  LET Final(i) == i = Len(d.attempts)
      Status(i) ==
        IF Final(i) /\ seen.error = <<"cancelled">> THEN "cancelled"
        ELSE IF d.attempts[i].error \/ (Final(i) /\ seen.error # None) THEN "error"
        ELSE "success"
  IN  [ i \in DOMAIN d.attempts |->
          [ event_id       |-> d.attempts[i].id,
            request        |-> d.request,
            tenant         |-> d.tenant,
            user           |-> d.user,
            model          |-> d.attempts[i].model,
            prompt         |-> IF Final(i) THEN seen.prompt ELSE d.attempts[i].prompt,
            completion     |-> IF Final(i) THEN seen.completion ELSE d.attempts[i].completion,
            source         |-> IF Final(i) THEN TokenSource(seen) ELSE d.attempts[i].source,
            cost           |-> d.attempts[i].cost,
            completed      |-> d.attempts[i].completed,
            status         |-> Status(i),
            depth          |-> d.attempts[i].depth,
            attempt_number |-> i ] ]

\* RouteDecision.failover_count counts failed attempts, a last one that failed too.
FailoverCount(d) == Cardinality({i \in DOMAIN d.attempts : d.attempts[i].error})

\* The UsageRecord of _meter.
RecordOf(d, seen) ==
  [ request     |-> d.request,
    tenant      |-> d.tenant,
    user        |-> d.user,
    model       |-> d.attempts[Len(d.attempts)].model,
    prompt      |-> seen.prompt,
    completion  |-> seen.completion,
    cost        |-> OrZero(seen.price) * (seen.prompt + seen.completion),
    estimated   |-> IF seen.reported THEN 0 ELSE 1,
    failovers   |-> FailoverCount(d),
    invocations |-> Len(d.attempts) ]

-----------------------------------------------------------------------------
\* Sums over events and over records

TotalsFromEvents(events) ==
  LET Having(sources) == Len(SelectSeq(events, LAMBDA e : e.source \in sources))
  IN  [ invocations |-> Len(events),
        requests    |-> Cardinality({events[i].request : i \in DOMAIN events}),
        prompt      |-> Sum(events, "prompt"),
        completion  |-> Sum(events, "completion"),
        cost        |-> FoldLeft(LAMBDA sum, e : sum + OrZero(e.cost), 0, events),
        measured    |-> Having({"PROVIDER_MEASURED"}),
        estimated   |-> Having({"LOCAL_TOKENIZER_ESTIMATE", "DERIVED"}),
        unavailable |-> Having({"UNAVAILABLE"}),
        failovers   |-> Len(SelectSeq(events, LAMBDA e : e.depth > 0 \/ e.attempt_number > 1)) ]

Totals(records) ==
  [requests |-> Len(records)]
    @@ [field \in {"prompt", "completion", "cost", "estimated", "failovers"} |-> Sum(records, field)]

-----------------------------------------------------------------------------
\* InMemoryMeter: [events, records], the newest last; the oldest fall out

RecordEvents(meter, events) ==
  LET known == {meter.events[i].event_id : i \in DOMAIN meter.events}
      fresh == SelectSeq(events, LAMBDA e : e.event_id \notin known)
  IN  [meter EXCEPT !.events = Newest(4 * BufferSize, @ \o fresh)]

Record(meter, record) == [meter EXCEPT !.records = Newest(BufferSize, Append(@, record))]

Snapshot(rows, tenant, user) ==
  SelectSeq(rows, LAMBDA r : (tenant # None => <<r.tenant>> = tenant) /\ (user # None => r.user = user))

Recent(meter, limit, tenant, user) == Reverse(Newest(limit, Snapshot(meter.records, tenant, user)))

RecentEvents(meter, limit, tenant, user) == Reverse(Newest(limit, Snapshot(meter.events, tenant, user)))

InvocationTotals(meter, tenant, user) ==
  LET events == Snapshot(meter.events, tenant, user)
      records == Snapshot(meter.records, tenant, user)
      estimated == Sum(records, "estimated")
  IN  IF events # <<>> THEN TotalsFromEvents(events)
      ELSE [invocations |-> Len(records), measured |-> Len(records) - estimated, unavailable |-> 0]
             @@ Totals(records)

-----------------------------------------------------------------------------
\* DurableMeter, over the rows of the ledger: a set of events

Insert(rows, event) ==
  IF \E row \in rows : row.event_id = event.event_id THEN rows ELSE rows \union {event}

ListEvents(rows, limit, tenant, user) ==
  LET seen == {r \in rows : (tenant # None => <<r.tenant>> = tenant) /\ (user # None => r.user = user)}
  IN  First(limit, SetToSortSeq(seen, LAMBDA a, b : a.completed > b.completed))

\* A request's row shows its last successful attempt, or its last one, and every
\* attempt's cost; the newest first.
RecordFromGroup(group) ==
  LET good == {i \in DOMAIN group : group[i].status = "success"}
      visible == group[IF good = {} THEN Len(group) ELSE CHOOSE i \in good : \A j \in good : j <= i]
  IN  [ request     |-> visible.request,
        tenant      |-> visible.tenant,
        user        |-> visible.user,
        model       |-> visible.model,
        prompt      |-> visible.prompt,
        completion  |-> visible.completion,
        cost        |-> FoldLeft(LAMBDA sum, e : sum + OrZero(e.cost), 0, group),
        estimated   |-> IF visible.source = "PROVIDER_MEASURED" THEN 0 ELSE 1,
        failovers   |-> Len(group) - 1,
        invocations |-> Len(group) ]

RecordsFromEvents(events) ==
  LET Group(r) == SortSeq(SelectSeq(events, LAMBDA e : e.request = r),
                          LAMBDA a, b : a.attempt_number < b.attempt_number)
      created(r) == Group(r)[Len(Group(r))].completed
      requests == SetToSortSeq({events[i].request : i \in DOMAIN events},
                               LAMBDA q, r : created(q) > created(r))
  IN  [i \in DOMAIN requests |-> RecordFromGroup(Group(requests[i]))]

\* Enough events for the rows asked for, as long as no request has more than eight.
DurableRecent(rows, limit, tenant, user) ==
  First(limit, RecordsFromEvents(
                 ListEvents(rows, IF 8 * limit > 200 THEN 8 * limit ELSE 200, tenant, user)))

DurableRecentEvents(rows, limit, tenant, user) == ListEvents(rows, limit, tenant, user)

DurableTotals(rows, tenant, user) == Totals(DurableRecent(rows, 1000000, tenant, user))

DurableInvocationTotals(rows, tenant, user) ==
  TotalsFromEvents(ListEvents(rows, 1000000, tenant, user))

-----------------------------------------------------------------------------
\* Properties

\* The report does not depend on whether there is a database: of any requests, each
\* with an id of its own, both meters give the same sums over invocations, to the fleet
\* and to every tenant and user, and tell the same of each request that was answered.
\* (Of one that failed or was cancelled they differ: see FailoverCount and the cost.)
MetersAgree(metered, tenants, users) ==
  LET Memory == FoldLeft(LAMBDA m, c : Record(RecordEvents(m, EventsFromDecision(c.d, c.seen)), RecordOf(c.d, c.seen)),
                         [events |-> <<>>, records |-> <<>>], metered)
      Rows == FoldLeft(LAMBDA rows, c : FoldLeft(Insert, rows, EventsFromDecision(c.d, c.seen)), {}, metered)
      answered == {metered[i].d.request : i \in {j \in DOMAIN metered : metered[j].seen.error = None}}
      Told(records) == {r \in ToSet(records) : r.request \in answered}
  IN  \A t \in tenants, u \in users :
        /\ InvocationTotals(Memory, t, u) = DurableInvocationTotals(Rows, t, u)
        /\ ToSet(RecentEvents(Memory, 9, t, u)) = ToSet(DurableRecentEvents(Rows, 9, t, u))
        /\ Told(Recent(Memory, 9, t, u)) = Told(DurableRecent(Rows, 9, t, u))
        /\ answered = {c.d.request : c \in ToSet(metered)} =>
             Totals(Snapshot(Memory.records, t, u)) = DurableTotals(Rows, t, u)
=============================================================================

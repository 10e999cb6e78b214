------------------------------ MODULE Evaluation ------------------------------
(***************************************************************************)
(* Evaluation suites and release gates (eval/): tasks score examples, a run   *)
(* is compared with a baseline, and gates decide whether it may be released. *)
(*                                                                         *)
(* Pure.  A value that may be missing is an option; a score is 0..100, a      *)
(* mean is rounded down.  An example is [id, expected, output]; how a metric  *)
(* judges an output against the expected text is a parameter.               *)
(***************************************************************************)
EXTENDS Integers, SequencesExt

CONSTANTS
  Says(_, _, _),   \* Says(metric, expected, output): the score of an output, or None
  Supported        \* Supported[evaluator]: the metrics an evaluator knows

LOCAL None == <<>>
LOCAL Present(options) == {o \in options : o # None}

Nothing(metrics) == [m \in metrics |-> None]

LOCAL SumOf(values) == FoldSeq(LAMBDA v, sum : v[1] + sum, 0, values)

\* Mistake: a missing score counts as a zero.
Mean_OfAll(scores) ==
  IF scores = <<>> THEN None
  ELSE <<FoldSeq(LAMBDA v, sum : (IF v = None THEN 0 ELSE v[1]) + sum, 0, scores) \div Len(scores)>>

\* A mean is over the scores there are.
Mean(scores) ==
  LET there == SelectSeq(scores, LAMBDA v : v # None)
  IN  IF there = <<>> THEN None ELSE <<SumOf(there) \div Len(there)>>

-----------------------------------------------------------------------------
\* Evaluators: a result is [metrics, unavailable]

\* deterministic.evaluate: without an output there is no score, without a label only
\* well-formedness has one.
ScoreExample(metric, example) ==
  IF example.output = None \/ (example.expected = None /\ metric # "json_valid") THEN None
  ELSE Says(metric, example.expected, example.output[1])

EvaluateDeterministic(examples, metrics) ==
  [metrics |-> [m \in metrics \cap Supported["deterministic"] |->
                  Mean([i \in DOMAIN examples |-> ScoreExample(m, examples[i])])],
   unavailable |-> metrics \ Supported["deterministic"]]

\* judge.evaluate: what the judge says counts when it is a number between 0 and 1.
Graded(example, judged) ==
  IF example.output = None \/ example.expected = None THEN None
  ELSE IF judged[example.id] # None /\ judged[example.id][1] \in 0..100 THEN judged[example.id]
  ELSE None

EvaluateJudge(examples, metrics, judge) ==
  IF judge = None THEN [metrics |-> Nothing(metrics), unavailable |-> metrics]
  ELSE [metrics |-> [m \in metrics \cap Supported["judge"] |->
                       Mean([i \in DOMAIN examples |-> Graded(examples[i], judge[1])])],
        unavailable |-> metrics \ Supported["judge"]]

\* classification.evaluate: what the benchmark reports.
EvaluateClassification(report, metrics) ==
  [metrics |-> [m \in metrics \cap Supported["classification"] |->
                  IF m \in DOMAIN report THEN report[m] ELSE None],
   unavailable |-> metrics \ Supported["classification"]]

\* The adapters: a library that is missing or fails gives no score.
EvaluateDeepEval(examples, metrics, installed) ==
  LET labelled == SelectSeq(examples, LAMBDA e : e.expected # None /\ e.output # None)
      exact == IF "exact_match" \in metrics
               THEN Mean([i \in DOMAIN labelled |-> ScoreExample("exact_match", labelled[i])]) ELSE None
  IN  IF ~installed \/ exact = None THEN [metrics |-> Nothing(metrics), unavailable |-> metrics]
      ELSE [metrics |-> [Nothing(metrics) EXCEPT !["exact_match"] = exact],
            unavailable |-> metrics \ {"exact_match"}]

EvaluateHarness(named, scores) ==
  LET Score(n) == IF scores # None /\ n \in DOMAIN scores[1] THEN <<scores[1][n]>> ELSE None
  IN  [metrics |-> [n \in named |-> Score(n)], unavailable |-> {n \in named : Score(n) = None}]

-----------------------------------------------------------------------------
\* Routing: a plan is [selected, ranked, excluded]; a spec [id, cost, latency, quality,
\* grade, capabilities], the middle four options

LOCAL Less(a, b) == IF a = None \/ b = None THEN None ELSE <<a[1] - b[1]>>
LOCAL Holds(b) == IF b THEN <<100>> ELSE <<0>>

\* The expected deployment has numbers only where the plan ranks it.
DeclaredRegret(case, plan, feature) ==
  LET there == {s \in ToSet(plan.ranked) : <<s.id>> = case.expected_model}
      expected == CHOOSE s \in there : TRUE
  IN  IF there = {} \/ plan.selected = None THEN None
      ELSE IF feature = "quality" THEN Less(expected.quality, plan.selected[1].quality)
      ELSE Less(plan.selected[1][feature], expected[feature])

\* By how much the selected grade is above another.
Above(plan, grade) ==
  IF plan.selected = None \/ grade = None THEN None
  ELSE IF plan.selected[1].grade = None THEN None
  ELSE <<plan.selected[1].grade[1] - grade[1]>>

TooHigh(plan, grade) == IF Above(plan, grade) = None THEN None ELSE Holds(Above(plan, grade)[1] > 0)
TooLow(plan, grade)  == IF Above(plan, grade) = None THEN None ELSE Holds(Above(plan, grade)[1] < 0)

LOCAL Or(a, b) == IF a # None THEN a ELSE b

RoutingScore(metric, case, plan) ==
  CASE metric = "route_match" ->
         IF case.expected_model = None THEN None
         ELSE Holds(plan.selected # None /\ <<plan.selected[1].id>> = case.expected_model)
    [] metric = "fallback_rate" ->
         IF case.failovers = None THEN None ELSE Holds(case.failovers[1] > 0)
    [] metric = "unnecessary_escalation_rate" -> TooHigh(plan, Or(case.max_grade, case.grade))
    [] metric = "underpowered_rate" -> TooLow(plan, Or(case.min_grade, case.grade))
    [] metric = "overpowered_rate" -> TooHigh(plan, case.grade)
    [] metric \in {"cost", "latency", "quality"} -> DeclaredRegret(case, plan, metric)

EvaluateRouting(cases, plans, metrics) ==
  [metrics |-> [m \in metrics \cap Supported["routing"] |->
                  Mean([i \in DOMAIN cases |-> RoutingScore(m, cases[i], plans[i])])],
   unavailable |-> metrics \ Supported["routing"]]

\* routing_quality: was something cheaper that was also eligible left aside?
Overrouting(plan) ==
  LET others == {s \in ToSet(plan.ranked) : s.id # plan.selected[1].id /\ s.cost # None}
  IN  IF plan.selected = None THEN None
      ELSE IF plan.selected[1].cost = None \/ others = {} THEN None
      ELSE Holds(\E s \in others : s.cost[1] < plan.selected[1].cost[1])

Underrouting(plan, required) ==
  IF plan.selected = None THEN None
  ELSE Holds(/\ ~(required \subseteq plan.selected[1].capabilities)
             /\ \E s \in ToSet(plan.ranked) : required \subseteq s.capabilities)

CostRegret(selected, alternatives) ==
  LET known == {s.cost[1] : s \in {s \in alternatives : s.cost # None}}
  IN  IF selected.cost = None \/ known = {} THEN None
      ELSE <<selected.cost[1] - CHOOSE c \in known : \A d \in known : c <= d>>

PolicyRules == {"model_denied", "provider_not_permitted", "grade_above_maximum"}

SummarizePlans(plans, required, failovers) ==
  LET Rate(Is(_)) == Mean([i \in DOMAIN plans |-> Is(i)])
      Excluding(rules) == Rate(LAMBDA i : Holds(plans[i].excluded \cap rules # {}))
  IN  [route_success_rate |-> Rate(LAMBDA i : Holds(plans[i].selected # None)),
       overrouting_rate |-> Rate(LAMBDA i : Overrouting(plans[i])),
       underrouting_rate |-> Rate(LAMBDA i : Underrouting(plans[i], required[i])),
       fallback_rate |-> Rate(LAMBDA i : IF failovers[i] = None THEN None ELSE Holds(failovers[i][1] > 0)),
       escalation_rate |-> Excluding({"tier_not_preferred"}),
       capability_mismatch_rate |-> Excluding({"missing_capability"}),
       policy_rejection_rate |-> Excluding(PolicyRules),
       context_rejection_rate |-> Excluding({"context_too_small"}),
       provider_unavailable_rate |-> Excluding({"circuit_open"})]

-----------------------------------------------------------------------------
\* Runs, comparisons, gates

\* A run is a sequence of results.  The first task that names a metric speaks for it ...
MetricOf(run, name) ==
  LET telling == {i \in DOMAIN run : name \in DOMAIN run[i].metrics}
  IN  IF telling = {} THEN None
      ELSE run[CHOOSE i \in telling : \A j \in telling : i <= j].metrics[name]

\* ... but a merge of all keeps the last.
AllMetrics(run) == FoldLeft(LAMBDA all, result : result.metrics @@ all, <<>>, run)

\* compare_runs, and whether the two are of the same data and formulas.
Compare(baseline, candidate) ==
  [name \in DOMAIN AllMetrics(baseline) \union DOMAIN AllMetrics(candidate) |->
    [baseline |-> MetricOf(baseline, name), candidate |-> MetricOf(candidate, name),
     delta |-> Less(MetricOf(candidate, name), MetricOf(baseline, name))]]

\* A gate is [metric, higher, kind, minimum, maximum, degradation, critical].
Kind(gate) ==
  IF gate.kind # None THEN gate.kind[1]
  ELSE IF gate.degradation # None /\ gate.minimum = None /\ gate.maximum = None THEN "regression"
  ELSE "absolute"

\* What is not measured, or has nothing to be held against, fails.
Passed(gate, value, baseline) ==
  /\ value # None
  /\ IF Kind(gate) = "absolute"
     THEN /\ gate.minimum # None \/ gate.maximum # None
          /\ gate.minimum # None => value[1] >= gate.minimum[1]
          /\ gate.maximum # None => value[1] <= gate.maximum[1]
     ELSE /\ gate.degradation # None /\ baseline # None
          /\ LET drop == IF gate.higher THEN baseline[1] - value[1] ELSE value[1] - baseline[1]
             IN  drop <= gate.degradation[1]

\* llm-fabric-eval gate: may this be released?
Released(candidate, baseline, gates) ==
  \A g \in gates :
    g.critical => Passed(g, MetricOf(candidate, g.metric),
                         IF g.metric \in DOMAIN Compare(baseline, candidate)
                         THEN Compare(baseline, candidate)[g.metric].baseline ELSE None)

-----------------------------------------------------------------------------
\* Properties

\* Nothing is released on a number nobody measured: where a gate on a metric is passed,
\* some example had a label and an output, and the value is the mean over those alone,
\* whatever examples without one stand beside them.  Measured, a run passes every
\* regression gate against itself.
ReleasesAreMeasured(examples, metric, gate) ==
  LET run == <<EvaluateDeterministic(examples, {metric})>>
      labelled == SelectSeq(examples, LAMBDA e : e.expected # None /\ e.output # None)
      Alone == <<EvaluateDeterministic(labelled, {metric})>>
  IN  /\ Released(run, run, {gate}) /\ gate.critical =>
           labelled # <<>> /\ MetricOf(run, metric) = MetricOf(Alone, metric)
      /\ MetricOf(run, metric) # None /\ Kind(gate) = "regression" /\ gate.degradation # None =>
           Released(run, run, {gate})

\* No evaluator, asked for several metrics, lets a gate pass on one it calls unavailable:
\* a missing judge or library, a failure of it, or a metric it has never heard of.  Where
\* the library is there it scores an exact match like the grader that has none.
UnavailableIsNotReleased(examples, metrics, judged, gate) ==
  LET own == EvaluateDeterministic(examples, metrics)
      deepeval == EvaluateDeepEval(examples, metrics, TRUE)
      results == { own, deepeval, EvaluateDeepEval(examples, metrics, FALSE),
                   EvaluateJudge(examples, metrics, None), EvaluateJudge(examples, metrics, <<judged>>),
                   EvaluateClassification([m \in metrics |-> None], metrics),
                   EvaluateHarness(metrics, None), EvaluateHarness(metrics, <<[m \in {"exact_match"} |-> 100]>>) }
  IN  /\ \A r \in results, m \in metrics :
           m \in r.unavailable => ~Released(<<r>>, <<r>>, {[gate EXCEPT !.metric = m, !.critical = TRUE]})
      /\ MetricOf(<<own>>, "exact_match") = MetricOf(<<deepeval>>, "exact_match")

\* Two reports about one plan do not contradict each other: a deployment that regrets its
\* cost against the expected one was overrouting, a route that matched was a success, and
\* none is both too strong and too weak for what was expected.
ReportsAgree(plan, expected, grade) ==
  LET case == [ expected_model |-> <<expected>>, failovers |-> None, grade |-> grade,
                min_grade |-> None, max_grade |-> None ]
      scores == EvaluateRouting(<<case>>, <<plan>>, Supported["routing"]).metrics
      summary == SummarizePlans(<<plan>>, <<{}>>, <<None>>)
      Full(score) == score = <<100>>
  IN  /\ scores["cost"] # None /\ <<expected>> # <<plan.selected[1].id>> =>
           (scores["cost"][1] > 0 => Full(summary.overrouting_rate))
      /\ Full(scores["route_match"]) => Full(summary.route_success_rate)
      /\ ~(Full(scores["overpowered_rate"]) /\ Full(scores["underpowered_rate"]))
      /\ summary.underrouting_rate \in {None, <<0>>}

\* A deployment that is worse than an alternative in cost is never reported as the better
\* choice: there is a positive regret exactly when there was overrouting.
RegretMeansOverrouting(plan) ==
  plan.selected # None =>
    LET others == {s \in ToSet(plan.ranked) : s.id # plan.selected[1].id}
        regret == CostRegret(plan.selected[1], others)
    IN  (regret = None <=> Overrouting(plan) = None)
        /\ (regret # None => (regret[1] > 0 <=> Overrouting(plan) = <<100>>))
=============================================================================

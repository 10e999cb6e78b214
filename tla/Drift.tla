-------------------------------- MODULE Drift --------------------------------
(***************************************************************************)
(* Drift analysis (heal/drift.py, heal/scoring.py): two windows of usage    *)
(* records become summaries, the summaries become signals with a severity.  *)
(*                                                                         *)
(* A measured value is a fraction <<p, q>> with q > 0, and None when nothing *)
(* was measured; thresholds are in percent and compared by cross            *)
(* multiplication.  Natural logarithms are in thousandths.                 *)
(***************************************************************************)
EXTENDS Integers, SequencesExt

CONSTANTS
  MinSamples,   \* min_samples
  UNKNOWN       \* UNKNOWN_INTENT_ID; an intent is <<id>>

None == <<>>

PSI_MODERATE == 10
PSI_SIGNIFICANT == 25
RATE_MODERATE == 5
RATE_SIGNIFICANT == 10
RELATIVE_MODERATE == 15
RELATIVE_SIGNIFICANT == 25

-----------------------------------------------------------------------------
\* Summaries of a window: a sequence of records with fields error, failovers,
\* served, cost (None if estimated), latency, and intent (None if unclassified)
\* with layer and confidence.

Total(values) == FoldLeft(+, 0, values)

Mean(values) == IF values = <<>> THEN None ELSE <<Total(values), Len(values)>>

\* Nearest rank.
Percentile(values, percent) ==
  IF values = <<>> THEN None
  ELSE LET rank == (percent * Len(values) + 99) \div 100
       IN  <<SortSeq(values, <)[IF rank < 1 THEN 1 ELSE rank], 1>>

Counted(values) == [v \in ToSet(values) |-> Len(SelectSeq(values, LAMBDA w : w = v))]

\* Of a sequence of booleans.
ShareOf(flags) ==
  IF flags = <<>> THEN None ELSE <<Len(SelectSeq(flags, LAMBDA flag : flag)), Len(flags)>>

LOCAL Column(rows, field) == [i \in DOMAIN rows |-> rows[i][field]]

Summarise(rows) ==
  LET classified == SelectSeq(rows, LAMBDA row : row.intent # None)
      priced == SelectSeq(rows, LAMBDA row : row.cost # None)
      confident == SelectSeq(classified, LAMBDA row : row.confidence # None)
  IN  [ samples         |-> Len(rows),
        classified      |-> Len(classified),
        priced          |-> Len(priced),
        intents         |-> Counted(Column(classified, "intent")),
        routes          |-> Counted(Column(rows, "served")),
        layers          |-> Counted(Column(classified, "layer")),
        p95_latency     |-> Percentile(Column(rows, "latency"), 95),
        error_rate      |-> ShareOf(Column(rows, "error")),
        fallback_rate   |-> ShareOf([i \in DOMAIN rows |-> rows[i].failovers > 0]),
        unknown_rate    |-> ShareOf([i \in DOMAIN classified |-> classified[i].intent = UNKNOWN]),
        mean_cost       |-> Mean([i \in DOMAIN priced |-> priced[i].cost[1]]),
        mean_confidence |-> Mean([i \in DOMAIN confident |-> confident[i].confidence[1]]) ]

\* Without a baseline the buffer is cut in an older and a newer half, unless it is
\* too short for that: then there is no older half.
Split(rows) ==
  IF Len(rows) < 2 * MinSamples THEN <<<<>>, rows>>
  ELSE <<SubSeq(rows, 1, Len(rows) \div 2), SubSeq(rows, Len(rows) \div 2 + 1, Len(rows))>>

-----------------------------------------------------------------------------
\* One signal

\* delta = p / q against two thresholds
Graded(p, q, moderate, significant) ==
  IF 100 * p <= moderate * q THEN "stable"
  ELSE IF 100 * p <= significant * q THEN "moderate"
  ELSE "significant"

TooFew(baseN, currN) == baseN < MinSamples \/ currN < MinSamples

\* The change relative to the baseline; `invert` where lower is worse.
Relative(base, curr, baseN, currN, invert) ==
  IF TooFew(baseN, currN) THEN "insufficient"
  ELSE IF base = None \/ curr = None THEN "unavailable"
  ELSE IF base[1] = 0 THEN IF curr[1] = 0 THEN "stable" ELSE "unavailable"
  ELSE LET delta == curr[1] * base[2] - base[1] * curr[2]
       IN  Graded(IF invert THEN -delta ELSE delta, base[1] * curr[2],
                  RELATIVE_MODERATE, RELATIVE_SIGNIFICANT)

\* The difference of two rates.
Rate(base, curr, baseN, currN) ==
  IF TooFew(baseN, currN) THEN "insufficient"
  ELSE IF base = None \/ curr = None THEN "unavailable"
  ELSE Graded(curr[1] * base[2] - base[1] * curr[2], base[2] * curr[2],
              RATE_MODERATE, RATE_SIGNIFICANT)

Ln == <<0, 693, 1099, 1386, 1609, 1792, 1946, 2079, 2197, 2303, 2398, 2485>>

\* Population stability index with add-one smoothing: the sum over the keys of
\* (r - l) * ln(r / l), as a numerator over 1000 * (both totals multiplied).
PopulationStability(base, curr) ==
  LET keys == DOMAIN base \union DOMAIN curr
      At(counts, k) == 1 + (IF k \in DOMAIN counts THEN counts[k] ELSE 0)
      Sum(counts) == FoldSet(LAMBDA k, sum : sum + At(counts, k), 0, keys)
      b == Sum(base)
      c == Sum(curr)
      Term(k) == (At(curr, k) * b - At(base, k) * c)
                   * ((Ln[At(curr, k)] + Ln[b]) - (Ln[At(base, k)] + Ln[c]))
  IN  IF keys = {} THEN <<0, 1>>
      ELSE <<FoldSet(LAMBDA k, sum : sum + Term(k), 0, keys), 1000 * b * c>>

Categorical(base, curr, baseN, currN) ==
  IF TooFew(baseN, currN) THEN "insufficient"
  ELSE LET psi == PopulationStability(base, curr)
       IN  IF 100 * psi[1] < PSI_MODERATE * psi[2] THEN "stable"
           ELSE IF 100 * psi[1] < PSI_SIGNIFICANT * psi[2] THEN "moderate"
           ELSE "significant"

-----------------------------------------------------------------------------
\* The report

Signal(kind, metric, severity) == [kind |-> kind, metric |-> metric, severity |-> severity]

Compare(b, c) ==
  { Signal("intent", "intent_distribution",
           Categorical(b.intents, c.intents, b.classified, c.classified)),
    Signal("routing", "route_distribution",
           Categorical(b.routes, c.routes, b.samples, c.samples)),
    Signal("classifier", "classifier_layer_mix",
           Categorical(b.layers, c.layers, b.classified, c.classified)),
    Signal("classifier", "mean_confidence",
           Relative(b.mean_confidence, c.mean_confidence, b.classified, c.classified, TRUE)),
    Signal("classifier", "unknown_intent_rate",
           Rate(b.unknown_rate, c.unknown_rate, b.classified, c.classified)),
    Signal("latency", "p95_latency_ms",
           Relative(b.p95_latency, c.p95_latency, b.samples, c.samples, FALSE)),
    Signal("error", "error_rate", Rate(b.error_rate, c.error_rate, b.samples, c.samples)),
    Signal("cost", "mean_cost_usd",
           Relative(b.mean_cost, c.mean_cost, b.priced, c.priced, FALSE)),
    Signal("routing", "fallback_rate",
           Rate(b.fallback_rate, c.fallback_rate, b.samples, c.samples)) }

\* Quality compares the last two evaluation runs (functions of their metrics).
QualitySignals(runs) ==
  LET older == runs[Len(runs) - 1]
      newer == runs[Len(runs)]
      measured == {m \in DOMAIN older \intersect DOMAIN newer :
                     older[m] # None /\ newer[m] # None}
      drops == {<<older[m][1] - newer[m][1], older[m][1]>> :
                  m \in {m \in measured : older[m][1] # 0}}
      Worst == CHOOSE d \in drops : \A e \in drops : d[1] * e[2] >= e[1] * d[2]
      severity == IF Len(runs) < 2 THEN "unavailable"
                  ELSE IF measured = {} THEN "unavailable"
                  ELSE IF drops = {} THEN "stable"
                  ELSE Graded(Worst[1], Worst[2], RELATIVE_MODERATE, RELATIVE_SIGNIFICANT)
  IN  {Signal("quality", "eval_metrics", severity)}

\* What nothing measures is reported as such.
UnavailableBackends ==
  {Signal(k, k, "unavailable") : k \in {"embedding", "context_length", "safety_blocks"}}

\* baseline: a stored summary, or None
Analyze(rows, baseline, runs) ==
  LET halves == Split(rows)
      base == IF baseline = None THEN Summarise(halves[1]) ELSE baseline
      current == Summarise(IF baseline = None THEN halves[2] ELSE rows)
  IN  Compare(base, current) \union QualitySignals(runs) \union UnavailableBackends

Significant(signals) == {s \in signals : s.severity = "significant"}

=============================================================================

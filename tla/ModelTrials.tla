------------------------------ MODULE ModelTrials ------------------------------
(***************************************************************************)
(* What is measured of a deployment before it may be promoted: its score on *)
(* the workloads (models/eval.py) and its row of the leaderboard.            *)
(*                                                                         *)
(* An answer is [words, json]: the words found in it, of which "" is found   *)
(* everywhere, and the object it parses to, if any.  A score is a number of  *)
(* parts of WHOLE, <<>> when there is nothing to compare with, or the mark   *)
(* of an answer nobody can score.                                            *)
(***************************************************************************)
EXTENDS Integers, FiniteSets, SequencesExt

LOCAL None == <<>>

WHOLE == 60
LOCAL Part(n, d) == <<(WHOLE * n) \div d>>
LOCAL Truth(holds) == <<IF holds THEN WHOLE ELSE 0>>

CATEGORIES == { "general_conversation", "summarization", "reasoning", "math", "coding",
                "data_analysis", "structured_extraction", "long_context" }

-----------------------------------------------------------------------------
\* Scores of one answer

NotEmpty(expected) == expected \notin {None, <<"">>}

TokenOverlap(words, expected) ==
  IF expected = {} THEN None ELSE Part(Cardinality(words \intersect expected), Cardinality(expected))

\* The harmonic mean of precision and recall.
FieldF1(got, expected) ==
  LET tp == Cardinality({k \in DOMAIN expected \intersect DOMAIN got : got[k] = expected[k]})
      width == Cardinality(DOMAIN got)
  IN  IF DOMAIN expected = {} THEN <<WHOLE>>
      ELSE Part(2 * tp, (IF width = 0 THEN 1 ELSE width) + Cardinality(DOMAIN expected))

NOT_OBJECTIVELY_SCORED == <<-1>>

ScoreOutput(case, answer) ==
  CASE case.category = "math" ->
         [exact_answer_accuracy |->
            Truth(case.expected # None /\ ToSet(case.expected) \subseteq answer.words \union {""})]
    [] case.category = "coding" ->
         [exact_expected_output |-> Truth(NotEmpty(case.expected) /\ answer.words = ToSet(case.expected))]
    [] case.category = "summarization" ->
         [token_overlap |-> TokenOverlap(answer.words, ToSet(case.expected) \ {""})]
    [] case.category = "structured_extraction" ->
         [ schema_validity |-> Truth(answer.json # None),
           exact_match     |-> Truth(answer.json = <<case.object>>),
           field_level_f1  |-> IF answer.json = None THEN <<0>> ELSE FieldF1(answer.json[1], case.object) ]
    [] case.category \in {"data_analysis", "long_context"} ->
         [contains |-> Truth(NotEmpty(case.expected) /\ ToSet(case.expected) \subseteq answer.words)]
    [] OTHER -> [score |-> NOT_OBJECTIVELY_SCORED]

-----------------------------------------------------------------------------
\* evaluate_spec: answers[i] is None where the deployment failed

Scores(cases, answers, category) ==
  LET mine == SelectSeq([i \in DOMAIN cases |-> i], LAMBDA i : cases[i].category = category)
  IN  [ k \in DOMAIN mine |->
          IF answers[mine[k]] = None THEN <<>> ELSE ScoreOutput(cases[mine[k]], answers[mine[k]][1]) ]

\* An average is <<sum, n>>: of the rows that have a number.
CategoryScores(cases, answers, category) ==
  LET rows == Scores(cases, answers, category)
      subjective == \E i \in DOMAIN rows : \E key \in DOMAIN rows[i] : rows[i][key] = NOT_OBJECTIVELY_SCORED
      keys == UNION {{k \in DOMAIN rows[i] : rows[i][k] \notin {None, NOT_OBJECTIVELY_SCORED}} : i \in DOMAIN rows}
      Numbers(key) == SelectSeq(rows, LAMBDA row : key \in DOMAIN row /\ row[key] # None)
  IN  [ n       |-> Len(rows),
        metrics |-> [key \in keys |-> << FoldLeft(LAMBDA sum, row : sum + row[key][1], 0, Numbers(key)),
                                         Len(Numbers(key)) >>],
        scoring |-> IF subjective THEN "not objectively scored" ELSE "deterministic" ]

EvaluateSpec(cases, answers) ==
  [ error_rate |-> IF cases = <<>> THEN None
                   ELSE <<Len(SelectSeq(answers, LAMBDA a : a = None)), Len(cases)>>,
    categories |-> [c \in CATEGORIES |-> CategoryScores(cases, answers, c)] ]

-----------------------------------------------------------------------------
\* The leaderboard shows one number of a category

Shown == << "exact_answer_accuracy", "exact_expected_output", "token_overlap", "field_level_f1", "contains" >>

CategoryScore(result, category) ==
  LET block == result.categories[category]
      there == SelectSeq(Shown, LAMBDA key : key \in DOMAIN block.metrics)
  IN  IF block.scoring # "deterministic" \/ there = <<>> THEN None ELSE <<block.metrics[there[1]]>>

LeaderboardRow(result) ==
  [category \in CATEGORIES \ {"data_analysis", "long_context"} |-> CategoryScore(result, category)]
    @@ [error_rate |-> result.error_rate]

-----------------------------------------------------------------------------
\* Properties

\* A place on the leaderboard is earned: a category without an answer that can be
\* compared has no number, and a full one means that every answer compared was right,
\* of an extraction that nothing else was extracted either, if anything was expected.
Right(case, answer) ==
  CASE case.category \in {"math", "data_analysis", "long_context"} -> ToSet(case.expected) \subseteq answer.words \union {""}
    [] case.category = "coding" -> answer.words = ToSet(case.expected)
    [] case.category = "summarization" -> ToSet(case.expected) \ {""} \subseteq answer.words
    [] case.category = "structured_extraction" ->
         answer.json = <<case.object>> \/ (answer.json # None /\ DOMAIN case.object = {})
    [] OTHER -> FALSE

RanksAreEarned(cases, answers) ==
  LET row == LeaderboardRow(EvaluateSpec(cases, answers))
      Compared(c) == {i \in DOMAIN cases : cases[i].category = c /\ answers[i] # None}
  IN  \A c \in DOMAIN row \ {"error_rate"} :
        /\ Compared(c) = {} => row[c] = None
        /\ row[c] # None /\ row[c][1][1] = WHOLE * row[c][1][2] =>
             \A i \in Compared(c) : Right(cases[i], answers[i][1])
=============================================================================

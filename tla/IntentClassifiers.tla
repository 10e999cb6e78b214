-------------------------- MODULE IntentClassifiers --------------------------
(***************************************************************************)
(* The intent taxonomy and the classifiers that name its nodes              *)
(* (intent/taxonomy.py, intent/classifiers/, intent/features.py,            *)
(* intent/schema.py), as functions of one prompt.                           *)
(*                                                                         *)
(* An intent id is a number: ties are broken by the order of the ids.  A    *)
(* taxonomy is a function from ids to nodes.  What a pattern, an embedding  *)
(* or a model finds in the prompt is an input; similarities are in percent, *)
(* rule weights in tenths.                                                  *)
(***************************************************************************)
EXTENDS Integers, SequencesExt

None == <<>>

MAX_TAXONOMY_DEPTH == 8
MAX_ALTERNATIVES == 3
MAX_CANDIDATES == 48

\* "unknown": never a node
UNKNOWN_INTENT_ID == 0

-----------------------------------------------------------------------------
\* Taxonomy

IsClassifiable(status) == status \in {"experimental", "active", "deprecated"}

\* The chain of parents, nearest first.
Ancestors(taxonomy, id) ==
  LET Up(chain, level) ==
        LET top == IF chain = <<>> THEN id ELSE Last(chain)
        IN  IF top \in DOMAIN taxonomy /\ taxonomy[top].parent # None
            THEN Append(chain, taxonomy[top].parent[1]) ELSE chain
  IN  FoldLeft(Up, <<>>, [level \in 1..MAX_TAXONOMY_DEPTH |-> level])

\* Parents are nodes, and every chain of parents ends within the depth: no cycle.
IsTaxonomy(taxonomy) ==
  /\ UNKNOWN_INTENT_ID \notin DOMAIN taxonomy
  /\ \A id \in DOMAIN taxonomy :
       /\ taxonomy[id].parent # None => taxonomy[id].parent[1] \in DOMAIN taxonomy \ {id}
       /\ LET chain == Ancestors(taxonomy, id)
          IN  chain # <<>> => taxonomy[Last(chain)].parent = None

Classifiable(taxonomy) == {id \in DOMAIN taxonomy : IsClassifiable(taxonomy[id].status)}

Domains(taxonomy) == {id \in DOMAIN taxonomy : taxonomy[id].parent = None}

\* A new version: None when an id is added twice, or an unknown one is changed.
Evolve(taxonomy, added, replaced, retired) ==
  LET grown == replaced @@ added @@ taxonomy
      evolved == [id \in DOMAIN grown |->
                    IF id \in retired THEN [grown[id] EXCEPT !.status = "retired"]
                    ELSE grown[id]]
  IN  IF /\ DOMAIN added \intersect DOMAIN taxonomy = {}
         /\ DOMAIN replaced \subseteq DOMAIN taxonomy \union DOMAIN added
         /\ retired \subseteq DOMAIN grown
         /\ IsTaxonomy(evolved)
      THEN <<evolved>> ELSE None

-----------------------------------------------------------------------------
\* Verdicts: an intent, or none, and the alternatives considered

Verdict(intent, alternatives) == [intent |-> intent, alternatives |-> alternatives]

NoOpinion == Verdict(None, <<>>)

\* The ids of a score function, best first, ties by id.
Ranked(score) ==
  SetToSortSeq(DOMAIN score,
    LAMBDA a, b : score[a] > score[b] \/ (score[a] = score[b] /\ a < b))

Best(score) ==
  LET ranked == Ranked(score)
  IN  Verdict(<<Head(ranked)>>,
              SubSeq(ranked, 2, IF Len(ranked) <= MAX_ALTERNATIVES THEN Len(ranked)
                                ELSE 1 + MAX_ALTERNATIVES))

-----------------------------------------------------------------------------
\* L2: rules.  `matched` is the sequence of the rules whose pattern is in the text,
\* each an intent and a weight; `text` says what else matters of it.

InjectionOnly(text) == text.injection /\ (text.coercion \/ text.remainder < 12)

Raw(matched, id) ==
  FoldLeft(LAMBDA sum, rule : IF rule.intent = id THEN sum + rule.weight ELSE sum, 0, matched)

\* PARENT_CREDIT = 3/5 for each level up; scores are scaled by 5^8.
Credit(level) == 3 ^ level * 5 ^ (MAX_TAXONOMY_DEPTH - level)

Inherited(matched, taxonomy, id) ==
  LET chain == Ancestors(taxonomy, id)
  IN  FoldLeft(LAMBDA sum, level : sum + Raw(matched, chain[level]) * Credit(level),
               Raw(matched, id) * Credit(0), [level \in DOMAIN chain |-> level])

\* Intents with evidence of their own ...
Evident(matched, taxonomy) == {id \in Classifiable(taxonomy) : Raw(matched, id) > 0}

\* Mistake: an intent competes with its own ancestors, which are credited to it.
Score_Unshadowed(matched, taxonomy) ==
  [id \in Evident(matched, taxonomy) |-> Inherited(matched, taxonomy, id)]

\* ... that are not the ancestors of another.
Score(matched, taxonomy) ==
  LET evident == Evident(matched, taxonomy)
      shadowed == UNION {ToSet(Ancestors(taxonomy, id)) : id \in evident}
  IN  [id \in evident \ shadowed |-> Inherited(matched, taxonomy, id)]

ClassifyByRules(text, matched, taxonomy) ==
  LET known == SelectSeq(matched, LAMBDA rule : rule.intent \in DOMAIN taxonomy)
      score == Score(known, taxonomy)
      positive == {id \in DOMAIN score : score[id] > 0}
  IN  IF text.blank \/ InjectionOnly(text) \/ positive = {} THEN NoOpinion
      ELSE Best([id \in positive |-> score[id]])

-----------------------------------------------------------------------------
\* L3: embeddings.  `sim` gives the similarity of the prompt to the prototypes of an
\* intent, to its hard negatives and its counterexamples (0 when it has none).

HN_LAMBDA == 35
CX_LAMBDA == 0
UNKNOWN_FLOOR == 800   \* 0.08, in the scale of Adjusted

\* prepare(): the intents with something to embed, by kind of prototype.
Prototyped(taxonomy, kind) ==
  {id \in Classifiable(taxonomy) :
     CASE kind \in {"examples", "nearest"} -> taxonomy[id].examples > 0
       [] OTHER -> taxonomy[id].described \/ taxonomy[id].examples > 0}

Highest(S) == CHOOSE x \in S : \A y \in S : y <= x

\* The similarity less the worst hard negative of the intent or an ancestor of it.
Adjusted(sim, taxonomy, prototyped) ==
  [id \in prototyped |->
     LET sources == {id} \union (ToSet(Ancestors(taxonomy, id)) \intersect prototyped)
         penalty == Highest({sim[s].hn : s \in sources})
         value == 100 * sim[id].prototype - HN_LAMBDA * penalty - CX_LAMBDA * sim[id].cx
     IN  IF value > 0 THEN value ELSE 0]

\* score(): no opinion when the prompt is near nothing; the softmax keeps the order.
ClassifyByEmbedding(text, sim, taxonomy, kind) ==
  LET adjusted == Adjusted(sim, taxonomy, Prototyped(taxonomy, kind))
  IN  IF \/ text.blank \/ DOMAIN adjusted = {}
         \/ \A id \in DOMAIN adjusted : adjusted[id] < UNKNOWN_FLOOR
      THEN NoOpinion
      ELSE Best(adjusted)

-----------------------------------------------------------------------------
\* L4, offline: the same similarities, over the shortlist, with a margin.

ABSTAIN_SIMILARITY == 3200
ABSTAIN_MARGIN == 400

ClassifyByRerank(text, sim, taxonomy, shortlist) ==
  LET adjusted == Adjusted(sim, taxonomy, Prototyped(taxonomy, "mixed"))
      allowed == IF shortlist = <<>> THEN DOMAIN adjusted
                 ELSE DOMAIN adjusted \intersect ToSet(shortlist)
      ranked == Ranked([id \in allowed |-> adjusted[id]])
      top == adjusted[ranked[1]]
      second == IF Len(ranked) > 1 THEN adjusted[ranked[2]] ELSE 0
  IN  IF text.blank \/ allowed = {} THEN NoOpinion
      ELSE IF top < ABSTAIN_SIMILARITY \/ top - second < ABSTAIN_MARGIN
      THEN Verdict(None, SubSeq(ranked, 1, IF Len(ranked) < MAX_ALTERNATIVES
                                           THEN Len(ranked) ELSE MAX_ALTERNATIVES))
      ELSE Best([id \in allowed |-> adjusted[id]])

-----------------------------------------------------------------------------
\* L4 and L5, with a model: the reply, None when the provider failed or it is not
\* of the schema, must name a candidate.

\* The shortlist and every domain, or everything when that leaves nothing.
Candidates(taxonomy, shortlist) ==
  LET classifiable == Classifiable(taxonomy)
      allowed == (ToSet(shortlist) \union Domains(taxonomy)) \intersect classifiable
      chosen == SetToSortSeq(IF shortlist # <<>> /\ allowed # {} THEN allowed ELSE classifiable, <)
  IN  IF Len(chosen) <= MAX_CANDIDATES THEN chosen ELSE SubSeq(chosen, 1, MAX_CANDIDATES)

Accepted(reply, candidates) == Contains(candidates, reply.intent)

ClassifyByModel(text, reply, taxonomy, shortlist) ==
  LET candidates == Candidates(taxonomy, shortlist)
      first == SubSeq(reply.alternatives, 1,
                 IF Len(reply.alternatives) < MAX_ALTERNATIVES
                 THEN Len(reply.alternatives) ELSE MAX_ALTERNATIVES)
  IN  IF text.blank \/ candidates = <<>> \/ reply = None THEN NoOpinion
      ELSE IF reply.abstain \/ reply.intent = UNKNOWN_INTENT_ID \/ ~Accepted(reply, candidates)
      THEN NoOpinion
      ELSE Verdict(<<reply.intent>>,
             SelectSeq(first, LAMBDA a : Contains(candidates, a) /\ a # reply.intent))

-----------------------------------------------------------------------------
\* What a verdict becomes

ComplexityOrder == <<"trivial", "simple", "moderate", "complex", "very_complex">>
ReasoningOrder == <<"none", "light", "moderate", "deep", "extended">>

Position(order, x) == CHOOSE i \in DOMAIN order : order[i] = x
AtLeast(order, current, floor) ==
  IF Position(order, current) < Position(order, floor) THEN floor ELSE current
AtMost(order, current, ceiling) ==
  IF Position(order, current) > Position(order, ceiling) THEN ceiling ELSE current

ContextClassFor(chars, fences, fallback) ==
  CASE chars > 20000 \/ fences >= 4 -> "very_long"
    [] ~(chars > 20000 \/ fences >= 4) /\ (chars > 8000 \/ fences >= 2) -> "long"
    [] chars <= 8000 /\ fences < 2 /\ chars > 2000 -> "medium"
    [] chars < 80 /\ fences = 0 -> "tiny"
    [] OTHER -> fallback

\* infer_profile_overrides: what the wording of the prompt changes in a profile.
InferProfile(prompt, base) ==
  LET many == prompt.constraints >= 4 \/ (prompt.multi_step /\ prompt.fences >= 2)
      some == prompt.constraints >= 2 \/ prompt.multi_step
      complexity ==
        IF many THEN AtLeast(ComplexityOrder, base.complexity, "complex")
        ELSE IF some THEN AtLeast(ComplexityOrder, base.complexity, "moderate")
        ELSE IF prompt.chars < 40 /\ prompt.constraints = 0
        THEN AtMost(ComplexityOrder, base.complexity, "simple")
        ELSE base.complexity
      reasoning == IF prompt.multi_step /\ prompt.constraints >= 2
                   THEN AtLeast(ReasoningOrder, base.reasoning_level, "moderate")
                   ELSE base.reasoning_level
  IN  [base EXCEPT !.complexity = complexity, !.reasoning_level = reasoning,
                   !.context_class = ContextClassFor(prompt.chars, prompt.fences, @),
                   !.structured_output = @ \/ prompt.json]

MinimumCapabilityGrade(complexity, reasoning, agent, abstain) ==
  IF abstain THEN "standard"
  ELSE IF agent \/ complexity = "very_complex" THEN "maximum"
  ELSE IF complexity = "complex" \/ reasoning \in {"deep", "extended"} THEN "high"
  ELSE IF complexity = "trivial" THEN "economy" ELSE "standard"

PrivacyFromRisk(risk) ==
  CASE risk = "critical" -> "exclusive" [] risk = "high" -> "strict" [] OTHER -> "standard"

\* _materialise: the node's profile, as the prompt's wording changes it.
LOCAL WithProfile(id, profile) ==
  [ intent |-> id, state |-> "known", abstain |-> FALSE,
    complexity |-> profile.complexity, reasoning_level |-> profile.reasoning_level,
    context_class |-> profile.context_class,
    privacy_class |-> PrivacyFromRisk(profile.risk_class),
    grade |-> MinimumCapabilityGrade(profile.complexity, profile.reasoning_level,
                                     profile.agent_required, FALSE) ]

Materialise(id, prompt, taxonomy) == WithProfile(id, InferProfile(prompt, taxonomy[id].profile))

\* unknown, unknown_result, safe_fallback: nothing is assumed of the request but that
\* its privacy matters.
Unclassified(state) ==
  [ intent |-> UNKNOWN_INTENT_ID, state |-> state, abstain |-> state = "abstain",
    complexity |-> "moderate", reasoning_level |-> "light", context_class |-> "short",
    privacy_class |-> "strict", grade |-> "standard" ]

\* IntentClassification.__post_init__
IsClassification(c) ==
  /\ (c.state = "known") = (c.intent # UNKNOWN_INTENT_ID)
  /\ (c.state = "abstain") = c.abstain

-----------------------------------------------------------------------------
\* Properties

GradeOrder == <<"economy", "standard", "high", "maximum">>

NotLess(less, more) ==
  LET NotBelow(order, a, b) == Position(order, a) <= Position(order, b) IN
  /\ NotBelow(ComplexityOrder, less.complexity, more.complexity)
  /\ NotBelow(ReasoningOrder, less.reasoning_level, more.reasoning_level)
  /\ NotBelow(GradeOrder, less.grade, more.grade)
  /\ IsClassification(less)

FallbackAsksAsMuch(c) ==
  /\ IsClassification(c)
  /\ c.grade = MinimumCapabilityGrade(c.complexity, c.reasoning_level, FALSE, TRUE)

\* A prompt that asks for more - more constraints, several steps, more code, more text -
\* is never given to a weaker model: neither complexity, reasoning nor the grade asked
\* of a deployment falls, whatever the profile of its intent.  Whatever a request comes
\* out as, an intent, an abstention or a fallback, is a classification the program can
\* build, and asks as much of the deployment as an abstention does by the rule of grades.
MoreIsNotLess(profile, prompt, harder) ==
  LET taxonomy == [id \in {1} |-> [profile |-> profile]] IN
  /\ NotLess(Materialise(1, prompt, taxonomy), Materialise(1, harder, taxonomy))
  /\ \A state \in {"abstain", "unknown", "safe_fallback"} : FallbackAsksAsMuch(Unclassified(state))

\* Whatever the patterns match, the embeddings resemble or the model replies, a
\* verdict names only intents of the taxonomy that are not retired, and an
\* alternative is not the answer itself.
StaysInTaxonomy(verdict, taxonomy) ==
  LET named == ToSet(verdict.intent) \union ToSet(verdict.alternatives)
  IN  /\ named \subseteq Classifiable(taxonomy)
      /\ ToSet(verdict.intent) \intersect ToSet(verdict.alternatives) = {}

\* The rules never answer with an intent when one below it has evidence of its own.
MostSpecific(verdict, matched, taxonomy) ==
  \A id \in ToSet(verdict.intent), below \in Evident(matched, taxonomy) :
    ~Contains(Ancestors(taxonomy, below), id)
=============================================================================

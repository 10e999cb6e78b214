---------------------------- MODULE IntentCascade ----------------------------
(***************************************************************************)
(* Classification of a prompt (intent/cascade.py) through the caches        *)
(* (intent/cache.py) and the layers, and what is kept of it                 *)
(* (intent/metrics.py, intent/learning.py).                                 *)
(*                                                                         *)
(* A classification suspends where it embeds the prompt and where a layer   *)
(* calls a model: Ask, Look and Judge are its three parts.  Several run at   *)
(* once, of several processes on the same caches.  Confidences are in       *)
(* percent.                                                                *)
(***************************************************************************)
EXTENDS Integers, SequencesExt

CONSTANTS
  Requests,      \* concurrent classifications
  Arrivals,      \* what may be asked: [tenant, prompt, context], the prompt as the
                 \* caches normalise it, the context as the discriminators
  Cosine,        \* Cosine[<<p, q>>]: how much two prompts resemble, in percent
  Verdicts,      \* what a layer may answer: [intent, confidence, runner_up]
  Paid,          \* the paid layers that are configured: subset of {"l4", "l5"}
  Capacity,      \* capacity_per_signature
  ExactTTL,      \* exact_ttl_seconds
  SemanticTTL,   \* ttl_seconds
  MaxDecisions,  \* bound on the decisions counted
  MaxTime        \* bound on the clock

VARIABLES
  now,
  exact,      \* exact[<<tenant, prompt, parts>>]: [answer, expires]
  semantic,   \* semantic[<<tenant, signature>>]: sequence of [prompt, answer, expires]
  request,    \* request[r]: where it is, and what it came with
  examples,   \* HardExampleStore: examples[<<tenant, prompt>>]: status
  counters,   \* IntentMetrics
  given       \* history: what a layer, not a cache, has answered

cache == <<exact, semantic>>
vars == <<now, cache, request, examples, counters, given>>

None == <<>>

Layers == <<"l2", "l3", "l4", "l5">>

\* CascadeThresholds
ForLayer(layer) ==
  CASE layer = "l2" -> 70 [] layer = "l3" -> 62 [] layer = "l4" -> 55 [] layer = "l5" -> 40
SEMANTIC_CACHE == 80
AGREEMENT_FLOOR == 48
RUNNER_UP == 18
HIGH_AMBIGUITY == 10

\* SemanticCachePolicy
SIMILARITY_THRESHOLD == 92
CONFIDENCE_THRESHOLD == 75

-----------------------------------------------------------------------------
\* Discriminators: what an answer depends on besides the prompt

\* Mistake: the conversation is not part of the key.
Signature_NoConversation(context) ==
  <<context.taxonomy, context.classifier, context.policy, context.language>>

Signature(context) ==
  <<context.taxonomy, context.classifier, context.policy, context.language, context.conversation>>

-----------------------------------------------------------------------------
\* The caches

Put(f, key, value) == [k \in DOMAIN f \union {key} |-> IF k = key THEN value ELSE f[k]]

ExactKey(r) == <<request[r].tenant, request[r].prompt, Signature(request[r].context)>>

ExactHit(r) ==
  IF ExactKey(r) \in DOMAIN exact /\ now < exact[ExactKey(r)].expires
  THEN <<exact[ExactKey(r)].answer>> ELSE None

IndexKey(r) == <<request[r].tenant, Signature(request[r].context)>>

\* The entries that have not expired, in their order.
Unexpired(entries) ==
  LET kept  == {i \in DOMAIN entries : now < entries[i].expires}
      place == CHOOSE p \in [1..Cardinality(kept) -> kept] :
                 \A i, j \in DOMAIN p : i < j => p[i] < p[j]
  IN  [i \in DOMAIN place |-> entries[place[i]]]

Live(r) == IF IndexKey(r) \in DOMAIN semantic THEN Unexpired(semantic[IndexKey(r)]) ELSE <<>>

\* lookup(): of the entries sure and near enough, the nearest, the first of several;
\* expired ones go.
SemanticHit(r) ==
  LET At(i) == Cosine[<<request[r].prompt, Live(r)[i].prompt>>]
      near  == {i \in DOMAIN Live(r) : /\ Live(r)[i].answer.confidence >= CONFIDENCE_THRESHOLD
                                      /\ At(i) >= SIMILARITY_THRESHOLD}
      nearest == CHOOSE i \in near : \A j \in near \ {i} : At(j) < At(i) \/ (At(j) = At(i) /\ i < j)
  IN  IF near = {} THEN None ELSE <<Live(r)[nearest].answer>>

\* admit(): one entry per prompt, kept in its place; the oldest places go.
Admitted(r, answer) ==
  LET live == IF IndexKey(r) \in DOMAIN semantic THEN semantic[IndexKey(r)] ELSE <<>>
      entry == [prompt |-> request[r].prompt, answer |-> answer, expires |-> now + SemanticTTL]
      updated == IF \E i \in DOMAIN live : live[i].prompt = entry.prompt
                 THEN [i \in DOMAIN live |-> IF live[i].prompt = entry.prompt THEN entry ELSE live[i]]
                 ELSE Append(live, entry)
      excess == Len(updated) - Capacity
  IN  IF excess > 0 THEN SubSeq(updated, excess + 1, Len(updated)) ELSE updated

-----------------------------------------------------------------------------
\* The layers, on what each of them says

Opinion(v) == v.intent # None

\* The layers are asked in order until one is sure enough; a failure is no opinion.
Asked == SelectSeq(Layers, LAMBDA l : l \in {"l2", "l3"} \union Paid)

Sure(said, i) ==
  Opinion(said[Asked[i]]) /\ said[Asked[i]].confidence >= ForLayer(Asked[i])

\* Rules and embedding, both unsure, agree and neither sees another.
Agreed(said) ==
  LET l2 == said.l2
      l3 == said.l3
  IN  /\ Opinion(l2) /\ Opinion(l3) /\ l2.intent = l3.intent
      /\ l2.confidence >= AGREEMENT_FLOOR \/ l3.confidence >= AGREEMENT_FLOOR
      /\ l2.runner_up < RUNNER_UP /\ l3.runner_up < RUNNER_UP

Together(a, b) ==
  LET p == 100 - ((100 - a) * (100 - b)) \div 100 IN IF p > 99 THEN 99 ELSE p

Known(intent, confidence, runner_up, layer) ==
  [intent |-> intent, confidence |-> confidence, runner_up |-> runner_up, layer |-> layer,
   state |-> "known"]

Abstention(best) ==
  [intent |-> None, confidence |-> best, runner_up |-> best, layer |-> "abstain",
   state |-> "abstain"]

SafeFallback ==
  [intent |-> None, confidence |-> 0, runner_up |-> 0, layer |-> "safe_fallback",
   state |-> "safe_fallback"]

\* [answer, tried]: the answer, and the layers that were asked for it.
Judgement(said) ==
  LET sure == {i \in DOMAIN Asked : Sure(said, i)}
      first == CHOOSE i \in sure : \A j \in sure : i <= j
      v == said[Asked[first]]
      best == {said[Asked[i]].confidence : i \in DOMAIN Asked} \union {0}
  IN  IF sure # {}
      THEN [answer |-> Known(v.intent, v.confidence, v.runner_up, Asked[first]),
            tried |-> SubSeq(Asked, 1, first)]
      ELSE [answer |-> IF Agreed(said)
                       THEN Known(said.l2.intent,
                                  Together(said.l2.confidence, said.l3.confidence),
                                  said.l3.runner_up, "l3")
                       ELSE Abstention(CHOOSE c \in best : \A d \in best : d <= c),
            tried |-> Asked]

Disagreed(said, tried) ==
  \E i, j \in DOMAIN tried :
    /\ Opinion(said[tried[i]]) /\ Opinion(said[tried[j]])
    /\ said[tried[i]].intent # said[tried[j]].intent

-----------------------------------------------------------------------------
\* What is kept of a decision

\* IntentMetrics.record
Counted(answer, hit) ==
  [counters EXCEPT !.classifications = @ + 1, ![answer.state] = @ + 1,
                   !.cache_hits = IF hit THEN @ + 1 ELSE @]

\* _collect_candidate: a doubtful answer becomes a hard example to review, once per
\* prompt; what a cache repeats does not.
Doubtful(answer, said, tried) ==
  \/ answer.state = "abstain"
  \/ answer.runner_up > 0 /\ answer.confidence - answer.runner_up < HIGH_AMBIGUITY
  \/ answer.confidence < ForLayer("l5")
  \/ Disagreed(said, tried)

Ingested(r) ==
  LET key == <<request[r].tenant, request[r].prompt>>
  IN  IF key \in DOMAIN examples THEN examples ELSE Put(examples, key, "draft")

-----------------------------------------------------------------------------
Idle == [at |-> "idle"]

Init ==
  /\ now = 0 /\ exact = <<>> /\ semantic = <<>> /\ examples = <<>> /\ given = {}
  /\ request = [r \in Requests |-> Idle]
  /\ counters = [c \in {"classifications", "cache_hits", "known", "abstain", "safe_fallback"} |-> 0]

Arrive(r, a) ==
  /\ request[r].at = "idle" /\ counters.classifications < MaxDecisions
  /\ request' = [request EXCEPT ![r] = [ at |-> "ask", vector |-> FALSE, tenant |-> a.tenant,
                                          prompt |-> a.prompt, context |-> a.context ]]
  /\ UNCHANGED <<now, cache, examples, counters, given>>

Reply(r, answer, hit) ==
  /\ request' = [request EXCEPT ![r] = [ at |-> "done", tenant |-> @.tenant, prompt |-> @.prompt, context |-> @.context,
                                          answer |-> answer, hit |-> hit, asked |-> now ]]
  /\ counters' = Counted(answer, hit)

\* L0; an outage of the cache is a miss.
Ask(r) ==
  /\ request[r].at = "ask"
  /\ \/ /\ ExactHit(r) # None
        /\ Reply(r, ExactHit(r)[1], TRUE)
     \/ /\ request' = [request EXCEPT ![r].at = "embed"]
        /\ UNCHANGED counters
  /\ UNCHANGED <<now, cache, examples, given>>

\* The prompt is embedded, or that fails; then L1.
Look(r) ==
  /\ request[r].at = "embed"
  /\ \/ /\ request' = [request EXCEPT ![r].at = "judge"]
        /\ UNCHANGED <<cache, counters>>
     \/ /\ semantic' = IF IndexKey(r) \in DOMAIN semantic
                       THEN Put(semantic, IndexKey(r), Live(r)) ELSE semantic
        /\ UNCHANGED exact
        /\ LET hit == SemanticHit(r) IN
           IF hit # None /\ hit[1].confidence >= SEMANTIC_CACHE
           THEN Reply(r, hit[1], TRUE)
           ELSE /\ request' = [request EXCEPT ![r].at = "judge", ![r].vector = TRUE]
                /\ UNCHANGED counters
  /\ UNCHANGED <<now, examples, given>>

\* _admit: only an answer of a layer.
MayCache(answer) == answer.state = "known"

\* The layers; each write of an answer to a cache may fail.
Judge(r, said) ==
  LET judged == Judgement(said)
      answer == judged.answer
  IN  /\ request[r].at = "judge"
      /\ IF MayCache(answer)
         THEN /\ exact' \in {exact, Put(exact, ExactKey(r), [answer |-> answer, expires |-> now + ExactTTL])}
              /\ IF request[r].vector /\ answer.confidence >= CONFIDENCE_THRESHOLD
                 THEN semantic' \in {semantic, Put(semantic, IndexKey(r), Admitted(r, answer))}
                 ELSE UNCHANGED semantic
         ELSE UNCHANGED cache
      /\ given' = IF answer.state # "known" THEN given
                  ELSE given \union {[tenant |-> request[r].tenant, prompt |-> request[r].prompt,
                                      context |-> request[r].context, answer |-> answer, at |-> now]}
      /\ examples' = IF Doubtful(answer, said, judged.tried) THEN Ingested(r) ELSE examples
      /\ Reply(r, answer, FALSE)
      /\ UNCHANGED now

\* What classify() makes of an unexpected failure.
FallBack(r) ==
  /\ request[r].at \in {"ask", "embed", "judge"}
  /\ Reply(r, SafeFallback, FALSE)
  /\ UNCHANGED <<now, cache, examples, given>>

Leave(r) ==
  /\ request[r].at = "done"
  /\ request' = [request EXCEPT ![r] = Idle]
  /\ UNCHANGED <<now, cache, examples, counters, given>>

-----------------------------------------------------------------------------
\* Around it

InvalidateTenant(tenant) ==
  /\ exact' = [k \in {k \in DOMAIN exact : k[1] # tenant} |-> exact[k]]
  /\ semantic' = [k \in {k \in DOMAIN semantic : k[1] # tenant} |-> semantic[k]]
  /\ UNCHANGED <<now, request, examples, counters, given>>

\* accept(): a reviewed example is accepted; a rejected one cannot be.
Accept(key) ==
  /\ examples[key] # "rejected"
  /\ examples' = [examples EXCEPT ![key] = "accepted"]
  /\ UNCHANGED <<now, cache, request, counters, given>>

Tick ==
  /\ now < MaxTime
  /\ now' = now + 1
  /\ UNCHANGED <<cache, request, examples, counters, given>>

Next ==
  \/ Tick
  \/ \E a \in Arrivals : InvalidateTenant(a.tenant)
  \/ \E key \in DOMAIN examples : Accept(key)
  \/ \E r \in Requests :
       \/ \E a \in Arrivals : Arrive(r, a)
       \/ Ask(r) \/ Look(r) \/ FallBack(r) \/ Leave(r)
       \/ \E said \in [{"l2", "l3"} \union Paid -> Verdicts] : Judge(r, said)

Spec == Init /\ [][Next]_vars

-----------------------------------------------------------------------------
\* Properties

\* A cache only repeats what a layer answered, not an abstention or a fallback: for
\* the same tenant, with the same taxonomy, classifiers, policy, language and
\* conversation, no longer ago than a cache keeps it, to the same prompt or to one that
\* resembles it.
CachedAnswersWereGiven ==
  \A r \in Requests : request[r].at = "done" /\ request[r].hit =>
    \E g \in given :
      /\ g.answer = request[r].answer
      /\ g.tenant = request[r].tenant /\ g.context = request[r].context
      /\ \/ g.prompt = request[r].prompt /\ request[r].asked < g.at + ExactTTL
         \/ /\ Cosine[<<request[r].prompt, g.prompt>>] >= SIMILARITY_THRESHOLD
            /\ g.answer.confidence >= SEMANTIC_CACHE
            /\ request[r].asked < g.at + SemanticTTL
=============================================================================

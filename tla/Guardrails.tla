------------------------------ MODULE Guardrails ------------------------------
(***************************************************************************)
(* The guardrails of a request (guardrails/__init__.py): one engine per       *)
(* stage, the pipeline that runs them, and the inspector of a streamed        *)
(* answer, which holds back a tail that could still become a pattern.        *)
(*                                                                         *)
(* A text that is searched is a sequence of characters; one that is only     *)
(* measured is [bytes, tokens, marks].  The patterns are fixed words: those   *)
(* of the code that have no upper length are cut at the holdback.            *)
(***************************************************************************)
EXTENDS Integers, SequencesExt

CONSTANTS
  Secret,      \* _SECRET_PATTERNS: a word of two characters or more
  Pii,         \* _PII_PATTERNS: another
  Holdback,    \* STREAMING_HOLDBACK_CHARS
  MaxOutput,   \* max_output_bytes
  Limits       \* InputLimits: [bytes, tokens, output], and [documents, corpus, blocks] of
               \* the retrieval and context engines

LOCAL None == <<>>

Mark == <<"*">>      \* [REDACTED]

Block(policy) == [action |-> "block", policy |-> policy]
Allow(policy) == [action |-> "allow", policy |-> policy]

-----------------------------------------------------------------------------
\* Input, retrieval, context

EvaluateInput(payload) ==
  LET too_long == payload.max_tokens # None /\ \E n \in ToSet(payload.max_tokens) : n > Limits.output
  IN  IF payload.bytes > Limits.bytes THEN Block("max_request_size")
      ELSE IF payload.tokens > Limits.tokens THEN Block("max_input_tokens")
      ELSE IF too_long THEN Block("max_output_tokens")
      ELSE IF "secret" \in payload.marks THEN Block("secret_scan")
      ELSE IF "pii" \in payload.marks THEN [action |-> "redact", policy |-> "pii"]
      ELSE IF "injection" \in payload.marks THEN Block("injection")
      ELSE Allow("input")

\* A document is [tenant, trust, bytes, ...]; the first with something to say decides.
EvaluateRetrieval(documents, tenant) ==
  LET Foreign(d) == d.tenant # None /\ d.tenant # <<tenant>>
      telling == {i \in DOMAIN documents : Foreign(documents[i]) \/ documents[i].trust = "untrusted"}
      first == documents[CHOOSE i \in telling : \A j \in telling : i <= j]
  IN  IF Len(documents) > Limits.documents THEN Block("retrieval_size")
      ELSE IF FoldLeft(LAMBDA n, d : n + d.bytes, 0, documents) > Limits.corpus
      THEN Block("retrieval_bytes")
      ELSE IF telling = {} THEN Allow("retrieval")
      ELSE IF Foreign(first) THEN Block("tenant_provenance")
      ELSE [action |-> "transform", policy |-> "untrusted_instruction"]

\* A context block is [tenant, trust, role].
EvaluateContext(blocks, tenant) ==
  LET Foreign(b) == b.tenant # None /\ b.tenant # <<tenant>>
      Promoted(b) == b.trust = "retrieved" /\ b.role = "system"
      refused == {i \in DOMAIN blocks : Foreign(blocks[i]) \/ Promoted(blocks[i])}
      first == blocks[CHOOSE i \in refused : \A j \in refused : i <= j]
  IN  IF Len(blocks) > Limits.blocks THEN Block("context_size")
      ELSE IF refused = {} THEN Allow("context")
      ELSE Block(IF Foreign(first) THEN "tenant_block" ELSE "trust_promotion")

-----------------------------------------------------------------------------
\* Output

LOCAL EndsWith(text, word) ==
  Len(text) >= Len(word) /\ SubSeq(text, Len(text) - Len(word) + 1, Len(text)) = word

\* Every occurrence of a word, from the left, becomes the mark.
Redact(text, word) ==
  LET Read(seen, c) ==
        LET next == Append(seen, c) IN
        IF EndsWith(next, word) THEN SubSeq(next, 1, Len(next) - Len(word)) \o Mark ELSE next
  IN  FoldLeft(Read, <<>>, text)

Matches(text, word) == Redact(text, word) # text

\* Of the two kinds of pattern one is redacted at a time, secrets first.
EvaluateOutput(text) ==
  IF Len(text) > MaxOutput THEN Block("max_output")
  ELSE IF Matches(text, Secret)
  THEN [action |-> "redact", policy |-> "secret_scan", text |-> Redact(text, Secret)]
  ELSE IF Matches(text, Pii) THEN [action |-> "redact", policy |-> "pii", text |-> Redact(text, Pii)]
  ELSE Allow("output")

-----------------------------------------------------------------------------
\* StreamingOutputInspector: [buffer, emitted, outcome]

\* All of the final text leaves, of another all but the tail.
Emit(s, text, final) ==
  LET cut == IF final THEN Len(text) ELSE IF Len(text) <= Holdback THEN 0 ELSE Len(text) - Holdback
  IN  [s EXCEPT !.buffer = SubSeq(text, cut + 1, Len(text)), !.emitted = @ \o SubSeq(text, 1, cut)]

Judged(s, combined, decision, final) ==
  IF decision.action = "block" THEN [s EXCEPT !.buffer = <<>>, !.outcome = "blocked"]
  ELSE Emit(s, IF decision.action = "redact" THEN decision.text ELSE combined, final)

\* Mistake: nothing is held back.
Release_AtOnce(s, combined, final) == Judged(s, combined, EvaluateOutput(combined), TRUE)

Release(s, combined, final) == Judged(s, combined, EvaluateOutput(combined), final)

Push(s, delta) == IF s.outcome = "blocked" THEN s ELSE Release(s, s.buffer \o delta, FALSE)

Flush(s) == IF s.outcome = "blocked" THEN s ELSE Release(s, s.buffer, TRUE)

Streamed(deltas) ==
  Flush(FoldLeft(Push, [buffer |-> <<>>, emitted |-> <<>>, outcome |-> "streaming"], deltas))

-----------------------------------------------------------------------------
\* Properties

\* An answer that comes back in the next request of the conversation
Repeated(text) ==
  [bytes |-> 0, tokens |-> 0, max_tokens |-> None,
   marks |-> {m \in {"secret", "pii"} : Matches(text, IF m = "secret" THEN Secret ELSE Pii)}]

\* A foreign document is refused by retrieval or, as a block, by the context, also where
\* an untrusted one before it makes retrieval answer "transform"; what retrieval passes
\* untouched is no foreign block to the context.
StagesRefuse(documents, tenant) ==
  LET retrieved == EvaluateRetrieval(documents, tenant)
      compiled == EvaluateContext(documents, tenant)
      foreign == {i \in DOMAIN documents : documents[i].tenant \notin {None, <<tenant>>}}
  IN  /\ foreign # {} => "block" \in {retrieved.action, compiled.action}
      /\ retrieved.action = "allow" => compiled.policy # "tenant_block"

Whole(s, text) ==
  /\ ~Matches(s.emitted, Secret)
  /\ EvaluateInput(Repeated(s.emitted)).policy # "secret_scan"
  /\ s.outcome = "streaming" => s.buffer = <<>>
  /\ s.outcome = "streaming" /\ ~(Matches(text, Secret) /\ Matches(text, Pii)) =>
       s.emitted = Redact(Redact(text, Secret), Pii)

\* However an answer is cut into deltas, what reaches the client, at its end or up to a
\* block, holds no secret, also none that was split; and an answer that ends is the whole
\* text, redacted, nothing lost, repeated or out of order.  (Where both kinds of pattern
\* meet in one window only the secret is redacted.)  So a conversation that goes on with
\* what was answered is not refused for a secret in it.
StreamsAreWhole(deltas) == Whole(Streamed(deltas), FlattenSeq(deltas))
=============================================================================

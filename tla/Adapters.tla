-------------------------------- MODULE Adapters --------------------------------
(***************************************************************************)
(* The provider adapters (serving/adapters): what is sent to a backend and *)
(* what is made of its answer, at once or as a stream.                     *)
(*                                                                         *)
(* Of a text only its length matters.  A usage has two halves, each absent *)
(* (<<>>) or given (<<n>>).  An answer that fails is its status and what   *)
(* its message speaks of, or the transport error.                          *)
(***************************************************************************)
EXTENDS Integers, FiniteSets, Sequences, SequencesExt

None == <<>>

-----------------------------------------------------------------------------
\* serving/tokens.py

CHARS_PER_TOKEN == 4
MESSAGE_OVERHEAD_TOKENS == 4

ApproximateTokenCount(size) ==
  IF size = 0 THEN 0 ELSE IF size < CHARS_PER_TOKEN THEN 1 ELSE size \div CHARS_PER_TOKEN

ApproximatePromptTokens(messages) ==
  FoldLeft(LAMBDA n, m : n + ApproximateTokenCount(m.size) + MESSAGE_OVERHEAD_TOKENS, 0, messages)

OrZero(half) == IF half = None THEN 0 ELSE half[1]

IsReported(usage) == usage.prompt # None \/ usage.completion # None

\* One reported half is enough for both to count as reported; the other is 0.
UsageFromProvider(usage) ==
  [prompt |-> OrZero(usage.prompt), completion |-> OrZero(usage.completion),
   reported |-> IsReported(usage)]

UsageOf(messages, usage, size) ==
  IF IsReported(usage) THEN UsageFromProvider(usage)
  ELSE [ prompt |-> ApproximatePromptTokens(messages),
         completion |-> ApproximateTokenCount(size), reported |-> FALSE ]

-----------------------------------------------------------------------------
\* serving/adapters/_http.py: errors.  Those the router goes on after are in
\* Retryable; the family of the provider only names the unavailability.

RETRYABLE_STATUS == {408, 409, 429, 500, 502, 503, 504, 529}

Retryable == {"provider_timeout", "provider_unavailable", "rate_limited",
              "model_unavailable", "upstream_error"}

RaiseForStatus(status, message) ==
  IF status < 400 THEN "none"
  ELSE IF status \in {401, 403} THEN "authentication_error"
  ELSE IF message = "context length" THEN "context_too_large"
  ELSE IF status = 429 THEN "rate_limited"
  ELSE IF status = 404 \/ message = "model not found" THEN "model_unavailable"
  ELSE IF status \in RETRYABLE_STATUS THEN "provider_unavailable"
  ELSE IF status < 500 THEN "invalid_request_error"
  ELSE "upstream_error"

TranslateTransportError(failure) ==
  IF failure = "timeout" THEN "provider_timeout" ELSE "provider_unavailable"

\* What stopped a call before there was anything to read.
Refusal(answer) ==
  IF answer.failure # "none" THEN TranslateTransportError(answer.failure)
  ELSE RaiseForStatus(answer.status, answer.message)

\* iter_sse_data: comments and blank lines are passed over, [DONE] ends it.
SseData(lines) ==
  LET ends == {i \in DOMAIN lines : lines[i].kind = "done"}
      last == IF ends = {} THEN Len(lines) ELSE (CHOOSE i \in ends : \A j \in ends : i <= j) - 1
  IN  SelectSeq(SubSeq(lines, 1, last), LAMBDA line : line.kind \notin {"comment", "not json"})

-----------------------------------------------------------------------------
\* Requests

DEFAULT_MAX_TOKENS == 1024
Blank == [role |-> "user", size |-> 1]
Break == 2  \* the blank line between merged messages

MergedRole(m) == IF m.role = "assistant" THEN "assistant" ELSE "user"

Merge(turns, m) ==
  IF turns # <<>> /\ Last(turns).role = MergedRole(m)
  THEN [turns EXCEPT ![Len(turns)].size = @ + Break + m.size]
  ELSE Append(turns, [role |-> MergedRole(m), size |-> m.size])

AnthropicMessages(messages) ==
  LET turns == FoldLeft(Merge, <<>>, SelectSeq(messages, LAMBDA m : m.role # "system"))
  IN  IF turns = <<>> THEN <<Blank>>
      ELSE IF turns[1].role # "user" THEN <<Blank>> \o turns
      ELSE turns

AnthropicPayload(request, stream) ==
  [ messages |-> AnthropicMessages(request.messages), stream |-> stream,
    system |-> SelectSeq(request.messages, LAMBDA m : m.role = "system"),
    max_tokens |-> IF request.max_tokens \in {None, <<0>>} THEN DEFAULT_MAX_TOKENS
                   ELSE request.max_tokens[1] ]

-----------------------------------------------------------------------------
\* Answers at once

Result(size, reason, usage) == [error |-> "none", size |-> size, reason |-> reason, usage |-> usage]

Failure(error) == [error |-> error]

GenerateOpenAI(request, answer) ==
  IF Refusal(answer) # "none" THEN Failure(Refusal(answer))
  ELSE IF answer.choices = <<>> THEN Failure("upstream_error")
  ELSE LET choice == answer.choices[1]
       IN  Result(choice.size, IF choice.reason = None THEN "stop" ELSE choice.reason[1],
                  UsageOf(request.messages, answer.usage, choice.size))

STOP_REASON_MAP == [end_turn |-> "stop", stop_sequence |-> "stop",
                    max_tokens |-> "length", tool_use |-> "tool_calls"]

Reason(stop_reason) ==
  IF stop_reason # None /\ stop_reason[1] \in DOMAIN STOP_REASON_MAP
  THEN STOP_REASON_MAP[stop_reason[1]] ELSE "stop"

GenerateAnthropic(request, answer) ==
  IF Refusal(answer) # "none" THEN Failure(Refusal(answer))
  ELSE LET size == FoldLeft(LAMBDA n, b : IF b.type = "text" THEN n + b.size ELSE n, 0, answer.content)
       IN  Result(size, Reason(answer.stop_reason), UsageOf(request.messages, answer.usage, size))

-----------------------------------------------------------------------------
\* Answers as streams

Listening == [deltas |-> <<>>, reason |-> "stop", prompt |-> None, completion |-> None]

\* Mistake: a usage that gives one half takes the other back.
Halves_Replaced(seen, usage) ==
  IF IsReported(usage)
  THEN [seen EXCEPT !.prompt = <<OrZero(usage.prompt)>>, !.completion = <<OrZero(usage.completion)>>]
  ELSE seen

Halves(seen, usage) ==
  [seen EXCEPT !.prompt = IF usage.prompt = None THEN @ ELSE usage.prompt,
               !.completion = IF usage.completion = None THEN @ ELSE usage.completion]

Delta(seen, size) == IF size = 0 THEN seen ELSE [seen EXCEPT !.deltas = Append(@, size)]

Chunk(seen, event) ==
  FoldLeft(LAMBDA s, choice :
             Delta([s EXCEPT !.reason = IF choice.reason = None THEN @ ELSE choice.reason[1]],
                   choice.size),
           Halves(seen, event.usage), event.choices)

AnthropicEvent(seen, event) ==
  CASE event.kind = "message_start" ->
         IF IsReported(event.usage) THEN [seen EXCEPT !.prompt = <<OrZero(event.usage.prompt)>>] ELSE seen
    [] event.kind = "content_block_delta" -> Delta(seen, event.size)
    [] event.kind = "message_delta" ->
         Halves([seen EXCEPT !.reason = IF event.reason = None THEN @ ELSE Reason(event.reason)],
                event.usage)
    [] OTHER -> seen

\* StreamEnd.  A half that was never reported is estimated.
Ended(request, seen) ==
  LET size == FoldLeft(LAMBDA a, b : a + b, 0, seen.deltas)
  IN  Result(size, seen.reason,
        [ prompt     |-> IF seen.prompt = None THEN ApproximatePromptTokens(request.messages)
                         ELSE seen.prompt[1],
          completion |-> IF seen.completion = None THEN ApproximateTokenCount(size)
                         ELSE seen.completion[1],
          reported   |-> seen.prompt # None /\ seen.completion # None ])

\* A stream that stops without [DONE] ends like any other; one that breaks fails
\* after the deltas already sent.
Streamed(request, answer, seen) ==
  IF Refusal(answer) # "none" THEN [deltas |-> <<>>, end |-> Failure(Refusal(answer))]
  ELSE [ deltas |-> seen.deltas,
         end |-> IF answer.breaks = "none" THEN Ended(request, seen)
                 ELSE Failure(TranslateTransportError(answer.breaks)) ]

StreamOpenAI(request, answer) ==
  Streamed(request, answer, FoldLeft(Chunk, Listening, SseData(answer.lines)))

StreamAnthropic(request, answer) ==
  Streamed(request, answer, FoldLeft(AnthropicEvent, Listening, SseData(answer.lines)))

-----------------------------------------------------------------------------
\* The mock answers its last user message, in a stream word by word, and reports no usage.

GenerateMock(request, fails, size) ==
  IF fails THEN Failure("provider_unavailable")
  ELSE Result(size, "stop", UsageOf(request.messages, [prompt |-> None, completion |-> None], size))

StreamMock(request, fails, words) ==
  IF fails THEN [deltas |-> <<>>, end |-> Failure("provider_unavailable")]
  ELSE [deltas |-> words, end |-> Ended(request, [Listening EXCEPT !.deltas = words])]

-----------------------------------------------------------------------------
\* Properties

\* The same answer, cut into chunks with its usage spread over them in any way,
\* is worth the same as a stream and at once: the text, the reason, the tokens
\* and whether they are an estimate, unless the backend gave one half of the
\* usage only (which at once counts as reported, with a 0, and in a stream not).
StreamAgrees(usage, at_once, streamed) ==
  (usage.prompt = None) = (usage.completion = None) => streamed.end = at_once

\* What Anthropic is sent alternates, begins with the user and says all that was said,
\* in its order: nothing is lost where turns of one role are joined, and nothing but the
\* blank first turn is made up.
TurnsAlternate(request) ==
  LET sent == AnthropicPayload(request, FALSE).messages
      said == SelectSeq(request.messages, LAMBDA m : m.role # "system")
      Sum(turns) == FoldLeft(LAMBDA n, m : n + m.size, 0, turns)
      added == said = <<>> \/ said[1].role = "assistant"
      Spoken(turns) == [i \in DOMAIN turns |-> MergedRole(turns[i])]
      Changes == {i \in DOMAIN said : i > 1 /\ Spoken(said)[i] # Spoken(said)[i - 1]}
  IN  /\ \A i \in DOMAIN sent : sent[i].role = IF i % 2 = 1 THEN "user" ELSE "assistant"
      /\ Sum(sent) = Sum(said) + (IF added THEN Blank.size ELSE 0)
                      + Break * (IF said = <<>> THEN 0 ELSE Len(said) - 1 - Cardinality(Changes))
=============================================================================

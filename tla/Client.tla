-------------------------------- MODULE Client --------------------------------
(***************************************************************************)
(* The client SDK (myvista/client.py, _http.py, errors.py; async_client.py  *)
(* is the same, awaited): one call, retried over a network that loses        *)
(* requests and answers and is given up on by a timeout while the gateway    *)
(* still works.                                                            *)
(*                                                                         *)
(* An answer is [status, error, retry_after]: what went wrong by its type,   *)
(* <<>> for none, and the header, <<>> when absent or no number.  Every      *)
(* attempt carries the same request id, which the gateway does not use to    *)
(* tell a repetition.  Time is in quarter seconds; the random part of the     *)
(* pause is left out, and the reading of a streamed body (iter_sse).          *)
(***************************************************************************)
EXTENDS Integers, Sequences, SequencesExt

CONSTANTS MaxRetries, Answers, MaxTime

VARIABLES
  call,     \* at ("idle", "waiting", "pausing", "done"), until, and its result
  heard,    \* the fate of each attempt, in order: an answer or a transport error
  onTheWay, \* attempts the gateway has not handled
  served,   \* how often the gateway did the work, and charged for it
  now

vars == <<call, heard, onTheWay, served, now>>

None == <<>>

-----------------------------------------------------------------------------
\* _http.py and errors.py

RETRY_STATUSES == {408, 409, 429, 500, 502, 503, 504}
Transport == {"timeout", "connect", "protocol", "other"}

IsSuccess(answer) == answer.status < 300

\* Mistake: what is no success is worth another try.
ShouldRetry_AnyFailure(fate) == TRUE

ShouldRetry(fate) ==
  IF "transport" \in DOMAIN fate THEN fate.transport # "other" ELSE fate.status \in RETRY_STATUSES

\* Quarter seconds.  What Retry-After says is slept, however long.
Backoff(attempt, fate) ==
  IF "status" \in DOMAIN fate /\ fate.retry_after # None THEN 4 * fate.retry_after[1]
  ELSE IF 2 ^ attempt > 32 THEN 32 ELSE 2 ^ attempt

WrapTransportError(fate) ==
  IF fate.transport = "timeout" THEN "APITimeoutError" ELSE "APIConnectionError"

BY_TYPE ==
  [ authentication_error |-> "AuthenticationError", permission_error |-> "AuthorizationError",
    invalid_request_error |-> "InvalidRequestError", not_found |-> "NotFoundError",
    model_not_found |-> "ModelNotFoundError", model_unavailable |-> "ModelNotFoundError",
    quota_exceeded |-> "QuotaExceededError", rate_limited |-> "QuotaExceededError" ]

\* error_from_response: a type it does not know says no more than that it failed.
ErrorFrom(answer) ==
  IF answer.error # None /\ answer.error[1] \in DOMAIN BY_TYPE THEN BY_TYPE[answer.error[1]]
  ELSE "APIStatusError"

-----------------------------------------------------------------------------
\* MyVista.request

Init ==
  /\ call = [at |-> "idle", until |-> 0, result |-> None]
  /\ heard = <<>> /\ onTheWay = 0 /\ served = 0 /\ now = 0

Send ==
  /\ call.at = "idle" \/ (call.at = "pausing" /\ now >= call.until)
  /\ call' = [call EXCEPT !.at = "waiting"]
  /\ onTheWay' = onTheWay + 1
  /\ UNCHANGED <<heard, served, now>>

End(result) == call' = [call EXCEPT !.at = "done", !.result = <<result>>]

Pause(fate) ==
  call' = [call EXCEPT !.at = "pausing", !.until = now + Backoff(Len(heard), fate)]

Hear(fate) == heard' = Append(heard, fate)

\* A transport error: the attempt may be lost, or be on the way, or have been served.
Fail(kind) ==
  LET fate == [transport |-> kind] IN
  /\ call.at = "waiting"
  /\ Hear(fate)
  /\ IF Len(heard) >= MaxRetries \/ ~ShouldRetry(fate) THEN End(WrapTransportError(fate)) ELSE Pause(fate)
  /\ UNCHANGED <<served, now>>
  /\ IF kind = "connect" THEN onTheWay' = onTheWay - 1 ELSE UNCHANGED onTheWay

Hears(answer) ==
  /\ Hear(answer)
  /\ IF IsSuccess(answer) THEN End("answer")
     ELSE IF Len(heard) >= MaxRetries \/ ~ShouldRetry(answer) THEN End(ErrorFrom(answer))
     ELSE Pause(answer)

\* The gateway works on an attempt; the one waited for hears of it.
Answer(answer) ==
  /\ call.at = "waiting" /\ onTheWay > 0
  /\ onTheWay' = onTheWay - 1
  /\ served' = IF IsSuccess(answer) THEN served + 1 ELSE served
  /\ Hears(answer)
  /\ UNCHANGED now

\* An attempt given up on is worked on all the same, or lost.
Late(works) ==
  /\ onTheWay > IF call.at = "waiting" THEN 1 ELSE 0
  /\ onTheWay' = onTheWay - 1
  /\ served' = IF works THEN served + 1 ELSE served
  /\ UNCHANGED <<call, heard, now>>

Tick == now < MaxTime /\ now' = now + 1 /\ UNCHANGED <<call, heard, onTheWay, served>>

Next ==
  \/ Send \/ Tick
  \/ \E kind \in Transport : Fail(kind)
  \/ \E answer \in Answers : Answer(answer)
  \/ \E works \in BOOLEAN : Late(works)

Specification == Init /\ [][Next]_vars

-----------------------------------------------------------------------------
\* An attempt is only ever repeated when its fate is open or the gateway was too
\* busy to take it: a refusal is not asked for twice, nobody waits for an answer
\* already had, what the caller is told is the last fate, and a call is worked on
\* and charged no more often than the attempts it has (_http.py:75, client.py:92).
RepeatsAreJustified ==
  LET open(fate) == IF "transport" \in DOMAIN fate THEN fate.transport # "other"
                    ELSE fate.status \in {408, 409, 429} \union 500..599
  IN  /\ \A i \in 1 .. Len(heard) - 1 : open(heard[i])
      /\ served + onTheWay <= MaxRetries + 1 /\ Len(heard) <= MaxRetries + 1
      /\ call.at = "done" =>
           /\ (call.result = <<"answer">>) <=> ("status" \in DOMAIN Last(heard) /\ IsSuccess(Last(heard)))
           /\ call.result = <<"answer">> => served > 0

=============================================================================

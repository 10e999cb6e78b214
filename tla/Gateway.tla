-------------------------------- MODULE Gateway --------------------------------
(***************************************************************************)
(* A chat request on its way through the gateway: identified against the   *)
(* denylist (identity/revocation.py), admitted by the quota ledger         *)
(* (QuotaLedger, which this module extends), answered at once or as a      *)
(* stream by the chat route (gateway/routes/chat.py) and metered.  Every   *)
(* place where the task is suspended is a value of `at`; clients may hang  *)
(* up there, operators revoke credentials meanwhile.                       *)
(*                                                                         *)
(* The identity provider, the router and the guardrails answer as they     *)
(* like.  A user presents one credential, with a token id and a            *)
(* fingerprint.                                                            *)
(***************************************************************************)
EXTENDS QuotaLedger, SequencesExt

CONSTANTS
  MaxEntries,    \* InMemoryRevocationStore(max_entries)
  Lifetimes      \* minutes an operator may revoke for; None is for ever

ASSUME GatewayAssumption ==
  /\ IsFiniteSet(Users)
  /\ MaxEntries \in Nat \ {0} /\ Lifetimes \subseteq Nat \union {None}

VARIABLES
  deny,   \* ids, prints: entries [user, until], oldest first
          \* history orders: what was last ordered for a user, by table, and
          \* overfull: more than MaxEntries orders have stood at once, with the
          \* one given at the time, which may have expired
  chat    \* chat[r]: at, where the task of r is suspended; known, whether the
          \* handler holds a routing decision, as it does before it sends any
          \* text; history charges

chatVars    == <<deny, chat>>
gatewayVars == <<vars, chatVars>>

Calm == [at |-> "idle", known |-> FALSE, charges |-> 0]

Tables == {"ids", "prints"}

GatewayInit ==
  /\ Init
  /\ deny = [ ids |-> <<>>, prints |-> <<>>, overfull |-> FALSE,
              orders |-> [t \in Tables |-> [u \in Users |-> 0]] ]
  /\ chat = [r \in Requests |-> Calm]

-----------------------------------------------------------------------------
\* The denylist

Stands(until) == until = None \/ until > now

Unexpired(entry) == Stands(entry.until)

Listed(table, u) == \E i \in DOMAIN table : table[i].user = u /\ Unexpired(table[i])

\* A dict keeps the place of a key that is written again.
Written(table, u, until) ==
  IF \E i \in DOMAIN table : table[i].user = u
  THEN [i \in DOMAIN table |->
          IF table[i].user = u THEN [table[i] EXCEPT !.until = until] ELSE table[i]]
  ELSE Append(table, [user |-> u, until |-> until])

\* _evict_overflow_unlocked: the oldest ids go first, then the oldest prints.
Evicted(ids, prints) ==
  LET excess == Len(ids) + Len(prints) - MaxEntries
      fromIds == IF excess <= 0 THEN 0 ELSE IF excess < Len(ids) THEN excess ELSE Len(ids)
      fromPrints == IF excess <= 0 THEN 0 ELSE excess - fromIds
  IN  [ ids    |-> SubSeq(ids, fromIds + 1, Len(ids)),
        prints |-> SubSeq(prints, fromPrints + 1, Len(prints)) ]

\* The entries that have not expired, in their order.
Purged(table) ==
  LET kept  == {i \in DOMAIN table : Unexpired(table[i])}
      place == CHOOSE p \in [1..Cardinality(kept) -> kept] :
                 \A i, j \in DOMAIN p : i < j => p[i] < p[j]
  IN  [i \in DOMAIN place |-> table[place[i]]]

\* Mistake: the overflow is counted before expired entries are dropped.
Denied_Unpurged(d, u, tables, until) ==
  LET kept(t) == IF t \in tables THEN Written(d[t], u, until) ELSE d[t]
  IN  Evicted(kept("ids"), kept("prints"))

\* revoke: what it leaves of the two tables.
Denied(d, u, tables, until) ==
  LET purged(t) == Purged(d[t])
      kept(t) == IF t \in tables THEN Written(purged(t), u, until) ELSE purged(t)
  IN  Evicted(kept("ids"), kept("prints"))

Standing(orders) == {order \in Tables \X Users : Stands(orders[order[1]][order[2]])}

\* An expired entry counts for nothing; whether a lookup has deleted it already
\* shows nowhere, because revoke() purges before it counts.
Revoke(u, tables, until) ==
  /\ LET left == Denied(deny, u, tables, until)
         orders == [t \in Tables |-> IF t \in tables THEN [deny.orders[t] EXCEPT ![u] = until]
                                     ELSE deny.orders[t]]
     IN  deny' = [ ids |-> left.ids, prints |-> left.prints, orders |-> orders,
                   overfull |-> \/ deny.overfull
                                \/ Cardinality(Standing(orders) \union (tables \X {u})) > MaxEntries ]
  /\ UNCHANGED <<vars, chat>>

-----------------------------------------------------------------------------
\* Identification and admission

At(r, place) == chat[r].at = place
Moves(r, place) == chat' = [chat EXCEPT ![r].at = place]

\* RevokingVerifier.verify up to its await: the fingerprint is known already.
Present(r) ==
  /\ At(r, "idle") /\ phase[r] = "idle"
  /\ ~Listed(deny.prints, UserOf[r])
  /\ Moves(r, "verifying")
  /\ UNCHANGED <<vars, deny>>

\* After the await the denylist is asked again, now also for the token id.
Vouched(r) ==
  /\ At(r, "verifying")
  /\ ~Listed(deny.ids, UserOf[r]) /\ ~Listed(deny.prints, UserOf[r])

Unidentified(r) ==
  /\ At(r, "verifying")
  /\ Moves(r, "idle")
  /\ UNCHANGED <<vars, deny>>

\* Nothing is awaited between the verifier's answer and the ledger's.
Admitted(r) == Vouched(r) /\ Accept(r) /\ Moves(r, "arrived") /\ UNCHANGED deny
Rejected(r) == Vouched(r) /\ Refuse(r) /\ Moves(r, "idle") /\ UNCHANGED deny

-----------------------------------------------------------------------------
\* The chat route

\* The handler ends; what it recorded stays in `chat` until the slot is returned.
Ends(r) == Moves(r, "leaving") /\ UNCHANGED <<vars, deny>>

\* _meter: the shared tail of every way to be metered, leaving `chat` as given.
Metered(r, c) ==
  /\ chat' = [chat EXCEPT ![r] = [c EXCEPT !.charges = @ + 1]]
  /\ \E n \in Spends : ledger' = RecordUsage(ledger, r, n)
  /\ phase' = [phase EXCEPT ![r] = "metered"]
  /\ UNCHANGED <<now, admitted, deny>>

Unmetered(r, c) == chat' = [chat EXCEPT ![r] = c] /\ UNCHANGED <<vars, deny>>

\* The input guardrail blocks, the context ceiling is exceeded, the body is not
\* valid, or the model cannot be resolved.
TurnDown(r) == At(r, "arrived") /\ Ends(r)

\* Classification is awaited but never fails a request; then the request is
\* compiled and routed.
Dispatch(r) ==
  /\ At(r, "arrived")
  /\ \E place \in {"completing", "streaming"} : Moves(r, place)
  /\ UNCHANGED <<vars, deny>>

\* complete() answers: metered first, then the output guardrail may still block.
Answer(r) ==
  /\ At(r, "completing")
  /\ Metered(r, [chat[r] EXCEPT !.at = "leaving", !.known = TRUE])

\* A FabricError is metered when it brings the decision along.
CompleteFails(r) ==
  /\ At(r, "completing")
  /\ \/ Metered(r, [chat[r] EXCEPT !.at = "leaving", !.known = TRUE])
     \/ Ends(r)

\* record() of _stream_completion, shared by all its callers.
Recorded_Again(r, c) == IF c.known THEN Metered(r, c) ELSE Unmetered(r, c)

Recorded(r, c) ==
  IF c.known /\ c.charges = 0 THEN Metered(r, c) ELSE Unmetered(r, c)

\* A delta: the inspector withholds it, or lets text go, which is yielded.  Like
\* the wait for the next event, the yield ends in Cancel when the client is gone.
Delta(r) ==
  /\ At(r, "streaming")
  /\ Unmetered(r, [chat[r] EXCEPT !.known = TRUE])

\* StreamEnd: the remainder, if any, is yielded, then the last frame.
Flush(r) ==
  /\ At(r, "streaming") /\ chat[r].charges = 0
  /\ Unmetered(r, [chat[r] EXCEPT !.known = TRUE, !.at = "closing"])

\* The client has taken the last frame.
Close(r) == At(r, "closing") /\ Recorded(r, [chat[r] EXCEPT !.at = "streaming"])

\* The router's stream is exhausted, with or without a StreamEnd.
Exhaust(r) ==
  /\ At(r, "streaming") /\ chat[r].known
  /\ Recorded(r, [chat[r] EXCEPT !.at = "done"])

\* A FabricError: from the router, which gives it the decision unless planning
\* failed, or from the inspector, which has seen an event.  The frames sent
\* after the record change nothing.
StreamFails(r) ==
  /\ At(r, "streaming")
  /\ \E decided \in BOOLEAN :
       Recorded(r, [chat[r] EXCEPT !.known = @ \/ decided, !.at = "leaving"])

\* Mistake: only errors of the fabric are caught.
Cancel_Uncaught(r) ==
  /\ chat[r].at \in {"streaming", "closing", "done"}
  /\ Unmetered(r, [chat[r] EXCEPT !.at = "leaving"])

\* The client hangs up, or an error that is no FabricError escapes: the except
\* BaseException arm.
Cancel(r) ==
  /\ chat[r].at \in {"streaming", "closing", "done"}
  /\ Recorded(r, [chat[r] EXCEPT !.at = "leaving"])

\* The last frame is sent; or a request that is no stream is cut short, unmetered.
Abandon(r) == chat[r].at \in {"arrived", "completing", "done"} /\ Ends(r)

\* The middleware's finally.
Leave(r) ==
  /\ At(r, "leaving")
  /\ Finish(r)
  /\ chat' = [chat EXCEPT ![r] = Calm]
  /\ UNCHANGED deny

-----------------------------------------------------------------------------

Serve(r) ==
  \/ Present(r) \/ Unidentified(r) \/ Admitted(r) \/ Rejected(r)
  \/ TurnDown(r) \/ Dispatch(r) \/ Answer(r) \/ CompleteFails(r)
  \/ Delta(r) \/ Flush(r) \/ Close(r) \/ Exhaust(r)
  \/ StreamFails(r) \/ Cancel(r) \/ Abandon(r) \/ Leave(r)

GatewayNext ==
  \/ \E r \in Requests : Serve(r)
  \/ \E u \in Users, tables \in (SUBSET Tables) \ {{}}, life \in Lifetimes :
       Revoke(u, tables, IF life = None THEN None ELSE now + life)
  \/ Tick /\ UNCHANGED chatVars

GatewaySpec == GatewayInit /\ [][GatewayNext]_gatewayVars

-----------------------------------------------------------------------------
\* Properties

\* Whatever order of frames, errors and hang-ups a request ends in, a handler that
\* has learnt where the request was routed (and so any that has sent text) has
\* metered it once, and any other never.  chat.py meters from six places.
AnsweredIsMetered ==
  \A r \in Requests : At(r, "leaving") => chat[r].charges = IF chat[r].known THEN 1 ELSE 0

\* A revocation, by token id or fingerprint, is honoured from the next admission
\* on until it expires, also by requests that were being verified when it came;
\* the one excuse is that more revocations have stood at once than the denylist
\* holds (revocation.py:106 then forgets the oldest).  A revocation given when it
\* has expired already takes a place all the same.
RevokedIsRefused ==
  [][\A r \in Requests :
       ~At(r, "arrived") /\ chat'[r].at = "arrived" /\ ~deny.overfull =>
         \A t \in Tables : <<t, UserOf[r]>> \notin Standing(deny.orders)]_gatewayVars

\* What the middleware and the chat route do to the ledger is what QuotaLedger
\* says, so its theorems hold of the gateway: a slot is returned once, usage is
\* recorded at most once and only while the slot is held.
ImplementsLedger == Init /\ [][Next]_vars
=============================================================================

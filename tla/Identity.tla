------------------------------- MODULE Identity -------------------------------
(***************************************************************************)
(* Who a request speaks for: OIDC tokens and the signing keys they are        *)
(* verified with (identity/oidc.py), the denylist in Redis                   *)
(* (storage/redis.py), delegation to another tenant (identity/claims.py).    *)
(*                                                                         *)
(* Verifying suspends at the lock of the key set and while the identity       *)
(* provider is asked; several requests verify at once.                       *)
(***************************************************************************)
EXTENDS Integers, FiniteSets, TLC

CONSTANTS
  Requests,
  Tokens,         \* [kid, signer, exp, id, tenant, delegates]: kid is an option, the
                  \* other claims are as the signer wrote them
  KeySets,        \* what the provider may publish: sets of keys, {} for nothing usable
  CacheSeconds,   \* jwks_cache_seconds
  MinInterval,    \* min_refresh_interval_seconds
  Leeway,         \* leeway_s
  FailClosed,     \* is this production?
  DefaultTTL,     \* default_ttl_s of the denylist
  MaxDenied,      \* bound on the denylist's entries
  MaxTime         \* bound on the clock

VARIABLES
  now,
  published,   \* what the provider publishes now
  keys,        \* _keys, {} before the first success
  fetched,     \* _keys_fetched_at
  attempt,     \* _last_refresh_attempt
  holder,      \* who holds the lock: an option
  denied,      \* the denylist: [token id or fingerprint -> expiry]
  request,     \* request[r]
  accepted     \* history: the last token accepted

vars == <<now, published, keys, fetched, attempt, holder, denied, request, accepted>>

None == <<>>
Idle == [at |-> "idle"]

Goes(r, place) == request' = [request EXCEPT ![r].at = place]
Refused(r) == request' = [request EXCEPT ![r] = Idle] /\ UNCHANGED accepted

-----------------------------------------------------------------------------
\* The denylist

Fingerprint(token) == <<"fp", token>>
TokenId(token) == <<"jti", token.id>>

Listed(entries) == \E e \in entries : e \in DOMAIN denied /\ now < denied[e]

\* Mistake: the token id is never asked about.
MayPass_Fingerprint(entries, token) == ~Listed({Fingerprint(token)}) \/ ~FailClosed

\* is_revoked is FALSE, where Redis may also fail.
MayPass(entries, token) == ~Listed(entries) \/ ~FailClosed

\* revoke(): for the life left, at least a second; without an expiry, the default.
Revoke(entry, expires) ==
  LET left == IF expires = None THEN DefaultTTL
              ELSE IF expires[1] - now > 1 THEN expires[1] - now ELSE 1
  IN  /\ Cardinality(DOMAIN denied \union {entry}) <= MaxDenied
      /\ denied' = (entry :> now + left) @@ denied
      /\ accepted' = None
      /\ UNCHANGED <<now, published, keys, fetched, attempt, holder, request>>

-----------------------------------------------------------------------------
\* The signing keys

Fresh == CacheSeconds > 0 /\ keys # {} /\ now - fetched <= CacheSeconds

\* _key_by_kid: without a kid only an only key will do.
KeyByKid(known, kid) ==
  IF kid = None THEN (IF Cardinality(known) = 1 THEN known ELSE {})
  ELSE {k \in known : <<k>> = kid}

-----------------------------------------------------------------------------
Init ==
  /\ now = 0 /\ keys = {} /\ fetched = 0 /\ attempt = 0 /\ holder = None
  /\ published \in KeySets /\ denied = <<>> /\ accepted = None
  /\ request = [r \in Requests |-> Idle]

\* jwt.decode, the claims and the second look at the denylist, then delegation.
Decode(r, known) ==
  LET q == request[r]
      t == q.token
      Entries == {Fingerprint(t), TokenId(t)}
      Delegated == q.asked # t.tenant
      Good == /\ KeyByKid(known, t.kid) = {t.signer} /\ now < t.exp + Leeway
              /\ Delegated => t.delegates
  IN  \/ Refused(r)
      \/ /\ Good /\ MayPass(Entries, t)
         /\ accepted' = <<[token |-> t, at |-> now, tenant |-> q.asked]>>
         /\ request' = [request EXCEPT ![r] = Idle]

\* verify(): the denylist, then the cached key, or the lock.
Present(r, token, asked) ==
  /\ request[r].at = "idle"
  /\ MayPass({Fingerprint(token)}, token)
  /\ request' = [request EXCEPT ![r] = [at |-> "verify", token |-> token, asked |-> asked]]
  /\ accepted' = None
  /\ UNCHANGED <<now, published, keys, fetched, attempt, holder, denied>>

Verify(r) ==
  /\ request[r].at = "verify"
  /\ IF Fresh /\ KeyByKid(keys, request[r].token.kid) # {}
     THEN Decode(r, keys)
     ELSE Goes(r, "lock") /\ UNCHANGED accepted
  /\ UNCHANGED <<now, published, keys, fetched, attempt, holder, denied>>

\* _refresh_keys has nothing to do: fresh keys, or asked too recently.
Enough == Fresh \/ now - attempt < MinInterval

\* The lock is free; what another has fetched meanwhile is used.
Enter(r) ==
  /\ request[r].at = "lock" /\ holder = None
  /\ IF Enough
     THEN Decode(r, keys) /\ UNCHANGED <<attempt, holder>>
     ELSE /\ attempt' = now /\ holder' = <<r>>
          /\ request' = [request EXCEPT ![r] = [at |-> "fetch", token |-> @.token,
                                               asked |-> @.asked, began |-> now]]
          /\ UNCHANGED accepted
  /\ UNCHANGED <<now, published, keys, fetched, denied>>

\* The provider answers with what it publishes then; nothing usable is a refusal.
Fetched(r) ==
  /\ request[r].at = "fetch"
  /\ holder' = None
  /\ IF published = {}
     THEN Refused(r) /\ UNCHANGED <<keys, fetched>>
     ELSE /\ keys' = published /\ fetched' = request[r].began
          /\ Decode(r, published)
  /\ UNCHANGED <<now, published, attempt, denied>>

FetchFails(r) ==
  /\ request[r].at = "fetch"
  /\ holder' = None /\ Refused(r)
  /\ UNCHANGED <<now, published, keys, fetched, attempt, denied>>

\* warmup(): at a start, before anything is served; the limit does not apply.
Warmup ==
  /\ holder = None /\ \A r \in Requests : request[r] = Idle
  /\ attempt' = now /\ accepted' = None
  /\ IF published = {} THEN UNCHANGED <<keys, fetched>> ELSE keys' = published /\ fetched' = now
  /\ UNCHANGED <<now, published, holder, denied, request>>

Rotate(set) ==
  /\ published' = set /\ accepted' = None
  /\ UNCHANGED <<now, keys, fetched, attempt, holder, denied, request>>

Tick ==
  /\ now < MaxTime
  /\ now' = now + 1 /\ accepted' = None
  /\ UNCHANGED <<published, keys, fetched, attempt, holder, denied, request>>

Next ==
  \/ Tick \/ Warmup
  \/ \E set \in KeySets : Rotate(set)
  \/ \E t \in Tokens : \E expires \in {None, <<t.exp>>} :
       Revoke(Fingerprint(t), expires) \/ Revoke(TokenId(t), expires)
  \/ \E r \in Requests :
       \/ \E t \in Tokens, asked \in {t.tenant : t \in Tokens} : Present(r, t, asked)
       \/ Verify(r) \/ Enter(r) \/ Fetched(r) \/ FetchFails(r)

Spec == Init /\ [][Next]_vars

-----------------------------------------------------------------------------
\* Properties

\* A token is accepted only while it has not expired (within the leeway), with a key the
\* provider published: publishes now, or did within the cache's time, or, when a refresh
\* was tried less than the minimal interval ago, the last it is known to have published.
\* In production neither the token nor its id stood on the denylist at that moment.  It
\* speaks for its own tenant unless it may delegate.
AcceptedIsVouched ==
  accepted # None =>
    LET a == accepted[1]
        t == a.token
    IN  /\ a.at < t.exp + Leeway
        /\ t.signer \in keys
        /\ \/ keys = published
           \/ a.at - fetched <= CacheSeconds \/ a.at - attempt < MinInterval
        /\ FailClosed => ~Listed({Fingerprint(t), TokenId(t)})
        /\ a.tenant = t.tenant \/ t.delegates

=============================================================================

--------------------------- MODULE Components_proofs ---------------------------
(***************************************************************************)
(* Theorems about components that share no state with another.  In the      *)
(* composition of Components each of them takes the steps of its own      *)
(* module or none, so what its module lets it keep, it keeps here.          *)
(***************************************************************************)
EXTENDS Components, WellFoundedInduction, FiniteSetTheorems, SequenceTheorems, TLAPS

-----------------------------------------------------------------------------
\* Identity: an accepted token is vouched for

Verifications ==
  [at : {"idle"}]
    \union [at : {"verify", "lock"}, token : SignedTokens, asked : {t.tenant : t \in SignedTokens}]
    \union [at : {"fetch"}, token : SignedTokens, asked : {t.tenant : t \in SignedTokens}, began : Nat]

\* Whoever asks the provider holds the lock, and nobody asks while the keys are fresh.
LockIsHeld ==
  /\ \A r \in Callers : idRequest[r].at = "fetch" => holder = <<r>>
  /\ holder # <<>> => ~Identity!Fresh

\* The moment it is accepted, a token is good for a key of the set in use, which the
\* provider publishes, or which nobody may ask it about again yet.
Vouched ==
  accepted # <<>> =>
    LET a == accepted[1]
        t == a.token
    IN  /\ a.at = idNow /\ idNow < t.exp + Leeway
        /\ t.signer \in keys
        /\ FailClosed => ~Identity!Listed({Identity!Fingerprint(t), Identity!TokenId(t)})
        /\ a.tenant = t.tenant \/ t.delegates
        /\ keys = published \/ (holder = <<>> /\ Identity!Enough)

IdentityInv ==
  /\ idNow \in Nat /\ fetched \in Nat
  /\ idRequest \in [Callers -> Verifications]
  /\ LockIsHeld
  /\ Vouched

LEMMA IdentityAlone ==
  /\ InitAll => Identity!Init
  /\ [NextAll]_all => [Identity!Next]_(Identity!vars)
BY DEF InitAll, NextAll, all, identity, Identity!vars

\* Decoding accepts a token only if the keys given vouch for it.
LEMMA DecodeVouches ==
  ASSUME IdentityInv, NEW r \in Callers, NEW known, Identity!Decode(r, known),
         idRequest[r].at # "idle"
  PROVE  /\ \A q \in Callers \ {r} : idRequest'[q] = idRequest[q]
         /\ idRequest' \in [Callers -> Verifications] /\ idRequest'[r].at = "idle"
         /\ \/ accepted' = accepted
            \/ /\ accepted' # <<>>
               /\ LET a == accepted'[1]
                      t == a.token
                  IN  /\ a.at = idNow /\ idNow < t.exp + Leeway
                      /\ t.signer \in known
                      /\ FailClosed =>
                           ~Identity!Listed({Identity!Fingerprint(t), Identity!TokenId(t)})
                      /\ a.tenant = t.tenant \/ t.delegates
<1>1. idRequest' = [idRequest EXCEPT ![r] = Identity!Idle]
  BY DEF Identity!Decode, Identity!Refused
<1>2. /\ \A q \in Callers \ {r} : idRequest'[q] = idRequest[q]
      /\ idRequest' \in [Callers -> Verifications] /\ idRequest'[r].at = "idle"
  BY <1>1 DEF IdentityInv, Verifications, Identity!Idle
<1>3. CASE accepted' # accepted
  <2>. DEFINE q == idRequest[r]
  <2>1. /\ accepted' = <<[token |-> q.token, at |-> idNow, tenant |-> q.asked]>>
        /\ Identity!KeyByKid(known, q.token.kid) = {q.token.signer}
        /\ idNow < q.token.exp + Leeway
        /\ q.asked # q.token.tenant => q.token.delegates
        /\ Identity!MayPass({Identity!Fingerprint(q.token), Identity!TokenId(q.token)}, q.token)
    BY <1>3 DEF Identity!Decode, Identity!Refused
  <2>2. q.token.signer \in known
    BY <2>1 DEF Identity!KeyByKid, Identity!None
  <2>. QED  BY <1>2, <2>1, <2>2 DEF Identity!MayPass
<1>. QED  BY <1>2, <1>3

LEMMA IdentityStep ==
  ASSUME IdentityInv, [Identity!Next]_(Identity!vars)
  PROVE  IdentityInv'
<1>. USE DEF IdentityInv, Identity!None
<1>1. CASE UNCHANGED Identity!vars
  BY <1>1 DEF Identity!vars, LockIsHeld, Vouched, Identity!Listed, Identity!Enough, Identity!Fresh,
              Identity!Fingerprint, Identity!TokenId
<1>2. CASE Identity!Tick
  BY <1>2, IdentityAssumption DEF Identity!Tick, LockIsHeld, Vouched, Identity!Fresh
<1>3. CASE Identity!Warmup
  BY <1>3 DEF Identity!Warmup, LockIsHeld, Vouched
<1>4. ASSUME NEW set \in KeySets, Identity!Rotate(set)
      PROVE  IdentityInv'
  BY <1>4 DEF Identity!Rotate, LockIsHeld, Vouched, Identity!Fresh
<1>5. ASSUME NEW entry, NEW expires, Identity!Revoke(entry, expires)
      PROVE  IdentityInv'
  BY <1>5 DEF Identity!Revoke, LockIsHeld, Vouched, Identity!Fresh
<1>6. ASSUME NEW r \in Callers, NEW t \in SignedTokens, NEW asked1 \in {x.tenant : x \in SignedTokens},
             Identity!Present(r, t, asked1)
      PROVE  IdentityInv'
  BY <1>6 DEF Identity!Present, LockIsHeld, Vouched, Identity!Fresh, Verifications
<1>7. ASSUME NEW r \in Callers, Identity!Verify(r)
      PROVE  IdentityInv'
  <2>1. /\ UNCHANGED <<idNow, published, keys, fetched, attempt, holder, denied>>
        /\ idRequest[r].at = "verify"
    BY <1>7 DEF Identity!Verify
  <2>2. CASE Identity!Fresh /\ Identity!Decode(r, keys)
    <3>1. LockIsHeld'
      BY <2>1, <2>2, DecodeVouches DEF LockIsHeld, Identity!Fresh
    <3>2. accepted' # accepted => holder = <<>> /\ Identity!Enough
      BY <2>2 DEF LockIsHeld, Identity!Enough
    <3>3. Vouched'
      BY <2>1, <2>2, <3>2, DecodeVouches
         DEF Vouched, Identity!Enough, Identity!Fresh, Identity!Listed, Identity!Fingerprint, Identity!TokenId
    <3>. QED  BY <2>1, <2>2, <3>1, <3>3, DecodeVouches
  <2>3. CASE idRequest' = [idRequest EXCEPT ![r].at = "lock"] /\ UNCHANGED accepted
    BY <2>1, <2>3 DEF LockIsHeld, Vouched, Verifications, Identity!Enough, Identity!Fresh, Identity!Listed
  <2>. QED  BY <1>7, <2>2, <2>3 DEF Identity!Verify, Identity!Goes
<1>8. ASSUME NEW r \in Callers, Identity!Enter(r)
      PROVE  IdentityInv'
  <2>1. /\ UNCHANGED <<idNow, published, keys, fetched, denied>>
        /\ idRequest[r].at = "lock" /\ holder = <<>>
    BY <1>8 DEF Identity!Enter
  <2>2. CASE Identity!Enough /\ Identity!Decode(r, keys) /\ UNCHANGED <<attempt, holder>>
    <3>1. LockIsHeld'
      BY <2>1, <2>2, DecodeVouches DEF LockIsHeld
    <3>2. Vouched'
      BY <2>1, <2>2, DecodeVouches
         DEF Vouched, Identity!Enough, Identity!Fresh, Identity!Listed, Identity!Fingerprint, Identity!TokenId
    <3>. QED  BY <2>1, <2>2, <3>1, <3>2, DecodeVouches
  <2>3. CASE /\ ~Identity!Enough /\ attempt' = idNow /\ holder' = <<r>> /\ UNCHANGED accepted
             /\ idRequest' = [idRequest EXCEPT ![r] = [at |-> "fetch", token |-> @.token,
                                                     asked |-> @.asked, began |-> idNow]]
    <3>1. idRequest' \in [Callers -> Verifications]
      BY <2>1, <2>3 DEF Verifications
    <3>2. LockIsHeld'
      BY <2>1, <2>3 DEF LockIsHeld, Identity!Enough, Identity!Fresh
    <3>3. Vouched'
      BY <2>1, <2>3 DEF Vouched, Identity!Listed, Identity!Fingerprint, Identity!TokenId
    <3>. QED  BY <2>1, <3>1, <3>2, <3>3
  <2>. QED  BY <1>8, <2>2, <2>3 DEF Identity!Enter
<1>9. ASSUME NEW r \in Callers, Identity!Fetched(r)
      PROVE  IdentityInv'
  <2>1. /\ UNCHANGED <<idNow, published, attempt, denied>> /\ holder' = <<>>
        /\ idRequest[r].at = "fetch" /\ holder = <<r>> /\ idRequest[r].began \in Nat
    BY <1>9 DEF Identity!Fetched, LockIsHeld, Verifications
  <2>2. accepted # <<>> => keys = published
    BY <2>1 DEF Vouched
  <2>3. CASE published = {} /\ Identity!Refused(r) /\ UNCHANGED <<keys, fetched>>
    <3>1. LockIsHeld' /\ idRequest' \in [Callers -> Verifications]
      BY <2>1, <2>3 DEF LockIsHeld, Identity!Refused, Identity!Idle, Verifications
    <3>2. Vouched'
      BY <2>1, <2>2, <2>3 DEF Vouched, Identity!Refused, Identity!Listed
    <3>. QED  BY <2>1, <2>3, <3>1, <3>2
  <2>4. CASE keys' = published /\ fetched' = idRequest[r].began /\ Identity!Decode(r, published)
    <3>1. LockIsHeld'
      BY <2>1, <2>4, DecodeVouches DEF LockIsHeld
    <3>2. Vouched'
      BY <2>1, <2>2, <2>4, DecodeVouches
         DEF Vouched, Identity!Listed, Identity!Fingerprint, Identity!TokenId
    <3>. QED  BY <2>1, <2>4, <3>1, <3>2, DecodeVouches
  <2>. QED  BY <1>9, <2>3, <2>4 DEF Identity!Fetched
<1>10. ASSUME NEW r \in Callers, Identity!FetchFails(r)
       PROVE  IdentityInv'
  <2>1. /\ UNCHANGED <<idNow, published, keys, fetched, attempt, denied>> /\ holder' = <<>>
        /\ idRequest[r].at = "fetch" /\ holder = <<r>> /\ Identity!Refused(r)
    BY <1>10 DEF Identity!FetchFails, LockIsHeld
  <2>2. LockIsHeld' /\ idRequest' \in [Callers -> Verifications]
    BY <2>1 DEF LockIsHeld, Identity!Refused, Identity!Idle, Verifications
  <2>3. Vouched'
    BY <2>1 DEF Vouched, Identity!Refused, Identity!Listed
  <2>. QED  BY <2>1, <2>2, <2>3
<1>. QED
  BY <1>1, <1>2, <1>3, <1>4, <1>5, <1>6, <1>7, <1>8, <1>9, <1>10 DEF Identity!Next

\* Whatever requests, rotations, revocations and failures of the provider interleave
\* with a refresh of the keys, a token is accepted only while it is vouched for.
THEOREM OnlyVouchedTokens == SpecAll => []AcceptedIsVouched
<1>1. InitAll => IdentityInv
  <2>1. Identity!Init => IdentityInv
    BY DEF Identity!Init, IdentityInv, LockIsHeld, Vouched, Verifications, Identity!Idle, Identity!None
  <2>. QED  BY <2>1, IdentityAlone
<1>2. IdentityInv /\ [NextAll]_all => IdentityInv'
  BY IdentityAlone, IdentityStep
<1>3. IdentityInv => AcceptedIsVouched
  BY DEF IdentityInv, Vouched, AcceptedIsVouched, Identity!AcceptedIsVouched, Identity!Enough,
         Identity!Fresh, Identity!None
<1>. QED  BY <1>1, <1>2, <1>3, PTL DEF SpecAll
-----------------------------------------------------------------------------
\* Client: what is repeated may be repeated

Fates == [transport : Client!Transport] \union Answers

\* The fate of an attempt leaves room for another: it is open, or says "not now".
Open(fate) ==
  IF "transport" \in DOMAIN fate THEN fate.transport # "other"
  ELSE fate.status \in {408, 409, 429} \union 500..599

\* While a call goes on, everything heard so far leaves room for another attempt; the
\* gateway has worked on, or will, no more than the attempts that were made.
ClientInv ==
  /\ heard \in Seq(Fates) /\ onTheWay \in Int /\ served \in Nat
  /\ call = [at |-> call.at, until |-> call.until, result |-> call.result]
  /\ call.at \in {"idle", "waiting", "pausing", "done"}
  /\ call.at = "idle" => heard = <<>>
  /\ call.at # "done" =>
       Len(heard) <= MaxRetries /\ \A i \in 1..Len(heard) : Open(heard[i])
  /\ served + onTheWay <= Len(heard) + (IF call.at = "waiting" THEN 1 ELSE 0)
  /\ call.at = "done" =>
       /\ Len(heard) \in 1..MaxRetries + 1
       /\ \A i \in 1..Len(heard) - 1 : Open(heard[i])
       /\ (call.result = <<"answer">>)
            <=> ("status" \in DOMAIN heard[Len(heard)] /\ Client!IsSuccess(heard[Len(heard)]))
       /\ call.result = <<"answer">> => served > 0

LEMMA ClientAlone ==
  /\ InitAll => Client!Init
  /\ [NextAll]_all => [Client!Next]_(Client!vars)
BY DEF InitAll, NextAll, all, client, Client!vars

LEMMA FatesAreTold ==
  /\ \A kind \in Client!Transport :
       LET fate == [transport |-> kind] IN
       /\ fate \in Fates /\ "status" \notin DOMAIN fate
       /\ Client!ShouldRetry(fate) => Open(fate)
       /\ Client!WrapTransportError(fate) # "answer"
  /\ \A reply \in Answers :
       /\ reply \in Fates /\ "status" \in DOMAIN reply
       /\ Client!ShouldRetry(reply) => Open(reply)
       /\ Client!ErrorFrom(reply) # "answer"
<1>1. ASSUME NEW kind \in Client!Transport
      PROVE  LET fate == [transport |-> kind] IN
             /\ fate \in Fates /\ "status" \notin DOMAIN fate
             /\ Client!ShouldRetry(fate) => Open(fate)
             /\ Client!WrapTransportError(fate) # "answer"
  BY DEF Fates, Open, Client!ShouldRetry, Client!WrapTransportError
<1>2. ASSUME NEW reply \in Answers
      PROVE  /\ reply \in Fates /\ "status" \in DOMAIN reply
             /\ Client!ShouldRetry(reply) => Open(reply)
             /\ Client!ErrorFrom(reply) # "answer"
  <2>1. DOMAIN reply = {"status", "error", "retry_after"} /\ reply.status \in Nat
    BY ClientAssumption
  <2>2. \A t \in DOMAIN Client!BY_TYPE : Client!BY_TYPE[t] # "answer"
    BY DEF Client!BY_TYPE
  <2>. QED
    BY <2>1, <2>2 DEF Fates, Open, Client!ShouldRetry, Client!RETRY_STATUSES, Client!ErrorFrom
<1>. QED  BY <1>1, <1>2

\* A fate heard while attempts are left, and open, leads to another attempt ...
LEMMA HeardOpen ==
  ASSUME ClientInv, call.at = "waiting", NEW fate \in Fates,
         heard' = Append(heard, fate), served' \in Nat, onTheWay' \in Int,
         served' + onTheWay' <= served + onTheWay,
         call' = [at |-> "pausing", until |-> call'.until, result |-> call.result],
         Len(heard) < MaxRetries, Open(fate)
  PROVE  ClientInv'
<1>1. /\ Len(heard') = Len(heard) + 1 /\ heard' \in Seq(Fates) /\ Len(heard) \in Nat
      /\ heard'[Len(heard')] = fate /\ \A i \in 1..Len(heard) : heard'[i] = heard[i]
  BY DEF ClientInv
<1>2. /\ MaxRetries \in Nat /\ Len(heard') <= MaxRetries
      /\ served' + onTheWay' <= Len(heard')
  BY <1>1, ClientAssumption DEF ClientInv
<1>3. \A i \in 1..Len(heard') : Open(heard'[i])
  BY <1>1 DEF ClientInv
<1>4. call'.at = "pausing" /\ call' = [at |-> call'.at, until |-> call'.until, result |-> call'.result]
  BY DEF ClientInv
<1>. QED  BY <1>1, <1>2, <1>3, <1>4 DEF ClientInv

\* ... and any other is the last, which is what the caller is told.
LEMMA HeardLast ==
  ASSUME ClientInv, call.at = "waiting", NEW fate \in Fates, NEW result,
         heard' = Append(heard, fate), served' \in Nat, onTheWay' \in Int,
         served' + onTheWay' <= served + onTheWay,
         call' = [at |-> "done", until |-> call.until, result |-> <<result>>],
         (result = "answer") <=> ("status" \in DOMAIN fate /\ Client!IsSuccess(fate)),
         result = "answer" => served' > 0
  PROVE  ClientInv'
<1>1. /\ Len(heard') = Len(heard) + 1 /\ heard' \in Seq(Fates) /\ Len(heard) \in Nat
      /\ heard'[Len(heard')] = fate /\ \A i \in 1..Len(heard) : heard'[i] = heard[i]
  BY DEF ClientInv
<1>2. /\ MaxRetries \in Nat /\ Len(heard) <= MaxRetries
      /\ served' + onTheWay' <= Len(heard')
  BY <1>1, ClientAssumption DEF ClientInv
<1>3. \A i \in 1..Len(heard') - 1 : Open(heard'[i])
  BY <1>1 DEF ClientInv
<1>5. call'.at = "done" /\ call' = [at |-> call'.at, until |-> call'.until, result |-> call'.result]
  OBVIOUS
<1>6. (call'.result = <<"answer">>) <=> result = "answer"
  OBVIOUS
<1>7. (call'.result = <<"answer">>)
        <=> ("status" \in DOMAIN heard'[Len(heard')] /\ Client!IsSuccess(heard'[Len(heard')]))
  BY <1>1, <1>6
<1>8. call'.result = <<"answer">> => served' > 0
  BY <1>6
<1>. QED  BY <1>1, <1>2, <1>3, <1>5, <1>7, <1>8 DEF ClientInv, Client!IsSuccess

LEMMA ClientStep ==
  ASSUME ClientInv, [Client!Next]_(Client!vars)
  PROVE  ClientInv'
<1>1. CASE UNCHANGED Client!vars \/ Client!Tick
  BY <1>1 DEF ClientInv, Client!vars, Client!Tick, Client!IsSuccess
<1>2. CASE Client!Send
  <2>1. call' = [at |-> "waiting", until |-> call.until, result |-> call.result]
    BY <1>2 DEF Client!Send, ClientInv
  <2>. QED  BY <1>2, <2>1 DEF Client!Send, ClientInv
<1>3. ASSUME NEW kind \in Client!Transport, Client!Fail(kind)
      PROVE  ClientInv'
  <2>. DEFINE fate == [transport |-> kind]
  <2>1. /\ heard' = Append(heard, fate) /\ served' = served /\ onTheWay' \in {onTheWay, onTheWay - 1}
        /\ call.at = "waiting"
    BY <1>3 DEF Client!Fail, Client!Hear
  <2>2. \/ /\ ~(Len(heard) >= MaxRetries) /\ Client!ShouldRetry(fate)
           /\ call' = [at |-> "pausing", until |-> call'.until, result |-> call.result]
        \/ call' = [at |-> "done", until |-> call.until, result |-> <<Client!WrapTransportError(fate)>>]
    BY <1>3 DEF Client!Fail, Client!Pause, Client!End, ClientInv
  <2>3. /\ Len(heard) \in Nat /\ MaxRetries \in Nat
        /\ served' \in Nat /\ onTheWay' \in Int /\ served' + onTheWay' <= served + onTheWay
    BY <2>1, ClientAssumption DEF ClientInv
  <2>4. /\ fate \in Fates /\ "status" \notin DOMAIN fate
        /\ Client!ShouldRetry(fate) => Open(fate)
        /\ Client!WrapTransportError(fate) # "answer"
    BY FatesAreTold
  <2>. HIDE DEF fate
  <2>5. CASE /\ ~(Len(heard) >= MaxRetries) /\ Client!ShouldRetry(fate)
             /\ call' = [at |-> "pausing", until |-> call'.until, result |-> call.result]
    <3>1. Len(heard) < MaxRetries /\ Open(fate)
      BY <2>3, <2>4, <2>5
    <3>. QED  BY <2>1, <2>3, <2>4, <2>5, <3>1, HeardOpen, Zenon
  <2>6. CASE call' = [at |-> "done", until |-> call.until, result |-> <<Client!WrapTransportError(fate)>>]
    BY <2>1, <2>3, <2>4, <2>6, HeardLast, Zenon
  <2>. QED  BY <2>2, <2>5, <2>6
<1>4. ASSUME NEW reply \in Answers, Client!Answer(reply)
      PROVE  ClientInv'
  <2>1. /\ heard' = Append(heard, reply) /\ onTheWay' = onTheWay - 1 /\ call.at = "waiting"
        /\ served' = IF Client!IsSuccess(reply) THEN served + 1 ELSE served
    BY <1>4 DEF Client!Answer, Client!Hears, Client!Hear
  <2>2. \/ /\ ~(Len(heard) >= MaxRetries) /\ Client!ShouldRetry(reply)
           /\ call' = [at |-> "pausing", until |-> call'.until, result |-> call.result]
        \/ /\ call' = [at |-> "done", until |-> call.until, result |-> <<Client!ErrorFrom(reply)>>]
           /\ ~Client!IsSuccess(reply)
        \/ /\ call' = [at |-> "done", until |-> call.until, result |-> <<"answer">>]
           /\ Client!IsSuccess(reply)
    BY <1>4 DEF Client!Answer, Client!Hears, Client!Pause, Client!End, ClientInv
  <2>3. /\ Len(heard) \in Nat /\ MaxRetries \in Nat
        /\ served' \in Nat /\ onTheWay' \in Int /\ served' + onTheWay' <= served + onTheWay
        /\ Client!IsSuccess(reply) => served' > 0
    BY <2>1, ClientAssumption DEF ClientInv
  <2>4. /\ reply \in Fates /\ "status" \in DOMAIN reply
        /\ Client!ShouldRetry(reply) => Open(reply)
        /\ Client!ErrorFrom(reply) # "answer"
    BY FatesAreTold
  <2>5. CASE /\ ~(Len(heard) >= MaxRetries) /\ Client!ShouldRetry(reply)
             /\ call' = [at |-> "pausing", until |-> call'.until, result |-> call.result]
    <3>1. Len(heard) < MaxRetries /\ Open(reply)
      BY <2>3, <2>4, <2>5
    <3>. QED  BY <2>1, <2>3, <2>4, <2>5, <3>1, HeardOpen, Zenon
  <2>6. CASE /\ call' = [at |-> "done", until |-> call.until, result |-> <<Client!ErrorFrom(reply)>>]
             /\ ~Client!IsSuccess(reply)
    BY <2>1, <2>3, <2>4, <2>6, HeardLast, Zenon
  <2>7. CASE call' = [at |-> "done", until |-> call.until, result |-> <<"answer">>] /\ Client!IsSuccess(reply)
    BY <2>1, <2>3, <2>4, <2>7, HeardLast, Zenon
  <2>. QED  BY <2>2, <2>5, <2>6, <2>7
<1>5. ASSUME NEW works \in BOOLEAN, Client!Late(works)
      PROVE  ClientInv'
  BY <1>5 DEF Client!Late, ClientInv, Client!IsSuccess
<1>. QED  BY <1>1, <1>2, <1>3, <1>4, <1>5 DEF Client!Next

\* However requests and answers are lost or late, only attempts whose fate is open are
\* repeated, the caller hears the last fate, and the gateway works on no more attempts
\* than the call may have.
THEOREM RepeatsWereCalledFor == SpecAll => []RepeatsAreJustified
<1>1. InitAll => ClientInv
  <2>1. Client!Init => ClientInv
    BY ClientAssumption DEF Client!Init, ClientInv, Client!None
  <2>. QED  BY <2>1, ClientAlone
<1>2. ClientInv /\ [NextAll]_all => ClientInv'
  BY ClientAlone, ClientStep
<1>3. ClientInv => RepeatsAreJustified
  <2>. SUFFICES ASSUME ClientInv PROVE Client!RepeatsAreJustified
    BY DEF RepeatsAreJustified
  <2>1. Len(heard) \in Nat /\ MaxRetries \in Nat
    BY ClientAssumption DEF ClientInv
  <2>2. \A i \in 1..Len(heard) - 1 : Open(heard[i])
    BY <2>1 DEF ClientInv
  <2>3. served + onTheWay <= MaxRetries + 1 /\ Len(heard) <= MaxRetries + 1
    BY <2>1 DEF ClientInv
  <2>4. ASSUME call.at = "done"
        PROVE  /\ (call.result = <<"answer">>)
                    <=> ("status" \in DOMAIN Client!Last(heard) /\ Client!IsSuccess(Client!Last(heard)))
               /\ call.result = <<"answer">> => served > 0
    BY <2>4, Zenon DEF ClientInv, Client!Last
  <2>. HIDE DEF ClientInv
  <2>. QED  BY <2>2, <2>3, <2>4 DEF Client!RepeatsAreJustified, Open
<1>. QED  BY <1>1, <1>2, <1>3, PTL DEF SpecAll
-----------------------------------------------------------------------------
\* Healing: what a tick may do without a person

Snapshot == [samples : Nat, error_rate : Seq(Nat), health_score : Seq(Int), circuit_open : BOOLEAN]

HealingInv ==
  /\ health \in [Models -> Snapshot]
  /\ ceiling \in BOOLEAN /\ cached \in BOOLEAN
  /\ prompts \in [Versions -> Healing!Statuses]

LEMMA HealingAlone ==
  /\ InitAll => Healing!Init
  /\ [NextAll]_all => [Healing!Next]_healing
BY DEF InitAll, NextAll, all, healing, Healing!Next

\* Whatever the signals, what is automatic is an alarm, or one of the two remedies of a
\* deployment whose figures call for them, and then the other is too.
LEMMA AutomaticProposals ==
  ASSUME NEW signals, NEW rows_,
         NEW p \in Healing!Automatic(Healing!Propose(signals, rows_))
  PROVE  \/ p.kind = "raise_incident"
         \/ /\ p.kind \in {"open_circuit_breaker", "shift_traffic"}
            /\ p.target \in DOMAIN rows_ /\ Healing!ShouldTrip(rows_[p.target])
            /\ \A kind \in {"open_circuit_breaker", "shift_traffic"} :
                 Healing!Proposal(kind, p.target, TRUE, "none")
                   \in Healing!Automatic(Healing!Propose(signals, rows_))
<1>. DEFINE significant == Healing!Significant(signals)
            tripping == {m \in DOMAIN rows_ : Healing!ShouldTrip(rows_[m])}
            alarm == {Healing!Proposal("raise_incident", "tenant", TRUE, "critical") : s \in significant}
            suggested == UNION {Healing!Suggested(s.kind) : s \in significant}
            opened == {Healing!Proposal("open_circuit_breaker", m, TRUE, "none") : m \in tripping}
            moved == {Healing!Proposal("shift_traffic", m, TRUE, "none") : m \in tripping}
            found == alarm \union suggested \union opened \union moved
            warning == {Healing!Proposal("raise_incident", "tenant", TRUE, "warning")}
<1>1. \/ Healing!Propose(signals, rows_) = found
      \/ Healing!Propose(signals, rows_) = warning
  BY ZenonT(60) DEF Healing!Propose
<1>2. \A q \in suggested : ~q.auto
  <2>1. \A kind : \A q \in Healing!Suggested(kind) : \E remedy : q = Healing!Manual(remedy[1], remedy[2])
    BY Zenon DEF Healing!Suggested
  <2>2. \A kind, target : ~Healing!Manual(kind, target).auto
    BY DEF Healing!Manual, Healing!Proposal
  <2>. QED  BY <2>1, <2>2
<1>3. \A q \in alarm \union warning : q.kind = "raise_incident"
  <2>1. \A target, automatic, parameter :
          Healing!Proposal("raise_incident", target, automatic, parameter).kind = "raise_incident"
    BY DEF Healing!Proposal
  <2>. QED  BY <2>1, Zenon
<1>4. p \in Healing!Propose(signals, rows_) /\ p.auto
  BY DEF Healing!Automatic
<1>5. CASE p \in alarm \union warning
  BY <1>3, <1>5
<1>6. CASE Healing!Propose(signals, rows_) = found /\ p \in opened \union moved
  <2>1. PICK m \in tripping :
          p \in {Healing!Proposal("open_circuit_breaker", m, TRUE, "none"),
                 Healing!Proposal("shift_traffic", m, TRUE, "none")}
    BY <1>6
  <2>2. p.kind \in {"open_circuit_breaker", "shift_traffic"} /\ p.target = m
    BY <2>1 DEF Healing!Proposal
  <2>3. ASSUME NEW kind \in {"open_circuit_breaker", "shift_traffic"}
        PROVE  Healing!Proposal(kind, m, TRUE, "none") \in found
    BY <2>3
  <2>4. \A kind : Healing!Proposal(kind, m, TRUE, "none").auto
    BY DEF Healing!Proposal
  <2>5. \A kind \in {"open_circuit_breaker", "shift_traffic"} :
          Healing!Proposal(kind, m, TRUE, "none") \in Healing!Automatic(Healing!Propose(signals, rows_))
    BY <1>6, <2>3, <2>4, Zenon DEF Healing!Automatic
  <2>6. m \in DOMAIN rows_ /\ Healing!ShouldTrip(rows_[m])
    BY <2>1
  <2>. QED  BY <2>2, <2>5, <2>6, Zenon
<1>. QED  BY <1>1, <1>2, <1>4, <1>5, <1>6

LEMMA TickIsBounded ==
  ASSUME HealingInv, Healing!Tick
  PROVE  ~Healing!NeedsAPerson
<1>1. PICK signals \in Reports : Healing!Dispatch(Healing!Automatic(Healing!Propose(signals, health)))
  BY DEF Healing!Tick
<1>. DEFINE auto == Healing!Automatic(Healing!Propose(signals, health))
<1>2. \A p \in auto :
        \/ p.kind = "raise_incident"
        \/ /\ p.kind \in {"open_circuit_breaker", "shift_traffic"}
           /\ p.target \in DOMAIN health /\ Healing!ShouldTrip(health[p.target])
           /\ \A kind \in {"open_circuit_breaker", "shift_traffic"} :
                Healing!Proposal(kind, p.target, TRUE, "none") \in auto
  BY AutomaticProposals
<1>. HIDE DEF auto
<1>3. /\ Healing!Of("rollback_classifier", auto) = {}
      /\ Healing!Of("reduce_context_limit", auto) = {}
      /\ Healing!Of("invalidate_cache", auto) = {}
  BY <1>2 DEF Healing!Of
<1>4. <<ceiling, pins, serving, cached>>' = <<ceiling, pins, serving, cached>>
  BY <1>1, <1>3 DEF Healing!Dispatch, HealingInv, auto
<1>5. ASSUME NEW m \in (held' \ held) \union (excluded' \ excluded)
      PROVE  /\ m \in held' \intersect excluded' /\ m \in Models
             /\ ~(health[m].samples < Healing!AUTO_OPEN_MIN_SAMPLES) /\ ~health[m].circuit_open
  <2>1. /\ held' = held \union Healing!TargetsOf("open_circuit_breaker", auto)
        /\ excluded' = excluded \union Healing!TargetsOf("shift_traffic", auto)
    BY <1>1 DEF Healing!Dispatch, auto
  <2>2. PICK p \in auto : p.kind \in {"open_circuit_breaker", "shift_traffic"} /\ p.target = m
    BY <2>1 DEF Healing!TargetsOf, Healing!Of
  <2>3. /\ m \in DOMAIN health /\ Healing!ShouldTrip(health[m])
        /\ Healing!Proposal("open_circuit_breaker", m, TRUE, "none") \in auto
        /\ Healing!Proposal("shift_traffic", m, TRUE, "none") \in auto
    BY <1>2, <2>2
  <2>4. /\ m \in Healing!TargetsOf("open_circuit_breaker", auto)
        /\ m \in Healing!TargetsOf("shift_traffic", auto)
    BY <2>3 DEF Healing!TargetsOf, Healing!Of, Healing!Proposal
  <2>5. m \in Models /\ health[m].samples \in Nat
    BY <2>3 DEF HealingInv, Snapshot
  <2>. QED  BY <2>1, <2>3, <2>4, <2>5 DEF Healing!ShouldTrip, Healing!AUTO_OPEN_MIN_SAMPLES
<1>. QED  BY <1>4, <1>5 DEF Healing!NeedsAPerson
LEMMA HealingStep ==
  ASSUME HealingInv, [Healing!Next]_healing
  PROVE  HealingInv'
<1>1. CASE UNCHANGED healing
  BY <1>1 DEF HealingInv, healing
<1>2. CASE Healing!Remedies
  <2>1. ASSUME NEW proposals, Healing!Dispatch(proposals)
        PROVE  health' \in [Models -> Snapshot] /\ ceiling' \in BOOLEAN /\ cached' \in BOOLEAN
    BY <2>1 DEF Healing!Dispatch, HealingInv, Snapshot
  <2>2. Healing!Tick \/ Healing!Apply => HealingInv'
    BY <2>1 DEF Healing!Tick, Healing!Apply, HealingInv
  <2>3. Healing!Refuse \/ Healing!Restore \/ (\E c \in Classifiers : Healing!Pin(c)) => HealingInv'
    BY DEF Healing!Refuse, Healing!Restore, Healing!Pin, Healing!controls, HealingInv
  <2>4. ASSUME NEW m \in Models, Healing!Traffic(m)
        PROVE  HealingInv'
    BY <2>4, HealingAssumption DEF Healing!Traffic, Healing!controls, HealingInv, Snapshot
  <2>5. ASSUME NEW m \in Models, Healing!Release(m)
        PROVE  HealingInv'
    BY <2>5 DEF Healing!Release, HealingInv, Snapshot
  <2>. QED  BY <1>2, <2>2, <2>3, <2>4, <2>5 DEF Healing!Remedies
<1>3. CASE Healing!PromptSteps
  <2>1. UNCHANGED <<health, ceiling, cached>>
    BY <1>3 DEF Healing!PromptSteps, Healing!Publish, Healing!PromoteVersion, Healing!RollbackPrompt,
                Healing!RestorePrompt, Healing!controls
  <2>2. ASSUME NEW v, NEW status \in Healing!Statuses, prompts' = [prompts EXCEPT ![v] = status]
        PROVE  prompts' \in [Versions -> Healing!Statuses]
    BY <2>2 DEF HealingInv
  <2>3. prompts' \in [Versions -> Healing!Statuses]
    BY <1>3, <2>2 DEF Healing!PromptSteps, Healing!Publish, Healing!PromoteVersion, Healing!RollbackPrompt,
                      Healing!RestorePrompt, Healing!Statuses, HealingInv
  <2>. QED  BY <2>1, <2>3 DEF HealingInv
<1>. QED  BY <1>1, <1>2, <1>3 DEF Healing!Next

\* A nonempty set of versions has a highest.
LEMMA HighestOfVersions ==
  ASSUME NEW S, S \subseteq Versions, S # {}
  PROVE  Healing!Highest(S) \in S /\ \A u \in S : u <= Healing!Highest(S)
<1>. DEFINE n == Cardinality(Versions)
            above == {n - v : v \in S}
<1>1. n \in Nat /\ Versions = 1..n
  BY HealingAssumption, FS_CardinalityType
<1>2. above \subseteq Nat /\ above # {}
  BY <1>1
<1>3. PICK least \in above : \A x \in above : ~(<<x, least>> \in OpToRel(<, Nat))
  BY <1>2, NatLessThanWellFounded, WFMin, Zenon
<1>4. PICK v \in S : least = n - v
  OBVIOUS
<1>5. ASSUME NEW u \in S
      PROVE  u <= v
  <2>1. ~(n - u < n - v)
    BY <1>2, <1>3, <1>4 DEF OpToRel
  <2>2. n \in Nat /\ u \in Nat /\ v \in Nat
    BY <1>1
  <2>. QED  BY <2>1, <2>2
<1>. QED  BY <1>5 DEF Healing!Highest

LEMMA RollbackGoesBack ==
  ASSUME HealingInv, [Healing!Next]_healing
  PROVE  Healing!ServesOlder
<1>. SUFFICES ASSUME restoring = 0, restoring' # 0
              PROVE  /\ prompts[restoring'] \in {"evaluated"} \union Healing!PUBLISHED_PROMPT_STATUSES
                     /\ \E v \in Versions : v > restoring' /\ prompts[v] = "production" /\ prompts'[v] = "retired"
  BY DEF Healing!ServesOlder
<1>1. Healing!RollbackPrompt
  BY DEF Healing!Next, Healing!Remedies, Healing!PromptSteps, Healing!Tick, Healing!Apply, Healing!Refuse,
         Healing!Restore, Healing!Traffic, Healing!Release, Healing!Pin, Healing!Publish,
         Healing!PromoteVersion, Healing!RestorePrompt, healing
<1>. DEFINE current == Healing!Highest(Healing!InProduction)
            earlier == Healing!Earlier(current)
<1>2. /\ Healing!InProduction # {} /\ earlier # {} /\ restoring' = Healing!Highest(earlier)
      /\ prompts' = [prompts EXCEPT ![current] = "retired"]
  BY <1>1 DEF Healing!RollbackPrompt
<1>3. current \in Healing!InProduction
  BY <1>2, HighestOfVersions DEF Healing!InProduction
<1>4. current \in Versions /\ prompts[current] = "production" /\ prompts'[current] = "retired"
  BY <1>2, <1>3 DEF Healing!InProduction, HealingInv
<1>. HIDE DEF current
<1>5. restoring' \in earlier
  BY <1>2, HighestOfVersions DEF Healing!Earlier
<1>6. restoring' \in Versions /\ restoring' < current
      /\ prompts[restoring'] \in {"production", "retired", "evaluated", "canary"}
  BY <1>5 DEF Healing!Earlier
<1>7. current > restoring'
  BY <1>4, <1>6, HealingAssumption
<1>. QED  BY <1>4, <1>6, <1>7 DEF Healing!PUBLISHED_PROMPT_STATUSES

LEMMA HealingKept == SpecAll => []HealingInv
<1>1. InitAll => HealingInv
  <2>1. Healing!Init => HealingInv
    BY HealingAssumption DEF Healing!Init, HealingInv, Snapshot, Healing!Statuses
  <2>. QED  BY <2>1, HealingAlone
<1>2. HealingInv /\ [NextAll]_all => HealingInv'
  BY HealingAlone, HealingStep
<1>. QED  BY <1>1, <1>2, PTL DEF SpecAll

\* Whatever reports say, and however many deployments there are, a tick opens breakers
\* and shifts traffic only where the figures call for both, and touches nothing that
\* needs a person (heal/policies.py, heal/engine.py).
THEOREM TicksAreBounded == SpecAll => AutomationIsBounded
<1>1. HealingInv => (focus = "remedies" => Healing!TicksStayBounded)
  BY TickIsBounded DEF Healing!TicksStayBounded
<1>. QED  BY <1>1, HealingKept, PTL DEF AutomationIsBounded

\* However many versions a prompt has, and whatever publishing and promotion do in
\* between, a rollback serves again an older version that was evaluated or served.
THEOREM RollbacksGoBack == SpecAll => RollbackServesOlder
<1>1. HealingInv /\ [NextAll]_all => [Healing!ServesOlder]_healing
  BY HealingAlone, RollbackGoesBack
<1>. QED  BY <1>1, HealingKept, PTL DEF RollbackServesOlder, SpecAll
-----------------------------------------------------------------------------
\* Startup: what serves in production

\* A gateway that was built was built of these settings, in a world that let it.
StartupInv ==
  /\ settings \in Configurations /\ world \in Worlds
  /\ phase \in {"built", "serving", "stopped"} =>
       \E w \in Worlds : ~Startup!CreateAppFails(settings, w) /\ gateway = <<Startup!Built(settings, w)>>

LEMMA StartupAlone ==
  /\ InitAll => Startup!Init
  /\ [NextAll]_all => [Startup!Next]_(Startup!vars)
BY DEF InitAll, NextAll, all, startup, Startup!vars

LEMMA StartupStep ==
  ASSUME StartupInv, [Startup!Next]_(Startup!vars)
  PROVE  StartupInv'
<1>1. CASE UNCHANGED Startup!vars
  BY <1>1 DEF StartupInv, Startup!vars
<1>2. CASE Startup!CreateApp
  <2>1. /\ UNCHANGED <<settings, world>> /\ phase' \in {"refused", "built"}
        /\ phase' = "built" => /\ ~Startup!CreateAppFails(settings, world)
                               /\ gateway' = <<Startup!Built(settings, world)>>
    BY <1>2 DEF Startup!CreateApp, Startup!Reach
  <2>2. CASE phase' = "refused"
    BY <2>1, <2>2 DEF StartupInv
  <2>3. CASE phase' = "built"
    <3>1. \E w \in Worlds : ~Startup!CreateAppFails(settings, w) /\ gateway' = <<Startup!Built(settings, w)>>
      BY <2>1, <2>3 DEF StartupInv
    <3>2. settings' = settings /\ settings' \in Configurations /\ world' \in Worlds
      BY <2>1 DEF StartupInv
    <3>. QED  BY <3>1, <3>2, Zenon DEF StartupInv
  <2>. QED  BY <2>1, <2>2, <2>3
<1>3. CASE Startup!Main
  BY <1>3 DEF Startup!Main, Startup!Reach, StartupInv
<1>4. CASE Startup!Lifespan
  BY <1>4 DEF Startup!Lifespan, Startup!Reach, StartupInv
<1>5. CASE Startup!Stop \/ Startup!Restart \/ Startup!WorldMoves
  BY <1>5 DEF Startup!Stop, Startup!Restart, Startup!WorldMoves, StartupInv
<1>. QED  BY <1>1, <1>2, <1>3, <1>4, <1>5 DEF Startup!Next

\* Production sets every limit that is not set.
LEMMA LimitsAreSet ==
  ASSUME NEW s, Startup!Production(s), NEW limits, NEW defaults
  PROVE  Startup!None \notin Startup!Range(Startup!Policy(s, limits, defaults))
<1>. DEFINE policy == Startup!Policy(s, limits, defaults)
<1>1. \A x : <<x>> # Startup!None
  BY DEF Startup!None
<1>2. DOMAIN policy = DOMAIN defaults /\ \A name \in DOMAIN defaults : policy[name] # Startup!None
  BY <1>1 DEF Startup!Policy
<1>. QED  BY <1>2 DEF Startup!Range

LEMMA WhatProductionBuilds ==
  ASSUME NEW s \in Configurations, Startup!Production(s), NEW w, ~Startup!CreateAppFails(s, w)
  PROVE  LET app == Startup!Built(s, w)
         IN  /\ app.verifier \in {"oidc", "api_key"} /\ app.auth_required
             /\ ~app.dev_tokens /\ ~app.docs /\ app.revocation_fails_closed
             /\ {app.quota, app.health, app.revocation} = {"redis"} /\ app.engine = "postgresql"
             /\ Startup!None \notin Startup!Range(app.tenant_policy) \union Startup!Range(app.user_policy)
                                      \union {app.breaker_max_concurrency}
<1>. DEFINE auth == Startup!EffectiveAuthMode(s)
            app == Startup!Built(s, w)
<1>1. Startup!ProductionIsAllowed(s, auth)
  BY DEF Startup!CreateAppFails, Startup!InitializeRuntime, Startup!ValidateStartup
<1>2. /\ auth \notin {"dev", "disabled"} /\ Startup!IdentitySourceIsComplete(s, auth)
      /\ s.database_url = "postgresql" /\ s.redis_url
  BY <1>1 DEF Startup!ProductionIsAllowed
<1>3. auth \in {"oidc", "dev", "api_key", "disabled"}
  BY StartupAssumption DEF Startup!EffectiveAuthMode, Startup!None
<1>4. Startup!BuildVerifier(s) = auth
  BY <1>2 DEF Startup!BuildVerifier
<1>5. Startup!BuildEngine(s, w) = "postgresql"
  BY <1>2 DEF Startup!BuildEngine
<1>6. Startup!EffectiveBreakerMaxConcurrency(s) # Startup!None
  BY DEF Startup!EffectiveBreakerMaxConcurrency, Startup!None
<1>7. /\ Startup!None \notin Startup!Range(Startup!TenantQuotaPolicy(s))
      /\ Startup!None \notin Startup!Range(Startup!UserQuotaPolicy(s))
  BY LimitsAreSet DEF Startup!TenantQuotaPolicy, Startup!UserQuotaPolicy
<1>8. /\ app.verifier = Startup!BuildVerifier(s) /\ app.engine = Startup!BuildEngine(s, w)
      /\ app.quota = "redis" /\ app.health = "redis" /\ app.revocation = "redis"
      /\ app.tenant_policy = Startup!TenantQuotaPolicy(s) /\ app.user_policy = Startup!UserQuotaPolicy(s)
      /\ app.breaker_max_concurrency = Startup!EffectiveBreakerMaxConcurrency(s)
  BY <1>2 DEF Startup!Built
<1>9. /\ app.auth_required = Startup!AuthRequired(s) /\ app.docs = ~Startup!Production(s)
      /\ app.dev_tokens = (auth = "dev")
      /\ app.revocation_fails_closed = (s.redis_url /\ Startup!Production(s))
  BY Zenon DEF Startup!Built
<1>10. Startup!AuthRequired(s)
  BY DEF Startup!AuthRequired
<1>. HIDE DEF app
<1>11. app.auth_required /\ ~app.docs /\ ~app.dev_tokens /\ app.revocation_fails_closed
  BY <1>2, <1>9, <1>10, Zenon
<1>12. app.verifier \in {"oidc", "api_key"}
  BY <1>2, <1>3, <1>4, <1>8
<1>13. {app.quota, app.health, app.revocation} = {"redis"} /\ app.engine = "postgresql"
  BY <1>5, <1>8
<1>14. Startup!None \notin Startup!Range(app.tenant_policy) \union Startup!Range(app.user_policy)
                             \union {app.breaker_max_concurrency}
  BY <1>6, <1>7, <1>8
<1>. QED  BY <1>11, <1>12, <1>13, <1>14, Zenon DEF app

\* Whatever the settings and however the world moves between the checks, what serves in
\* production has its guards: it keeps those it was built with, and it was built of
\* settings that production allows.
THEOREM ServingIsGuarded == SpecAll => []ProductionIsGuarded
<1>1. InitAll => StartupInv
  BY StartupAlone DEF Startup!Init, StartupInv
<1>2. StartupInv /\ [NextAll]_all => StartupInv'
  BY StartupAlone, StartupStep
<1>3. StartupInv => ProductionIsGuarded
  <2>. SUFFICES ASSUME StartupInv, phase = "serving", Startup!Production(settings)
                PROVE  LET app == gateway[1]
                       IN  /\ app.verifier \in {"oidc", "api_key"} /\ app.auth_required
                           /\ ~app.dev_tokens /\ ~app.docs /\ app.revocation_fails_closed
                           /\ {app.quota, app.health, app.revocation} = {"redis"} /\ app.engine = "postgresql"
                           /\ Startup!None \notin Startup!Range(app.tenant_policy)
                                \union Startup!Range(app.user_policy) \union {app.breaker_max_concurrency}
    BY Zenon DEF ProductionIsGuarded, Startup!ProductionIsGuarded
  <2>1. PICK w \in Worlds : ~Startup!CreateAppFails(settings, w) /\ gateway = <<Startup!Built(settings, w)>>
    BY DEF StartupInv
  <2>2. gateway[1] = Startup!Built(settings, w) /\ settings \in Configurations
    BY <2>1 DEF StartupInv
  <2>. QED  BY <2>1, <2>2, WhatProductionBuilds, Zenon
<1>. QED  BY <1>1, <1>2, <1>3, PTL DEF SpecAll

\* For every settings and every world: what keeps production from starting, the doctor
\* finds too.
THEOREM DoctorForetellsEveryRefusal == SpecAll => []DoctorForetells
<1>1. DoctorForetells
  <2>. SUFFICES ASSUME Startup!Production(settings), ~Startup!InitializeRuntime(settings, world)
                PROVE  Startup!DoctorFails(settings, world)
    BY DEF DoctorForetells, Startup!DoctorForetells
  <2>1. CASE ~Startup!ValidateStartup(settings)
    BY <2>1 DEF Startup!DoctorFails
  <2>2. CASE ~Startup!DistributedStateIsUsable(settings, world)
    <3>1. CASE settings.database_url = "none" \/ ~world.database \/ world.schema # "head"
      <4>1. Startup!Migrations(settings, world)
        BY <3>1 DEF Startup!Migrations
      <4>. QED  BY <4>1 DEF Startup!DoctorFails
    <3>2. CASE ~settings.redis_url \/ ~world.redis
      <4>1. CASE settings.redis_url /\ ~world.redis
        <5>1. Startup!Redis(settings, world)
          BY <4>1, Zenon DEF Startup!Redis
        <5>. QED  BY <5>1 DEF Startup!DoctorFails
      <4>2. CASE ~settings.redis_url
        <5>1. Startup!Redis(settings, world)
          BY <4>2 DEF Startup!Redis, Startup!Production
        <5>. QED  BY <5>1 DEF Startup!DoctorFails
      <4>. QED  BY <3>2, <4>1, <4>2
    <3>. QED  BY <2>2, <3>1, <3>2 DEF Startup!DistributedStateIsUsable
  <2>. QED  BY <2>1, <2>2 DEF Startup!InitializeRuntime
<1>. QED  BY <1>1, PTL
-----------------------------------------------------------------------------
\* The tenant cache: what a hit may be

\* A bucket holds a key at one place at most.
Distinct(records) ==
  \A i, j \in DOMAIN records : records[i].key = records[j].key => i = j

Untouched(records, key, record) == record.key # key /\ \E j \in DOMAIN records : record = records[j]

LEMMA RemovedAt ==
  ASSUME NEW S, NEW s \in Seq(S), NEW i \in 1..Len(s)
  PROVE  /\ Cache!RemoveAt(s, i) \in Seq(S) /\ Len(Cache!RemoveAt(s, i)) = Len(s) - 1
         /\ \A j \in 1..Len(s) - 1 : Cache!RemoveAt(s, i)[j] = s[IF j < i THEN j ELSE j + 1]
<1>. DEFINE before == SubSeq(s, 1, i - 1)
            after == SubSeq(s, i + 1, Len(s))
<1>1. /\ before \in Seq(S) /\ Len(before) = i - 1 /\ \A j \in 1..i - 1 : before[j] = s[j]
  <2>1. \A j \in 1..i - 1 : s[j] \in S
    OBVIOUS
  <2>2. before \in Seq(S) /\ Len(before) = (IF 1 <= i - 1 THEN i - 1 - 1 + 1 ELSE 0)
        /\ \A j \in 1..i - 1 - 1 + 1 : before[j] = s[1 + j - 1]
    BY <2>1, SubSeqProperties
  <2>. QED  BY <2>2
<1>2. /\ after \in Seq(S) /\ Len(after) = Len(s) - i /\ \A j \in 1..Len(s) - i : after[j] = s[i + j]
  <2>1. \A j \in i + 1..Len(s) : s[j] \in S
    OBVIOUS
  <2>2. after \in Seq(S) /\ Len(after) = (IF i + 1 <= Len(s) THEN Len(s) - (i + 1) + 1 ELSE 0)
        /\ \A j \in 1..Len(s) - (i + 1) + 1 : after[j] = s[i + 1 + j - 1]
    BY <2>1, SubSeqProperties
  <2>. QED  BY <2>2
<1>. HIDE DEF before, after
<1>3. /\ before \o after \in Seq(S) /\ Len(before \o after) = Len(before) + Len(after)
      /\ \A j \in 1..Len(before) + Len(after) :
           (before \o after)[j] = IF j <= Len(before) THEN before[j] ELSE after[j - Len(before)]
  BY <1>1, <1>2, ConcatProperties
<1>4. Cache!RemoveAt(s, i) = before \o after
  BY DEF Cache!RemoveAt, before, after
<1>5. Len(before) + Len(after) = Len(s) - 1 /\ Len(before) = i - 1
  BY <1>1, <1>2
<1>6. ASSUME NEW j \in 1..Len(s) - 1
      PROVE  (before \o after)[j] = s[IF j < i THEN j ELSE j + 1]
  <2>1. CASE j < i
    <3>1. j \in 1..i - 1 /\ j <= i - 1
      BY <2>1
    <3>. QED  BY <1>1, <1>3, <1>5, <2>1, <3>1
  <2>2. CASE ~(j < i)
    <3>1. j - (i - 1) \in 1..Len(s) - i /\ ~(j <= i - 1) /\ i + (j - (i - 1)) = j + 1
      BY <2>2
    <3>2. (before \o after)[j] = after[j - (i - 1)]
      BY <1>3, <1>5, <3>1
    <3>. QED  BY <1>2, <2>2, <3>1, <3>2
  <2>. QED  BY <2>1, <2>2
<1>. QED  BY <1>3, <1>4, <1>5, <1>6

LEMMA WithoutKey ==
  ASSUME NEW S, NEW s \in Seq(S), Distinct(s), NEW key
  PROVE  LET r == Cache!Without(s, key)
         IN  /\ r \in Seq(S) /\ Distinct(r)
             /\ \A i \in DOMAIN r : r[i].key # key /\ \E j \in DOMAIN s : r[i] = s[j]
<1>1. CASE ~Cache!Has(s, key)
  BY <1>1 DEF Cache!Without, Cache!Has
<1>2. CASE Cache!Has(s, key)
  <2>. DEFINE p == Cache!Place(s, key)
              r == Cache!RemoveAt(s, p)
              From(i) == IF i < p THEN i ELSE i + 1
  <2>1. p \in 1..Len(s) /\ s[p].key = key
    BY <1>2 DEF Cache!Has, Cache!Place
  <2>. HIDE DEF p
  <2>2. r \in Seq(S) /\ Len(r) = Len(s) - 1 /\ \A i \in 1..Len(s) - 1 : r[i] = s[From(i)]
    BY <2>1, RemovedAt
  <2>. HIDE DEF r
  <2>3. \A i \in DOMAIN r : From(i) \in DOMAIN s /\ From(i) # p /\ r[i] = s[From(i)]
    BY <2>1, <2>2
  <2>4. \A i, j \in DOMAIN r : From(i) = From(j) => i = j
    BY <2>1, <2>2
  <2>5. Distinct(r)
    BY <2>3, <2>4 DEF Distinct
  <2>6. \A i \in DOMAIN r : r[i].key # key
    BY <2>1, <2>3 DEF Distinct
  <2>7. Cache!Without(s, key) = r
    BY <1>2 DEF Cache!Without, r, p
  <2>. QED  BY <2>2, <2>3, <2>5, <2>6, <2>7
<1>. QED  BY <1>1, <1>2

LEMMA WrittenKey ==
  ASSUME NEW S, NEW s \in Seq(S), Distinct(s), NEW max \in Nat,
         NEW key, NEW value, NEW e \in S, e = [key |-> key, value |-> value]
  PROVE  LET r == Cache!Written(max, s, key, value)
         IN  /\ r \in Seq(S) /\ Distinct(r)
             /\ \A i \in DOMAIN r : r[i] = e \/ Untouched(s, key, r[i])
<1>. DEFINE rest == Cache!Without(s, key)
            whole == Append(rest, e)
            r == Cache!Written(max, s, key, value)
<1>1. /\ rest \in Seq(S) /\ Distinct(rest)
      /\ \A i \in DOMAIN rest : rest[i].key # key /\ \E j \in DOMAIN s : rest[i] = s[j]
  BY WithoutKey
<1>2. e.key = key /\ e \in S
  OBVIOUS
<1>. HIDE DEF rest
<1>3. /\ whole \in Seq(S) /\ Len(whole) = Len(rest) + 1 /\ whole[Len(whole)] = e
      /\ \A i \in 1..Len(rest) : whole[i] = rest[i]
  BY <1>1, <1>2
<1>4. Distinct(whole)
  BY <1>1, <1>2, <1>3 DEF Distinct
<1>5. \A i \in DOMAIN whole : whole[i] = e \/ Untouched(s, key, whole[i])
  BY <1>1, <1>3 DEF Untouched
<1>6. r = IF Len(whole) <= max THEN whole ELSE SubSeq(whole, Len(whole) - max + 1, Len(whole))
  BY DEF Cache!Written, Cache!Newest, rest
<1>. HIDE DEF whole, r
<1>7. CASE Len(whole) <= max
  BY <1>3, <1>4, <1>5, <1>6, <1>7 DEF r
<1>8. CASE ~(Len(whole) <= max)
  <2>1. Len(whole) \in Nat /\ Len(whole) - max + 1 \in Int /\ Len(whole) - max \in Nat
    BY <1>3, <1>8
  <2>2. \A i \in Len(whole) - max + 1..Len(whole) : whole[i] \in S
    BY <1>3, <2>1
  <2>3. /\ r \in Seq(S)
        /\ Len(r) = IF Len(whole) - max + 1 <= Len(whole) THEN Len(whole) - (Len(whole) - max + 1) + 1 ELSE 0
        /\ \A i \in 1..Len(whole) - (Len(whole) - max + 1) + 1 : r[i] = whole[Len(whole) - max + 1 + i - 1]
    BY <1>6, <1>8, <2>1, <2>2, SubSeqProperties
  <2>. DEFINE n == Len(whole) - max
  <2>4. Len(r) = max /\ n \in Nat /\ Len(whole) = n + max
    BY <2>1, <2>3
  <2>5. \A i \in 1..max : r[i] = whole[n + i]
    <3>1. \A i \in 1..max : /\ i \in 1..Len(whole) - (Len(whole) - max + 1) + 1
                            /\ Len(whole) - max + 1 + i - 1 = n + i
      BY <2>1
    <3>. QED  BY <2>3, <3>1
  <2>. HIDE DEF n
  <2>6. DOMAIN r = 1..max /\ \A i \in DOMAIN r : n + i \in DOMAIN whole /\ r[i] = whole[n + i]
    <3>1. r \in Seq(S) /\ DOMAIN r = 1..Len(r) /\ DOMAIN whole = 1..Len(whole)
      BY <2>3, <1>3
    <3>2. \A i \in 1..max : n + i \in 1..n + max
      BY <2>4
    <3>. QED  BY <2>4, <2>5, <3>1, <3>2
  <2>7. Distinct(r)
    BY <1>4, <2>4, <2>6 DEF Distinct
  <2>. QED  BY <1>5, <2>3, <2>6, <2>7 DEF r
<1>. QED  BY <1>7, <1>8 DEF r
Entries == [key : Namespaces \X CacheTenants \X Parts, value : [value : Payloads, expires : Int]]

Writes == [worker : CacheWorkers, namespace : Namespaces, tenant : CacheTenants, parts : Parts,
           value : Payloads, until : Int, standing : BOOLEAN]

\* The writes of a key that w can read: with Redis those of every worker.
WritesOf(history, everywhere, w, key) ==
  {i \in DOMAIN history :
     /\ <<history[i].namespace, history[i].tenant, history[i].parts>> = key
     /\ everywhere \/ history[i].worker = w}

\* An entry is what a write left that still stands; in memory the last one.
Backed(history, everywhere, w, key, entry) ==
  \E i \in WritesOf(history, everywhere, w, key) :
    /\ history[i].standing /\ history[i].value = entry.value /\ history[i].until = entry.expires
    /\ everywhere \/ \A j \in WritesOf(history, everywhere, w, key) : j <= i

BucketIsBacked(records, history, w, b) ==
  \A i \in DOMAIN records :
    /\ <<records[i].key[1], records[i].key[2]>> = b
    /\ Backed(history, FALSE, w, records[i].key, records[i].value)

CacheTyped ==
  /\ cacheNow \in Nat
  /\ puts \in Seq(Writes)
  /\ local \in [CacheWorkers -> [Namespaces \X CacheTenants -> Seq(Entries)]]
  /\ \A w \in CacheWorkers, b \in Namespaces \X CacheTenants : Distinct(local[w][b])

MemoryIsBacked ==
  ~shared => \A w \in CacheWorkers, b \in Namespaces \X CacheTenants :
               BucketIsBacked(local[w][b], puts, w, b)

RedisIsBacked ==
  shared => \A k \in DOMAIN redis, w \in CacheWorkers : Backed(puts, TRUE, w, k, redis[k])

CacheInv ==
  /\ shared \in BOOLEAN /\ CacheTyped /\ MemoryIsBacked /\ RedisIsBacked /\ Cache!HitsAreFresh

LEMMA CacheAlone ==
  /\ InitAll => Cache!Init
  /\ [NextAll]_all => [Cache!Next]_(Cache!vars)
BY DEF InitAll, NextAll, all, cache, Cache!vars

\* One more write of another key, or in memory of another worker, changes nothing for
\* an entry; with Redis any write does.
LEMMA MoreWrites ==
  ASSUME NEW history \in Seq(Writes), NEW put \in Writes, NEW everywhere \in BOOLEAN,
         NEW w, NEW key, NEW entry, Backed(history, everywhere, w, key, entry),
         ~everywhere => <<put.namespace, put.tenant, put.parts>> # key \/ put.worker # w
  PROVE  Backed(Append(history, put), everywhere, w, key, entry)
<1>. DEFINE more == Append(history, put)
<1>1. /\ DOMAIN history = 1..Len(history) /\ DOMAIN more = 1..Len(history) + 1 /\ Len(history) \in Nat
      /\ \A i \in DOMAIN history : more[i] = history[i]
      /\ more[Len(history) + 1] = put
  OBVIOUS
<1>. HIDE DEF more
<1>2. WritesOf(history, everywhere, w, key) \subseteq WritesOf(more, everywhere, w, key)
  BY <1>1 DEF WritesOf
<1>3. ~everywhere => WritesOf(more, everywhere, w, key) \subseteq WritesOf(history, everywhere, w, key)
  BY <1>1 DEF WritesOf
<1>4. \A i \in WritesOf(history, everywhere, w, key) : more[i] = history[i]
  BY <1>1 DEF WritesOf
<1>. QED  BY <1>2, <1>3, <1>4 DEF Backed, more

\* What the last write of a key left, is backed by it.
LEMMA LastWrite ==
  ASSUME NEW history \in Seq(Writes), NEW put \in Writes, NEW everywhere \in BOOLEAN,
         NEW w, NEW entry, put.standing, everywhere \/ put.worker = w,
         entry.value = put.value, entry.expires = put.until
  PROVE  Backed(Append(history, put), everywhere, w, <<put.namespace, put.tenant, put.parts>>, entry)
<1>. DEFINE more == Append(history, put)
            n == Len(history) + 1
            key == <<put.namespace, put.tenant, put.parts>>
<1>1. DOMAIN more = 1..n /\ more[n] = put /\ n \in DOMAIN more
  OBVIOUS
<1>. HIDE DEF more, n
<1>2. n \in WritesOf(more, everywhere, w, key)
  BY <1>1 DEF WritesOf
<1>3. \A j \in WritesOf(more, everywhere, w, key) : j <= n
  BY <1>1 DEF WritesOf, n
<1>. QED  BY <1>1, <1>2, <1>3 DEF Backed, more

\* Invalidating takes its standing from some writes, and changes nothing else of them.
LEMMA LessStanding ==
  ASSUME NEW history, NEW after, DOMAIN after = DOMAIN history,
         \A i \in DOMAIN history :
           /\ after[i].worker = history[i].worker /\ after[i].namespace = history[i].namespace
           /\ after[i].tenant = history[i].tenant /\ after[i].parts = history[i].parts
           /\ after[i].value = history[i].value /\ after[i].until = history[i].until,
         NEW everywhere, NEW w, NEW key, NEW entry, Backed(history, everywhere, w, key, entry),
         \A i \in WritesOf(history, everywhere, w, key) : history[i].standing => after[i].standing
  PROVE  Backed(after, everywhere, w, key, entry)
<1>1. WritesOf(after, everywhere, w, key) = WritesOf(history, everywhere, w, key)
  BY DEF WritesOf
<1>2. \A i \in WritesOf(history, everywhere, w, key) : i \in DOMAIN history
  BY DEF WritesOf
<1>. QED  BY <1>1, <1>2 DEF Backed
LEMMA Fallen ==
  ASSUME NEW history \in Seq(Writes), NEW F,
         NEW after, after = [i \in DOMAIN history |-> IF i \in F THEN [history[i] EXCEPT !.standing = FALSE]
                                                      ELSE history[i]]
  PROVE  /\ after \in Seq(Writes) /\ DOMAIN after = DOMAIN history
         /\ \A i \in DOMAIN history :
              /\ after[i].worker = history[i].worker /\ after[i].namespace = history[i].namespace
              /\ after[i].tenant = history[i].tenant /\ after[i].parts = history[i].parts
              /\ after[i].value = history[i].value /\ after[i].until = history[i].until
              /\ i \notin F => after[i].standing = history[i].standing
<1>1. \A i \in DOMAIN history : history[i] \in Writes
  OBVIOUS
<1>2. ASSUME NEW put \in Writes
      PROVE  LET p == [put EXCEPT !.standing = FALSE]
             IN  /\ p \in Writes /\ p.worker = put.worker /\ p.namespace = put.namespace
                 /\ p.tenant = put.tenant /\ p.parts = put.parts
                 /\ p.value = put.value /\ p.until = put.until
  BY DEF Writes
<1>3. \A i \in DOMAIN history : after[i] = IF i \in F THEN [history[i] EXCEPT !.standing = FALSE] ELSE history[i]
  OBVIOUS
<1>4. DOMAIN after = 1..Len(history) /\ Len(history) \in Nat /\ after = [i \in 1..Len(history) |-> after[i]]
  OBVIOUS
<1>5. \A i \in 1..Len(history) : after[i] \in Writes
  BY <1>1, <1>2, <1>3
<1>6. after \in Seq(Writes)
  BY <1>4, <1>5
<1>. QED  BY <1>1, <1>2, <1>3, <1>6

LEMMA BucketChanges ==
  ASSUME CacheTyped, NEW w \in CacheWorkers, NEW b \in Namespaces \X CacheTenants,
         NEW r \in Seq(Entries), Distinct(r), local' = [local EXCEPT ![w][b] = r]
  PROVE  /\ local' \in [CacheWorkers -> [Namespaces \X CacheTenants -> Seq(Entries)]]
         /\ \A v \in CacheWorkers, c \in Namespaces \X CacheTenants :
              /\ local'[v][c] = IF v = w /\ c = b THEN r ELSE local[v][c]
              /\ Distinct(local'[v][c])
<1>1. \A v \in CacheWorkers, c \in Namespaces \X CacheTenants :
        local'[v][c] = IF v = w /\ c = b THEN r ELSE local[v][c]
  BY DEF CacheTyped
<1>. QED  BY <1>1 DEF CacheTyped

LEMMA HitIsFresh ==
  ASSUME NEW w, NEW n, NEW t, NEW parts, NEW entry,
         Backed(puts, shared, w, <<n, t, parts>>, entry), cacheNow < entry.expires,
         shared \in BOOLEAN, shared' = shared, puts' = puts,
         answer' = <<[worker |-> w, namespace |-> n, tenant |-> t, parts |-> parts,
                      value |-> entry.value, at |-> cacheNow]>>
  PROVE  Cache!HitsAreFresh'
<1>. DEFINE a == answer'[1]
            mine == {i \in DOMAIN puts' :
                       /\ puts'[i].namespace = a.namespace /\ puts'[i].tenant = a.tenant
                       /\ puts'[i].parts = a.parts /\ (shared' \/ puts'[i].worker = a.worker)}
<1>1. /\ a.worker = w /\ a.namespace = n /\ a.tenant = t /\ a.parts = parts
      /\ a.value = entry.value /\ a.at = cacheNow
  OBVIOUS
<1>. HIDE DEF a
<1>2. mine = WritesOf(puts, shared, w, <<n, t, parts>>)
  BY <1>1 DEF WritesOf
<1>. HIDE DEF mine
<1>3. \E i \in mine : /\ puts'[i].value = a.value /\ a.at < puts'[i].until /\ puts'[i].standing
                      /\ shared' \/ \A j \in mine : j <= i
  BY <1>1, <1>2 DEF Backed
<1>. QED  BY <1>3, Zenon DEF Cache!HitsAreFresh, a, mine

\* What is dropped from a bucket needs no write.
LEMMA FewerEntries ==
  ASSUME NEW records, NEW history, NEW w, NEW b, BucketIsBacked(records, history, w, b),
         NEW r, \A i \in DOMAIN r : \E j \in DOMAIN records : r[i] = records[j]
  PROVE  BucketIsBacked(r, history, w, b)
BY DEF BucketIsBacked

LEMMA GetKeeps ==
  ASSUME CacheInv, NEW w \in CacheWorkers, NEW n \in Namespaces, NEW t \in CacheTenants, NEW parts \in Parts,
         Cache!Get(w, n, t, parts)
  PROVE  CacheInv'
<1>. DEFINE key == <<n, t, parts>>
            b == <<n, t>>
<1>1. /\ shared' = shared /\ cacheNow' = cacheNow /\ redis' = redis /\ puts' = puts
      /\ b \in Namespaces \X CacheTenants /\ Cache!Key(n, t, parts) = key
  BY DEF Cache!Get, Cache!Key
<1>2. RedisIsBacked'
  BY <1>1 DEF CacheInv, RedisIsBacked
<1>3. answer' = Cache!None => Cache!HitsAreFresh'
  BY DEF Cache!HitsAreFresh
<1>4. local' = local => CacheTyped' /\ MemoryIsBacked'
  BY <1>1 DEF CacheInv, CacheTyped, MemoryIsBacked
<1>5. CASE ~CachePolicies[n].enabled
  BY <1>1, <1>2, <1>3, <1>4, <1>5 DEF Cache!Get, CacheInv
<1>6. CASE CachePolicies[n].enabled /\ shared
  <2>1. local' = local /\ \/ answer' = Cache!None
                          \/ /\ key \in DOMAIN redis /\ cacheNow < redis[key].expires
                             /\ answer' = <<[worker |-> w, namespace |-> n, tenant |-> t, parts |-> parts,
                                             value |-> redis[key].value, at |-> cacheNow]>>
    BY <1>1, <1>6 DEF Cache!Get, Cache!GetRedis, Cache!Answer, Cache!Live, Cache!None
  <2>2. key \in DOMAIN redis => Backed(puts, shared, w, key, redis[key])
    BY <1>6 DEF CacheInv, RedisIsBacked
  <2>3. Cache!HitsAreFresh'
    BY <1>1, <1>3, <2>1, <2>2, HitIsFresh DEF CacheInv
  <2>. QED  BY <1>1, <1>2, <1>4, <2>1, <2>3 DEF CacheInv
<1>7. CASE CachePolicies[n].enabled /\ ~shared
  <2>. DEFINE bucket_ == local[w][b]
  <2>1. PICK live \in BOOLEAN :
          /\ live => /\ Cache!Has(bucket_, key)
                     /\ cacheNow < bucket_[Cache!Place(bucket_, key)].value.expires
          /\ answer' = IF live
                       THEN <<[worker |-> w, namespace |-> n, tenant |-> t, parts |-> parts,
                               value |-> bucket_[Cache!Place(bucket_, key)].value.value, at |-> cacheNow]>>
                       ELSE Cache!None
          /\ local' = IF live THEN local ELSE [local EXCEPT ![w][b] = Cache!Without(bucket_, key)]
    BY <1>1, <1>7 DEF Cache!Get, Cache!GetLocal, Cache!Answer, Cache!Found, Cache!Live, Cache!None
  <2>2. BucketIsBacked(bucket_, puts, w, b) /\ bucket_ \in Seq(Entries) /\ Distinct(bucket_)
    BY <1>1, <1>7 DEF CacheInv, MemoryIsBacked, CacheTyped
  <2>. HIDE DEF bucket_
  <2>3. CASE live
    <3>. DEFINE p == Cache!Place(bucket_, key)
    <3>1. p \in DOMAIN bucket_ /\ bucket_[p].key = key
      BY <2>1, <2>3 DEF Cache!Has, Cache!Place
    <3>2. Backed(puts, shared, w, key, bucket_[p].value)
      BY <1>7, <2>2, <3>1 DEF BucketIsBacked, CacheInv
    <3>3. Cache!HitsAreFresh'
      BY <1>1, <2>1, <2>3, <3>2, HitIsFresh DEF CacheInv
    <3>. QED  BY <1>1, <1>2, <1>4, <2>1, <2>3, <3>3 DEF CacheInv
  <2>4. CASE ~live
    <3>. DEFINE r == Cache!Without(bucket_, key)
    <3>1. r \in Seq(Entries) /\ Distinct(r) /\ \A i \in DOMAIN r : \E j \in DOMAIN bucket_ : r[i] = bucket_[j]
      <4>. HIDE DEF key, b
      <4>1. /\ r \in Seq(Entries) /\ Distinct(r)
            /\ \A i \in DOMAIN r : r[i].key # key /\ \E j \in DOMAIN bucket_ : r[i] = bucket_[j]
        BY ONLY <2>2, WithoutKey
      <4>. QED  BY <4>1
    <3>. HIDE DEF r
    <3>2. local' = [local EXCEPT ![w][b] = r] /\ answer' = Cache!None
      BY <2>1, <2>4 DEF r
    <3>3. /\ local' \in [CacheWorkers -> [Namespaces \X CacheTenants -> Seq(Entries)]]
          /\ \A v \in CacheWorkers, c \in Namespaces \X CacheTenants :
               /\ local'[v][c] = IF v = w /\ c = b THEN r ELSE local[v][c]
               /\ Distinct(local'[v][c])
      BY <1>1, <3>1, <3>2, BucketChanges DEF CacheInv
    <3>4. BucketIsBacked(r, puts, w, b)
      BY <2>2, <3>1, FewerEntries
    <3>5. CacheTyped'
      BY <1>1, <3>3 DEF CacheInv, CacheTyped
    <3>6. MemoryIsBacked'
      BY <1>1, <3>3, <3>4 DEF CacheInv, MemoryIsBacked
    <3>. QED  BY <1>1, <1>2, <1>3, <3>2, <3>5, <3>6 DEF CacheInv
  <2>. QED  BY <2>3, <2>4
<1>. QED  BY <1>5, <1>6, <1>7 DEF CacheInv
LEMMA PutKeeps ==
  ASSUME CacheInv, NEW w \in CacheWorkers, NEW n \in Namespaces, NEW t \in CacheTenants, NEW parts \in Parts,
         NEW value \in Payloads, NEW given_ \in CacheTTLs, Cache!Put(w, n, t, parts, value, given_)
  PROVE  CacheInv'
<1>. DEFINE key == <<n, t, parts>>
            b == <<n, t>>
            ttl == IF given_ = Cache!None THEN CachePolicies[n].ttl ELSE given_[1]
            until == cacheNow + (IF shared THEN Cache!Seconds(ttl) ELSE ttl)
            put == [worker |-> w, namespace |-> n, tenant |-> t, parts |-> parts,
                    value |-> value, until |-> until, standing |-> TRUE]
            content == [value |-> value, expires |-> until]
<1>1. ttl \in Int /\ until \in Int
  <2>1. CachePolicies[n].ttl \in Int /\ (given_ # Cache!None => given_[1] \in Int)
    BY CacheAssumption DEF Cache!None
  <2>. QED  BY <2>1 DEF CacheInv, CacheTyped, Cache!Seconds
<1>2. /\ shared' = shared /\ cacheNow' = cacheNow /\ puts' = Append(puts, put) /\ answer' = Cache!None
      /\ shared \in BOOLEAN /\ puts \in Seq(Writes)
      /\ b \in Namespaces \X CacheTenants
  BY DEF Cache!Put, CacheInv, CacheTyped
<1>3. put \in Writes /\ [key |-> key, value |-> content] \in Entries
  BY <1>1 DEF Writes, Entries
<1>4. /\ put.standing /\ put.worker = w /\ <<put.namespace, put.tenant, put.parts>> = key
      /\ content.value = put.value /\ content.expires = put.until
  OBVIOUS
<1>5. shared => /\ local' = local
                /\ DOMAIN redis' \subseteq DOMAIN redis \union {key}
                /\ \A k \in DOMAIN redis' :
                     \/ k \in DOMAIN redis /\ redis'[k] = redis[k]
                     \/ k = key /\ redis'[k].value = content.value /\ redis'[k].expires = content.expires
  BY DEF Cache!Put, Cache!Key
<1>6. ~shared => /\ redis' = redis
                 /\ local' = [local EXCEPT ![w][b] =
                                Cache!Written(CachePolicies[n].max, local[w][b], key, content)]
  BY DEF Cache!Put, Cache!Key
<1>. HIDE DEF put, content, until, ttl
<1>7. puts' \in Seq(Writes)
  BY <1>2, <1>3
<1>8. Cache!HitsAreFresh'
  BY <1>2 DEF Cache!HitsAreFresh
<1>9. CASE shared
  <2>1. ASSUME NEW k \in DOMAIN redis', NEW v \in CacheWorkers
        PROVE  Backed(puts', TRUE, v, k, redis'[k])
    <3>1. CASE k \in DOMAIN redis /\ redis'[k] = redis[k]
      <4>1. Backed(puts, TRUE, v, k, redis[k])
        BY <1>9, <3>1 DEF CacheInv, RedisIsBacked
      <4>. QED  BY <1>2, <1>3, <3>1, <4>1, MoreWrites
    <3>2. CASE k = key /\ redis'[k].value = content.value /\ redis'[k].expires = content.expires
      <4>1. put.standing /\ redis'[k].value = put.value /\ redis'[k].expires = put.until
        BY <1>4, <3>2
      <4>2. Backed(Append(puts, put), TRUE, v, <<put.namespace, put.tenant, put.parts>>, redis'[k])
        BY <1>2, <1>3, <4>1, LastWrite
      <4>. QED  BY <1>2, <1>4, <3>2, <4>2
    <3>. QED  BY <1>5, <1>9, <3>1, <3>2
  <2>2. RedisIsBacked' /\ MemoryIsBacked'
    BY <1>2, <1>9, <2>1 DEF RedisIsBacked, MemoryIsBacked
  <2>3. CacheTyped'
    BY <1>2, <1>5, <1>7, <1>9 DEF CacheTyped, CacheInv
  <2>. QED  BY <1>2, <1>8, <2>2, <2>3 DEF CacheInv
<1>10. CASE ~shared
  <2>. DEFINE s == local[w][b]
              max == CachePolicies[n].max
              e == [key |-> key, value |-> content]
              r == Cache!Written(max, s, key, content)
  <2>1. s \in Seq(Entries) /\ Distinct(s) /\ max \in Nat /\ e \in Entries
    BY <1>2, <1>3, CacheAssumption DEF CacheInv, CacheTyped
  <2>11. e = [key |-> key, value |-> content] /\ e.key = key /\ e.value = content
    OBVIOUS
  <2>. HIDE DEF s, key, max, e
  <2>2. /\ r \in Seq(Entries) /\ Distinct(r)
        /\ \A i \in DOMAIN r : r[i] = e \/ Untouched(s, key, r[i])
    BY ONLY <2>1, <2>11, WrittenKey
  <2>. HIDE DEF r
  <2>3. local' = [local EXCEPT ![w][b] = r]
    BY <1>6, <1>10 DEF r, s, max
  <2>4. /\ local' \in [CacheWorkers -> [Namespaces \X CacheTenants -> Seq(Entries)]]
        /\ \A v \in CacheWorkers, c \in Namespaces \X CacheTenants :
             /\ local'[v][c] = IF v = w /\ c = b THEN r ELSE local[v][c]
             /\ Distinct(local'[v][c])
    BY <1>2, <2>2, <2>3, BucketChanges DEF CacheInv
  <2>5. \A v \in CacheWorkers, c \in Namespaces \X CacheTenants : BucketIsBacked(local[v][c], puts, v, c)
    BY <1>10 DEF CacheInv, MemoryIsBacked
  <2>6. \A v, k, entry : Backed(puts, FALSE, v, k, entry) /\ (k # key \/ v # w) => Backed(puts', FALSE, v, k, entry)
    <3>. SUFFICES ASSUME NEW v, NEW k, NEW entry, Backed(puts, FALSE, v, k, entry), k # key \/ v # w
                  PROVE  Backed(puts', FALSE, v, k, entry)
      OBVIOUS
    <3>1. <<put.namespace, put.tenant, put.parts>> # k \/ put.worker # v
      BY <1>4 DEF key
    <3>. QED  BY <1>2, <1>3, <3>1, MoreWrites
  <2>7. ASSUME NEW v \in CacheWorkers, NEW c \in Namespaces \X CacheTenants, v # w \/ c # b
        PROVE  BucketIsBacked(local[v][c], puts', v, c)
    <3>1. BucketIsBacked(local[v][c], puts, v, c)
      BY <2>5
    <3>2. <<key[1], key[2]>> = b
      BY DEF key
    <3>3. \A i \in DOMAIN local[v][c] : local[v][c][i].key # key \/ v # w
      BY <2>7, <3>1, <3>2 DEF BucketIsBacked
    <3>. QED  BY <2>6, <3>1, <3>3 DEF BucketIsBacked
  <2>8. BucketIsBacked(r, puts', w, b)
    <3>. SUFFICES ASSUME NEW i \in DOMAIN r
                  PROVE  /\ <<r[i].key[1], r[i].key[2]>> = b
                         /\ Backed(puts', FALSE, w, r[i].key, r[i].value)
      BY DEF BucketIsBacked
    <3>1. CASE r[i] = e
      <4>1. Backed(Append(puts, put), FALSE, w, <<put.namespace, put.tenant, put.parts>>, content)
        BY <1>2, <1>3, <1>4, LastWrite
      <4>2. r[i].key = key /\ r[i].value = content
        BY <2>11, <3>1
      <4>3. <<key[1], key[2]>> = b /\ <<put.namespace, put.tenant, put.parts>> = key
        BY <1>4 DEF key
      <4>. QED  BY <1>2, <4>1, <4>2, <4>3
    <3>2. CASE Untouched(s, key, r[i])
      <4>1. BucketIsBacked(s, puts, w, b)
        BY <1>2, <2>5 DEF s
      <4>2. <<r[i].key[1], r[i].key[2]>> = b /\ Backed(puts, FALSE, w, r[i].key, r[i].value)
        BY <3>2, <4>1 DEF BucketIsBacked, Untouched
      <4>. QED  BY <2>6, <3>2, <4>2 DEF Untouched
    <3>. QED  BY <2>2, <3>1, <3>2
  <2>9. MemoryIsBacked'
    BY <2>4, <2>7, <2>8 DEF MemoryIsBacked
  <2>10. CacheTyped' /\ RedisIsBacked'
    BY <1>2, <1>7, <1>10, <2>4 DEF CacheTyped, CacheInv, RedisIsBacked
  <2>. QED  BY <1>2, <1>8, <2>9, <2>10 DEF CacheInv
<1>. QED  BY <1>2, <1>9, <1>10

LEMMA InvalidateKeeps ==
  ASSUME CacheInv, NEW w \in CacheWorkers, NEW n \in Namespaces, NEW t \in CacheTenants, NEW parts \in Parts,
         Cache!Invalidate(w, n, t, parts)
  PROVE  CacheInv'
<1>. DEFINE key == <<n, t, parts>>
            b == <<n, t>>
            F == {i \in DOMAIN puts :
                    /\ <<puts[i].namespace, puts[i].tenant, puts[i].parts>> = key
                    /\ IF shared THEN redis' # redis ELSE puts[i].worker = w}
<1>1. /\ shared' = shared /\ cacheNow' = cacheNow /\ answer' = Cache!None
      /\ shared \in BOOLEAN /\ puts \in Seq(Writes) /\ b \in Namespaces \X CacheTenants
  BY DEF Cache!Invalidate, CacheInv, CacheTyped
<1>2. puts' = [i \in DOMAIN puts |-> IF i \in F THEN [puts[i] EXCEPT !.standing = FALSE] ELSE puts[i]]
  BY DEF Cache!Invalidate, Cache!Fall
<1>3. shared => /\ local' = local
                /\ \A k \in DOMAIN redis' : k \in DOMAIN redis /\ redis'[k] = redis[k]
                /\ redis' # redis => key \notin DOMAIN redis'
  BY DEF Cache!Invalidate, Cache!Key
<1>4. ~shared => redis' = redis /\ local' = [local EXCEPT ![w][b] = Cache!Without(local[w][b], key)]
  BY DEF Cache!Invalidate, Cache!Key
<1>5. \A i \in F : /\ <<puts[i].namespace, puts[i].tenant, puts[i].parts>> = key
                   /\ shared => redis' # redis
                   /\ ~shared => puts[i].worker = w
  OBVIOUS
<1>. HIDE DEF F, key
<1>6. /\ puts' \in Seq(Writes) /\ DOMAIN puts' = DOMAIN puts
      /\ \A i \in DOMAIN puts :
           /\ puts'[i].worker = puts[i].worker /\ puts'[i].namespace = puts[i].namespace
           /\ puts'[i].tenant = puts[i].tenant /\ puts'[i].parts = puts[i].parts
           /\ puts'[i].value = puts[i].value /\ puts'[i].until = puts[i].until
           /\ i \notin F => puts'[i].standing = puts[i].standing
  BY ONLY <1>1, <1>2, Fallen
<1>7. \A v, k, entry : /\ Backed(puts, shared, v, k, entry)
                       /\ \/ k # key
                          \/ shared /\ redis' = redis
                          \/ ~shared /\ v # w
                       => Backed(puts', shared, v, k, entry)
  <2>. SUFFICES ASSUME NEW v, NEW k, NEW entry, Backed(puts, shared, v, k, entry),
                       \/ k # key
                       \/ shared /\ redis' = redis
                       \/ ~shared /\ v # w
                PROVE  Backed(puts', shared, v, k, entry)
    OBVIOUS
  <2>1. \A i \in WritesOf(puts, shared, v, k) : i \in DOMAIN puts /\ i \notin F
    BY <1>5 DEF WritesOf
  <2>2. \A i \in WritesOf(puts, shared, v, k) : puts[i].standing => puts'[i].standing
    BY <1>6, <2>1
  <2>. QED  BY <1>6, <2>2, LessStanding
<1>8. Cache!HitsAreFresh'
  BY <1>1 DEF Cache!HitsAreFresh
<1>9. CASE shared
  <2>1. ASSUME NEW k \in DOMAIN redis', NEW v \in CacheWorkers
        PROVE  Backed(puts', TRUE, v, k, redis'[k])
    <3>1. k \in DOMAIN redis /\ redis'[k] = redis[k] /\ (k # key \/ redis' = redis)
      BY <1>3, <1>9
    <3>2. Backed(puts, TRUE, v, k, redis[k]) /\ shared = TRUE
      BY <1>1, <1>9, <3>1 DEF CacheInv, RedisIsBacked
    <3>. QED  BY <1>7, <3>1, <3>2
  <2>2. RedisIsBacked' /\ MemoryIsBacked'
    BY <1>1, <1>9, <2>1 DEF RedisIsBacked, MemoryIsBacked
  <2>3. CacheTyped'
    BY <1>1, <1>3, <1>6, <1>9 DEF CacheTyped, CacheInv
  <2>. QED  BY <1>1, <1>8, <2>2, <2>3 DEF CacheInv
<1>10. CASE ~shared
  <2>. DEFINE s == local[w][b]
              r == Cache!Without(s, key)
  <2>1. s \in Seq(Entries) /\ Distinct(s)
    BY <1>1 DEF CacheInv, CacheTyped
  <2>. HIDE DEF s
  <2>2. /\ r \in Seq(Entries) /\ Distinct(r)
        /\ \A i \in DOMAIN r : r[i].key # key /\ \E j \in DOMAIN s : r[i] = s[j]
    BY ONLY <2>1, WithoutKey
  <2>. HIDE DEF r
  <2>3. local' = [local EXCEPT ![w][b] = r]
    BY <1>4, <1>10 DEF r, s
  <2>4. /\ local' \in [CacheWorkers -> [Namespaces \X CacheTenants -> Seq(Entries)]]
        /\ \A v \in CacheWorkers, c \in Namespaces \X CacheTenants :
             /\ local'[v][c] = IF v = w /\ c = b THEN r ELSE local[v][c]
             /\ Distinct(local'[v][c])
    BY <1>1, <2>2, <2>3, BucketChanges DEF CacheInv
  <2>5. \A v \in CacheWorkers, c \in Namespaces \X CacheTenants : BucketIsBacked(local[v][c], puts, v, c)
    BY <1>10 DEF CacheInv, MemoryIsBacked
  <2>6. \A v, k, entry : Backed(puts, FALSE, v, k, entry) /\ (k # key \/ v # w) => Backed(puts', FALSE, v, k, entry)
    <3>1. shared = FALSE
      BY <1>1, <1>10
    <3>. QED  BY <1>7, <3>1
  <2>7. ASSUME NEW v \in CacheWorkers, NEW c \in Namespaces \X CacheTenants, v # w \/ c # b
        PROVE  BucketIsBacked(local[v][c], puts', v, c)
    <3>1. BucketIsBacked(local[v][c], puts, v, c)
      BY <2>5
    <3>2. <<key[1], key[2]>> = b
      BY DEF key
    <3>3. \A i \in DOMAIN local[v][c] : local[v][c][i].key # key \/ v # w
      BY <2>7, <3>1, <3>2 DEF BucketIsBacked
    <3>. QED  BY <2>6, <3>1, <3>3 DEF BucketIsBacked
  <2>8. BucketIsBacked(r, puts', w, b)
    <3>1. BucketIsBacked(s, puts, w, b)
      BY <1>1, <2>5 DEF s
    <3>2. BucketIsBacked(r, puts, w, b)
      BY <2>2, <3>1, FewerEntries
    <3>. QED  BY <2>2, <2>6, <3>2 DEF BucketIsBacked
  <2>9. MemoryIsBacked'
    BY <2>4, <2>7, <2>8 DEF MemoryIsBacked
  <2>10. CacheTyped' /\ RedisIsBacked'
    BY <1>1, <1>6, <1>10, <2>4 DEF CacheTyped, CacheInv, RedisIsBacked
  <2>. QED  BY <1>1, <1>8, <2>9, <2>10 DEF CacheInv
<1>. QED  BY <1>1, <1>9, <1>10
LEMMA InvalidateAllKeeps ==
  ASSUME CacheInv, NEW w \in CacheWorkers, NEW cleared, NEW t \in CacheTenants, Cache!InvalidateAll(w, cleared, t)
  PROVE  CacheInv'
<1>. DEFINE F == {i \in DOMAIN puts : /\ ~shared /\ puts[i].worker = w
                                      /\ puts[i].namespace \in cleared /\ puts[i].tenant = t}
<1>1. /\ shared' = shared /\ cacheNow' = cacheNow /\ answer' = Cache!None /\ redis' = redis
      /\ shared \in BOOLEAN /\ puts \in Seq(Writes)
  BY DEF Cache!InvalidateAll, CacheInv, CacheTyped
<1>2. puts' = [i \in DOMAIN puts |-> IF i \in F THEN [puts[i] EXCEPT !.standing = FALSE] ELSE puts[i]]
  BY DEF Cache!InvalidateAll, Cache!Fall
<1>3. local' = [local EXCEPT ![w] =
                  [b \in DOMAIN local[w] |-> IF b[1] \in cleared /\ b[2] = t THEN <<>> ELSE local[w][b]]]
  BY DEF Cache!InvalidateAll
<1>4. \A i \in F : ~shared /\ puts[i].worker = w /\ puts[i].namespace \in cleared /\ puts[i].tenant = t
  OBVIOUS
<1>. HIDE DEF F
<1>5. /\ puts' \in Seq(Writes) /\ DOMAIN puts' = DOMAIN puts
      /\ \A i \in DOMAIN puts :
           /\ puts'[i].worker = puts[i].worker /\ puts'[i].namespace = puts[i].namespace
           /\ puts'[i].tenant = puts[i].tenant /\ puts'[i].parts = puts[i].parts
           /\ puts'[i].value = puts[i].value /\ puts'[i].until = puts[i].until
           /\ i \notin F => puts'[i].standing = puts[i].standing
  BY ONLY <1>1, <1>2, Fallen
<1>6. \A v, k, entry : /\ Backed(puts, shared, v, k, entry)
                       /\ shared \/ v # w \/ ~(k[1] \in cleared /\ k[2] = t)
                       => Backed(puts', shared, v, k, entry)
  <2>. SUFFICES ASSUME NEW v, NEW k, NEW entry, Backed(puts, shared, v, k, entry),
                       shared \/ v # w \/ ~(k[1] \in cleared /\ k[2] = t)
                PROVE  Backed(puts', shared, v, k, entry)
    OBVIOUS
  <2>1. \A i \in WritesOf(puts, shared, v, k) : i \in DOMAIN puts /\ i \notin F
    <3>1. \A i \in WritesOf(puts, shared, v, k) :
            /\ i \in DOMAIN puts /\ puts[i].namespace = k[1] /\ puts[i].tenant = k[2]
            /\ shared \/ puts[i].worker = v
      BY DEF WritesOf
    <3>. QED  BY <1>4, <3>1
  <2>2. \A i \in WritesOf(puts, shared, v, k) : puts[i].standing => puts'[i].standing
    BY <1>5, <2>1
  <2>. QED  BY <1>5, <2>2, LessStanding
<1>7. \A v \in CacheWorkers, c \in Namespaces \X CacheTenants :
        local'[v][c] = IF v = w /\ c[1] \in cleared /\ c[2] = t THEN <<>> ELSE local[v][c]
  BY <1>3 DEF CacheInv, CacheTyped
<1>8. local' \in [CacheWorkers -> [Namespaces \X CacheTenants -> Seq(Entries)]]
  <2>1. [b \in DOMAIN local[w] |-> IF b[1] \in cleared /\ b[2] = t THEN <<>> ELSE local[w][b]]
          \in [Namespaces \X CacheTenants -> Seq(Entries)]
    BY DEF CacheInv, CacheTyped
  <2>. QED  BY <1>3, <2>1 DEF CacheInv, CacheTyped
<1>9. \A v \in CacheWorkers, c \in Namespaces \X CacheTenants : Distinct(local'[v][c])
  <2>1. Distinct(<<>>)
    BY DEF Distinct
  <2>. QED  BY <1>7, <2>1 DEF CacheInv, CacheTyped
<1>10. CacheTyped'
  BY <1>1, <1>5, <1>8, <1>9 DEF CacheInv, CacheTyped
<1>11. ASSUME ~shared, NEW v \in CacheWorkers, NEW c \in Namespaces \X CacheTenants
       PROVE  BucketIsBacked(local'[v][c], puts', v, c)
  <2>1. CASE v = w /\ c[1] \in cleared /\ c[2] = t
    BY <1>7, <2>1 DEF BucketIsBacked
  <2>2. CASE ~(v = w /\ c[1] \in cleared /\ c[2] = t)
    <3>1. BucketIsBacked(local[v][c], puts, v, c) /\ local'[v][c] = local[v][c] /\ shared = FALSE
      BY <1>1, <1>7, <1>11, <2>2 DEF CacheInv, MemoryIsBacked
    <3>2. \A i \in DOMAIN local[v][c] :
            local[v][c][i].key[1] = c[1] /\ local[v][c][i].key[2] = c[2]
      <4>1. \A x, y : <<x, y>> = c => x = c[1] /\ y = c[2]
        OBVIOUS
      <4>. QED  BY <3>1, <4>1 DEF BucketIsBacked
    <3>. QED  BY <1>6, <2>2, <3>1, <3>2 DEF BucketIsBacked
  <2>. QED  BY <2>1, <2>2
<1>12. MemoryIsBacked'
  BY <1>1, <1>11 DEF MemoryIsBacked
<1>13. RedisIsBacked'
  <2>. SUFFICES ASSUME shared, NEW k \in DOMAIN redis, NEW v \in CacheWorkers
                PROVE  Backed(puts', TRUE, v, k, redis[k])
    BY <1>1 DEF RedisIsBacked
  <2>1. Backed(puts, TRUE, v, k, redis[k]) /\ shared = TRUE
    BY <1>1 DEF CacheInv, RedisIsBacked
  <2>. QED  BY <1>6, <2>1
<1>14. Cache!HitsAreFresh'
  BY <1>1 DEF Cache!HitsAreFresh
<1>. QED  BY <1>1, <1>10, <1>12, <1>13, <1>14 DEF CacheInv

LEMMA CacheStep ==
  ASSUME CacheInv, [Cache!Next]_(Cache!vars)
  PROVE  CacheInv'
<1>1. CASE UNCHANGED Cache!vars
  BY <1>1 DEF Cache!vars, CacheInv, CacheTyped, MemoryIsBacked, RedisIsBacked, Cache!HitsAreFresh
<1>2. CASE Cache!Tick
  <2>1. CacheTyped' /\ MemoryIsBacked' /\ RedisIsBacked'
    <3>1. UNCHANGED <<shared, local, redis, puts>> /\ cacheNow' = cacheNow + 1
      BY <1>2 DEF Cache!Tick
    <3>2. cacheNow \in Nat => cacheNow' \in Nat
      BY <3>1
    <3>3. CacheTyped'
      BY <3>1, <3>2, Zenon DEF CacheInv, CacheTyped
    <3>4. MemoryIsBacked' /\ RedisIsBacked'
      BY <3>1 DEF CacheInv, MemoryIsBacked, RedisIsBacked
    <3>. QED  BY <3>3, <3>4
  <2>2. Cache!HitsAreFresh' /\ shared' = shared
    BY <1>2 DEF Cache!Tick, Cache!HitsAreFresh
  <2>. QED  BY <2>1, <2>2 DEF CacheInv
<1>3. ASSUME NEW w \in CacheWorkers, NEW t \in CacheTenants, NEW n \in Namespaces,
             Cache!InvalidateAll(w, {n}, t) \/ Cache!InvalidateAll(w, Namespaces, t)
      PROVE  CacheInv'
  BY <1>3, InvalidateAllKeeps
<1>4. ASSUME NEW w \in CacheWorkers, NEW t \in CacheTenants, NEW n \in Namespaces, NEW parts \in Parts,
             \/ Cache!Get(w, n, t, parts) \/ Cache!Invalidate(w, n, t, parts)
             \/ \E value \in Payloads, given_ \in CacheTTLs : Cache!Put(w, n, t, parts, value, given_)
      PROVE  CacheInv'
  BY <1>4, GetKeeps, InvalidateKeeps, PutKeeps
<1>. QED  BY <1>1, <1>2, <1>3, <1>4 DEF Cache!Next

\* However many workers, tenants and namespaces there are, and however writes, failed
\* commands, evictions and invalidations interleave: an entry anywhere is what a standing
\* write of its own key left, in memory the last one, so a hit is never another tenant's,
\* never expired, and never older than an invalidation that took effect.
THEOREM HitsAreOwnAndFresh == SpecAll => []HitsAreFresh
<1>1. InitAll => CacheInv
  <2>. SUFFICES ASSUME Cache!Init PROVE CacheInv
    BY CacheAlone
  <2>1. /\ shared \in BOOLEAN /\ cacheNow = 0 /\ redis = <<>> /\ puts = <<>> /\ answer = Cache!None
        /\ local = [w \in CacheWorkers |-> [b \in Namespaces \X CacheTenants |-> <<>>]]
    BY DEF Cache!Init
  <2>2. CacheTyped
    BY <2>1 DEF CacheTyped, Distinct
  <2>3. MemoryIsBacked /\ RedisIsBacked
    BY <2>1 DEF MemoryIsBacked, RedisIsBacked, BucketIsBacked
  <2>. QED  BY <2>1, <2>2, <2>3 DEF CacheInv, Cache!HitsAreFresh
<1>2. CacheInv /\ [NextAll]_all => CacheInv'
  BY CacheAlone, CacheStep
<1>3. CacheInv => HitsAreFresh
  BY DEF CacheInv, HitsAreFresh
<1>. QED  BY <1>1, <1>2, <1>3, PTL DEF SpecAll

-----------------------------------------------------------------------------
\* The planner

\* A finite set under a strict total order can be enumerated along it.
LEMMA Enumeration ==
  ASSUME NEW S, IsFiniteSet(S), NEW R \in SUBSET (S \X S),
         \A x \in S : <<x, x>> \notin R,
         \A x, y, z \in S : <<x, y>> \in R /\ <<y, z>> \in R => <<x, z>> \in R,
         \A x, y \in S : x = y \/ <<x, y>> \in R \/ <<y, x>> \in R
  PROVE  \E s \in [1..Cardinality(S) -> S] :
            /\ \A i, j \in 1..Cardinality(S) : i < j => <<s[i], s[j]>> \in R
            /\ \A x \in S : \E i \in 1..Cardinality(S) : s[i] = x
<1>. DEFINE n == Cardinality(S)
            before(x) == {y \in S : <<y, x>> \in R}
            rank == [x \in S |-> Cardinality(before(x)) + 1]
<1>1. n \in Nat /\ IsFiniteSet(1..n) /\ Cardinality(1..n) = n
  BY FS_CardinalityType, FS_Interval
<1>2. ASSUME NEW x \in S
      PROVE  /\ IsFiniteSet(before(x)) /\ Cardinality(before(x)) \in Nat
             /\ Cardinality(before(x)) < n
  <2>1. before(x) \in SUBSET (S \ {x})
    OBVIOUS
  <2>2. IsFiniteSet(S \ {x}) /\ Cardinality(S \ {x}) = n - 1
    BY FS_RemoveElement
  <2>. HIDE DEF before, n
  <2>3. IsFiniteSet(before(x)) /\ Cardinality(before(x)) <= n - 1
    BY <2>1, <2>2, FS_Subset
  <2>4. Cardinality(before(x)) \in Nat
    BY <2>3, FS_CardinalityType
  <2>. QED  BY <1>1, <2>3, <2>4
<1>3. ASSUME NEW x \in S, NEW y \in S, <<x, y>> \in R
      PROVE  Cardinality(before(x)) < Cardinality(before(y))
  <2>1. before(x) \union {x} \in SUBSET before(y) /\ x \notin before(x)
    BY <1>3
  <2>. HIDE DEF before
  <2>2. Cardinality(before(x) \union {x}) = Cardinality(before(x)) + 1
    BY <1>2, <2>1, FS_AddElement
  <2>3. Cardinality(before(x) \union {x}) <= Cardinality(before(y))
    BY <1>2, <2>1, FS_Subset
  <2>. QED  BY <1>2, <2>2, <2>3
<1>. HIDE DEF before
<1>4. rank \in [S -> 1..n]
  <2>. HIDE DEF n
  <2>. QED  BY <1>1, <1>2
<1>5. \A x, y \in S : rank[x] < rank[y] <=> <<x, y>> \in R
  <2>1. \A x, y \in S : <<x, y>> \in R => rank[x] < rank[y]
    BY <1>2, <1>3
  <2>2. \A x, y \in S : <<x, y>> \notin R => ~(rank[x] < rank[y])
    <3>. SUFFICES ASSUME NEW x \in S, NEW y \in S, <<x, y>> \notin R, rank[x] < rank[y]
                  PROVE  FALSE
      OBVIOUS
    <3>1. x # y
      BY <1>2
    <3>2. <<y, x>> \in R
      BY <3>1
    <3>. QED  BY <1>2, <1>3, <3>2
  <2>. HIDE DEF rank
  <2>. QED  BY <2>1, <2>2, Zenon
<1>6. \A x, y \in S : rank[x] = rank[y] => x = y
  <2>. SUFFICES ASSUME NEW x \in S, NEW y \in S, rank[x] = rank[y], x # y
                PROVE  FALSE
    OBVIOUS
  <2>1. <<x, y>> \in R \/ <<y, x>> \in R
    OBVIOUS
  <2>2. rank[x] < rank[y] \/ rank[y] < rank[x]
    BY <1>5, <2>1
  <2>. QED  BY <1>2, <2>2
<1>. HIDE DEF rank, n
<1>7. rank \in Injection(S, 1..n)
  BY <1>4, <1>6 DEF Injection, IsInjective
<1>8. rank \in Surjection(S, 1..n)
  BY <1>1, <1>7, FS_Injection DEF n
<1>9. \A i \in 1..n : \E x \in S : rank[x] = i
  BY <1>8 DEF Surjection
<1>. DEFINE s == [i \in 1..n |-> CHOOSE x \in S : rank[x] = i]
<1>10. s \in [1..n -> S] /\ \A i \in 1..n : rank[s[i]] = i
  BY <1>9
<1>11. \A i, j \in 1..n : i < j => <<s[i], s[j]>> \in R
  <2>. HIDE DEF s
  <2>. QED  BY <1>5, <1>10
<1>12. \A x \in S : \E i \in 1..n : s[i] = x
  <2>. HIDE DEF s
  <2>. QED  BY <1>4, <1>6, <1>10
<1>. HIDE DEF s
<1>. QED  BY <1>10, <1>11, <1>12 DEF n

\* A finite set of numbers can be enumerated in increasing order.
LEMMA Increasing ==
  ASSUME NEW S, S \subseteq Int, IsFiniteSet(S)
  PROVE  \E s \in [1..Cardinality(S) -> S] :
            /\ \A i, j \in 1..Cardinality(S) : i < j => s[i] < s[j]
            /\ \A x \in S : \E i \in 1..Cardinality(S) : s[i] = x
<1>1. PICK R \in SUBSET (S \X S) : R = {p \in S \X S : p[1] < p[2]}
  OBVIOUS
<1>2. \A x \in S : x \in Int
  OBVIOUS
<1>3. \A x, y \in S : <<x, y>> \in R <=> x < y
  BY <1>1
<1>4. \A x \in S : <<x, x>> \notin R
  BY <1>2, <1>3
<1>5. \A x, y, z \in S : <<x, y>> \in R /\ <<y, z>> \in R => <<x, z>> \in R
  BY <1>2, <1>3
<1>6. \A x, y \in S : x = y \/ <<x, y>> \in R \/ <<y, x>> \in R
  <2>. SUFFICES ASSUME NEW x \in S, NEW y \in S
                PROVE  x = y \/ <<x, y>> \in R \/ <<y, x>> \in R
    BY Zenon
  <2>1. x \in Int /\ y \in Int
    BY <1>2
  <2>2. x = y \/ x < y \/ y < x
    BY <2>1
  <2>. QED  BY <1>3, <2>2
<1>7. PICK s \in [1..Cardinality(S) -> S] :
         /\ \A i, j \in 1..Cardinality(S) : i < j => <<s[i], s[j]>> \in R
         /\ \A x \in S : \E i \in 1..Cardinality(S) : s[i] = x
  BY ONLY IsFiniteSet(S), <1>4, <1>5, <1>6, Enumeration
<1>. QED  BY <1>3, <1>7

\* The greatest and the least of a finite set of integers.
LEMMA Extremes ==
  ASSUME NEW S, S \subseteq Int, IsFiniteSet(S), S # {}
  PROVE  /\ Max(S) \in S /\ \A x \in S : x <= Max(S)
         /\ Min(S) \in S /\ \A x \in S : Min(S) <= x
<1>1. PICK n \in Nat : n = Cardinality(S) /\ n # 0
  BY FS_CardinalityType, FS_EmptySet
<1>2. \A x \in S : x \in Int
  OBVIOUS
<1>3. PICK s \in [1..n -> S] : /\ \A i, j \in 1..n : i < j => s[i] < s[j]
                               /\ \A x \in S : \E i \in 1..n : s[i] = x
  BY <1>1, Increasing
<1>4. n \in 1..n /\ 1 \in 1..n
  BY <1>1
<1>5. s[n] \in S /\ s[1] \in S
  BY <1>3, <1>4
<1>6. ASSUME NEW x \in S
      PROVE  x <= s[n] /\ s[1] <= x
  <2>1. PICK i \in 1..n : s[i] = x
    BY <1>3
  <2>2. i < n => x < s[n]
    BY <1>3, <1>4, <2>1
  <2>3. 1 < i => s[1] < x
    BY <1>3, <1>4, <2>1
  <2>4. (i < n \/ x = s[n]) /\ (1 < i \/ x = s[1])
    BY <1>1, <2>1
  <2>5. (x < s[n] \/ x = s[n]) /\ (s[1] < x \/ x = s[1])
    BY <1>5, <2>2, <2>3, <2>4
  <2>6. x \in Int /\ s[n] \in Int /\ s[1] \in Int
    BY <1>2, <1>5
  <2>. QED  BY <2>5, <2>6
<1>7. Max(S) \in S /\ \A x \in S : Max(S) >= x
  BY <1>2, <1>5, <1>6 DEF Max
<1>8. Min(S) \in S /\ \A x \in S : Min(S) <= x
  BY <1>5, <1>6 DEF Min
<1>. QED  BY <1>2, <1>7, <1>8

\* Scores

Measured(specs) ==
  /\ IsFiniteSet(specs) /\ specs # {}
  /\ \A m \in specs, f \in FEATURES : RawFeatures(m)[f] \in Int \union {NONE}

LEMMA ValuesAreMeasured ==
  ASSUME NEW specs, Measured(specs), NEW f \in FEATURES
  PROVE  /\ Values(specs, f) \subseteq Int /\ IsFiniteSet(Values(specs, f))
         /\ \A m \in Known(specs, f) : RawFeatures(m)[f] \in Values(specs, f)
<1>. DEFINE value == [m \in Known(specs, f) |-> RawFeatures(m)[f]]
<1>1. IsFiniteSet(Known(specs, f))
  BY FS_Subset DEF Known, Measured
<1>2. value \in Surjection(Known(specs, f), Values(specs, f))
  BY DEF Surjection, Values
<1>3. IsFiniteSet(Values(specs, f))
  <2>. HIDE DEF value
  <2>. QED  BY ONLY <1>1, <1>2, FS_Surjection
<1>. QED  BY <1>3 DEF Measured, Values, Known

LEMMA SpanIsPositive ==
  ASSUME NEW specs, Measured(specs), NEW f \in FEATURES, Known(specs, f) # {}
  PROVE  Span(specs, f) \in Nat \ {0}
<1>. DEFINE V == Values(specs, f)
<1>1. V \subseteq Int /\ IsFiniteSet(V) /\ V # {}
  BY ValuesAreMeasured
<1>2. Span(specs, f) = IF Max(V) - Min(V) = 0 THEN 1 ELSE Max(V) - Min(V)
  BY Zenon DEF Span
<1>. HIDE DEF V
<1>3. Max(V) \in Int /\ Min(V) \in Int /\ Min(V) <= Max(V)
  BY <1>1, Extremes
<1>. QED  BY <1>2, <1>3

\* The worst end is 0.
LEMMA NormalisedIsNatural ==
  ASSUME NEW specs, Measured(specs), NEW f \in FEATURES, NEW m \in Known(specs, f)
  PROVE  Normalised(specs, m, f) \in Nat
<1>. DEFINE V == Values(specs, f)
<1>1. V \subseteq Int /\ IsFiniteSet(V) /\ V # {} /\ RawFeatures(m)[f] \in V
  BY ValuesAreMeasured
<1>. HIDE DEF V
<1>2. /\ Max(V) \in Int /\ Min(V) \in Int
      /\ Min(V) <= RawFeatures(m)[f] /\ RawFeatures(m)[f] <= Max(V)
  BY <1>1, Extremes
<1>. QED  BY <1>1, <1>2 DEF Normalised, V

\* Better values are worth more, others no less.
LEMMA NormalisedGrows ==
  ASSUME NEW specs, Measured(specs), NEW f \in FEATURES,
         NEW a \in Known(specs, f), NEW b \in Known(specs, f)
  PROVE  LET x == RawFeatures(a)[f]
             y == RawFeatures(b)[f]
         IN  /\ ~Better(f, y, x) => Normalised(specs, b, f) <= Normalised(specs, a, f)
             /\ Better(f, x, y) => Normalised(specs, b, f) < Normalised(specs, a, f)
<1>. DEFINE V == Values(specs, f)
            x == RawFeatures(a)[f]
            y == RawFeatures(b)[f]
<1>1. V \subseteq Int /\ IsFiniteSet(V) /\ x \in V /\ y \in V
  BY ValuesAreMeasured
<1>2. Normalised(specs, a, f) = IF Cardinality(V) = 1 THEN 1
                                ELSE IF f \in {"latency", "cost"} THEN Max(V) - x ELSE x - Min(V)
  BY Zenon DEF Normalised
<1>3. Normalised(specs, b, f) = IF Cardinality(V) = 1 THEN 1
                                ELSE IF f \in {"latency", "cost"} THEN Max(V) - y ELSE y - Min(V)
  BY Zenon DEF Normalised
<1>. HIDE DEF V, x, y
<1>4. Max(V) \in Int /\ Min(V) \in Int
  BY <1>1, Extremes
<1>5. Cardinality(V) = 1 => x = y
  BY <1>1, FS_Singleton
<1>6. /\ ~Better(f, y, x) => Normalised(specs, b, f) <= Normalised(specs, a, f)
      /\ Better(f, x, y) => Normalised(specs, b, f) < Normalised(specs, a, f)
  BY <1>1, <1>2, <1>3, <1>4, <1>5 DEF Better
<1>. QED  BY <1>6 DEF x, y

LEMMA ProductIsPositive ==
  ASSUME NEW k \in Nat \ {0}, NEW l \in Nat \ {0}
  PROVE  k * l \in Nat \ {0}
OBVIOUS

LEMMA ProductGrows ==
  ASSUME NEW k \in Nat \ {0}, NEW u \in Nat, NEW v \in Nat
  PROVE  /\ k * u \in Nat
         /\ u <= v => k * u <= k * v
         /\ u < v => k * u < k * v
<1>1. k * u \in Nat /\ k * v \in Nat /\ k * (v - u) = k * v - k * u
  OBVIOUS
<1>2. ASSUME u < v  PROVE k * u < k * v
  <2>1. v - u \in Nat \ {0}
    BY <1>2
  <2>2. k * (v - u) \in Nat \ {0}
    BY <2>1, ProductIsPositive
  <2>. QED  BY <1>1, <2>2
<1>. QED  BY <1>1, <1>2

LEMMA ScalesArePositive ==
  ASSUME NEW specs, Measured(specs), NEW weights, NEW f \in FEATURES
  PROVE  OtherScales(specs, weights, f) \in Nat \ {0}
<1>. DEFINE scale(g) == IF f = g THEN 1 ELSE Scale(specs, weights, g)
<1>1. ASSUME NEW g \in FEATURES
      PROVE  scale(g) \in Nat \ {0}
  <2>1. g \in Usable(specs, weights) => Known(specs, g) # {}
    BY DEF Usable
  <2>. QED  BY <2>1, SpanIsPositive DEF Scale
<1>2. OtherScales(specs, weights, f) = scale("quality") * scale("latency") * scale("cost") * scale("health")
  BY DEF OtherScales
<1>3. FEATURES = {"quality", "latency", "cost", "health"}
  BY DEF FEATURES
<1>. HIDE DEF scale
<1>4. scale("quality") * scale("latency") \in Nat \ {0}
  BY <1>1, <1>3, ProductIsPositive
<1>5. scale("quality") * scale("latency") * scale("cost") \in Nat \ {0}
  BY <1>1, <1>3, <1>4, ProductIsPositive
<1>. QED  BY <1>1, <1>2, <1>3, <1>5, ProductIsPositive

Weighing(weights) == \A f \in FEATURES : weights[f] \in Nat

LEMMA ShareIsNatural ==
  ASSUME NEW specs, Measured(specs), NEW weights, Weighing(weights), NEW f \in FEATURES,
         NEW m \in specs
  PROVE  Share(specs, m, weights, f) \in Nat
<1>1. CASE ~(f \in Usable(specs, weights) /\ m \in Known(specs, f))
  BY <1>1 DEF Share
<1>2. CASE f \in Usable(specs, weights) /\ m \in Known(specs, f)
  <2>1. weights[f] \in Nat \ {0}
    BY <1>2 DEF Usable, Weighing
  <2>2. weights[f] * Normalised(specs, m, f) \in Nat
    BY <1>2, <2>1, NormalisedIsNatural, ProductGrows
  <2>3. weights[f] * Normalised(specs, m, f) * OtherScales(specs, weights, f) \in Nat
    BY <2>2, ScalesArePositive
  <2>. QED  BY <1>2, <2>3 DEF Share
<1>. QED  BY <1>1, <1>2

LEMMA ShareGrows ==
  ASSUME NEW specs, Measured(specs), NEW weights, Weighing(weights), NEW f \in Usable(specs, weights),
         NEW a \in Known(specs, f), NEW b \in Known(specs, f)
  PROVE  LET x == RawFeatures(a)[f]
             y == RawFeatures(b)[f]
         IN  /\ ~Better(f, y, x) => Share(specs, b, weights, f) <= Share(specs, a, weights, f)
             /\ Better(f, x, y) => Share(specs, b, weights, f) < Share(specs, a, weights, f)
<1>. DEFINE u == Normalised(specs, b, f)
            v == Normalised(specs, a, f)
            w == weights[f]
            k == OtherScales(specs, weights, f)
<1>1. f \in FEATURES /\ w \in Nat \ {0}
  BY DEF Usable, Weighing
<1>2. u \in Nat /\ v \in Nat /\ k \in Nat \ {0}
  BY <1>1, NormalisedIsNatural, ScalesArePositive
<1>3. Share(specs, b, weights, f) = w * u * k /\ Share(specs, a, weights, f) = w * v * k
  BY DEF Share
<1>4. /\ ~Better(f, RawFeatures(b)[f], RawFeatures(a)[f]) => u <= v
      /\ Better(f, RawFeatures(a)[f], RawFeatures(b)[f]) => u < v
  BY <1>1, NormalisedGrows
<1>. HIDE DEF u, v, w, k
<1>5. /\ w * u \in Nat /\ w * v \in Nat
      /\ u <= v => w * u <= w * v
      /\ u < v => w * u < w * v
  BY <1>1, <1>2, ProductGrows
<1>6. /\ u <= v => k * (w * u) <= k * (w * v)
      /\ u < v => k * (w * u) < k * (w * v)
  BY <1>2, <1>5, ProductGrows
<1>7. k * (w * u) = w * u * k /\ k * (w * v) = w * v * k
  BY <1>1, <1>2, <1>5
<1>. QED  BY <1>3, <1>4, <1>6, <1>7

\* Whoever dominates scores more.
LEMMA DominanceScores ==
  ASSUME NEW specs, Measured(specs), NEW weights, Weighing(weights), NEW a \in specs, NEW b \in specs,
         \A f \in FEATURES : weights[f] > 0 =>
           LET x == RawFeatures(a)[f]
               y == RawFeatures(b)[f]
           IN  /\ x # NONE /\ y # NONE => ~Better(f, y, x)
               /\ f = "cost" => (y # NONE => x # NONE),
         NEW g \in FEATURES, weights[g] > 0, \A m \in specs : RawFeatures(m)[g] # NONE,
         Better(g, RawFeatures(a)[g], RawFeatures(b)[g])
  PROVE  Score(specs, b, weights) < Score(specs, a, weights)
<1>. DEFINE share(m, f) == Share(specs, m, weights, f)
<1>1. ASSUME NEW f \in FEATURES
      PROVE  share(a, f) \in Nat /\ share(b, f) \in Nat /\ share(b, f) <= share(a, f)
  <2>1. share(a, f) \in Nat /\ share(b, f) \in Nat
    BY ShareIsNatural
  <2>2. CASE f \in Usable(specs, weights) /\ b \in Known(specs, f)
    <3>1. weights[f] > 0 /\ (f = "cost" \/ Known(specs, f) = specs)
      BY <2>2 DEF Usable
    <3>2. a \in Known(specs, f)
      BY <2>2, <3>1 DEF Known
    <3>3. ~Better(f, RawFeatures(b)[f], RawFeatures(a)[f])
      BY <2>2, <3>1, <3>2 DEF Known
    <3>4. ~Better(f, RawFeatures(b)[f], RawFeatures(a)[f])
            => Share(specs, b, weights, f) <= Share(specs, a, weights, f)
      BY <2>2, <3>2, ShareGrows
    <3>. QED  BY <2>1, <3>3, <3>4
  <2>3. CASE ~(f \in Usable(specs, weights) /\ b \in Known(specs, f))
    <3>1. share(b, f) = 0
      BY <2>3 DEF Share
    <3>. QED  BY <2>1, <3>1
  <2>. QED  BY <2>1, <2>2, <2>3
<1>2. share(b, g) < share(a, g)
  <2>1. Known(specs, g) = specs
    BY DEF Known
  <2>2. g \in Usable(specs, weights)
    BY <2>1 DEF Usable
  <2>. QED  BY <2>1, <2>2, ShareGrows
<1>3. /\ Score(specs, a, weights) = share(a, "quality") + share(a, "latency") + share(a, "cost") + share(a, "health")
      /\ Score(specs, b, weights) = share(b, "quality") + share(b, "latency") + share(b, "cost") + share(b, "health")
  BY DEF Score
<1>4. FEATURES = {"quality", "latency", "cost", "health"}
  BY DEF FEATURES
<1>. HIDE DEF share
<1>. QED  BY <1>1, <1>2, <1>3, <1>4

LEMMA ScoreIsNatural ==
  ASSUME NEW specs, Measured(specs), NEW weights, Weighing(weights), NEW m \in specs
  PROVE  Score(specs, m, weights) \in Nat
<1>1. \A f \in FEATURES : Share(specs, m, weights, f) \in Nat
  BY ShareIsNatural
<1>. QED  BY <1>1 DEF Score, FEATURES

LEMMA PoliciesWeigh ==
  ASSUME NEW policy \in PolicyNames, policy # "declared"
  PROVE  Weighing(POLICY_WEIGHTS[policy])
BY DEF PolicyNames, POLICY_WEIGHTS, Weights, Weighing, FEATURES

\* The order of a plan

LEMMA ModelsAreMeasured ==
  ASSUME registry \in Registries, NEW ids \in SUBSET Registered, IsFiniteSet(ids), ids # {}
  PROVE  Measured({registry[id] : id \in ids})
<1>. DEFINE specs == {registry[id] : id \in ids}
            spec == [id \in ids |-> registry[id]]
<1>1. spec \in Surjection(ids, specs)
  BY DEF Surjection
<1>2. IsFiniteSet(specs) /\ specs # {}
  <2>. HIDE DEF spec
  <2>. QED  BY <1>1, FS_Surjection
<1>3. ASSUME NEW id \in ids, NEW f \in FEATURES
      PROVE  RawFeatures(registry[id])[f] \in Int \union {NONE}
  <2>1. LET m == registry[id]
        IN  {m.grade, m.quality, m.price, m.latency_ms, m.observed_ms, m.health_score}
              \subseteq Int \union {NONE}
    BY PlannerAssumption
  <2>. QED  BY <2>1 DEF RawFeatures, FEATURES
<1>. QED  BY <1>2, <1>3 DEF Measured

LEMMA OrderOfCandidates ==
  ASSUME registry \in Registries, NEW q \in Requests
  PROVE  /\ CandidateOrder(q) \in Seq(Registered)
         /\ IsFiniteSet(Candidates(q)) /\ Candidates(q) \subseteq Registered
         /\ \A id \in Candidates(q) : /\ Position(q, id) \in Nat
                                      /\ CandidateOrder(q)[Position(q, id)] = id
<1>. DEFINE order == CandidateOrder(q)
<1>1. order \in Seq(Registered)
  <2>1. CASE Alias(q) # {}
    BY <2>1, PlannerAssumption DEF CandidateOrder, Alias
  <2>2. CASE Alias(q) = {} /\ IsPinned(q)
    <3>1. q.requested_model \in Registered
      BY <2>2 DEF IsPinned, Registered
    <3>2. registry[q.requested_model].fallbacks \in Seq(Registered)
      BY <3>1, PlannerAssumption
    <3>. QED  BY <2>2, <3>1, <3>2 DEF CandidateOrder
  <2>3. CASE Alias(q) = {} /\ ~IsPinned(q)
    BY <2>3, PlannerAssumption DEF CandidateOrder
  <2>. QED  BY <2>1, <2>2, <2>3
<1>. HIDE DEF order
<1>2. order \in Surjection(1..Len(order), ToSet(order)) /\ ToSet(order) \subseteq Registered
  BY <1>1 DEF Surjection, ToSet
<1>3. IsFiniteSet(1..Len(order))
  BY <1>1, FS_Interval
<1>4. IsFiniteSet(ToSet(order))
  BY <1>2, <1>3, FS_Surjection
<1>5. Candidates(q) \in SUBSET ToSet(order)
  BY DEF Candidates, order
<1>6. IsFiniteSet(Candidates(q)) /\ Candidates(q) \subseteq Registered
  BY <1>2, <1>4, <1>5, FS_Subset
<1>7. ASSUME NEW id \in ToSet(order)
      PROVE  Position(q, id) \in 1..Len(order) /\ order[Position(q, id)] = id
  <2>1. \E i \in DOMAIN order : order[i] = id
    BY DEF ToSet
  <2>2. DOMAIN order = 1..Len(order)
    BY <1>1
  <2>. QED  BY <2>1, <2>2 DEF Position, order
<1>8. \A id \in Candidates(q) : Position(q, id) \in Nat /\ order[Position(q, id)] = id
  BY <1>1, <1>5, <1>7
<1>. QED  BY <1>1, <1>6, <1>8 DEF order

\* A plan is all that is eligible, each of a score no less than what follows.
LEMMA RankedByScore ==
  ASSUME registry \in Registries, NEW q \in Requests, NEW policy \in PolicyNames,
         NEW ids \in SUBSET Candidates(q)
  PROVE  LET chain == Ranked(ids, q, policy)
             specs == {registry[id] : id \in ids}
             score(id) == Score(specs, registry[id], POLICY_WEIGHTS[policy])
         IN  /\ ToSet(chain) = ids
             /\ policy # "declared" =>
                  \A i, j \in DOMAIN chain : i < j => score(chain[j]) <= score(chain[i])
<1>. DEFINE specs == {registry[id] : id \in ids}
            score == [id \in ids |-> IF policy = "declared" THEN 0
                                     ELSE Score(specs, registry[id], POLICY_WEIGHTS[policy])]
            at(id) == Position(q, id)
            ahead(a, b) == score[a] > score[b] \/ (score[a] = score[b] /\ at(a) < at(b))
            n == Cardinality(ids)
<1>1. n \in Nat /\ IsFiniteSet(ids) /\ ids \subseteq Registered
  BY OrderOfCandidates, FS_Subset, FS_CardinalityType
<1>2. \A id \in ids : score[id] \in Nat
  <2>. SUFFICES ASSUME NEW id \in ids, policy # "declared"
                PROVE  Score(specs, registry[id], POLICY_WEIGHTS[policy]) \in Nat
    OBVIOUS
  <2>1. Measured(specs)
    BY <1>1, ModelsAreMeasured
  <2>2. Weighing(POLICY_WEIGHTS[policy])
    BY PoliciesWeigh
  <2>3. registry[id] \in specs
    OBVIOUS
  <2>. HIDE DEF specs
  <2>. QED  BY <2>1, <2>2, <2>3, ScoreIsNatural
<1>3. /\ \A id \in ids : at(id) \in Nat
      /\ \A a, b \in ids : at(a) = at(b) => a = b
  BY OrderOfCandidates
<1>4. Ranked(ids, q, policy) =
        CHOOSE s \in [1..n -> ids] : \A i, j \in DOMAIN s : i < j => ahead(s[i], s[j])
  BY Zenon DEF Ranked
<1>5. \A id \in ids : policy # "declared" => score[id] = Score(specs, registry[id], POLICY_WEIGHTS[policy])
  OBVIOUS
<1>. HIDE DEF specs, score, at, n
<1>6. PICK R \in SUBSET (ids \X ids) : R = {p \in ids \X ids : ahead(p[1], p[2])}
  OBVIOUS
<1>7. \A a, b \in ids : <<a, b>> \in R <=> ahead(a, b)
  BY <1>6
<1>8. \E s \in [1..n -> ids] : /\ \A i, j \in 1..n : i < j => <<s[i], s[j]>> \in R
                               /\ \A x \in ids : \E i \in 1..n : s[i] = x
  <2>1. \A x \in ids : <<x, x>> \notin R
    BY <1>2, <1>3, <1>7
  <2>2. \A x, y, z \in ids : <<x, y>> \in R /\ <<y, z>> \in R => <<x, z>> \in R
    BY <1>2, <1>3, <1>7
  <2>3. \A x, y \in ids : x = y \/ <<x, y>> \in R \/ <<y, x>> \in R
    <3>. SUFFICES ASSUME NEW x \in ids, NEW y \in ids
                  PROVE  x = y \/ <<x, y>> \in R \/ <<y, x>> \in R
      BY Zenon
    <3>1. /\ score[x] \in Nat /\ score[y] \in Nat /\ at(x) \in Nat /\ at(y) \in Nat
          /\ at(x) = at(y) => x = y
      BY <1>2, <1>3
    <3>2. x = y \/ ahead(x, y) \/ ahead(y, x)
      BY <3>1
    <3>. QED  BY <1>7, <3>2
  <2>. QED  BY ONLY <1>1, <2>1, <2>2, <2>3, Enumeration, ZenonT(60) DEF n
<1>9. \E s \in [1..n -> ids] : \A i, j \in DOMAIN s : i < j => ahead(s[i], s[j])
  BY <1>7, <1>8
<1>. DEFINE chain == Ranked(ids, q, policy)
<1>10. /\ chain \in [1..n -> ids]
       /\ \A i, j \in 1..n : i < j => ahead(chain[i], chain[j])
  BY <1>4, <1>9
<1>. HIDE DEF chain
<1>11. ToSet(chain) = ids
  <2>1. \A i, j \in 1..n : chain[i] = chain[j] => i = j
    BY <1>1, <1>2, <1>3, <1>10
  <2>2. chain \in Injection(1..n, ids)
    BY <1>10, <2>1 DEF Injection, IsInjective
  <2>3. IsFiniteSet(1..n) /\ Cardinality(1..n) = n
    BY <1>1, FS_Interval
  <2>4. chain \in Surjection(1..n, ids)
    BY <1>1, <2>2, <2>3, FS_Injection DEF n
  <2>. QED  BY <1>10, <2>4 DEF Surjection, ToSet
<1>12. \A i, j \in DOMAIN chain : i < j => score[chain[j]] <= score[chain[i]]
  BY <1>2, <1>10
<1>13. policy # "declared" =>
         \A i, j \in DOMAIN chain : i < j =>
           Score(specs, registry[chain[j]], POLICY_WEIGHTS[policy])
             <= Score(specs, registry[chain[i]], POLICY_WEIGHTS[policy])
  BY <1>5, <1>10, <1>12
<1>. QED  BY <1>11, <1>13 DEF chain, specs

LEMMA PolicyIsNamed ==
  ASSUME NEW q \in Requests, NEW t \in Tenants
  PROVE  Policy(q, t) \in PolicyNames
<1>. DEFINE alias == IF IsPinned(q) THEN "declared"
                     ELSE IF Alias(q) # {} THEN Aliases[q.requested_model].policy ELSE NONE
            said == << t.policy, q.policy,
                       IF alias = "declared" THEN alias ELSE NONE,
                       IF Classified(q) /\ ~Confident(q) THEN "balanced" ELSE NONE,
                       alias, PolicyFromIntent(q), DefaultPolicy >>
            I == {i \in DOMAIN said : said[i] # NONE}
<1>1. {"declared", "balanced", "quality_first", "latency_first", "cost_first"} \subseteq PolicyNames
  BY DEF PolicyNames, POLICY_WEIGHTS
<1>2. alias \in PolicyNames \union {NONE} /\ PolicyFromIntent(q) \in PolicyNames \union {NONE}
  BY <1>1, PlannerAssumption DEF PolicyFromIntent, Alias
<1>3. /\ t.policy \in PolicyNames \union {NONE} /\ q.policy \in PolicyNames \union {NONE}
      /\ DefaultPolicy \in PolicyNames /\ DefaultPolicy # NONE
  BY PlannerAssumption
<1>4. Policy(q, t) = said[Min(I)]
  BY Zenon DEF Policy
<1>. HIDE DEF alias
<1>5. DOMAIN said = 1..7 /\ \A i \in 1..7 : said[i] \in PolicyNames \union {NONE}
  BY <1>1, <1>2, <1>3
<1>6. said[7] # NONE
  BY <1>3
<1>. HIDE DEF said
<1>7. I \in SUBSET (1..7) /\ I # {}
  BY <1>5, <1>6
<1>8. IsFiniteSet(I)
  <2>1. PICK k \in Int : k = 7
    OBVIOUS
  <2>2. IsFiniteSet(1..k)
    BY FS_Interval
  <2>. HIDE DEF I
  <2>. QED  BY <1>7, <2>1, <2>2, FS_Subset
<1>9. Min(I) \in I
  <2>1. I \subseteq Int
    BY <1>7
  <2>. HIDE DEF I
  <2>. QED  BY <1>7, <1>8, <2>1, Extremes
<1>. QED  BY <1>4, <1>5, <1>9

LEMMA RulesPermit ==
  ASSUME registry \in Registries, NEW id \in Registered, NEW q \in Requests, NEW t \in Tenants,
         NEW required, q.required_capabilities \subseteq required,
         Broken(Rules(registry[id], q, t, required)) = {}
  PROVE  Permitted(registry[id], q, t)
<1>. DEFINE m == registry[id]
            rules == Rules(m, q, t, required)
<1>1. DOMAIN rules = 1..13
  BY DEF Rules
<1>2. \A i \in 1..13 : ~rules[i][2]
  BY <1>1 DEF Broken
<1>3. m.id = id /\ m.grade \in Int \union {NONE}
  BY PlannerAssumption
<1>4. t.maximum_grade \subseteq Int
  BY PlannerAssumption
<1>5. /\ m.enabled /\ m.id \notin open \union shifted \union t.denied_models
      /\ t.allowed_providers = {} \/ m.provider \in t.allowed_providers
      /\ required \subseteq Effective(m.capabilities)
      /\ \A s \in Localities(q, t) : m.locality \in s
      /\ \A g \in Ceilings(q, t) : m.grade = NONE \/ ~(m.grade > g)
  <2>1. /\ rules[1][2] <=> ~m.enabled \/ m.lifecycle = "disabled"
        /\ rules[3][2] <=> m.id \in shifted
        /\ rules[4][2] <=> m.id \in t.denied_models
        /\ rules[5][2] <=> t.allowed_providers # {} /\ m.provider \notin t.allowed_providers
        /\ rules[6][2] <=> \E s \in Localities(q, t) : m.locality \notin s
        /\ rules[8][2] <=> \E g \in Ceilings(q, t) : m.grade # NONE /\ m.grade > g
        /\ rules[9][2] <=> ~(required \subseteq Effective(m.capabilities))
        /\ rules[11][2] <=> m.id \in open
    BY DEF Rules
  <2>. HIDE DEF rules, m
  <2>2. /\ ~rules[1][2] /\ ~rules[3][2] /\ ~rules[4][2] /\ ~rules[5][2] /\ ~rules[6][2]
        /\ ~rules[8][2] /\ ~rules[9][2] /\ ~rules[11][2]
    BY <1>2
  <2>. QED  BY <2>1, <2>2
<1>. HIDE DEF m
<1>6. \A s \in t.allowed_localities : m.locality \in s \/ (s = {} /\ t.require_in_house)
  BY <1>4, <1>5 DEF Localities, TenantLocalities, InHouse
<1>7. t.require_in_house => m.locality \in InHouse
  BY <1>4, <1>5 DEF Localities, TenantLocalities, InHouse
<1>8. \A g \in t.maximum_grade : m.grade = NONE \/ m.grade <= g
  BY <1>3, <1>4, <1>5 DEF Ceilings
<1>. QED  BY <1>5, <1>6, <1>7, <1>8 DEF Permitted, InHouse, m

LEMMA FilterPermits ==
  ASSUME registry \in Registries, NEW q \in Requests, NEW t \in Tenants,
         NEW required, q.required_capabilities \subseteq required,
         NEW id \in Filter(q, t, required).eligible
  PROVE  id \in Candidates(q) /\ Permitted(registry[id], q, t)
<1>1. id \in Candidates(q) /\ Broken(Rules(registry[id], q, t, required)) = {}
  BY DEF Filter
<1>2. id \in Registered
  BY <1>1, OrderOfCandidates
<1>. QED  BY <1>1, <1>2, RulesPermit

LEMMA EligibleIsPermitted ==
  ASSUME registry \in Registries, NEW q \in Requests, NEW t \in Tenants,
         NEW id \in Approved(Preferred(Filtered(q, t), q), q, t).eligible
  PROVE  id \in Candidates(q) /\ Permitted(registry[id], q, t)
<1>1. ASSUME NEW f, NEW wanted, NEW rule
      PROVE  Narrowed(f, wanted, rule).eligible \subseteq f.eligible
  BY DEF Narrowed
<1>2. \A f : Preferred(f, q).eligible \subseteq f.eligible
  BY <1>1 DEF Preferred
<1>3. \A f : Approved(f, q, t).eligible \subseteq f.eligible
  BY DEF Approved
<1>4. id \in Filtered(q, t).eligible
  BY <1>2, <1>3
<1>5. /\ q.required_capabilities \subseteq HardRequired(q)
      /\ HardRequired(q) \subseteq Required(q)
  BY DEF HardRequired, Required
<1>6. \E required : /\ q.required_capabilities \subseteq required
                    /\ id \in Filter(q, t, required).eligible
  BY <1>4, <1>5 DEF Filtered
<1>. QED  BY <1>6, FilterPermits

LEMMA PlansArePermitted ==
  ASSUME registry \in Registries, NEW q \in Requests, NEW t \in Tenants, NEW p, p = PlanFor(q, t)
  PROVE  /\ \A id \in ToSet(p.chain) : Permitted(registry[id], p.request, p.tenant)
         /\ p.policy # "declared" =>
              \A i, j \in DOMAIN p.chain : i < j => ~Dominates(p, p.chain[j], p.chain[i])
<1>. DEFINE ids == Approved(Preferred(Filtered(q, t), q), q, t).eligible
            policy == Policy(q, t)
            specs == {registry[id] : id \in ids}
            weights == POLICY_WEIGHTS[policy]
<1>1. /\ p.request = q /\ p.tenant = t /\ p.policy = policy
      /\ p.chain = Ranked(ids, q, policy)
  BY DEF PlanFor
<1>2. policy \in PolicyNames
  BY PolicyIsNamed
<1>3. ids \in SUBSET Candidates(q) /\ \A id \in ids : Permitted(registry[id], q, t)
  BY EligibleIsPermitted
<1>. HIDE DEF ids, policy
<1>4. /\ ToSet(p.chain) = ids
      /\ policy # "declared" =>
           \A i, j \in DOMAIN p.chain : i < j =>
             Score(specs, registry[p.chain[j]], weights) <= Score(specs, registry[p.chain[i]], weights)
  <2>1. LET chain == Ranked(ids, q, policy)
            specs1 == {registry[id] : id \in ids}
            score(id) == Score(specs1, registry[id], POLICY_WEIGHTS[policy])
        IN  /\ ToSet(chain) = ids
            /\ policy # "declared" =>
                 \A i, j \in DOMAIN chain : i < j => score(chain[j]) <= score(chain[i])
    BY <1>2, <1>3, RankedByScore
  <2>. QED  BY <1>1, <2>1
<1>5. \A id \in ToSet(p.chain) : Permitted(registry[id], p.request, p.tenant)
  BY <1>1, <1>3, <1>4
<1>6. ASSUME policy # "declared", NEW i \in DOMAIN p.chain, NEW j \in DOMAIN p.chain, i < j,
             Dominates(p, p.chain[j], p.chain[i])
      PROVE  FALSE
  <2>. DEFINE a == registry[p.chain[j]]
              b == registry[p.chain[i]]
  <2>1. p.chain[i] \in ids /\ p.chain[j] \in ids
    BY <1>4 DEF ToSet
  <2>2. a \in specs /\ b \in specs
    BY <2>1
  <2>3. Measured(specs)
    <3>1. IsFiniteSet(ids) /\ ids \subseteq Registered
      BY <1>3, OrderOfCandidates, FS_Subset
    <3>. QED  BY <2>1, <3>1, ModelsAreMeasured
  <2>4. Weighing(weights)
    BY <1>2, <1>6, PoliciesWeigh
  <2>5. \A f \in FEATURES : weights[f] > 0 =>
          LET x == RawFeatures(a)[f]
              y == RawFeatures(b)[f]
          IN  /\ x # NONE /\ y # NONE => ~Better(f, y, x)
              /\ f = "cost" => (y # NONE => x # NONE)
    BY <1>1, <1>6 DEF Dominates
  <2>6. PICK g \in FEATURES : /\ weights[g] > 0
                              /\ \A id \in ids : RawFeatures(registry[id])[g] # NONE
                              /\ Better(g, RawFeatures(a)[g], RawFeatures(b)[g])
    BY <1>1, <1>4, <1>6 DEF Dominates
  <2>7. \A m \in specs : RawFeatures(m)[g] # NONE
    BY <2>6
  <2>8. Score(specs, a, weights) <= Score(specs, b, weights)
    BY <1>4, <1>6
  <2>. HIDE DEF a, b, specs, weights
  <2>9. Score(specs, b, weights) < Score(specs, a, weights)
    BY <2>2, <2>3, <2>4, <2>5, <2>6, <2>7, DominanceScores
  <2>10. Score(specs, a, weights) \in Nat /\ Score(specs, b, weights) \in Nat
    BY <2>2, <2>3, <2>4, ScoreIsNatural
  <2>. QED  BY <2>8, <2>9, <2>10
<1>. QED  BY <1>1, <1>5, <1>6

\* What holds of the plan holds whatever was planned before.
PlannerInv == registry \in Registries /\ NothingForbiddenIsPlanned /\ NoDominatedCandidateLeads

LEMMA PlannerKept == SpecAll => []PlannerInv
<1>1. InitAll => PlannerInv
  BY DEF InitAll, Init, PlannerInv, NothingForbiddenIsPlanned, NoDominatedCandidateLeads, Planned
<1>2. PlannerInv /\ [NextAll]_all => PlannerInv'
  <2>. SUFFICES ASSUME PlannerInv, [NextAll]_all
                PROVE  PlannerInv'
    OBVIOUS
  <2>1. UNCHANGED vars \/ Next
    BY DEF NextAll, all
  <2>2. CASE UNCHANGED vars
    BY <2>2 DEF vars, PlannerInv, NothingForbiddenIsPlanned, NoDominatedCandidateLeads,
                Planned, Permitted, Dominates
  <2>3. ASSUME NEW q \in Requests, NEW t \in Tenants, Plan(q, t)
        PROVE  PlannerInv'
    <3>1. /\ registry \in Registries /\ plan' = PlanFor(q, t)
          /\ registry' = registry /\ open' = open /\ shifted' = shifted
      BY <2>3 DEF Plan, PlannerInv
    <3>2. /\ \A id \in ToSet(plan'.chain) : Permitted(registry[id], plan'.request, plan'.tenant)
          /\ plan'.policy # "declared" =>
               \A i, j \in DOMAIN plan'.chain : i < j => ~Dominates(plan', plan'.chain[j], plan'.chain[i])
      BY <3>1, PlansArePermitted
    <3>3. NothingForbiddenIsPlanned'
      BY <3>1, <3>2 DEF NothingForbiddenIsPlanned, Permitted
    <3>4. NoDominatedCandidateLeads'
      BY <3>1, <3>2 DEF NoDominatedCandidateLeads, Dominates
    <3>. QED  BY <3>1, <3>3, <3>4 DEF PlannerInv
  <2>4. ASSUME NEW id \in ToSet(ModelIds), Trip(id) \/ Shift(id)
        PROVE  PlannerInv'
    BY <2>4 DEF Trip, Shift, PlannerInv, NothingForbiddenIsPlanned, NoDominatedCandidateLeads, Planned
  <2>. QED  BY <2>1, <2>2, <2>3, <2>4 DEF Next
<1>. QED  BY <1>1, <1>2, PTL DEF SpecAll

\* Whatever the registry, the aliases, the intents, the request and the tenant say, and
\* whichever breakers are open: no relaxation, preference or approval puts a deployment
\* into a plan that the tenant or the request forbids, or that may not take traffic.
THEOREM PlansKeepTheRules == SpecAll => []NothingForbiddenIsPlanned
<1>1. PlannerInv => NothingForbiddenIsPlanned
  BY DEF PlannerInv
<1>. QED  BY <1>1, PlannerKept, PTL

\* For all values declared and observed, and all weights of a policy: a candidate that
\* another dominates is tried after it.
THEOREM BetterComesFirst == SpecAll => []NoDominatedCandidateLeads
<1>1. PlannerInv => NoDominatedCandidateLeads
  BY DEF PlannerInv
<1>. QED  BY <1>1, PlannerKept, PTL

-----------------------------------------------------------------------------
\* The intent caches

Prompts == {a.prompt : a \in Arrivals}
Contexts == {a.context : a \in Arrivals}

\* A classification that is on its way, as it came.
OnItsWay ==
  [at : {"ask", "embed", "judge"}, vector : BOOLEAN, tenant : {a.tenant : a \in Arrivals},
   prompt : Prompts, context : Contexts]

\* An entry of a cache is what a layer answered, to be kept for so long.
Repeats(g, entry, ttl) == entry.answer = g.answer /\ entry.expires = g.at + ttl

ExactIsBacked ==
  \A k \in DOMAIN exact :
    \E g \in given : /\ k = <<g.tenant, g.prompt, Cascade!Signature(g.context)>>
                     /\ Repeats(g, exact[k], ExactTTL)

\* The entries of an index are of its tenant and signature.
IndexIsBacked(entries, k, answered) ==
  /\ \E E : entries \in Seq(E)
  /\ \A i \in DOMAIN entries :
       \E g \in answered : /\ k = <<g.tenant, Cascade!Signature(g.context)>>
                           /\ entries[i].prompt = g.prompt
                           /\ Repeats(g, entries[i], SemanticTTL)

SemanticIsBacked == \A k \in DOMAIN semantic : IndexIsBacked(semantic[k], k, given)

CascadeInv ==
  /\ cascadeNow \in Nat
  /\ DOMAIN cascadeRequest = Prompters
  /\ \A r \in Prompters : cascadeRequest[r].at \in {"idle", "done"} \/ cascadeRequest[r] \in OnItsWay
  /\ \A g \in given : g.prompt \in Prompts /\ g.context \in Contexts /\ g.at \in Nat
  /\ ExactIsBacked /\ SemanticIsBacked
  /\ Cascade!CachedAnswersWereGiven

LEMMA CascadeAlone ==
  /\ InitAll => Cascade!Init
  /\ [NextAll]_all => [Cascade!Next]_(Cascade!vars)
BY DEF InitAll, NextAll, all, cascade, Cascade!vars, Cascade!cache

\* The signature of a context tells it from every other.
LEMMA SignatureTells ==
  ASSUME NEW c \in Contexts, NEW d \in Contexts, Cascade!Signature(c) = Cascade!Signature(d)
  PROVE  c = d
<1>1. \A x \in Contexts : x = [ taxonomy |-> x.taxonomy, classifier |-> x.classifier,
                                policy |-> x.policy, language |-> x.language,
                                conversation |-> x.conversation ]
  BY CascadeAssumption, Zenon DEF Contexts
<1>2. /\ c.taxonomy = d.taxonomy /\ c.classifier = d.classifier /\ c.policy = d.policy
      /\ c.language = d.language /\ c.conversation = d.conversation
  BY DEF Cascade!Signature
<1>. QED  BY <1>1, <1>2, Zenon

\* Dropping what has expired leaves what has not, and nothing else.
LEMMA UnexpiredKeeps ==
  ASSUME NEW E, NEW entries \in Seq(E)
  PROVE  LET left == Cascade!Unexpired(entries)
         IN  /\ left \in Seq(E)
             /\ \A i \in DOMAIN left :
                  /\ cascadeNow < left[i].expires
                  /\ \E j \in DOMAIN entries : left[i] = entries[j]
<1>. DEFINE kept == {i \in DOMAIN entries : cascadeNow < entries[i].expires}
            n == Cardinality(kept)
            place == CHOOSE p \in [1..n -> kept] : \A i, j \in DOMAIN p : i < j => p[i] < p[j]
            left == Cascade!Unexpired(entries)
<1>1. Len(entries) \in Nat /\ DOMAIN entries = 1..Len(entries) /\ \A i \in DOMAIN entries : entries[i] \in E
  OBVIOUS
<1>2. kept \subseteq Int /\ IsFiniteSet(kept)
  <2>1. IsFiniteSet(1..Len(entries)) /\ kept \in SUBSET (1..Len(entries))
    BY <1>1, FS_Interval
  <2>. QED  BY <1>1, <2>1, FS_Subset
<1>3. \A x \in kept : x \in DOMAIN entries /\ cascadeNow < entries[x].expires
  OBVIOUS
<1>4. left = [i \in DOMAIN place |-> entries[place[i]]]
  BY DEF Cascade!Unexpired, Cascade!Cardinality, Cardinality
<1>. HIDE DEF kept, left
<1>5. n \in Nat
  BY <1>2, FS_CardinalityType
<1>6. \E p \in [1..n -> kept] : \A i, j \in DOMAIN p : i < j => p[i] < p[j]
  <2>1. PICK s \in [1..n -> kept] : \A i, j \in 1..n : i < j => s[i] < s[j]
    BY <1>2, Increasing, Zenon
  <2>. QED  BY <2>1
<1>7. place \in [1..n -> kept]
  BY <1>6
<1>. HIDE DEF place, n
<1>8. left \in Seq(E) /\ DOMAIN left = 1..n /\ \A i \in 1..n : left[i] = entries[place[i]] /\ place[i] \in kept
  BY <1>1, <1>3, <1>4, <1>5, <1>7
<1>. QED  BY <1>3, <1>8 DEF left

\* What an index still answers from is backed as the index is.
LEMMA LiveIsBacked ==
  ASSUME CascadeInv, NEW r
  PROVE  LET live == Cascade!Live(r)
         IN  /\ IndexIsBacked(live, Cascade!IndexKey(r), given)
             /\ \A i \in DOMAIN live : cascadeNow < live[i].expires
<1>. DEFINE k == Cascade!IndexKey(r)
            live == Cascade!Live(r)
<1>1. CASE k \notin DOMAIN semantic
  <2>1. live = <<>>
    BY <1>1 DEF Cascade!Live
  <2>. HIDE DEF live
  <2>2. live \in Seq({}) /\ DOMAIN live = {}
    BY <2>1
  <2>. QED  BY <2>2 DEF IndexIsBacked, live
<1>2. CASE k \in DOMAIN semantic
  <2>. DEFINE entries == semantic[k]
  <2>1. live = Cascade!Unexpired(entries)
    BY <1>2 DEF Cascade!Live
  <2>2. IndexIsBacked(entries, k, given)
    BY <1>2 DEF CascadeInv, SemanticIsBacked
  <2>. HIDE DEF live, entries, k
  <2>3. PICK E : entries \in Seq(E)
    BY <2>2 DEF IndexIsBacked
  <2>4. /\ live \in Seq(E)
        /\ \A i \in DOMAIN live : /\ cascadeNow < live[i].expires
                                  /\ \E j \in DOMAIN entries : live[i] = entries[j]
    BY ONLY <2>1, <2>3, UnexpiredKeeps
  <2>5. IndexIsBacked(live, k, given)
    BY <2>2, <2>4, Zenon DEF IndexIsBacked
  <2>. QED  BY <2>4, <2>5 DEF live, k
<1>. QED  BY <1>1, <1>2

\* What a hit of an index answers is of an entry that is near.
LEMMA NearestIsNear ==
  ASSUME CascadeInv, NEW r \in Prompters, cascadeRequest[r] \in OnItsWay,
         Cascade!SemanticHit(r) # Cascade!None
  PROVE  \E i \in DOMAIN Cascade!Live(r) :
           /\ Cosine[<<cascadeRequest[r].prompt, Cascade!Live(r)[i].prompt>>] >= 92
           /\ Cascade!SemanticHit(r) = <<Cascade!Live(r)[i].answer>>
<1>. DEFINE live == Cascade!Live(r)
            At(i) == Cosine[<<cascadeRequest[r].prompt, live[i].prompt>>]
            near == {i \in DOMAIN live : live[i].answer.confidence >= 75 /\ At(i) >= 92}
            Nearest(i) == \A j \in near \ {i} : At(j) < At(i) \/ (At(j) = At(i) /\ i < j)
<1>1. Cascade!SemanticHit(r) = IF near = {} THEN Cascade!None
                               ELSE <<live[CHOOSE i \in near : Nearest(i)].answer>>
  BY DEF Cascade!SemanticHit, Cascade!CONFIDENCE_THRESHOLD, Cascade!SIMILARITY_THRESHOLD
<1>2. near # {}
  BY <1>1
<1>3. IsFiniteSet(near) /\ \A i \in near : i \in Nat /\ At(i) \in Int
  <2>1. IndexIsBacked(live, Cascade!IndexKey(r), given)
    BY LiveIsBacked
  <2>. HIDE DEF live
  <2>2. PICK E : live \in Seq(E)
    BY <2>1 DEF IndexIsBacked
  <2>3. \A i \in DOMAIN live : live[i].prompt \in Prompts
    BY <2>1 DEF IndexIsBacked, CascadeInv
  <2>4. cascadeRequest[r].prompt \in Prompts
    BY DEF OnItsWay
  <2>5. \A p, q \in Prompts : Cosine[<<p, q>>] \in Int
    BY CascadeAssumption DEF Prompts
  <2>6. \A i \in DOMAIN live : At(i) \in Int
    BY <2>3, <2>4, <2>5
  <2>7. DOMAIN live = 1..Len(live) /\ Len(live) \in Nat /\ near \in SUBSET (1..Len(live))
    BY <2>2
  <2>. HIDE DEF near, At
  <2>8. IsFiniteSet(near)
    <3>1. IsFiniteSet(1..Len(live))
      BY <2>7, FS_Interval
    <3>. QED  BY <2>7, <3>1, FS_Subset
  <2>. QED  BY <2>6, <2>7, <2>8
<1>4. \E i \in near : Nearest(i)
  <2>. DEFINE Before(i, j) == At(j) < At(i) \/ (At(j) = At(i) /\ i < j)
  <2>. HIDE DEF near, At
  <2>1. PICK R \in SUBSET (near \X near) : R = {p \in near \X near : Before(p[1], p[2])}
    OBVIOUS
  <2>2. \A i, j \in near : <<i, j>> \in R <=> Before(i, j)
    BY <2>1
  <2>3. \A i \in near : <<i, i>> \notin R
    BY <1>3, <2>2
  <2>4. \A i, j, k \in near : <<i, j>> \in R /\ <<j, k>> \in R => <<i, k>> \in R
    BY <1>3, <2>2
  <2>5. \A i, j \in near : i = j \/ <<i, j>> \in R \/ <<j, i>> \in R
    <3>. SUFFICES ASSUME NEW i \in near, NEW j \in near
                  PROVE  i = j \/ <<i, j>> \in R \/ <<j, i>> \in R
      BY Zenon
    <3>1. /\ i \in Nat /\ j \in Nat /\ At(i) \in Int /\ At(j) \in Int
      BY <1>3
    <3>2. i = j \/ Before(i, j) \/ Before(j, i)
      BY <3>1
    <3>. QED  BY <2>2, <3>2
  <2>6. PICK s \in [1..Cardinality(near) -> near] :
           /\ \A i, j \in 1..Cardinality(near) : i < j => <<s[i], s[j]>> \in R
           /\ \A x \in near : \E i \in 1..Cardinality(near) : s[i] = x
    BY ONLY <1>3, <2>3, <2>4, <2>5, Enumeration
  <2>7. 1 \in 1..Cardinality(near)
    BY <1>2, <1>3, FS_CardinalityType, FS_EmptySet
  <2>8. \A x \in near \ {s[1]} : <<s[1], x>> \in R
    <3>. SUFFICES ASSUME NEW x \in near, x # s[1]
                  PROVE  <<s[1], x>> \in R
      OBVIOUS
    <3>1. PICK i \in 1..Cardinality(near) : s[i] = x
      BY <2>6
    <3>2. 1 < i
      BY <3>1
    <3>. QED  BY <2>6, <2>7, <3>1, <3>2
  <2>9. s[1] \in near
    BY <2>6, <2>7
  <2>. QED  BY <2>2, <2>8, <2>9
<1>. DEFINE nearest == CHOOSE i \in near : Nearest(i)
<1>5. nearest \in near
  <2>. HIDE DEF near
  <2>. QED  BY <1>4
<1>6. Cascade!SemanticHit(r) = <<live[nearest].answer>>
  BY <1>1, <1>2
<1>. HIDE DEF nearest
<1>. QED  BY <1>5, <1>6

\* What a cache may answer a classification that is on its way.
MayAnswer(r, answer_) ==
  \E g \in given :
    /\ g.answer = answer_ /\ g.tenant = cascadeRequest[r].tenant /\ g.context = cascadeRequest[r].context
    /\ \/ g.prompt = cascadeRequest[r].prompt /\ cascadeNow < g.at + ExactTTL
       \/ /\ Cosine[<<cascadeRequest[r].prompt, g.prompt>>] >= 92
          /\ g.answer.confidence >= 80
          /\ cascadeNow < g.at + SemanticTTL

LEMMA ExactHitRepeats ==
  ASSUME CascadeInv, NEW r \in Prompters, cascadeRequest[r] \in OnItsWay,
         Cascade!ExactHit(r) # Cascade!None
  PROVE  MayAnswer(r, Cascade!ExactHit(r)[1])
<1>. DEFINE q == cascadeRequest[r]
            k == <<q.tenant, q.prompt, Cascade!Signature(q.context)>>
<1>1. /\ k \in DOMAIN exact /\ cascadeNow < exact[k].expires
      /\ Cascade!ExactHit(r)[1] = exact[k].answer
  BY DEF Cascade!ExactHit, Cascade!ExactKey
<1>2. q.context \in Contexts
  BY DEF OnItsWay
<1>. HIDE DEF q
<1>3. PICK g \in given : /\ k = <<g.tenant, g.prompt, Cascade!Signature(g.context)>>
                         /\ Repeats(g, exact[k], ExactTTL)
  BY <1>1 DEF CascadeInv, ExactIsBacked
<1>4. g.tenant = q.tenant /\ g.prompt = q.prompt /\ g.context = q.context
  BY <1>2, <1>3, SignatureTells DEF CascadeInv
<1>. QED  BY <1>1, <1>3, <1>4 DEF MayAnswer, Repeats, q

LEMMA SemanticHitRepeats ==
  ASSUME CascadeInv, NEW r \in Prompters, cascadeRequest[r] \in OnItsWay,
         Cascade!SemanticHit(r) # Cascade!None, Cascade!SemanticHit(r)[1].confidence >= 80
  PROVE  MayAnswer(r, Cascade!SemanticHit(r)[1])
<1>. DEFINE q == cascadeRequest[r]
            k == Cascade!IndexKey(r)
            live == Cascade!Live(r)
<1>1. PICK i \in DOMAIN live : /\ Cosine[<<q.prompt, live[i].prompt>>] >= 92
                               /\ Cascade!SemanticHit(r) = <<live[i].answer>>
  BY NearestIsNear
<1>2. IndexIsBacked(live, k, given) /\ cascadeNow < live[i].expires
  BY LiveIsBacked
<1>3. q.context \in Contexts /\ k = <<q.tenant, Cascade!Signature(q.context)>>
  BY DEF OnItsWay, Cascade!IndexKey
<1>. HIDE DEF q, k, live
<1>4. PICK g \in given : /\ k = <<g.tenant, Cascade!Signature(g.context)>>
                         /\ live[i].prompt = g.prompt
                         /\ Repeats(g, live[i], SemanticTTL)
  BY <1>2 DEF IndexIsBacked
<1>5. g.tenant = q.tenant /\ g.context = q.context
  BY <1>3, <1>4, SignatureTells DEF CascadeInv
<1>6. Cascade!SemanticHit(r)[1] = g.answer
  BY <1>1, <1>4 DEF Repeats
<1>. QED  BY <1>1, <1>2, <1>4, <1>5, <1>6 DEF MayAnswer, Repeats, q

\* The requests that one step leaves alone keep what they have; the one it concerns is
\* on its way or idle, or has an answer that it may have.
RequestsKept ==
  /\ DOMAIN cascadeRequest' = Prompters
  /\ \A r \in Prompters : cascadeRequest'[r].at \in {"idle", "done"} \/ cascadeRequest'[r] \in OnItsWay
  /\ Cascade!CachedAnswersWereGiven'

LEMMA OneRequest ==
  ASSUME CascadeInv, NEW r \in Prompters, NEW value, given \subseteq given',
         cascadeRequest' = [cascadeRequest EXCEPT ![r] = value],
         \/ value.at = "idle" \/ value \in OnItsWay
         \/ /\ value.at = "done"
            /\ value.hit => MayAnswer(r, value.answer)
            /\ value.tenant = cascadeRequest[r].tenant /\ value.prompt = cascadeRequest[r].prompt
            /\ value.context = cascadeRequest[r].context /\ value.asked = cascadeNow
  PROVE  RequestsKept
<1>1. /\ DOMAIN cascadeRequest' = Prompters
      /\ \A s \in Prompters : cascadeRequest'[s] = IF s = r THEN value ELSE cascadeRequest[s]
  BY DEF CascadeInv
<1>2. value \in OnItsWay => value.at # "done"
  BY DEF OnItsWay
<1>3. ASSUME NEW s \in Prompters, cascadeRequest'[s].at = "done", cascadeRequest'[s].hit
      PROVE  \E g \in given' :
               /\ g.answer = cascadeRequest'[s].answer
               /\ g.tenant = cascadeRequest'[s].tenant /\ g.context = cascadeRequest'[s].context
               /\ \/ g.prompt = cascadeRequest'[s].prompt /\ cascadeRequest'[s].asked < g.at + ExactTTL
                  \/ /\ Cosine[<<cascadeRequest'[s].prompt, g.prompt>>] >= 92
                     /\ g.answer.confidence >= 80
                     /\ cascadeRequest'[s].asked < g.at + SemanticTTL
  <2>1. CASE s # r
    BY <1>1, <1>3, <2>1
       DEF CascadeInv, Cascade!CachedAnswersWereGiven, Cascade!SIMILARITY_THRESHOLD, Cascade!SEMANTIC_CACHE
  <2>2. CASE s = r
    <3>1. cascadeRequest'[s] = value /\ value.at = "done" /\ value.hit
      BY <1>1, <1>3, <2>2
    <3>2. /\ MayAnswer(r, value.answer)
          /\ value.tenant = cascadeRequest[r].tenant /\ value.prompt = cascadeRequest[r].prompt
          /\ value.context = cascadeRequest[r].context /\ value.asked = cascadeNow
      BY <1>2, <3>1
    <3>. QED  BY <3>1, <3>2 DEF MayAnswer
  <2>. QED  BY <2>1, <2>2
<1>4. Cascade!CachedAnswersWereGiven'
  BY <1>3 DEF Cascade!CachedAnswersWereGiven, Cascade!SIMILARITY_THRESHOLD, Cascade!SEMANTIC_CACHE
<1>5. \A s \in Prompters : cascadeRequest'[s].at \in {"idle", "done"} \/ cascadeRequest'[s] \in OnItsWay
  <2>1. value.at \in {"idle", "done"} \/ value \in OnItsWay
    OBVIOUS
  <2>. QED  BY <1>1, <2>1 DEF CascadeInv
<1>. QED  BY <1>1, <1>4, <1>5 DEF RequestsKept

LEMMA RepliesKeep ==
  ASSUME CascadeInv, NEW r \in Prompters, cascadeRequest[r] \in OnItsWay, given \subseteq given',
         NEW answer_, NEW hit \in BOOLEAN, Cascade!Reply(r, answer_, hit), hit => MayAnswer(r, answer_)
  PROVE  RequestsKept
<1>. DEFINE q == cascadeRequest[r]
            value == [ at |-> "done", tenant |-> q.tenant, prompt |-> q.prompt, context |-> q.context,
                       answer |-> answer_, hit |-> hit, asked |-> cascadeNow ]
<1>1. cascadeRequest' = [cascadeRequest EXCEPT ![r] = value]
  BY DEF Cascade!Reply
<1>2. /\ value.at = "done" /\ value.hit = hit /\ value.answer = answer_ /\ value.asked = cascadeNow
      /\ value.tenant = q.tenant /\ value.prompt = q.prompt /\ value.context = q.context
  OBVIOUS
<1>. HIDE DEF value
<1>. QED  BY <1>1, <1>2, OneRequest

\* A request that goes on to its next part.
LEMMA GoesOn ==
  ASSUME CascadeInv, NEW r \in Prompters, cascadeRequest[r] \in OnItsWay, given' = given,
         \/ cascadeRequest' = [cascadeRequest EXCEPT ![r].at = "embed"]
         \/ cascadeRequest' = [cascadeRequest EXCEPT ![r].at = "judge"]
         \/ cascadeRequest' = [cascadeRequest EXCEPT ![r].at = "judge", ![r].vector = TRUE]
  PROVE  RequestsKept
<1>1. r \in DOMAIN cascadeRequest
  BY DEF CascadeInv
<1>2. PICK value \in OnItsWay : cascadeRequest' = [cascadeRequest EXCEPT ![r] = value]
  <2>1. CASE cascadeRequest' = [cascadeRequest EXCEPT ![r].at = "embed"]
    <3>1. [cascadeRequest[r] EXCEPT !.at = "embed"] \in OnItsWay
      BY DEF OnItsWay
    <3>. QED  BY <1>1, <2>1, <3>1
  <2>2. CASE cascadeRequest' = [cascadeRequest EXCEPT ![r].at = "judge"]
    <3>1. [cascadeRequest[r] EXCEPT !.at = "judge"] \in OnItsWay
      BY DEF OnItsWay
    <3>. QED  BY <1>1, <2>2, <3>1
  <2>3. CASE cascadeRequest' = [cascadeRequest EXCEPT ![r].at = "judge", ![r].vector = TRUE]
    <3>1. [cascadeRequest[r] EXCEPT !.at = "judge", !.vector = TRUE] \in OnItsWay
      BY DEF OnItsWay
    <3>2. cascadeRequest' = [cascadeRequest EXCEPT ![r] = [cascadeRequest[r] EXCEPT !.at = "judge", !.vector = TRUE]]
      BY <1>1, <2>3
    <3>. QED  BY <3>1, <3>2
  <2>. QED  BY <2>1, <2>2, <2>3
<1>. QED  BY <1>2, OneRequest

\* Nothing is taken back of what was answered, so what is left as it was stays backed.
LEMMA StaysBacked ==
  ASSUME CascadeInv, given \subseteq given'
  PROVE  /\ exact' = exact => ExactIsBacked'
         /\ semantic' = semantic => SemanticIsBacked'
         /\ \A k \in DOMAIN semantic : IndexIsBacked(semantic[k], k, given')
BY DEF CascadeInv, ExactIsBacked, SemanticIsBacked, IndexIsBacked, Repeats

LEMMA AskKeeps ==
  ASSUME CascadeInv, NEW r \in Prompters, Cascade!Ask(r)
  PROVE  CascadeInv'
<1>1. /\ cascadeRequest[r] \in OnItsWay /\ given' = given /\ exact' = exact /\ semantic' = semantic
      /\ cascadeNow' = cascadeNow
  BY DEF Cascade!Ask, CascadeInv, Cascade!cache
<1>2. RequestsKept
  BY <1>1, ExactHitRepeats, RepliesKeep, GoesOn DEF Cascade!Ask
<1>. QED  BY <1>1, <1>2, StaysBacked DEF CascadeInv, RequestsKept

LEMMA LookKeeps ==
  ASSUME CascadeInv, NEW r \in Prompters, Cascade!Look(r)
  PROVE  CascadeInv'
<1>1. /\ cascadeRequest[r] \in OnItsWay /\ given' = given /\ exact' = exact /\ cascadeNow' = cascadeNow
  BY DEF Cascade!Look, CascadeInv, Cascade!cache
<1>2. CASE /\ cascadeRequest' = [cascadeRequest EXCEPT ![r].at = "judge"]
           /\ UNCHANGED Cascade!cache
  BY <1>1, <1>2, StaysBacked, GoesOn DEF CascadeInv, RequestsKept, Cascade!cache
<1>3. CASE /\ semantic' = IF Cascade!IndexKey(r) \in DOMAIN semantic
                          THEN Cascade!Put(semantic, Cascade!IndexKey(r), Cascade!Live(r)) ELSE semantic
           /\ LET hit == Cascade!SemanticHit(r) IN
              IF hit # Cascade!None /\ hit[1].confidence >= Cascade!SEMANTIC_CACHE
              THEN Cascade!Reply(r, hit[1], TRUE)
              ELSE cascadeRequest' = [cascadeRequest EXCEPT ![r].at = "judge", ![r].vector = TRUE]
  <2>. DEFINE k == Cascade!IndexKey(r)
  <2>1. IndexIsBacked(Cascade!Live(r), k, given)
    BY LiveIsBacked
  <2>2. SemanticIsBacked'
    <3>1. CASE k \notin DOMAIN semantic
      BY <1>1, <1>3, <3>1, StaysBacked
    <3>2. CASE k \in DOMAIN semantic
      <4>1. /\ DOMAIN semantic' = DOMAIN semantic \union {k} /\ semantic'[k] = Cascade!Live(r)
            /\ \A x \in DOMAIN semantic : x # k => semantic'[x] = semantic[x]
        <5>1. semantic' = Cascade!Put(semantic, k, Cascade!Live(r))
          BY <1>3, <3>2
        <5>. HIDE DEF k
        <5>. QED  BY <5>1 DEF Cascade!Put
      <4>. HIDE DEF k
      <4>. QED  BY <1>1, <2>1, <4>1 DEF CascadeInv, SemanticIsBacked
    <3>. QED  BY <3>1, <3>2
  <2>3. RequestsKept
    BY <1>1, <1>3, SemanticHitRepeats, RepliesKeep, GoesOn DEF Cascade!SEMANTIC_CACHE
  <2>. QED  BY <1>1, <2>2, <2>3, StaysBacked DEF CascadeInv, RequestsKept
<1>. QED  BY <1>2, <1>3 DEF Cascade!Look

\* What admit() leaves of an index is what was in it and the new entry.
LEMMA AdmittedKeeps ==
  ASSUME CascadeInv, NEW r \in Prompters, NEW answer_, NEW answered, given \subseteq answered,
         \E g \in answered :
           /\ g.tenant = cascadeRequest[r].tenant /\ g.prompt = cascadeRequest[r].prompt
           /\ g.context = cascadeRequest[r].context /\ g.answer = answer_ /\ g.at = cascadeNow
  PROVE  IndexIsBacked(Cascade!Admitted(r, answer_), Cascade!IndexKey(r), answered)
<1>. DEFINE k == Cascade!IndexKey(r)
            entry == [ prompt |-> cascadeRequest[r].prompt, answer |-> answer_,
                       expires |-> cascadeNow + SemanticTTL ]
            live == IF k \in DOMAIN semantic THEN semantic[k] ELSE <<>>
            updated == IF \E i \in DOMAIN live : live[i].prompt = entry.prompt
                       THEN [i \in DOMAIN live |-> IF live[i].prompt = entry.prompt THEN entry ELSE live[i]]
                       ELSE Append(live, entry)
            excess == Len(updated) - Capacity
            Backed_(e) == \E g \in answered : /\ k = <<g.tenant, Cascade!Signature(g.context)>>
                                              /\ e.prompt = g.prompt /\ Repeats(g, e, SemanticTTL)
<1>1. Cascade!Admitted(r, answer_) =
        IF excess > 0 THEN SubSeq(updated, excess + 1, Len(updated)) ELSE updated
  BY DEF Cascade!Admitted
<1>2. Backed_(entry)
  BY DEF Cascade!IndexKey, Repeats
<1>3. PICK E : live \in Seq(E) /\ \A i \in DOMAIN live : Backed_(live[i])
  <2>1. CASE k \notin DOMAIN semantic
    <3>1. live = <<>> /\ live \in Seq({})
      BY <2>1
    <3>. HIDE DEF live, Backed_
    <3>. QED  BY <3>1
  <2>2. CASE k \in DOMAIN semantic
    <3>1. live = semantic[k] /\ IndexIsBacked(semantic[k], k, given)
      BY <2>2 DEF CascadeInv, SemanticIsBacked
    <3>. HIDE DEF live, k
    <3>. QED  BY <3>1, Zenon DEF IndexIsBacked, Repeats
  <2>. QED  BY <2>1, <2>2
<1>. HIDE DEF entry, live, Backed_, k
<1>4. /\ updated \in Seq(E \union {entry})
      /\ \A i \in DOMAIN updated : updated[i] = entry \/ \E j \in DOMAIN live : updated[i] = live[j]
  <2>1. CASE \E i \in DOMAIN live : live[i].prompt = entry.prompt
    BY <1>3, <2>1
  <2>2. CASE ~\E i \in DOMAIN live : live[i].prompt = entry.prompt
    BY <1>3, <2>2
  <2>. QED  BY <2>1, <2>2
<1>5. \A i \in DOMAIN updated : Backed_(updated[i])
  BY <1>2, <1>3, <1>4
<1>. HIDE DEF updated
<1>6. Capacity \in Nat /\ Len(updated) \in Nat
  BY <1>4, CascadeAssumption
<1>7. CASE excess > 0
  <2>. DEFINE left == SubSeq(updated, excess + 1, Len(updated))
  <2>1. /\ left \in Seq(E \union {entry})
        /\ \A i \in DOMAIN left : \E j \in DOMAIN updated : left[i] = updated[j]
    <3>1. excess + 1 \in 1..Len(updated) + 1 /\ Len(updated) \in Nat
      BY <1>6, <1>7
    <3>. HIDE DEF excess
    <3>. QED  BY <1>4, <3>1
  <2>2. Cascade!Admitted(r, answer_) = left
    BY <1>1, <1>7
  <2>3. \A i \in DOMAIN left : Backed_(left[i])
    <3>. HIDE DEF left
    <3>. QED  BY <1>5, <2>1
  <2>. HIDE DEF left
  <2>. QED  BY <2>1, <2>2, <2>3 DEF IndexIsBacked, Backed_, k
<1>8. CASE ~(excess > 0)
  BY <1>1, <1>4, <1>5, <1>8 DEF IndexIsBacked, Backed_, k
<1>. QED  BY <1>7, <1>8

LEMMA JudgeKeeps ==
  ASSUME CascadeInv, NEW r \in Prompters, NEW said, Cascade!Judge(r, said)
  PROVE  CascadeInv'
<1>. DEFINE q == cascadeRequest[r]
            answer_ == Cascade!Judgement(said).answer
            g == [ tenant |-> q.tenant, prompt |-> q.prompt, context |-> q.context,
                   answer |-> answer_, at |-> cascadeNow ]
            e == [ answer |-> answer_, expires |-> cascadeNow + ExactTTL ]
            exactKey == Cascade!ExactKey(r)
            indexKey == Cascade!IndexKey(r)
<1>1. /\ q \in OnItsWay /\ cascadeNow' = cascadeNow /\ Cascade!Reply(r, answer_, FALSE)
      /\ given' = IF answer_.state # "known" THEN given ELSE given \union {g}
  BY DEF Cascade!Judge, CascadeInv
<1>2. CASE answer_.state # "known"
  <2>1. given' = given /\ exact' = exact /\ semantic' = semantic
    BY <1>1, <1>2 DEF Cascade!Judge, Cascade!MayCache, Cascade!cache
  <2>2. RequestsKept
    BY <1>1, <2>1, RepliesKeep
  <2>. QED  BY <1>1, <2>1, <2>2, StaysBacked DEF CascadeInv, RequestsKept
<1>3. CASE answer_.state = "known"
  <2>1. /\ given' = given \union {g}
        /\ exact' = exact \/ exact' = Cascade!Put(exact, exactKey, e)
        /\ semantic' = semantic \/ semantic' = Cascade!Put(semantic, indexKey, Cascade!Admitted(r, answer_))
    BY <1>1, <1>3 DEF Cascade!Judge, Cascade!MayCache
  <2>2. /\ g.tenant = q.tenant /\ g.prompt = q.prompt /\ g.context = q.context /\ g.answer = answer_
        /\ g.at = cascadeNow /\ e.answer = answer_ /\ e.expires = cascadeNow + ExactTTL
    OBVIOUS
  <2>3. exactKey = <<q.tenant, q.prompt, Cascade!Signature(q.context)>>
    BY DEF Cascade!ExactKey
  <2>4. q.prompt \in Prompts /\ q.context \in Contexts
    BY <1>1 DEF OnItsWay
  <2>. HIDE DEF g, e, answer_, exactKey, indexKey
  <2>5. given \subseteq given' /\ g \in given'
    BY <2>1
  <2>6. \A x \in given' : x.prompt \in Prompts /\ x.context \in Contexts /\ x.at \in Nat
    BY <2>1, <2>2, <2>4 DEF CascadeInv
  <2>7. RequestsKept
    BY <1>1, <2>5, RepliesKeep
  <2>8. ExactIsBacked'
    <3>1. CASE exact' = exact
      BY <2>5, <3>1, StaysBacked
    <3>2. CASE exact' = Cascade!Put(exact, exactKey, e)
      <4>1. /\ DOMAIN exact' = DOMAIN exact \union {exactKey} /\ exact'[exactKey] = e
            /\ \A x \in DOMAIN exact : x # exactKey => exact'[x] = exact[x]
        BY <3>2 DEF Cascade!Put
      <4>2. exactKey = <<g.tenant, g.prompt, Cascade!Signature(g.context)>> /\ Repeats(g, e, ExactTTL)
        BY <2>2, <2>3 DEF Repeats
      <4>3. \A x \in DOMAIN exact :
              \E y \in given' : /\ x = <<y.tenant, y.prompt, Cascade!Signature(y.context)>>
                                /\ Repeats(y, exact[x], ExactTTL)
        BY <2>5 DEF CascadeInv, ExactIsBacked
      <4>. QED  BY <2>5, <4>1, <4>2, <4>3 DEF ExactIsBacked, Repeats
    <3>. QED  BY <2>1, <3>1, <3>2
  <2>9. SemanticIsBacked'
    <3>1. CASE semantic' = semantic
      BY <2>5, <3>1, StaysBacked
    <3>2. CASE semantic' = Cascade!Put(semantic, indexKey, Cascade!Admitted(r, answer_))
      <4>. DEFINE admitted == Cascade!Admitted(r, answer_)
      <4>1. IndexIsBacked(admitted, indexKey, given')
        BY <2>2, <2>5, AdmittedKeeps DEF indexKey
      <4>. HIDE DEF admitted
      <4>2. /\ DOMAIN semantic' = DOMAIN semantic \union {indexKey} /\ semantic'[indexKey] = admitted
            /\ \A x \in DOMAIN semantic : x # indexKey => semantic'[x] = semantic[x]
        BY <3>2 DEF Cascade!Put, admitted
      <4>3. \A x \in DOMAIN semantic : IndexIsBacked(semantic[x], x, given')
        BY <2>5, StaysBacked
      <4>4. \A x \in DOMAIN semantic' : IndexIsBacked(semantic'[x], x, given')
        BY <4>1, <4>2, <4>3
      <4>. QED  BY <4>4 DEF SemanticIsBacked, IndexIsBacked, Repeats
    <3>. QED  BY <2>1, <3>1, <3>2
  <2>. QED  BY <1>1, <2>6, <2>7, <2>8, <2>9 DEF CascadeInv, RequestsKept
<1>. QED  BY <1>2, <1>3

LEMMA CascadeStep ==
  ASSUME CascadeInv, [Cascade!Next]_(Cascade!vars)
  PROVE  CascadeInv'
<1>1. CASE UNCHANGED Cascade!vars
  BY <1>1 DEF Cascade!vars, Cascade!cache, CascadeInv, ExactIsBacked, SemanticIsBacked, IndexIsBacked,
              Repeats, Cascade!CachedAnswersWereGiven
<1>2. CASE Cascade!Tick
  BY <1>2 DEF Cascade!Tick, Cascade!cache, CascadeInv, ExactIsBacked, SemanticIsBacked, IndexIsBacked,
              Repeats, Cascade!CachedAnswersWereGiven
<1>3. ASSUME NEW tenant, Cascade!InvalidateTenant(tenant)
      PROVE  CascadeInv'
  <2>1. /\ cascadeNow' = cascadeNow /\ cascadeRequest' = cascadeRequest /\ given' = given
        /\ \A k \in DOMAIN exact' : k \in DOMAIN exact /\ exact'[k] = exact[k]
        /\ \A k \in DOMAIN semantic' : k \in DOMAIN semantic /\ semantic'[k] = semantic[k]
    BY <1>3 DEF Cascade!InvalidateTenant
  <2>2. ExactIsBacked' /\ SemanticIsBacked'
    BY <2>1 DEF CascadeInv, ExactIsBacked, SemanticIsBacked, IndexIsBacked, Repeats
  <2>3. Cascade!CachedAnswersWereGiven'
    BY <2>1 DEF CascadeInv, Cascade!CachedAnswersWereGiven
  <2>. QED  BY <2>1, <2>2, <2>3 DEF CascadeInv
<1>4. ASSUME NEW key, Cascade!Accept(key)
      PROVE  CascadeInv'
  BY <1>4 DEF Cascade!Accept, Cascade!cache, CascadeInv, ExactIsBacked, SemanticIsBacked, IndexIsBacked,
              Repeats, Cascade!CachedAnswersWereGiven
<1>5. ASSUME NEW r \in Prompters, NEW a \in Arrivals, Cascade!Arrive(r, a)
      PROVE  CascadeInv'
  <2>. DEFINE value == [ at |-> "ask", vector |-> FALSE, tenant |-> a.tenant,
                         prompt |-> a.prompt, context |-> a.context ]
  <2>1. /\ cascadeRequest' = [cascadeRequest EXCEPT ![r] = value] /\ cascadeNow' = cascadeNow
        /\ given' = given /\ exact' = exact /\ semantic' = semantic
    BY <1>5 DEF Cascade!Arrive, Cascade!cache
  <2>2. value \in OnItsWay
    BY DEF OnItsWay, Prompts, Contexts
  <2>. HIDE DEF value
  <2>3. RequestsKept
    BY <2>1, <2>2, OneRequest
  <2>. QED  BY <2>1, <2>3, StaysBacked DEF CascadeInv, RequestsKept
<1>6. ASSUME NEW r \in Prompters, Cascade!FallBack(r)
      PROVE  CascadeInv'
  <2>1. /\ cascadeRequest[r] \in OnItsWay /\ cascadeNow' = cascadeNow
        /\ given' = given /\ exact' = exact /\ semantic' = semantic
    BY <1>6 DEF Cascade!FallBack, Cascade!cache, CascadeInv
  <2>2. RequestsKept
    BY <1>6, <2>1, RepliesKeep DEF Cascade!FallBack
  <2>. QED  BY <2>1, <2>2, StaysBacked DEF CascadeInv, RequestsKept
<1>7. ASSUME NEW r \in Prompters, Cascade!Leave(r)
      PROVE  CascadeInv'
  <2>1. /\ cascadeRequest' = [cascadeRequest EXCEPT ![r] = Cascade!Idle] /\ cascadeNow' = cascadeNow
        /\ given' = given /\ exact' = exact /\ semantic' = semantic
    BY <1>7 DEF Cascade!Leave, Cascade!cache
  <2>2. RequestsKept
    BY <2>1, OneRequest DEF Cascade!Idle
  <2>. QED  BY <2>1, <2>2, StaysBacked DEF CascadeInv, RequestsKept
<1>. QED  BY <1>1, <1>2, <1>3, <1>4, <1>5, <1>6, <1>7, AskKeeps, LookKeeps, JudgeKeeps DEF Cascade!Next

\* However many classifications run at once on the same caches, and however writes that
\* fail, expiry, eviction and invalidation interleave with them: what a cache answers, a
\* layer has answered, for that tenant and all that the answer depends on, not too long
\* ago, to that prompt or to one that resembles it.
THEOREM CachesRepeatLayers == SpecAll => []CachedAnswersWereGiven
<1>1. InitAll => CascadeInv
  <2>. SUFFICES ASSUME Cascade!Init PROVE CascadeInv
    BY CascadeAlone
  <2>1. /\ cascadeNow = 0 /\ exact = <<>> /\ semantic = <<>> /\ given = {}
        /\ cascadeRequest = [r \in Prompters |-> [at |-> "idle"]]
    BY DEF Cascade!Init, Cascade!Idle
  <2>. QED  BY <2>1 DEF CascadeInv, ExactIsBacked, SemanticIsBacked, Cascade!CachedAnswersWereGiven
<1>2. CascadeInv /\ [NextAll]_all => CascadeInv'
  BY CascadeAlone, CascadeStep
<1>3. CascadeInv => CachedAnswersWereGiven
  BY DEF CascadeInv, CachedAnswersWereGiven
<1>. QED  BY <1>1, <1>2, <1>3, PTL DEF SpecAll

-----------------------------------------------------------------------------
\* A load run

Collected ==
  [latencies : Seq(Int), delays : Seq(Int), ok : Nat, bad : Nat, errors : Nat, slips : Seq(Int)]

Connections == [at : {"idle", "ready", "sent", "over"}, tick : Int, sent : Int, count : Nat]

\* A connection is always due at the time the schedule has for its next request, so the
\* delay it reports is how much it slipped; a process that has put its part is done.
BenchmarkInv ==
  /\ benchNow \in Nat
  /\ conn \in [Processes -> [Benchmark!Offsets -> Connections]]
  /\ part \in [Processes -> Collected]
  /\ \A p \in Processes : \A i \in Benchmark!Offsets :
       /\ conn[p][i].tick = Benchmark!Scheduled(i, conn[p][i].count)
       /\ process[p] = "put" => conn[p][i].at = "over"
  /\ DOMAIN process = Processes
  /\ \A p \in Processes :
       /\ part[p].slips = part[p].delays
       /\ verdict # "none" => process[p] = "put"
       /\ benchMode # "open" => part[p].delays = <<>>
  /\ Benchmark!PassingWasOffered

LEMMA BenchmarkAlone ==
  /\ InitAll => Benchmark!Init
  /\ [NextAll]_all => [Benchmark!Next]_(Benchmark!vars)
BY DEF InitAll, NextAll, all, benchmark, Benchmark!vars

LEMMA SameCardinality == \A S : Benchmark!Cardinality(S) = Cardinality(S)
BY DEF Benchmark!Cardinality, Cardinality

\* At most one in a hundred is beyond the place of the 99th percentile.
LEMMA NinetyNinth ==
  ASSUME NEW n \in Nat, n # 0
  PROVE  Benchmark!Place(99, n) \in 1..n /\ 100 * (n - Benchmark!Place(99, n)) <= n + 49
<1>. DEFINE below == (99 * (n - 1)) \div 100
            rest == (99 * (n - 1)) % 100
<1>1. /\ below \in Int /\ rest \in 0..99
      /\ 99 * (n - 1) = 100 * below + rest
  OBVIOUS
<1>2. Benchmark!Place(99, n) \in {below + 1, below + 2} /\ (rest <= 50 \/ Benchmark!Place(99, n) = below + 2)
      /\ (rest < 50 => Benchmark!Place(99, n) = below + 1)
  BY <1>1 DEF Benchmark!Place
<1>. HIDE DEF below, rest
<1>. QED  BY <1>1, <1>2

Below(D, f, v) == {d \in D : f[d] < v}
UpTo(D, f, v) == {d \in D : f[d] <= v}

\* At every place among sorted values there is one of them.
LEMMA ValueAtPlace ==
  ASSUME NEW D, IsFiniteSet(D), NEW f \in [D -> Int], NEW place \in 1..Cardinality(D)
  PROVE  \E d \in D : /\ Cardinality(Below(D, f, f[d])) < place
                       /\ place <= Cardinality(UpTo(D, f, f[d]))
<1>. DEFINE values(S) == {f[d] : d \in S}
            upTo(v) == {d \in D : f[d] <= v}
            reach == {v \in values(D) : place <= Cardinality(upTo(v))}
<1>1. \A S \in SUBSET D : /\ values(S) \subseteq Int /\ IsFiniteSet(values(S)) /\ IsFiniteSet(S)
                          /\ Cardinality(S) \in Nat
  <2>. TAKE S \in SUBSET D
  <2>1. IsFiniteSet(S) /\ Cardinality(S) \in Nat
    BY FS_Subset, FS_CardinalityType
  <2>2. values(S) \subseteq Int
    OBVIOUS
  <2>3. [d \in S |-> f[d]] \in Surjection(S, values(S))
    BY DEF Surjection
  <2>. HIDE DEF values
  <2>4. IsFiniteSet(values(S))
    BY <2>1, <2>3, FS_Surjection
  <2>. QED  BY <2>1, <2>2, <2>4
<1>2. reach \subseteq Int /\ IsFiniteSet(reach)
  <2>1. reach \in SUBSET values(D)
    OBVIOUS
  <2>. HIDE DEF reach, values
  <2>. QED  BY <1>1, <2>1, FS_Subset
<1>3. reach # {}
  <2>1. D # {}
    BY FS_EmptySet
  <2>2. values(D) # {}
    BY <2>1
  <2>3. Max(values(D)) \in values(D) /\ \A x \in values(D) : x <= Max(values(D))
    <3>. HIDE DEF values
    <3>. QED  BY <1>1, <2>2, Extremes
  <2>4. upTo(Max(values(D))) = D
    BY <2>3
  <2>. HIDE DEF upTo, values
  <2>5. place <= Cardinality(upTo(Max(values(D))))
    BY <1>1, <2>4
  <2>. QED  BY <2>3, <2>5
<1>4. PICK v \in reach : \A x \in reach : v <= x
  <2>. HIDE DEF reach
  <2>. QED  BY <1>2, <1>3, Extremes
<1>5. v \in values(D) /\ v \in Int /\ place <= Cardinality(upTo(v))
  BY <1>2, <1>4
<1>6. Cardinality({d \in D : f[d] < v}) < place
  <2>. DEFINE less == {d \in D : f[d] < v}
  <2>. SUFFICES ASSUME ~(Cardinality(less) < place)
                PROVE  FALSE
    OBVIOUS
  <2>. HIDE DEF less
  <2>0. less \in SUBSET D /\ Cardinality(less) \in Nat
    BY <1>1 DEF less
  <2>. USE DEF less
  <2>1. less # {}
    <3>. HIDE DEF less
    <3>. QED  BY <2>0, FS_EmptySet
  <2>2. values(less) # {}
    <3>. HIDE DEF less
    <3>. QED  BY <2>1
  <2>3. PICK u \in values(less) : \A x \in values(less) : x <= u
    <3>1. values(less) \subseteq Int /\ IsFiniteSet(values(less))
      BY <1>1
    <3>. HIDE DEF values, less
    <3>. QED  BY <2>2, <3>1, Extremes
  <2>4. u \in values(D) /\ u < v /\ u \in Int
    BY <1>5
  <2>5. upTo(u) = less
    BY <1>5, <2>3, <2>4
  <2>6. place <= Cardinality(upTo(u))
    <3>1. place <= Cardinality(less)
      <4>. HIDE DEF less
      <4>. QED  BY <2>0
    <3>. HIDE DEF less, upTo
    <3>. QED  BY <2>5, <3>1
  <2>. HIDE DEF upTo, less
  <2>. QED  BY <1>4, <1>5, <2>4, <2>6
<1>. QED  BY <1>5, <1>6 DEF Below, UpTo

\* A load that was met has at most one delay in a hundred that is late.
LEMMA MetAtNinetyNine ==
  ASSUME BenchmarkInv, benchMode = "open", ~Benchmark!FellBehind
  PROVE  LET late == {d \in Benchmark!Delayed : Benchmark!Delay(d) >= LateBound}
         IN  100 * Cardinality(late) <= Cardinality(Benchmark!Delayed) + 49
<1>. DEFINE D == Benchmark!Delayed
            f == [d \in D |-> Benchmark!Delay(d)]
            n == Cardinality(D)
            place == Benchmark!Place(99, n)
            late == {d \in D : Benchmark!Delay(d) >= LateBound}
            AtPlace(v) == /\ Cardinality({d \in D : Benchmark!Delay(d) < v}) < place
                          /\ place <= Cardinality({d \in D : Benchmark!Delay(d) <= v})
            v == Benchmark!Percentile(99)
<1>1. D = UNION {{p} \X DOMAIN part[p].delays : p \in Processes}
  BY DEF Benchmark!Delayed
<1>2. \A p \in Processes : part[p].delays \in Seq(Int)
  BY DEF BenchmarkInv, Collected
<1>3. f \in [D -> Int]
  <2>1. \A p \in Processes : \A j \in DOMAIN part[p].delays : part[p].delays[j] \in Int
    BY <1>2
  <2>. HIDE DEF D
  <2>2. \A d \in D : Benchmark!Delay(d) \in Int
    BY <1>1, <2>1 DEF Benchmark!Delay
  <2>. QED  BY <2>2
<1>4. IsFiniteSet(D)
  <2>. DEFINE of == [p \in Processes |-> {p} \X DOMAIN part[p].delays]
              parts == {of[p] : p \in Processes}
  <2>1. \A p \in Processes : IsFiniteSet({p} \X DOMAIN part[p].delays)
    <3>. TAKE p \in Processes
    <3>1. DOMAIN part[p].delays = 1..Len(part[p].delays) /\ Len(part[p].delays) \in Nat
      BY <1>2
    <3>. DEFINE last == Len(part[p].delays)
    <3>2. IsFiniteSet(1..last)
      <4>. HIDE DEF last
      <4>1. 1 \in Int /\ last \in Int
        BY <3>1 DEF last
      <4>. QED  BY <4>1, FS_Interval
    <3>3. IsFiniteSet({p})
      BY FS_Singleton, Zenon
    <3>4. IsFiniteSet(DOMAIN part[p].delays)
      BY <3>1, <3>2, Zenon
    <3>. QED  BY <3>3, <3>4, FS_Product, Zenon
  <2>2. of \in Surjection(Processes, parts)
    BY DEF Surjection
  <2>3. \A x \in parts : IsFiniteSet(x)
    BY <2>1
  <2>4. D = UNION parts
    BY <1>1
  <2>. HIDE DEF of, parts, D
  <2>5. IsFiniteSet(parts)
    BY <2>2, BenchmarkAssumption, FS_Surjection
  <2>. QED  BY <2>3, <2>4, <2>5, FS_UNION
<1>5. n \in Nat /\ late \in SUBSET D
  BY <1>4, FS_CardinalityType
<1>6. CASE D = {}
  <2>. HIDE DEF D, late
  <2>1. late = {} /\ Cardinality(late) = 0
    BY <1>5, <1>6, FS_EmptySet
  <2>. QED  BY <1>5, <2>1 DEF D, late
<1>7. CASE D # {}
  <2>1. n # 0 /\ place \in 1..n /\ 100 * (n - place) <= n + 49
    <3>. HIDE DEF D
    <3>1. n # 0
      BY <1>4, <1>7, FS_EmptySet
    <3>. HIDE DEF n
    <3>. QED  BY <1>5, <3>1, NinetyNinth
  <2>2. \E x \in {Benchmark!Delay(d) : d \in D} : AtPlace(x)
    <3>1. \A d \in D : f[d] = Benchmark!Delay(d)
      OBVIOUS
    <3>. HIDE DEF f, place, D
    <3>2. PICK d \in D : /\ Cardinality(Below(D, f, f[d])) < place
                         /\ place <= Cardinality(UpTo(D, f, f[d]))
      BY <1>3, <1>4, <2>1, ValueAtPlace
    <3>3. /\ \A x : Below(D, f, x) = {e \in D : Benchmark!Delay(e) < x}
          /\ \A x : UpTo(D, f, x) = {e \in D : Benchmark!Delay(e) <= x}
      BY <3>1 DEF Below, UpTo
    <3>4. AtPlace(f[d])
      BY <3>2, <3>3
    <3>. QED  BY <3>1, <3>4
  <2>3. v = CHOOSE x \in {Benchmark!Delay(d) : d \in D} : AtPlace(x)
    BY SameCardinality DEF Benchmark!Percentile
  <2>. HIDE DEF D, v, n, place
  <2>4. v \in {Benchmark!Delay(d) : d \in D} /\ AtPlace(v)
    BY <2>2, <2>3
  <2>5. v < LateBound
    <3>1. v \in Int
      BY <1>3, <2>4
    <3>. QED  BY <1>7, <3>1, BenchmarkAssumption DEF Benchmark!FellBehind, D, v
  <2>. DEFINE early == {d \in D : Benchmark!Delay(d) <= v}
  <2>6. late \in SUBSET (D \ early)
    BY <1>3, <2>4, <2>5, BenchmarkAssumption
  <2>7. early \in SUBSET D /\ place <= Cardinality(early)
    BY <2>4
  <2>. HIDE DEF early, late
  <2>8. /\ IsFiniteSet(early) /\ Cardinality(early) \in Nat /\ IsFiniteSet(D \ early)
        /\ Cardinality(D \ early) \in Nat
    BY <1>4, <2>7, FS_Subset, FS_CardinalityType, FS_Difference
  <2>9. Cardinality(D \ early) = n - Cardinality(early)
    <3>1. D \intersect early = early
      BY <2>7
    <3>. QED  BY <1>4, <2>8, <3>1, FS_Difference DEF n
  <2>10. Cardinality(late) \in Nat /\ Cardinality(late) <= Cardinality(D \ early)
    BY <2>6, <2>8, FS_Subset, FS_CardinalityType
  <2>11. 100 * Cardinality(late) <= n + 49
    BY <1>5, <2>1, <2>7, <2>8, <2>9, <2>10
  <2>. QED  BY <2>11 DEF late, D, n
<1>. QED  BY <1>6, <1>7

\* One connection changes, its tick still being where the schedule has it.
LEMMA OneConnection ==
  ASSUME BenchmarkInv, NEW p \in Processes, NEW i \in Benchmark!Offsets, NEW c \in Connections,
         conn' = [conn EXCEPT ![p][i] = c],
         c.tick = Benchmark!Scheduled(i, c.count), process[p] # "put", process' = process
  PROVE  /\ conn' \in [Processes -> [Benchmark!Offsets -> Connections]]
         /\ \A q \in Processes : \A j \in Benchmark!Offsets :
              /\ conn'[q][j].tick = Benchmark!Scheduled(j, conn'[q][j].count)
              /\ process'[q] = "put" => conn'[q][j].at = "over"
<1>1. \A q \in Processes : \A j \in Benchmark!Offsets :
        conn'[q][j] = IF q = p /\ j = i THEN c ELSE conn[q][j]
  BY DEF BenchmarkInv
<1>2. conn' \in [Processes -> [Benchmark!Offsets -> Connections]]
  BY DEF BenchmarkInv
<1>. QED  BY <1>1, <1>2 DEF BenchmarkInv

\* Looping leaves the schedule of a connection alone.
LEMMA LoopKeepsSchedule ==
  ASSUME BenchmarkInv, NEW c \in Connections
  PROVE  /\ Benchmark!Looped(c) \in Connections
         /\ Benchmark!Looped(c).tick = c.tick /\ Benchmark!Looped(c).count = c.count
<1>1. Benchmark!Looped(c) \in { [c EXCEPT !.at = "over"], [c EXCEPT !.at = "ready"],
                                [c EXCEPT !.at = "sent", !.sent = benchNow] }
  BY DEF Benchmark!Looped
<1>2. benchNow \in Int
  BY DEF BenchmarkInv
<1>. QED  BY <1>1, <1>2 DEF Connections

LEMMA ReadyKeeps ==
  ASSUME BenchmarkInv, NEW p \in Processes, NEW i \in Benchmark!Offsets,
         Benchmark!Ready(p, i), process[p] # "put", process' = process
  PROVE  /\ conn' \in [Processes -> [Benchmark!Offsets -> Connections]]
         /\ \A q \in Processes : \A j \in Benchmark!Offsets :
              /\ conn'[q][j].tick = Benchmark!Scheduled(j, conn'[q][j].count)
              /\ process'[q] = "put" => conn'[q][j].at = "over"
<1>. DEFINE c == conn[p][i]
            next == [c EXCEPT !.tick = Benchmark!Rescheduled(c), !.count = c.count + 1]
<1>1. c \in Connections /\ c.tick = Benchmark!Scheduled(i, c.count) /\ Interval \in Nat
  BY BenchmarkAssumption DEF BenchmarkInv
<1>2. conn' = [conn EXCEPT ![p][i] = Benchmark!Looped(next)]
  BY DEF Benchmark!Ready
<1>. HIDE DEF c
<1>3. /\ next \in Connections /\ next.tick = c.tick + Interval /\ next.count = c.count + 1
      /\ c.count \in Nat
  <2>1. c.tick + Interval \in Int /\ c.count + 1 \in Nat /\ c.count \in Nat
    BY <1>1 DEF Connections
  <2>2. [c EXCEPT !.tick = c.tick + Interval] \in Connections
    BY <1>1, <2>1 DEF Connections
  <2>3. next = [[c EXCEPT !.tick = c.tick + Interval] EXCEPT !.count = c.count + 1]
    BY DEF Benchmark!Rescheduled
  <2>4. PICK x \in Connections : x = [c EXCEPT !.tick = c.tick + Interval]
    BY <2>2
  <2>5. x.tick = c.tick + Interval
    BY <1>1, <2>4 DEF Connections
  <2>6. next = [x EXCEPT !.count = c.count + 1]
    BY <2>3, <2>4
  <2>. HIDE DEF next
  <2>. QED  BY <2>1, <2>5, <2>6 DEF Connections
<1>4. \A k \in Nat : (k + 1) * Interval = k * Interval + Interval
  BY <1>1
<1>. HIDE DEF next
<1>5. i \in Int /\ PerProcess \in Nat \ {0}
  BY BenchmarkAssumption DEF Benchmark!Offsets
<1>6. Benchmark!FirstTick(i) \in Int
  BY <1>1, <1>5 DEF Benchmark!FirstTick
<1>7. Benchmark!Scheduled(i, c.count + 1) = Benchmark!Scheduled(i, c.count) + Interval
  BY <1>1, <1>3, <1>4, <1>6 DEF Benchmark!Scheduled
<1>8. Benchmark!Looped(next) \in Connections
      /\ Benchmark!Looped(next).tick = Benchmark!Scheduled(i, Benchmark!Looped(next).count)
  BY <1>1, <1>3, <1>7, LoopKeepsSchedule
<1>. QED  BY <1>2, <1>8, OneConnection

\* What is offered is a matter of the parts and the verdict.
LEMMA OfferedStays ==
  ASSUME BenchmarkInv, part' = part \/ verdict' = "none", verdict' = verdict \/ verdict' # "passed"
  PROVE  Benchmark!PassingWasOffered'
<1>1. CASE verdict' # "passed"
  BY <1>1 DEF Benchmark!PassingWasOffered
<1>2. CASE verdict' = "passed"
  <2>1. part' = part /\ verdict' = verdict
    BY <1>2
  <2>. QED  BY <2>1 DEF BenchmarkInv, Benchmark!PassingWasOffered
<1>. QED  BY <1>1, <1>2

LEMMA AnswerKeeps ==
  ASSUME BenchmarkInv, NEW p \in Processes, NEW i \in Benchmark!Offsets, NEW ok \in BOOLEAN,
         Benchmark!Answer(p, i, ok)
  PROVE  BenchmarkInv'
<1>. DEFINE c == conn[p][i]
            more == Benchmark!Recorded(part[p], c, i, ok)
<1>1. /\ c.at = "sent" /\ Benchmark!Ready(p, i)
      /\ benchNow' = benchNow /\ benchMode' = benchMode /\ process' = process /\ verdict' = verdict
      /\ part' = part \/ part' = [part EXCEPT ![p] = more]
  BY DEF Benchmark!Answer
<1>2. /\ c \in Connections /\ c.tick = Benchmark!Scheduled(i, c.count)
      /\ part[p] \in Collected /\ part[p].slips = part[p].delays /\ benchNow \in Nat
      /\ process[p] # "put" /\ verdict = "none"
      /\ benchMode # "open" => part[p].delays = <<>>
  BY <1>1 DEF BenchmarkInv
<1>3. more \in Collected /\ more.slips = more.delays /\ (benchMode # "open" => more.delays = <<>>)
  <2>. DEFINE s == part[p]
              late == c.sent - c.tick
  <2>1. /\ s.latencies \in Seq(Int) /\ s.delays \in Seq(Int) /\ s.slips = s.delays
        /\ s.ok \in Nat /\ s.bad \in Nat /\ s.errors \in Nat
        /\ s = [ latencies |-> s.latencies, delays |-> s.delays, ok |-> s.ok, bad |-> s.bad,
                 errors |-> s.errors, slips |-> s.slips ]
        /\ c.sent \in Int /\ c.tick \in Int
    BY <1>2 DEF Collected, Connections
  <2>2. late \in Int /\ benchNow - c.sent \in Int /\ c.sent - Benchmark!Scheduled(i, c.count) = late
    BY <1>2, <2>1
  <2>. HIDE DEF c, late
  <2>3. PICK d \in Seq(Int) : /\ d = IF benchMode = "open" THEN Append(s.delays, late) ELSE s.delays
                              /\ benchMode # "open" => d = <<>>
    <3>1. Append(s.delays, late) \in Seq(Int)
      BY <2>1, <2>2
    <3>2. CASE benchMode = "open"
      BY <3>1, <3>2, Zenon
    <3>3. CASE benchMode # "open"
      BY <1>2, <2>1, <3>3, Zenon
    <3>. QED  BY <3>2, <3>3
  <2>4. more = [ latencies |-> Append(s.latencies, benchNow - c.sent), delays |-> d,
                 ok |-> IF ok THEN s.ok + 1 ELSE s.ok, bad |-> IF ok THEN s.bad ELSE s.bad + 1,
                 errors |-> s.errors, slips |-> d ]
    BY <2>1, <2>2, <2>3 DEF late, Benchmark!Recorded
  <2>5. Append(s.latencies, benchNow - c.sent) \in Seq(Int)
    BY <2>1, <2>2
  <2>. HIDE DEF more, s
  <2>. QED  BY <2>1, <2>3, <2>4, <2>5 DEF Collected
<1>. HIDE DEF more, c
<1>4. /\ part' \in [Processes -> Collected]
      /\ \A q \in Processes : /\ part'[q].slips = part'[q].delays
                              /\ benchMode # "open" => part'[q].delays = <<>>
  BY <1>1, <1>3 DEF BenchmarkInv
<1>5. /\ conn' \in [Processes -> [Benchmark!Offsets -> Connections]]
      /\ \A q \in Processes : \A j \in Benchmark!Offsets :
           /\ conn'[q][j].tick = Benchmark!Scheduled(j, conn'[q][j].count)
           /\ process'[q] = "put" => conn'[q][j].at = "over"
  BY <1>1, <1>2, ReadyKeeps
<1>6. Benchmark!PassingWasOffered'
  BY <1>1, <1>2, OfferedStays
<1>. QED  BY <1>1, <1>2, <1>4, <1>5, <1>6 DEF BenchmarkInv

LEMMA BreakKeeps ==
  ASSUME BenchmarkInv, NEW p \in Processes, NEW i \in Benchmark!Offsets, Benchmark!Break(p, i)
  PROVE  BenchmarkInv'
<1>. DEFINE more == [part[p] EXCEPT !.errors = part[p].errors + 1]
<1>1. /\ conn[p][i].at = "sent" /\ Benchmark!Ready(p, i)
      /\ benchNow' = benchNow /\ benchMode' = benchMode /\ process' = process /\ verdict' = verdict
      /\ part' = [part EXCEPT ![p] = more]
  BY DEF Benchmark!Break
<1>2. process[p] # "put" /\ verdict = "none" /\ part[p] \in Collected
  BY <1>1 DEF BenchmarkInv
<1>3. more \in Collected /\ more.slips = part[p].slips /\ more.delays = part[p].delays
  <2>1. PICK x \in Collected : x = part[p]
    BY <1>2
  <2>2. more = [x EXCEPT !.errors = x.errors + 1] /\ x.errors + 1 \in Nat
    BY <2>1 DEF Collected
  <2>. HIDE DEF more
  <2>. QED  BY <2>1, <2>2 DEF Collected
<1>. HIDE DEF more
<1>4. /\ part' \in [Processes -> Collected]
      /\ \A q \in Processes : /\ part'[q].slips = part'[q].delays
                              /\ benchMode # "open" => part'[q].delays = <<>>
  BY <1>1, <1>3 DEF BenchmarkInv
<1>5. /\ conn' \in [Processes -> [Benchmark!Offsets -> Connections]]
      /\ \A q \in Processes : \A j \in Benchmark!Offsets :
           /\ conn'[q][j].tick = Benchmark!Scheduled(j, conn'[q][j].count)
           /\ process'[q] = "put" => conn'[q][j].at = "over"
  BY <1>1, <1>2, ReadyKeeps
<1>6. Benchmark!PassingWasOffered'
  BY <1>1, <1>2, OfferedStays
<1>. QED  BY <1>1, <1>2, <1>4, <1>5, <1>6 DEF BenchmarkInv

LEMMA BenchmarkStep ==
  ASSUME BenchmarkInv, [Benchmark!Next]_(Benchmark!vars)
  PROVE  BenchmarkInv'
<1>1. CASE UNCHANGED Benchmark!vars
  BY <1>1 DEF Benchmark!vars, BenchmarkInv, Benchmark!PassingWasOffered
<1>2. CASE Benchmark!Tick
  <2>1. Benchmark!PassingWasOffered' /\ benchNow' \in Nat
    BY <1>2, OfferedStays DEF Benchmark!Tick, BenchmarkInv
  <2>. QED  BY <1>2, <2>1 DEF Benchmark!Tick, BenchmarkInv
<1>3. CASE Benchmark!Judge
  <2>1. /\ benchNow' = benchNow /\ benchMode' = benchMode /\ conn' = conn /\ part' = part
        /\ process' = process /\ \A p \in Processes : process[p] = "put"
        /\ verdict' = "passed" => ~Benchmark!FellBehind
    BY <1>3 DEF Benchmark!Judge
  <2>. DEFINE late == {d \in Benchmark!Delayed : Benchmark!Delay(d) >= LateBound}
  <2>2. verdict' = "passed" => 100 * Cardinality(late) <= Cardinality(Benchmark!Delayed) + 49
    <3>1. CASE benchMode = "open"
      BY <2>1, <3>1, MetAtNinetyNine
    <3>2. CASE benchMode # "open"
      <4>1. Benchmark!Delayed = {}
        BY <3>2 DEF BenchmarkInv, Benchmark!Delayed
      <4>2. late = {}
        BY <4>1
      <4>3. Cardinality({}) = 0
        BY FS_EmptySet
      <4>. QED  BY <4>1, <4>2, <4>3
    <3>. QED  BY <3>1, <3>2
  <2>3. Benchmark!PassingWasOffered'
    <3>. DEFINE sends == UNION {{p} \X DOMAIN part[p].slips : p \in Processes}
                slipped == {s \in sends : part[s[1]].slips[s[2]] >= LateBound}
    <3>1. \A p \in Processes : part[p].slips = part[p].delays
      BY DEF BenchmarkInv
    <3>2. sends = Benchmark!Delayed
      BY <3>1 DEF Benchmark!Delayed
    <3>3. \A s \in sends : s[1] \in Processes
      OBVIOUS
    <3>4. slipped = late
      BY <3>1, <3>2, <3>3 DEF Benchmark!Delay
    <3>. HIDE DEF sends, slipped, late
    <3>5. verdict' = "passed" => 100 * Cardinality(slipped) <= Cardinality(sends) + 49
      BY <2>2, <3>2, <3>4
    <3>. QED  BY <2>1, <3>5, SameCardinality DEF Benchmark!PassingWasOffered, sends, slipped
  <2>. QED  BY <2>1, <2>3 DEF BenchmarkInv
<1>4. ASSUME NEW p \in Processes, Benchmark!Connect(p)
      PROVE  BenchmarkInv'
  <2>1. /\ process[p] = "starting" /\ process' = [process EXCEPT ![p] = "driving"]
        /\ conn' = [conn EXCEPT ![p] = [i \in Benchmark!Offsets |-> Benchmark!Looped(conn[p][i])]]
        /\ benchNow' = benchNow /\ benchMode' = benchMode /\ part' = part /\ verdict' = verdict
    BY <1>4 DEF Benchmark!Connect
  <2>2. verdict = "none"
    BY <2>1 DEF BenchmarkInv
  <2>3. \A i \in Benchmark!Offsets :
          /\ Benchmark!Looped(conn[p][i]) \in Connections
          /\ Benchmark!Looped(conn[p][i]).tick = conn[p][i].tick
          /\ Benchmark!Looped(conn[p][i]).count = conn[p][i].count
    BY LoopKeepsSchedule DEF BenchmarkInv
  <2>4. /\ conn' \in [Processes -> [Benchmark!Offsets -> Connections]]
        /\ \A q \in Processes : \A j \in Benchmark!Offsets :
             /\ conn'[q][j].tick = Benchmark!Scheduled(j, conn'[q][j].count)
             /\ process'[q] = "put" => conn'[q][j].at = "over"
    BY <2>1, <2>3 DEF BenchmarkInv
  <2>5. Benchmark!PassingWasOffered'
    BY <2>1, OfferedStays
  <2>. QED  BY <2>1, <2>2, <2>4, <2>5 DEF BenchmarkInv
<1>5. ASSUME NEW p \in Processes, Benchmark!Die(p) \/ Benchmark!Put(p)
      PROVE  BenchmarkInv'
  <2>1. /\ process[p] # "put" /\ benchNow' = benchNow /\ benchMode' = benchMode /\ conn' = conn
        /\ part' = part /\ verdict' = verdict
        /\ \/ process' = [process EXCEPT ![p] = "dead"]
           \/ /\ process' = [process EXCEPT ![p] = "put"]
              /\ \A i \in Benchmark!Offsets : conn[p][i].at = "over"
    BY <1>5 DEF Benchmark!Die, Benchmark!Put
  <2>2. verdict = "none"
    BY <2>1 DEF BenchmarkInv
  <2>3. Benchmark!PassingWasOffered'
    BY <2>1, OfferedStays
  <2>. QED  BY <2>1, <2>2, <2>3 DEF BenchmarkInv
<1>6. ASSUME NEW p \in Processes, NEW i \in Benchmark!Offsets, Benchmark!Send(p, i)
      PROVE  BenchmarkInv'
  <2>. DEFINE c == [conn[p][i] EXCEPT !.at = "sent", !.sent = benchNow]
  <2>1. /\ process[p] = "driving" /\ process' = process /\ conn[p][i] \in Connections
        /\ benchNow' = benchNow /\ benchMode' = benchMode /\ part' = part /\ verdict' = verdict
        /\ conn' = [conn EXCEPT ![p][i] = c]
    BY <1>6 DEF Benchmark!Send, BenchmarkInv
  <2>2. c \in Connections /\ c.tick = conn[p][i].tick /\ c.count = conn[p][i].count
    <3>1. PICK x \in Connections : x = conn[p][i]
      BY <2>1
    <3>2. c = [x EXCEPT !.at = "sent", !.sent = benchNow] /\ benchNow \in Int
      BY <3>1 DEF BenchmarkInv
    <3>. HIDE DEF c
    <3>. QED  BY <3>1, <3>2 DEF Connections
  <2>. HIDE DEF c
  <2>3. c.tick = Benchmark!Scheduled(i, c.count)
    BY <2>2 DEF BenchmarkInv
  <2>4. /\ conn' \in [Processes -> [Benchmark!Offsets -> Connections]]
        /\ \A q \in Processes : \A j \in Benchmark!Offsets :
             /\ conn'[q][j].tick = Benchmark!Scheduled(j, conn'[q][j].count)
             /\ process'[q] = "put" => conn'[q][j].at = "over"
    BY <2>1, <2>2, <2>3, OneConnection
  <2>5. Benchmark!PassingWasOffered'
    BY <2>1, OfferedStays
  <2>. QED  BY <2>1, <2>4, <2>5 DEF BenchmarkInv
<1>. QED  BY <1>1, <1>2, <1>3, <1>4, <1>5, <1>6, AnswerKeeps, BreakKeeps DEF Benchmark!Next

\* For any number of processes and connections, any rate and any run: however the
\* gateway stalls, a load run that passes has sent its requests when its schedule from
\* the start had them due, within the bound, but for what a 99th percentile cannot tell.
THEOREM PassedLoadWasOffered == SpecAll => []PassingWasOffered
<1>1. InitAll => BenchmarkInv
  <2>. SUFFICES ASSUME Benchmark!Init PROVE BenchmarkInv
    BY BenchmarkAlone
  <2>. DEFINE c(i) == [at |-> "idle", tick |-> Benchmark!FirstTick(i), sent |-> 0, count |-> 0]
  <2>1. /\ benchNow = 0 /\ verdict = "none"
        /\ conn = [p \in Processes |-> [i \in Benchmark!Offsets |-> c(i)]]
        /\ part = [p \in Processes |-> Benchmark!Nobody]
        /\ process = [p \in Processes |-> "starting"]
    BY DEF Benchmark!Init
  <2>2. \A i \in Benchmark!Offsets : Benchmark!FirstTick(i) \in Int
    BY BenchmarkAssumption DEF Benchmark!Offsets, Benchmark!FirstTick
  <2>3. \A i \in Benchmark!Offsets : /\ c(i) \in Connections
                                     /\ c(i).tick = Benchmark!Scheduled(i, c(i).count)
    BY <2>2, BenchmarkAssumption DEF Connections, Benchmark!Scheduled
  <2>4. Benchmark!Nobody \in Collected /\ Benchmark!Nobody.slips = Benchmark!Nobody.delays
        /\ Benchmark!Nobody.delays = <<>>
    BY DEF Benchmark!Nobody, Collected
  <2>. HIDE DEF c
  <2>. QED  BY <2>1, <2>3, <2>4 DEF BenchmarkInv, Benchmark!PassingWasOffered
<1>2. BenchmarkInv /\ [NextAll]_all => BenchmarkInv'
  BY BenchmarkAlone, BenchmarkStep
<1>3. BenchmarkInv => PassingWasOffered
  BY DEF BenchmarkInv, PassingWasOffered
<1>. QED  BY <1>1, <1>2, <1>3, PTL DEF SpecAll

-----------------------------------------------------------------------------
\* Registry: what is in use could be built from nothing

SoundSpec(s) == Registry!IsSpec(s) /\ Registry!Made(s) = <<s>>

RegistryInv ==
  /\ models \in Seq({models[i] : i \in DOMAIN models})
  /\ \A i \in DOMAIN models : SoundSpec(models[i])
  /\ Registry!Constructible(models, aliases)
  /\ Registry!RoutingIsSound(routing, models)
  /\ DOMAIN routing.policies \subseteq Nat

\* A set of numbers that is not empty has a least and, if bounded, a greatest.
LEMMA LeastOfNumbers ==
  ASSUME NEW S, S \subseteq Nat, S # {}
  PROVE  Registry!Min(S) \in S
<1>1. PICK least \in S : \A x \in S : ~(<<x, least>> \in OpToRel(<, Nat))
  BY NatLessThanWellFounded, WFMin, Zenon
<1>2. \A x \in S : least <= x
  <2>. TAKE x \in S
  <2>1. ~(x < least)
    BY <1>1 DEF OpToRel
  <2>. QED  BY <2>1
<1>. QED  BY <1>2 DEF Registry!Min

LEMMA GreatestOfTiers ==
  ASSUME NEW S, S \subseteq 0..Registry!TIER_COUNT - 1, S # {}
  PROVE  Registry!Max(S) \in S
<1>. DEFINE above == {30 - x : x \in S}
<1>1. above \subseteq Nat /\ above # {}
  BY DEF Registry!TIER_COUNT
<1>2. PICK least \in above : \A x \in above : ~(<<x, least>> \in OpToRel(<, Nat))
  BY <1>1, NatLessThanWellFounded, WFMin, Zenon
<1>3. PICK top \in S : least = 30 - top
  OBVIOUS
<1>4. \A x \in S : top >= x
  <2>. TAKE x \in S
  <2>1. ~(30 - x < 30 - top)
    BY <1>1, <1>2, <1>3 DEF OpToRel
  <2>. QED  BY <2>1 DEF Registry!TIER_COUNT
<1>. QED  BY <1>4 DEF Registry!Max

\* What filling in does to each field.
LEMMA FilledFields ==
  ASSUME NEW s, Registry!IsSpec(s)
  PROVE  LET t == Registry!Filled(s)
             defaults == Registry!DefaultsForProvider(s.provider)
             kept == Registry!SpecFields \ {"provider_model", "deployment_id", "adapter", "transport", "runtime", "tiers"}
         IN  /\ t = [f \in Registry!SpecFields |-> t[f]]
             /\ \A f \in kept : t[f] = s[f]
             /\ t.provider_model = IF s.provider_model = "" THEN s.id ELSE s.provider_model
             /\ t.deployment_id = IF s.deployment_id = "" THEN s.id ELSE s.deployment_id
             /\ t.adapter = IF s.adapter = "" THEN defaults.adapter ELSE s.adapter
             /\ t.transport = IF s.transport = "direct" /\ t.adapter = "litellm" THEN "litellm" ELSE s.transport
             /\ t.runtime = IF s.runtime = "external" THEN defaults.runtime ELSE s.runtime
             /\ t.tiers = IF s.tiers = {} /\ s.grade # Registry!None
                          THEN {Registry!FromGrade(s.grade[1])} ELSE s.tiers
<1>. DEFINE defaults == Registry!DefaultsForProvider(s.provider)
            model == IF s.provider_model = "" THEN s.id ELSE s.provider_model
            deployment == IF s.deployment_id = "" THEN s.id ELSE s.deployment_id
            adapter == IF s.adapter = "" THEN defaults.adapter ELSE s.adapter
            transport == IF s.transport = "direct" /\ adapter = "litellm" THEN "litellm" ELSE s.transport
            runtime == IF s.runtime = "external" THEN defaults.runtime ELSE s.runtime
            tiers == IF s.tiers = {} /\ s.grade # Registry!None
                     THEN {Registry!FromGrade(s.grade[1])} ELSE s.tiers
            t == Registry!Filled(s)
<1>1. s = [f \in Registry!SpecFields |-> s[f]]
  BY DEF Registry!IsSpec
<1>2. t = [s EXCEPT !.provider_model = model, !.deployment_id = deployment, !.adapter = adapter,
                    !.transport = transport, !.runtime = runtime, !.tiers = tiers]
  BY <1>1 DEF Registry!Filled, Registry!SpecFields
<1>. HIDE DEF t, model, deployment, adapter, transport, runtime, tiers
<1>3. /\ t = [f \in Registry!SpecFields |-> t[f]]
      /\ \A f \in Registry!SpecFields \ {"provider_model", "deployment_id", "adapter", "transport", "runtime", "tiers"} :
           t[f] = s[f]
  BY <1>1, <1>2
<1>4. /\ t.provider_model = model /\ t.deployment_id = deployment /\ t.adapter = adapter
      /\ t.transport = transport /\ t.runtime = runtime /\ t.tiers = tiers
  BY <1>1, <1>2 DEF Registry!SpecFields
<1>. QED  BY <1>3, <1>4 DEF t, model, deployment, adapter, transport, runtime, tiers

LEMMA FilledIsSpec ==
  ASSUME NEW s, Registry!IsSpec(s)
  PROVE  Registry!IsSpec(Registry!Filled(s))
<1>. DEFINE t == Registry!Filled(s)
<1>1. /\ t = [f \in Registry!SpecFields |-> t[f]]
      /\ t.grade = s.grade /\ t.input_cost = s.input_cost /\ t.output_cost = s.output_cost
      /\ t.tiers = IF s.tiers = {} /\ s.grade # Registry!None
                   THEN {Registry!FromGrade(s.grade[1])} ELSE s.tiers
  BY FilledFields DEF Registry!SpecFields
<1>. HIDE DEF t
<1>2. t.tiers \subseteq 0 .. Registry!TIER_COUNT - 1
  BY <1>1 DEF Registry!IsSpec, Registry!FromGrade, Registry!GRADE_COUNT, Registry!TIER_COUNT
<1>. QED  BY <1>1, <1>2 DEF Registry!IsSpec, t

\* Filling in a second time changes nothing.
LEMMA FilledOnce ==
  ASSUME NEW s, Registry!IsSpec(s)
  PROVE  Registry!Filled(Registry!Filled(s)) = Registry!Filled(s)
<1>. DEFINE t == Registry!Filled(s)
            u == Registry!Filled(t)
            changed == {"provider_model", "deployment_id", "adapter", "transport", "runtime", "tiers"}
            FilledFrom(x, y) ==
              LET defaults == Registry!DefaultsForProvider(x.provider)
              IN  /\ y = [f \in Registry!SpecFields |-> y[f]]
                  /\ \A f \in Registry!SpecFields \ changed : y[f] = x[f]
                  /\ y.provider_model = IF x.provider_model = "" THEN x.id ELSE x.provider_model
                  /\ y.deployment_id = IF x.deployment_id = "" THEN x.id ELSE x.deployment_id
                  /\ y.adapter = IF x.adapter = "" THEN defaults.adapter ELSE x.adapter
                  /\ y.transport = IF x.transport = "direct" /\ y.adapter = "litellm"
                                   THEN "litellm" ELSE x.transport
                  /\ y.runtime = IF x.runtime = "external" THEN defaults.runtime ELSE x.runtime
                  /\ y.tiers = IF x.tiers = {} /\ x.grade # Registry!None
                               THEN {Registry!FromGrade(x.grade[1])} ELSE x.tiers
<1>1. Registry!IsSpec(t)
  BY FilledIsSpec
<1>2. FilledFrom(s, t) /\ FilledFrom(t, u)
  <2>1. FilledFrom(s, t)
    BY FilledFields
  <2>. HIDE DEF t
  <2>2. FilledFrom(t, u)
    BY <1>1, FilledFields
  <2>. QED  BY <2>1, <2>2
<1>. HIDE DEF t, u
<1>3. t.id = s.id /\ t.provider = s.provider /\ t.grade = s.grade
  BY <1>2 DEF Registry!SpecFields
<1>4. u.provider_model = t.provider_model /\ u.deployment_id = t.deployment_id
  BY <1>2, <1>3
<1>5. u.adapter = t.adapter
  BY <1>2, <1>3
<1>6. u.transport = t.transport /\ u.runtime = t.runtime
  BY <1>2, <1>3, <1>5
<1>7. u.tiers = t.tiers
  BY <1>2, <1>3
<1>8. \A f \in Registry!SpecFields : u[f] = t[f]
  <2>. TAKE f \in Registry!SpecFields
  <2>1. CASE f \in changed
    BY <2>1, <1>4, <1>5, <1>6, <1>7
  <2>2. CASE f \notin changed
    BY <2>2, <1>2
  <2>. QED  BY <2>1, <2>2
<1>9. [f \in Registry!SpecFields |-> u[f]] = [f \in Registry!SpecFields |-> t[f]]
  BY <1>8
<1>. QED  BY <1>2, <1>9 DEF t, u

LEMMA MadeIsSound ==
  ASSUME NEW s, Registry!IsSpec(s), Registry!Made(s) # Registry!None
  PROVE  SoundSpec(Registry!Made(s)[1]) /\ Registry!Made(s) = <<Registry!Made(s)[1]>>
<1>. DEFINE t == Registry!Filled(s)
<1>1. Registry!Sound(t) /\ Registry!Made(s) = <<t>>
  BY DEF Registry!Made
<1>2. Registry!IsSpec(t) /\ Registry!Filled(t) = t
  BY FilledIsSpec, FilledOnce
<1>. HIDE DEF t
<1>3. Registry!Made(t) = <<t>>
  BY <1>1, <1>2 DEF Registry!Made
<1>. QED  BY <1>1, <1>2, <1>3 DEF SoundSpec

\* An entry that can be read has a grade and tiers there are.
LEMMA GradesAreThere ==
  ASSUME NEW name, name.n \in Nat
  PROVE  /\ Registry!ParseGrade(name) # Registry!None =>
              /\ Registry!ParseGrade(name) = <<Registry!ParseGrade(name)[1]>>
              /\ Registry!ParseGrade(name)[1] \in 0 .. Registry!GRADE_COUNT - 1
         /\ Registry!ParseTier(name) # Registry!None =>
              Registry!ParseTier(name)[1] \in 0 .. Registry!TIER_COUNT - 1
<1>. DEFINE grade == Registry!ParseGrade(name)
            tier == Registry!ParseTier(name)
<1>1. grade = <<>> \/ grade = <<29>> \/ (grade = <<name.n>> /\ name.n \in 0..29)
  <2>1. Registry!GRADE_COUNT - 1 = 29
    BY DEF Registry!GRADE_COUNT
  <2>2. name.n < Registry!GRADE_COUNT => name.n \in 0..29
    BY DEF Registry!GRADE_COUNT
  <2>. QED  BY <2>1, <2>2, Zenon DEF Registry!ParseGrade, Registry!FromIndex, Registry!None
<1>2. tier = <<>> \/ tier = grade \/ (tier = <<name.n>> /\ name.n \in 0..30)
  <2>1. name.n < Registry!TIER_COUNT => name.n \in 0..30
    BY DEF Registry!TIER_COUNT
  <2>. QED  BY <2>1, Zenon DEF Registry!ParseTier, Registry!None
<1>. HIDE DEF grade, tier
<1>3. grade # <<>> => grade = <<grade[1]>> /\ grade[1] \in 0..29
  <2>1. CASE grade = <<29>>
    BY <2>1
  <2>2. CASE grade = <<name.n>> /\ name.n \in 0..29
    BY <2>2
  <2>. QED  BY <1>1, <2>1, <2>2, Zenon
<1>4. tier # <<>> => tier[1] \in 0..30
  <2>1. CASE tier = grade
    <3>1. \A m \in 0..29 : m \in 0..30
      OBVIOUS
    <3>. QED  BY <1>3, <2>1, <3>1, Zenon
  <2>2. CASE tier = <<name.n>> /\ name.n \in 0..30
    BY <2>2
  <2>. QED  BY <1>2, <2>1, <2>2, Zenon
<1>. QED  BY <1>3, <1>4 DEF grade, tier, Registry!None, Registry!GRADE_COUNT, Registry!TIER_COUNT

LEMMA ParsedIsSpec ==
  ASSUME NEW e, Registry!WellTyped(e), Registry!Readable(e)
  PROVE  Registry!IsSpec(Registry!Parsed(e))
<1>. DEFINE s == Registry!Parsed(e)
<1>1. /\ s = [f \in Registry!SpecFields |-> s[f]]
      /\ s.grade = IF e.grade = Registry!None THEN Registry!None ELSE Registry!ParseGrade(e.grade[1])
      /\ s.tiers = {Registry!ParseTier(e.tiers[i])[1] : i \in DOMAIN e.tiers}
      /\ s.input_cost = e.input_cost /\ s.output_cost = e.output_cost
  BY DEF Registry!Parsed, Registry!SpecFields
<1>. HIDE DEF s
<1>2. s.grade = Registry!None \/ (s.grade = <<s.grade[1]>> /\ s.grade[1] \in 0 .. Registry!GRADE_COUNT - 1)
  <2>1. CASE e.grade = Registry!None
    BY <2>1, <1>1
  <2>2. CASE e.grade # Registry!None
    <3>1. e.grade[1].n \in Nat /\ Registry!ParseGrade(e.grade[1]) # Registry!None
      BY <2>2 DEF Registry!WellTyped, Registry!Readable
    <3>2. s.grade = Registry!ParseGrade(e.grade[1])
      BY <2>2, <1>1
    <3>. QED  BY <3>1, <3>2, GradesAreThere
  <2>. QED  BY <2>1, <2>2
<1>3. s.tiers \subseteq 0 .. Registry!TIER_COUNT - 1
  <2>1. \A i \in DOMAIN e.tiers : e.tiers[i].n \in Nat /\ Registry!ParseTier(e.tiers[i]) # Registry!None
    BY DEF Registry!WellTyped, Registry!Readable
  <2>2. \A i \in DOMAIN e.tiers : Registry!ParseTier(e.tiers[i])[1] \in 0 .. Registry!TIER_COUNT - 1
    BY <2>1, GradesAreThere
  <2>. QED  BY <1>1, <2>2
<1>4. \A price \in {s.input_cost, s.output_cost} :
        price = Registry!None \/ (price = <<price[1]>> /\ price[1] \in Int)
  BY <1>1 DEF Registry!WellTyped
<1>. QED  BY <1>1, <1>2, <1>3, <1>4 DEF Registry!IsSpec, s

LEMMA ReadIsSound ==
  ASSUME NEW e, Registry!WellTyped(e), Registry!SpecFrom(e) # Registry!None
  PROVE  SoundSpec(Registry!SpecFrom(e)[1])
BY ParsedIsSpec, MadeIsSound DEF Registry!SpecFrom

-----------------------------------------------------------------------------

LEMMA LoadKeeps ==
  ASSUME NEW list \in RegistryEntries, NEW named, NEW raw \in RoutingBlocks, RegistryInv,
         Registry!Load(list, named, raw)
  PROVE  RegistryInv'
<1>. DEFINE specs == [i \in DOMAIN list |-> Registry!SpecFrom(list[i])]
            loaded == [i \in DOMAIN list |-> specs[i][1]]
            config == Registry!RoutingFrom(raw)
<1>1. CASE UNCHANGED <<models, aliases, routing>>
  BY <1>1 DEF RegistryInv
<1>2. CASE /\ \A i \in DOMAIN specs : specs[i] # Registry!None
           /\ Registry!Constructible(loaded, Registry!AliasesFrom(named))
           /\ Registry!RoutingIsSound(config, loaded)
           /\ models' = loaded /\ aliases' = Registry!AliasesFrom(named) /\ routing' = config
  <2>1. DOMAIN list = 1..Len(list) /\ Len(list) \in Nat
    BY RegistryAssumption
  <2>2. loaded \in Seq({loaded[i] : i \in DOMAIN loaded})
    BY <2>1
  <2>3. \A i \in DOMAIN loaded : SoundSpec(loaded[i])
    <3>. TAKE i \in DOMAIN loaded
    <3>1. Registry!WellTyped(list[i]) /\ Registry!SpecFrom(list[i]) # Registry!None
      BY <1>2, RegistryAssumption
    <3>. QED  BY <3>1, ReadIsSound
  <2>4. DOMAIN config.policies \subseteq Nat
    <3>1. config.policies = raw.policies
      BY DEF Registry!RoutingFrom
    <3>. QED  BY <3>1, RegistryAssumption
  <2>. HIDE DEF loaded, config
  <2>. QED  BY <1>2, <2>1, <2>2, <2>3, <2>4 DEF RegistryInv
<1>. QED  BY <1>1, <1>2 DEF Registry!Load, Registry!Refuse

\* A sound spec in the place of one of its name leaves the names as they were.
LEMMA SubstitutedKeeps ==
  ASSUME RegistryInv, NEW s, SoundSpec(s)
  PROVE  LET specs == Registry!Substituted(s)
         IN  /\ specs \in Seq({specs[i] : i \in DOMAIN specs}) /\ Len(specs) = Len(models)
             /\ \A i \in DOMAIN specs : SoundSpec(specs[i])
             /\ Registry!Ids(specs) = Registry!Ids(models)
<1>. DEFINE specs == Registry!Substituted(s)
<1>1. /\ DOMAIN specs = DOMAIN models /\ Len(specs) = Len(models)
      /\ specs \in Seq({specs[i] : i \in DOMAIN specs})
  BY DEF RegistryInv, Registry!Substituted
<1>2. \A i \in DOMAIN specs : specs[i] = IF models[i].id = s.id THEN s ELSE models[i]
  BY DEF Registry!Substituted
<1>. HIDE DEF specs
<1>3. \A i \in DOMAIN specs : SoundSpec(specs[i]) /\ specs[i].id = models[i].id
  BY <1>1, <1>2 DEF RegistryInv
<1>4. Registry!Ids(specs) = Registry!Ids(models)
  BY <1>1, <1>3 DEF Registry!Ids
<1>. QED  BY <1>1, <1>3, <1>4 DEF specs

LEMMA ReplaceKeeps ==
  ASSUME NEW s \in Replacements, RegistryInv, Registry!Replace(s)
  PROVE  RegistryInv'
<1>1. SoundSpec(s)
  BY RegistryAssumption DEF SoundSpec
<1>2. CASE UNCHANGED <<models, aliases, routing>>
  BY <1>2 DEF RegistryInv
<1>3. CASE /\ models' = Registry!Substituted(s) /\ UNCHANGED <<aliases, routing>>
           /\ Registry!Resolves(Registry!Substituted(s), aliases)
  <2>. DEFINE specs == Registry!Substituted(s)
  <2>1. /\ specs \in Seq({specs[i] : i \in DOMAIN specs}) /\ Len(specs) = Len(models)
        /\ \A i \in DOMAIN specs : SoundSpec(specs[i])
        /\ Registry!Ids(specs) = Registry!Ids(models)
    BY <1>1, SubstitutedKeeps
  <2>. HIDE DEF specs
  <2>2. Registry!Constructible(specs, aliases)
    BY <1>3, <2>1 DEF RegistryInv, Registry!Constructible, Registry!NoDuplicates, specs
  <2>3. Registry!RoutingIsSound(routing, specs)
    BY <2>1 DEF RegistryInv, Registry!RoutingIsSound
  <2>4. models' = specs /\ aliases' = aliases /\ routing' = routing
    BY <1>3 DEF specs
  <2>. QED  BY <2>1, <2>2, <2>3, <2>4 DEF RegistryInv
<1>. QED  BY <1>2, <1>3 DEF Registry!Replace, Registry!Replaced, Registry!Refuse

LEMMA ReplaceModelKeeps ==
  ASSUME NEW s, SoundSpec(s), RegistryInv, Registry!ReplaceModel(s)
  PROVE  RegistryInv'
<1>1. CASE UNCHANGED <<models, aliases, routing>>
  BY <1>1 DEF RegistryInv
<1>. DEFINE specs == IF s.id \in Registry!Ids(models) THEN Registry!Substituted(s) ELSE Append(models, s)
<1>2. CASE Registry!Constructible(specs, aliases) /\ models' = specs /\ UNCHANGED <<aliases, routing>>
  <2>1. /\ specs \in Seq({specs[i] : i \in DOMAIN specs})
        /\ \A i \in DOMAIN specs : SoundSpec(specs[i])
        /\ Registry!Ids(models) \subseteq Registry!Ids(specs)
    <3>1. CASE s.id \in Registry!Ids(models)
      BY <3>1, SubstitutedKeeps DEF RegistryInv
    <3>2. CASE s.id \notin Registry!Ids(models)
      <4>1. specs = Append(models, s)
        BY <3>2
      <4>2. models \in Seq({models[i] : i \in DOMAIN models})
        BY DEF RegistryInv
      <4>3. /\ specs \in Seq({specs[i] : i \in DOMAIN specs})
            /\ \A i \in DOMAIN specs : specs[i] = IF i \in DOMAIN models THEN models[i] ELSE s
            /\ DOMAIN models \subseteq DOMAIN specs
        <5>. DEFINE members == {models[i] : i \in DOMAIN models} \union {s}
        <5>1. models \in Seq(members) /\ s \in members
          BY <4>2, SeqMonotonic
        <5>. HIDE DEF specs, members
        <5>2. /\ specs \in Seq(members) /\ Len(specs) = Len(models) + 1
              /\ \A i \in 1..Len(models) : specs[i] = models[i]
              /\ specs[Len(models) + 1] = s
          BY <4>1, <5>1, AppendProperties
        <5>3. DOMAIN models = 1..Len(models) /\ DOMAIN specs = 1..Len(models) + 1 /\ Len(models) \in Nat
          BY <5>1, <5>2
        <5>4. specs \in Seq({specs[i] : i \in DOMAIN specs})
          BY <5>2
        <5>. QED  BY <5>2, <5>3, <5>4
      <4>. HIDE DEF specs
      <4>4. \A i \in DOMAIN specs : SoundSpec(specs[i])
        BY <4>3 DEF RegistryInv
      <4>5. Registry!Ids(models) \subseteq Registry!Ids(specs)
        BY <4>3 DEF Registry!Ids
      <4>. QED  BY <4>3, <4>4, <4>5 DEF RegistryInv
    <3>. QED  BY <3>1, <3>2
  <2>. HIDE DEF specs
  <2>2. Registry!RoutingIsSound(routing, specs)
    BY <2>1 DEF RegistryInv, Registry!RoutingIsSound
  <2>. QED  BY <1>2, <2>1, <2>2 DEF RegistryInv
<1>. QED  BY <1>1, <1>2 DEF Registry!ReplaceModel, Registry!Refuse

LEMMA RegradeKeeps ==
  ASSUME NEW id, NEW grade \in {3, 29}, RegistryInv, Registry!Regrade(id, grade)
  PROVE  RegistryInv'
<1>1. CASE UNCHANGED <<models, aliases, routing>>
  BY <1>1 DEF RegistryInv
<1>. DEFINE s == [Registry!Spec(id) EXCEPT !.grade = <<grade>>]
<1>2. CASE id \in Registry!Ids(models) /\ Registry!Made(s) # Registry!None /\ Registry!ReplaceModel(Registry!Made(s)[1])
  <2>1. Registry!IsSpec(Registry!Spec(id))
    <3>1. PICK i \in DOMAIN models : models[i].id = id
      BY <1>2 DEF Registry!Ids
    <3>2. Registry!Spec(id) \in Registry!Range(models)
      BY <3>1 DEF Registry!Spec, Registry!Range
    <3>. QED  BY <3>2 DEF Registry!Range, RegistryInv, SoundSpec
  <2>2. Registry!IsSpec(s)
    BY <2>1 DEF Registry!IsSpec, Registry!SpecFields, Registry!GRADE_COUNT
  <2>. HIDE DEF s
  <2>. QED  BY <1>2, <2>2, MadeIsSound, ReplaceModelKeeps
<1>. QED  BY <1>1, <1>2 DEF Registry!Regrade, Registry!Refuse

LEMMA RegistryInduction ==
  /\ InitAll => RegistryInv
  /\ RegistryInv /\ [NextAll]_all => RegistryInv'
<1>1. ASSUME InitAll  PROVE RegistryInv
  <2>1. /\ models = <<>> /\ aliases = [a \in {} |-> Registry!None] /\ routing.policies = <<>>
        /\ routing.escalation.max_steps = 3
    BY <1>1 DEF InitAll, Registry!Init, Registry!RoutingFrom, Registry!OrElse
  <2>2. Registry!Ids(models) = {}
    BY <2>1 DEF Registry!Ids
  <2>3. Registry!Constructible(models, aliases)
    <3>1. DOMAIN models = {} /\ DOMAIN aliases = {} /\ Len(models) = 0
      <4>1. DOMAIN models = {} /\ Len(models) = 0
        BY <2>1
      <4>2. DOMAIN aliases = {}
        BY <2>1, Zenon
      <4>. QED  BY <4>1, <4>2
    <3>2. Registry!NoDuplicates(models)
      <4>1. Cardinality(Registry!Ids(models)) = 0
        BY <2>2, FS_EmptySet
      <4>. QED  BY <3>1, <4>1, Zenon DEF Registry!NoDuplicates, Registry!Cardinality, Cardinality
    <3>3. Registry!Resolves(models, aliases)
      BY <3>1 DEF Registry!Resolves
    <3>. QED  BY <3>1, <3>2, <3>3, Zenon DEF Registry!Constructible
  <2>4. models \in Seq({models[i] : i \in DOMAIN models}) /\ DOMAIN models = {}
    BY <2>1
  <2>5. Registry!RoutingIsSound(routing, models) /\ DOMAIN routing.policies \subseteq Nat
    <3>1. DOMAIN routing.policies = {}
      BY <2>1
    <3>. QED  BY <2>1, <3>1 DEF Registry!RoutingIsSound
  <2>. QED  BY <2>3, <2>4, <2>5 DEF RegistryInv
<1>2. ASSUME RegistryInv, [NextAll]_all  PROVE RegistryInv'
  <2>1. [Registry!Next]_catalog
    BY <1>2 DEF NextAll, all, catalog
  <2>2. CASE UNCHANGED catalog
    BY <2>2, <1>2 DEF catalog, RegistryInv
  <2>3. ASSUME NEW s \in Replacements, Registry!ReplaceModel(s)  PROVE RegistryInv'
    BY <2>3, <1>2, RegistryAssumption, ReplaceModelKeeps DEF SoundSpec
  <2>. QED  BY <2>1, <2>2, <2>3, <1>2, LoadKeeps, ReplaceKeeps, RegradeKeeps DEF Registry!Next
<1>. QED  BY <1>1, <1>2

-----------------------------------------------------------------------------

\* A model that is held has a tier it is found by.
LEMMA FoundByItsTier ==
  ASSUME RegistryInv, NEW s \in Registry!Enabled, s.grade # Registry!None
  PROVE  /\ s \in Registry!Graded(s.grade[1])
         /\ s \in Registry!ModelsServingTier(Registry!FromGrade(s.grade[1]))
         /\ Registry!Known("", Registry!PublicTier(s))
<1>1. SoundSpec(s)
  BY DEF Registry!Enabled, Registry!Range, RegistryInv
<1>2. s.grade = <<s.grade[1]>> /\ s.tiers \subseteq 0 .. Registry!TIER_COUNT - 1
  BY <1>1 DEF SoundSpec, Registry!IsSpec
<1>3. s \in Registry!Graded(s.grade[1])
  BY <1>2, Zenon DEF Registry!Graded
<1>4. s \in Registry!ModelsServingTier(Registry!FromGrade(s.grade[1]))
  BY Zenon DEF Registry!ModelsServingTier, Registry!ServesTier
<1>5. PICK t : Registry!PublicTier(s) = <<t>> /\ s \in Registry!ModelsServingTier(t)
  <2>1. CASE s.tiers # {}
    <3>1. Registry!PublicTier(s) = <<Registry!Max(s.tiers)>> /\ Registry!Max(s.tiers) \in s.tiers
      BY <2>1, <1>2, GreatestOfTiers, Zenon DEF Registry!PublicTier
    <3>2. s \in Registry!ModelsServingTier(Registry!Max(s.tiers))
      BY <3>1, Zenon DEF Registry!ModelsServingTier, Registry!ServesTier
    <3>. QED  BY <3>1, <3>2, Zenon
  <2>2. CASE s.tiers = {}
    <3>1. Registry!PublicTier(s) = <<Registry!FromGrade(s.grade[1])>>
      BY <2>2, Zenon DEF Registry!PublicTier
    <3>. QED  BY <3>1, <1>4, Zenon
  <2>. QED  BY <2>1, <2>2, Zenon
<1>6. Registry!Known("", Registry!PublicTier(s))
  <2>1. <<t>> # Registry!None /\ <<t>>[1] = t
    BY DEF Registry!None
  <2>. QED  BY <1>5, <2>1, Zenon DEF Registry!Known
<1>. QED  BY <1>3, <1>4, <1>6, Zenon

LEMMA InUseStandsAlone ==
  RegistryInv => Registry!RegistryStandsAlone
<1>. SUFFICES ASSUME RegistryInv  PROVE Registry!RegistryStandsAlone
  OBVIOUS
<1>1. /\ Registry!Constructible(models, aliases) /\ Registry!RoutingIsSound(routing, models)
      /\ \A i \in DOMAIN models : Registry!Made(models[i]) = <<models[i]>>
  BY DEF RegistryInv, SoundSpec
<1>2. \A s \in Registry!Enabled : s.grade # Registry!None =>
        /\ s \in Registry!Graded(s.grade[1]) \intersect Registry!ModelsServingTier(Registry!FromGrade(s.grade[1]))
        /\ Registry!Known("", Registry!PublicTier(s))
  BY FoundByItsTier, Zenon
<1>. QED  BY <1>1, <1>2, Zenon DEF Registry!RegistryStandsAlone

\* The two ways to a price agree.
LEMMA PricesAgree ==
  ASSUME NEW s, SoundSpec(s)
  PROVE  /\ Registry!BlendedCost(s) = Registry!CostUsd(s, 1, 3)
         /\ (Registry!ApiCostKnowledge(s) = "known_zero") <=> (Registry!CostUsd(s, 1, 1) = <<0>>)
<1>1. Registry!IsSpec(s) /\ Registry!Made(s) = <<s>>
  BY DEF SoundSpec
<1>2. Registry!Sound(s)
  BY <1>1 DEF Registry!Made, Registry!None
<1>3. CASE ~Registry!HasKnownApiPrice(s)
  <2>1. Registry!CostUsd(s, 1, 1) = Registry!None /\ Registry!CostUsd(s, 1, 3) = Registry!None
    BY <1>3 DEF Registry!CostUsd
  <2>2. Registry!BlendedCost(s) = Registry!None /\ Registry!ApiCostKnowledge(s) = "unknown"
    BY <1>3 DEF Registry!BlendedCost, Registry!ApiCostKnowledge
  <2>. QED  BY <2>1, <2>2 DEF Registry!None
<1>4. CASE Registry!HasKnownApiPrice(s)
  <2>. DEFINE a == s.input_cost[1]
              b == s.output_cost[1]
  <2>1. a \in Nat /\ b \in Nat
    BY <1>1, <1>2, <1>4 DEF Registry!IsSpec, Registry!Sound, Registry!HasKnownApiPrice
  <2>2. /\ Registry!BlendedCost(s) = <<a + 3 * b>>
        /\ Registry!CostUsd(s, 1, 3) = <<1 * a + 3 * b>> /\ Registry!CostUsd(s, 1, 1) = <<1 * a + 1 * b>>
        /\ Registry!ApiCostKnowledge(s) = IF a = 0 /\ b = 0 THEN "known_zero" ELSE "known_nonzero"
    BY <1>4 DEF Registry!BlendedCost, Registry!CostUsd, Registry!ApiCostKnowledge
  <2>. HIDE DEF a, b
  <2>3. 1 * a = a /\ 1 * b = b /\ (a + b = 0 <=> (a = 0 /\ b = 0))
    BY <2>1
  <2>. QED  BY <2>1, <2>2, <2>3
<1>. QED  BY <1>3, <1>4

\* A policy that is found is one of those declared.
LEMMA FoundPolicy ==
  ASSUME RegistryInv, NEW intent
  PROVE  \A p \in Registry!ToSet(Registry!PolicyFor(routing, intent)) :
           p.models \subseteq Registry!Ids(models)
<1>. DEFINE found == {i \in DOMAIN routing.policies : routing.policies[i].intent = intent}
<1>1. CASE found = {}
  <2>1. Registry!PolicyFor(routing, intent) = <<>>
    BY <1>1, Zenon DEF Registry!PolicyFor, Registry!None
  <2>. QED  BY <2>1 DEF Registry!ToSet
<1>2. CASE found # {}
  <2>1. Registry!Min(found) \in found
    BY <1>2, LeastOfNumbers DEF RegistryInv
  <2>2. Registry!PolicyFor(routing, intent) = <<routing.policies[Registry!Min(found)]>>
    BY <1>2, Zenon DEF Registry!PolicyFor
  <2>3. routing.policies[Registry!Min(found)].models \subseteq Registry!Ids(models)
    BY <2>1 DEF RegistryInv, Registry!RoutingIsSound
  <2>. HIDE DEF found
  <2>. QED  BY <2>2, <2>3 DEF Registry!ToSet
<1>. QED  BY <1>1, <1>2

LEMMA InUseAnswersAlike ==
  RegistryInv => Registry!AnswersAgree
<1>. SUFFICES ASSUME RegistryInv  PROVE Registry!AnswersAgree
  OBVIOUS
<1>. DEFINE intents == {routing.policies[i].intent : i \in DOMAIN routing.policies} \union {"unknown"}
            labels == {Registry!None} \union {<<i>> : i \in intents}
            classified == [abstain : BOOLEAN, intent : intents, domain : intents]
            preferred(c, label) == Registry!ToSet(Registry!PolicyForRequest(routing, c, label))
<1>1. ASSUME NEW s \in Registry!Enabled
      PROVE  /\ Registry!BlendedCost(s) = Registry!CostUsd(s, 1, 3)
             /\ (Registry!ApiCostKnowledge(s) = "known_zero") <=> (Registry!CostUsd(s, 1, 1) = <<0>>)
             /\ \A required \in SUBSET {"json_schema", "structured_output", "tools"} :
                  s \in Registry!WithCapabilities(required)
                    <=> Registry!MissingOf(s.capabilities, required) = {}
  <2>1. SoundSpec(s)
    BY DEF Registry!Enabled, Registry!Range, RegistryInv
  <2>2. ASSUME NEW required
        PROVE  s \in Registry!WithCapabilities(required)
                 <=> Registry!MissingOf(s.capabilities, required) = {}
    BY Zenon DEF Registry!WithCapabilities, Registry!Satisfies, Registry!MissingOf
  <2>. QED  BY <2>1, <2>2, PricesAgree, Zenon
<1>2. \A id \in Registry!Cards : Registry!Known(id, Registry!None)
  BY DEF Registry!Cards, Registry!Known, Registry!Enabled, Registry!Ids, Registry!Range
<1>3. ASSUME NEW c, NEW label
      PROVE  \A p \in preferred(c, label) : p.models \subseteq Registry!Ids(models)
  <2>1. \/ \E intent : Registry!PolicyForRequest(routing, c, label) = Registry!PolicyFor(routing, intent)
        \/ Registry!PolicyForRequest(routing, c, label) = Registry!None
    BY Zenon DEF Registry!PolicyForRequest
  <2>2. Registry!ToSet(Registry!None) = {}
    BY DEF Registry!ToSet, Registry!None
  <2>. QED  BY <2>1, <2>2, FoundPolicy, Zenon
<1>4. ASSUME NEW c \in classified, NEW label, c.abstain
      PROVE  preferred(<<c>>, label) = preferred(Registry!None, label)
  <2>1. <<c>>[1] = c /\ <<c>> # Registry!None
    BY DEF Registry!None
  <2>2. Registry!PolicyForRequest(routing, <<c>>, label) = Registry!PolicyForRequest(routing, Registry!None, label)
    BY <1>4, <2>1, Zenon DEF Registry!PolicyForRequest
  <2>. QED  BY <2>2, Zenon
<1>. QED  BY <1>1, <1>2, <1>3, <1>4, Zenon DEF Registry!AnswersAgree

\* The registry in use stands alone, and answers a question alike in two ways
\* (router/registry.py, router/intent_routing.py).
THEOREM RegistryNeedsNothing == SpecAll => []RegistryStandsAlone
<1>1. RegistryInv => RegistryStandsAlone
  BY InUseStandsAlone, InUseAnswersAlike, Zenon DEF RegistryStandsAlone
<1>. QED  BY <1>1, RegistryInduction, PTL DEF SpecAll

-----------------------------------------------------------------------------
\* Tenant stores: the database is the store in memory

StoreRecords == [key : StoreKeys, value : [tenant : StoreTenants, body : StoreBodies]]

RowOf(t, record) == <<t, record.key>>

\* The records of a bucket are the rows of its tenant, in the order of their times.
Mirrors(t, records, table) ==
  /\ \A i \in DOMAIN records : RowOf(t, records[i]) \in DOMAIN table
  /\ \A i \in DOMAIN records : table[RowOf(t, records[i])].value = records[i].value
  /\ \A i, j \in DOMAIN records :
       i < j => table[RowOf(t, records[i])].updated < table[RowOf(t, records[j])].updated
  /\ \A k \in Stores!RowsOf(table, t) : \E i \in DOMAIN records : k = RowOf(t, records[i])

StoresInv ==
  /\ clock \in Nat
  /\ bucket \in [StoreTenants -> Seq(StoreRecords)]
  /\ \A k \in DOMAIN rows : rows[k].updated \in Nat /\ rows[k].updated < clock
  /\ \A t \in StoreTenants :
       /\ Mirrors(t, bucket[t], rows)
       /\ Len(bucket[t]) <= MaxRecords
       /\ \A i \in DOMAIN bucket[t] : bucket[t][i].value.tenant = t

Heavier(S, w, least) == {x \in S : w[x] > least}

ListsByWeight(f, n, S, w) ==
  /\ f \in [1..n -> S] /\ w \in [S -> Int]
  /\ \A x \in S : \E i \in 1..n : f[i] = x
  /\ \A i, j \in 1..n : i < j => w[f[i]] > w[f[j]]

\* In a list of all members of a set, the heavier first, as many are heavier than a
\* member as stand before it.
LEMMA PlacesInOrder ==
  ASSUME NEW n \in Nat, NEW S, NEW f, NEW w, ListsByWeight(f, n, S, w)
  PROVE  /\ IsFiniteSet(S) /\ Cardinality(S) = n
         /\ \A i \in 1..n : Cardinality(Heavier(S, w, w[f[i]])) = i - 1
<1>. /\ f \in [1..n -> S] /\ w \in [S -> Int]
     /\ \A x \in S : \E i \in 1..n : f[i] = x
     /\ \A i, j \in 1..n : i < j => w[f[i]] > w[f[j]]
  BY DEF ListsByWeight
<1>1. \A i, j \in 1..n : f[i] = f[j] => i = j
  <2>. TAKE i \in 1..n, j \in 1..n
  <2>1. w[f[i]] \in Int /\ w[f[j]] \in Int
    OBVIOUS
  <2>. QED  BY <2>1
<1>2. f \in Bijection(1..n, S)
  BY <1>1 DEF Bijection, Injection, Surjection, IsInjective
<1>3. IsFiniteSet(1..n) /\ Cardinality(1..n) = n
  BY FS_Interval
<1>4. IsFiniteSet(S) /\ Cardinality(S) = n
  BY <1>2, <1>3, FS_Bijection DEF ExistsBijection
<1>5. ASSUME NEW i \in 1..n
      PROVE  Cardinality(Heavier(S, w, w[f[i]])) = i - 1
  <2>. DEFINE heavier == Heavier(S, w, w[f[i]])
              before == [j \in 1..i - 1 |-> f[j]]
  <2>1. \A j \in 1..n : f[j] \in heavier <=> j < i
    <3>. TAKE j \in 1..n
    <3>1. w[f[i]] \in Int /\ w[f[j]] \in Int
      OBVIOUS
    <3>. QED  BY <3>1 DEF Heavier
  <2>2. 1..i - 1 \subseteq 1..n /\ \A j \in 1..n : j \in 1..i - 1 <=> j < i
    OBVIOUS
  <2>3. \A x \in heavier : \E j \in 1..i - 1 : f[j] = x
    BY <2>1, <2>2 DEF Heavier
  <2>4. \A j \in 1..i - 1 : f[j] \in heavier
    BY <2>1, <2>2
  <2>. HIDE DEF heavier
  <2>5. before \in Bijection(1..i - 1, heavier)
    <3>1. before \in [1..i - 1 -> heavier]
      BY <2>4
    <3>2. \A j, k \in 1..i - 1 : before[j] = before[k] => j = k
      BY <1>1, <2>2
    <3>3. \A x \in heavier : \E j \in 1..i - 1 : before[j] = x
      BY <2>3
    <3>. HIDE DEF before
    <3>. QED  BY <3>1, <3>2, <3>3 DEF Bijection, Injection, Surjection, IsInjective
  <2>. HIDE DEF before
  <2>6. IsFiniteSet(1..i - 1) /\ Cardinality(1..i - 1) = i - 1
    <3>1. 1 \in Int /\ i - 1 \in Int /\ (1 > i - 1 => i - 1 = 0) /\ i - 1 - 1 + 1 = i - 1
      OBVIOUS
    <3>. QED  BY <3>1, FS_Interval
  <2>7. Cardinality(heavier) = i - 1
    BY <2>5, <2>6, FS_Bijection DEF ExistsBijection
  <2>. QED  BY <2>7 DEF heavier
<1>. QED  BY <1>4, <1>5

NewerRows(table, t, k) == {l \in Stores!RowsOf(table, t) : table[l].updated > table[k].updated}

\* The rows of a bucket, the newest first.
LEMMA NewestInOrder ==
  ASSUME NEW t, NEW records, NEW table, Mirrors(t, records, table),
         NEW R, records \in Seq(R), \A k \in DOMAIN table : table[k].updated \in Nat
  PROVE  LET mine == Stores!RowsOf(table, t)
             n == Len(records)
             newest == [i \in 1..n |-> RowOf(t, records[n - i + 1])]
         IN  /\ newest \in [1..n -> mine]
             /\ \A k \in mine : \E i \in 1..n : newest[i] = k
             /\ \A i, j \in 1..n : i < j => table[newest[i]].updated > table[newest[j]].updated
             /\ IsFiniteSet(mine) /\ Cardinality(mine) = n
             /\ \A i \in 1..n : Cardinality(NewerRows(table, t, newest[i])) = i - 1
<1>. DEFINE mine == Stores!RowsOf(table, t)
            n == Len(records)
            newest == [i \in 1..n |-> RowOf(t, records[n - i + 1])]
            w == [k \in mine |-> table[k].updated]
<1>1. n \in Nat /\ DOMAIN records = 1..n
  OBVIOUS
<1>2. \A i \in DOMAIN records : RowOf(t, records[i]) \in mine
  BY DEF Mirrors, RowOf, Stores!RowsOf
<1>. HIDE DEF n
<1>3. \A i \in 1..n : n - i + 1 \in 1..n /\ n - (n - i + 1) + 1 = i
  BY <1>1
<1>4. newest \in [1..n -> mine]
  BY <1>1, <1>2, <1>3
<1>5. ASSUME NEW k \in mine
      PROVE  \E i \in 1..n : newest[i] = k
  <2>1. PICK i \in 1..n : k = RowOf(t, records[i])
    BY <1>1 DEF Mirrors
  <2>2. newest[n - i + 1] = k
    BY <1>3, <2>1
  <2>. QED  BY <1>3, <2>2
<1>6. ASSUME NEW i \in 1..n, NEW j \in 1..n, i < j
      PROVE  table[newest[i]].updated > table[newest[j]].updated
  <2>1. n - j + 1 < n - i + 1
    BY <1>1, <1>6
  <2>2. table[RowOf(t, records[n - j + 1])].updated < table[RowOf(t, records[n - i + 1])].updated
    BY <1>1, <1>3, <2>1 DEF Mirrors
  <2>3. newest[i] = RowOf(t, records[n - i + 1]) /\ newest[j] = RowOf(t, records[n - j + 1])
    OBVIOUS
  <2>4. table[newest[i]].updated \in Nat /\ table[newest[j]].updated \in Nat
    BY <1>4 DEF Stores!RowsOf
  <2>. HIDE DEF newest
  <2>. QED  BY <2>2, <2>3, <2>4
<1>. HIDE DEF newest
<1>7. w \in [mine -> Int]
  BY DEF Stores!RowsOf
<1>8. \A i, j \in 1..n : i < j => w[newest[i]] > w[newest[j]]
  BY <1>4, <1>6
<1>. HIDE DEF mine
<1>9. /\ IsFiniteSet(mine) /\ Cardinality(mine) = n
      /\ \A i \in 1..n : Cardinality(Heavier(mine, w, w[newest[i]])) = i - 1
  <2>. HIDE DEF w
  <2>1. n \in Nat /\ ListsByWeight(newest, n, mine, w)
    BY <1>1, <1>4, <1>5, <1>7, <1>8 DEF ListsByWeight
  <2>. QED  BY <2>1, PlacesInOrder, Zenon
<1>10. ASSUME NEW i \in 1..n
       PROVE  Cardinality(NewerRows(table, t, newest[i])) = i - 1
  <2>1. newest[i] \in mine
    BY <1>4
  <2>2. Heavier(mine, w, w[newest[i]]) = NewerRows(table, t, newest[i])
    BY <2>1 DEF Heavier, NewerRows, mine
  <2>. QED  BY <1>9, <2>2
<1>. QED  BY <1>4, <1>5, <1>6, <1>9, <1>10 DEF mine, n, newest

\* What Newest keeps: the last MaxRecords.
LEMMA NewestOf ==
  ASSUME NEW R, NEW s \in Seq(R)
  PROVE  LET r == Stores!Newest(MaxRecords, s)
             d == IF Len(s) <= MaxRecords THEN 0 ELSE Len(s) - MaxRecords
         IN  /\ r \in Seq(R) /\ Len(r) = Len(s) - d /\ Len(r) <= MaxRecords /\ d \in Nat
             /\ \A i \in 1..Len(r) : r[i] = s[i + d]
<1>. DEFINE r == Stores!Newest(MaxRecords, s)
            n == Len(s)
<1>1. n \in Nat /\ MaxRecords \in Nat \ {0}
  BY StoresAssumption
<1>2. CASE n <= MaxRecords
  <2>1. r = s
    BY <1>2 DEF Stores!Newest
  <2>. QED  BY <1>1, <1>2, <2>1
<1>3. CASE ~(n <= MaxRecords)
  <2>. DEFINE first == n - MaxRecords + 1
  <2>1. r = SubSeq(s, first, n)
    BY <1>3 DEF Stores!Newest
  <2>2. first \in 1..n /\ n - first + 1 = MaxRecords /\ n - MaxRecords \in Nat
        /\ n = n - MaxRecords + MaxRecords /\ n - (n - MaxRecords) = MaxRecords
    BY <1>1, <1>3
  <2>3. \A i \in first..n : s[i] \in R
    BY <1>1, <2>2
  <2>4. /\ r \in Seq(R) /\ Len(r) = IF first <= n THEN n - first + 1 ELSE 0
        /\ \A i \in 1..n - first + 1 : r[i] = s[first + i - 1]
    <3>. HIDE DEF first, n, r
    <3>1. first \in Int /\ n \in Int
      BY <1>1, <2>2
    <3>. QED  BY <2>1, <2>3, <3>1, SubSeqProperties
  <2>. HIDE DEF r
  <2>5. Len(r) = MaxRecords /\ \A i \in 1..MaxRecords : first + i - 1 = i + (n - MaxRecords)
    BY <1>1, <2>2, <2>4
  <2>6. \A i \in 1..MaxRecords : r[i] = s[i + (n - MaxRecords)]
    BY <2>2, <2>4, <2>5
  <2>. QED  BY <1>1, <1>3, <2>2, <2>4, <2>5, <2>6 DEF r
<1>. QED  BY <1>2, <1>3

\* Both stores evict the same.
LEMMA NewestMirrors ==
  ASSUME NEW t, NEW R, NEW records \in Seq(R), NEW table, Mirrors(t, records, table),
         \A k \in DOMAIN table : table[k].updated \in Nat
  PROVE  Mirrors(t, Stores!Newest(MaxRecords, records), Stores!Evicted(table, t))
<1>. DEFINE r == Stores!Newest(MaxRecords, records)
            T == Stores!Evicted(table, t)
            mine == Stores!RowsOf(table, t)
            n == Len(records)
            d == IF n <= MaxRecords THEN 0 ELSE n - MaxRecords
            newest == [i \in 1..n |-> RowOf(t, records[n - i + 1])]
<1>1. n \in Nat /\ DOMAIN records = 1..n /\ MaxRecords \in Nat \ {0}
  BY StoresAssumption
<1>2. /\ r \in Seq(R) /\ Len(r) = n - d /\ d \in Nat
      /\ \A i \in 1..Len(r) : r[i] = records[i + d]
  BY NewestOf
<1>3. \A i \in 1..n : Cardinality(NewerRows(table, t, newest[i])) = i - 1
  BY NewestInOrder
<1>4. \A p \in 1..n : Cardinality(NewerRows(table, t, RowOf(t, records[p]))) = n - p
  <2>. TAKE p \in 1..n
  <2>. HIDE DEF n
  <2>1. PICK q \in 1..n : q = n - p + 1 /\ n - q + 1 = p /\ q - 1 = n - p
    BY <1>1
  <2>2. newest[q] = RowOf(t, records[p])
    BY <2>1
  <2>3. Cardinality(NewerRows(table, t, newest[q])) = q - 1
    BY <1>3, Zenon
  <2>. HIDE DEF newest
  <2>. QED  BY <2>1, <2>2, <2>3, Zenon
<1>5. /\ DOMAIN T = {k \in DOMAIN table : k \in mine => Cardinality(NewerRows(table, t, k)) < MaxRecords}
      /\ \A k \in DOMAIN T : T[k] = table[k]
  <2>1. T = [k \in {k \in DOMAIN table : k \in mine => Cardinality(NewerRows(table, t, k)) < MaxRecords}
              |-> table[k]]
    BY Zenon DEF Stores!Evicted, Stores!Restricted, NewerRows, Stores!Cardinality, Cardinality
  <2>. HIDE DEF T, mine
  <2>. QED  BY <2>1
<1>. HIDE DEF newest, r, T
<1>6. \A p \in 1..n : RowOf(t, records[p]) \in DOMAIN T <=> p > d
  <2>. TAKE p \in 1..n
  <2>1. RowOf(t, records[p]) \in DOMAIN table /\ RowOf(t, records[p]) \in mine
    BY <1>1 DEF Mirrors, Stores!RowsOf, RowOf
  <2>. HIDE DEF mine
  <2>2. RowOf(t, records[p]) \in DOMAIN T <=> n - p < MaxRecords
    BY <1>4, <1>5, <2>1
  <2>3. n - p < MaxRecords <=> p > d
    <3>. HIDE DEF n
    <3>. QED  BY <1>1
  <2>. QED  BY <2>2, <2>3
<1>7. \A i \in 1..n - d : i + d \in 1..n /\ i + d > d
  <2>. HIDE DEF n
  <2>. QED  BY <1>1
<1>8. \A i \in DOMAIN r : i \in 1..n - d /\ r[i] = records[i + d]
  BY <1>2
<1>9. DOMAIN r = 1..n - d
  BY <1>2
<1>. HIDE DEF n, d
<1>10. \A i \in DOMAIN r : RowOf(t, r[i]) = RowOf(t, records[i + d]) /\ RowOf(t, r[i]) \in DOMAIN T
  BY <1>6, <1>7, <1>8
<1>11. \A i \in DOMAIN r : T[RowOf(t, r[i])].value = r[i].value
  <2>. TAKE i \in DOMAIN r
  <2>1. table[RowOf(t, records[i + d])].value = records[i + d].value
    BY <1>1, <1>7, <1>8 DEF Mirrors
  <2>. QED  BY <1>5, <1>8, <1>10, <2>1
<1>12. \A i, j \in DOMAIN r :
         i < j => T[RowOf(t, r[i])].updated < T[RowOf(t, r[j])].updated
  <2>. TAKE i \in DOMAIN r, j \in DOMAIN r
  <2>. HAVE i < j
  <2>1. i + d < j + d /\ i + d \in DOMAIN records /\ j + d \in DOMAIN records
    BY <1>1, <1>2, <1>7, <1>8
  <2>2. table[RowOf(t, records[i + d])].updated < table[RowOf(t, records[j + d])].updated
    BY <2>1 DEF Mirrors
  <2>. QED  BY <1>5, <1>10, <2>2
<1>13. ASSUME NEW k \in Stores!RowsOf(T, t)
       PROVE  \E i \in DOMAIN r : k = RowOf(t, r[i])
  <2>1. k \in DOMAIN T /\ k \in mine
    BY <1>5 DEF Stores!RowsOf
  <2>2. PICK p \in 1..n : k = RowOf(t, records[p])
    BY <1>1, <2>1 DEF Mirrors
  <2>3. p > d
    BY <1>6, <2>1, <2>2
  <2>4. p - d \in 1..n - d /\ p - d + d = p
    BY <1>1, <1>2, <2>3
  <2>. QED  BY <1>8, <1>9, <2>2, <2>4
<1>. QED  BY <1>10, <1>11, <1>12, <1>13 DEF Mirrors, r, T

\* A bucket without a key is the rows without it.
LEMMA MirrorsDistinct ==
  ASSUME NEW t, NEW R, NEW records \in Seq(R), NEW table, Mirrors(t, records, table),
         \A k \in DOMAIN table : table[k].updated \in Nat
  PROVE  Distinct(records)
<1>. SUFFICES ASSUME NEW i \in DOMAIN records, NEW j \in DOMAIN records,
                     records[i].key = records[j].key, i # j
              PROVE  FALSE
  BY DEF Distinct
<1>1. RowOf(t, records[i]) = RowOf(t, records[j]) /\ RowOf(t, records[i]) \in DOMAIN table
  BY DEF RowOf, Mirrors
<1>2. i \in Nat /\ j \in Nat
  OBVIOUS
<1>3. CASE i < j
  BY <1>1, <1>3 DEF Mirrors
<1>4. CASE j < i
  BY <1>1, <1>4 DEF Mirrors
<1>. QED  BY <1>2, <1>3, <1>4

LEMMA WithoutMirrors ==
  ASSUME NEW t, NEW R, NEW records \in Seq(R), NEW table, NEW key, Mirrors(t, records, table),
         \A k \in DOMAIN table : table[k].updated \in Nat
  PROVE  LET r == Stores!Without(records, key)
         IN  /\ r \in Seq(R) /\ Len(r) <= Len(records)
             /\ \A i \in DOMAIN r : r[i].key # key /\ \E j \in DOMAIN records : r[i] = records[j]
             /\ Mirrors(t, r, Stores!Restricted(table, DOMAIN table \ {<<t, key>>}))
<1>. DEFINE r == Stores!Without(records, key)
            T == Stores!Restricted(table, DOMAIN table \ {<<t, key>>})
<1>1. /\ DOMAIN T = DOMAIN table \ {<<t, key>>} /\ \A k \in DOMAIN T : T[k] = table[k]
  BY DEF Stores!Restricted
<1>2. Distinct(records)
  BY MirrorsDistinct
<1>3. \A i \in DOMAIN records : RowOf(t, records[i]) = <<t, key>> <=> records[i].key = key
  BY DEF RowOf
<1>4. CASE ~Stores!Has(records, key)
  <2>1. r = records /\ \A i \in DOMAIN records : records[i].key # key
    BY <1>4 DEF Stores!Without, Stores!Has
  <2>. HIDE DEF r, T
  <2>2. \A i \in DOMAIN records : RowOf(t, records[i]) \in DOMAIN T
    BY <1>1, <1>3, <2>1 DEF Mirrors
  <2>3. \A k \in Stores!RowsOf(T, t) : k \in Stores!RowsOf(table, t)
    BY <1>1 DEF Stores!RowsOf
  <2>4. Mirrors(t, records, T)
    BY <1>1, <2>2, <2>3 DEF Mirrors
  <2>5. Len(records) <= Len(records)
    OBVIOUS
  <2>. QED  BY <2>1, <2>4, <2>5 DEF r, T
<1>5. CASE Stores!Has(records, key)
  <2>. DEFINE p == Stores!Place(records, key)
              n == Len(records)
              From(i) == IF i < p THEN i ELSE i + 1
  <2>1. p \in DOMAIN records /\ records[p].key = key
    BY <1>5 DEF Stores!Has, Stores!Place
  <2>2. n \in Nat /\ DOMAIN records = 1..n
    OBVIOUS
  <2>3. r = Cache!RemoveAt(records, p)
    BY <1>5, Zenon DEF Stores!Without, Stores!RemoveAt, Cache!RemoveAt
  <2>. HIDE DEF r, T, p
  <2>4. r \in Seq(R) /\ Len(r) = n - 1 /\ \A i \in 1..n - 1 : r[i] = records[From(i)]
    BY <2>1, <2>2, <2>3, RemovedAt
  <2>5. DOMAIN r = 1..n - 1
    BY <2>4
  <2>. HIDE DEF n
  <2>6. \A i \in 1..n - 1 : From(i) \in 1..n /\ From(i) # p
    BY <2>1, <2>2
  <2>7. \A i, j \in 1..n - 1 : i < j => From(i) < From(j)
    BY <2>1, <2>2
  <2>8. \A j \in 1..n : j # p => \E i \in 1..n - 1 : From(i) = j
    <3>. TAKE j \in 1..n
    <3>. HAVE j # p
    <3>1. CASE j < p
      <4>1. j \in 1..n - 1 /\ From(j) = j
        BY <2>1, <2>2, <3>1
      <4>. QED  BY <4>1
    <3>2. CASE j > p
      <4>1. j - 1 \in 1..n - 1 /\ From(j - 1) = j
        BY <2>1, <2>2, <3>2
      <4>. QED  BY <4>1
    <3>. QED  BY <2>1, <2>2, <3>1, <3>2
  <2>. HIDE DEF From
  <2>9. \A i \in DOMAIN r : /\ From(i) \in DOMAIN records /\ r[i] = records[From(i)]
                            /\ records[From(i)].key # key
    BY <1>2, <2>1, <2>2, <2>4, <2>5, <2>6 DEF Distinct
  <2>10. \A i \in DOMAIN r : RowOf(t, r[i]) = RowOf(t, records[From(i)]) /\ RowOf(t, r[i]) \in DOMAIN T
    BY <1>1, <1>3, <2>9 DEF Mirrors
  <2>11. \A i \in DOMAIN r : T[RowOf(t, r[i])].value = r[i].value
    <3>. TAKE i \in DOMAIN r
    <3>1. table[RowOf(t, records[From(i)])].value = records[From(i)].value
      BY <2>9 DEF Mirrors
    <3>. QED  BY <1>1, <2>9, <2>10, <3>1
  <2>12. \A i, j \in DOMAIN r :
           i < j => T[RowOf(t, r[i])].updated < T[RowOf(t, r[j])].updated
    <3>. TAKE i \in DOMAIN r, j \in DOMAIN r
    <3>. HAVE i < j
    <3>1. From(i) < From(j) /\ From(i) \in DOMAIN records /\ From(j) \in DOMAIN records
      BY <2>5, <2>7, <2>9
    <3>2. table[RowOf(t, records[From(i)])].updated < table[RowOf(t, records[From(j)])].updated
      BY <3>1 DEF Mirrors
    <3>. QED  BY <1>1, <2>10, <3>2
  <2>13. ASSUME NEW k \in Stores!RowsOf(T, t)
         PROVE  \E i \in DOMAIN r : k = RowOf(t, r[i])
    <3>1. k \in Stores!RowsOf(table, t) /\ k # <<t, key>>
      BY <1>1 DEF Stores!RowsOf
    <3>2. PICK j \in DOMAIN records : k = RowOf(t, records[j])
      BY <3>1 DEF Mirrors
    <3>3. j # p
      BY <1>3, <2>1, <3>1, <3>2
    <3>4. PICK i \in 1..n - 1 : From(i) = j
      BY <2>2, <2>8, <3>3
    <3>. QED  BY <2>5, <2>9, <3>2, <3>4
  <2>14. Mirrors(t, r, T)
    BY <2>10, <2>11, <2>12, <2>13 DEF Mirrors
  <2>15. Len(r) <= n
    BY <2>2, <2>4
  <2>. QED  BY <2>4, <2>9, <2>14, <2>15 DEF r, T, n
<1>. QED  BY <1>4, <1>5

LEMMA AppendMirrors ==
  ASSUME NEW t, NEW R, NEW records \in Seq(R), NEW table, NEW e \in R, Mirrors(t, records, table),
         RowOf(t, e) \notin DOMAIN table,
         NEW time \in Nat, \A k \in DOMAIN table : table[k].updated \in Nat /\ table[k].updated < time
  PROVE  LET row == [value |-> e.value, updated |-> time]
         IN  Mirrors(t, Append(records, e), Stores!WithRow(table, RowOf(t, e), row))
<1>. DEFINE k0 == RowOf(t, e)
            row == [value |-> e.value, updated |-> time]
            r == Append(records, e)
            T == Stores!WithRow(table, k0, row)
            n == Len(records)
<1>1. /\ DOMAIN T = DOMAIN table \union {k0} /\ T[k0].value = e.value /\ T[k0].updated = time
      /\ \A k \in DOMAIN table : T[k] = table[k]
  <2>. HIDE DEF k0
  <2>1. T = [l \in DOMAIN table \union {k0} |-> IF l = k0 THEN row ELSE table[l]]
    BY DEF Stores!WithRow
  <2>. HIDE DEF T
  <2>2. T[k0] = row /\ DOMAIN T = DOMAIN table \union {k0}
    BY <2>1
  <2>3. \A k \in DOMAIN table : T[k] = table[k]
    BY <2>1 DEF k0
  <2>. QED  BY <2>2, <2>3
<1>2. n \in Nat /\ DOMAIN records = 1..n
  OBVIOUS
<1>3. /\ DOMAIN r = 1..n + 1 /\ r[n + 1] = e
      /\ \A i \in 1..n : r[i] = records[i]
  BY AppendProperties
<1>. HIDE DEF r, T, n
<1>4. \A i \in DOMAIN r : i = n + 1 \/ i \in 1..n
  BY <1>2, <1>3
<1>5. \A i \in 1..n : /\ RowOf(t, r[i]) = RowOf(t, records[i]) /\ RowOf(t, r[i]) \in DOMAIN table
                      /\ T[RowOf(t, r[i])] = table[RowOf(t, records[i])]
  BY <1>1, <1>2, <1>3 DEF Mirrors
<1>6. RowOf(t, r[n + 1]) = k0
  BY <1>3
<1>. HIDE DEF k0
<1>7. \A i \in DOMAIN r : RowOf(t, r[i]) \in DOMAIN T
  BY <1>1, <1>4, <1>5, <1>6
<1>8. \A i \in DOMAIN r : T[RowOf(t, r[i])].value = r[i].value
  <2>1. \A i \in 1..n : T[RowOf(t, r[i])].value = r[i].value
    BY <1>2, <1>3, <1>5 DEF Mirrors
  <2>. QED  BY <1>1, <1>3, <1>4, <1>6, <2>1
<1>9. \A i, j \in DOMAIN r : i < j => T[RowOf(t, r[i])].updated < T[RowOf(t, r[j])].updated
  <2>. TAKE i \in DOMAIN r, j \in DOMAIN r
  <2>. HAVE i < j
  <2>1. i \in 1..n
    BY <1>2, <1>3
  <2>2. CASE j \in 1..n
    BY <1>2, <1>5, <2>1, <2>2 DEF Mirrors
  <2>3. CASE j = n + 1
    <3>1. T[RowOf(t, r[j])].updated = time
      BY <1>1, <1>6, <2>3
    <3>2. T[RowOf(t, r[i])].updated < time
      BY <1>5, <2>1
    <3>. QED  BY <3>1, <3>2
  <2>. QED  BY <1>4, <2>2, <2>3
<1>10. ASSUME NEW k \in Stores!RowsOf(T, t)
       PROVE  \E i \in DOMAIN r : k = RowOf(t, r[i])
  <2>1. CASE k = k0
    BY <1>2, <1>3, <1>6, <2>1
  <2>2. CASE k # k0
    <3>1. k \in Stores!RowsOf(table, t)
      BY <1>1, <2>2 DEF Stores!RowsOf
    <3>2. PICK i \in 1..n : k = RowOf(t, records[i])
      BY <1>2, <3>1 DEF Mirrors
    <3>3. i \in DOMAIN r
      BY <1>2, <1>3
    <3>. QED  BY <1>5, <3>2, <3>3
  <2>. QED  BY <2>1, <2>2
<1>11. Mirrors(t, r, T)
  BY <1>7, <1>8, <1>9, <1>10 DEF Mirrors
<1>. QED  BY <1>11 DEF r, T, k0

\* What happens to the rows of one tenant leaves another's alone.
LEMMA OthersMirror ==
  ASSUME NEW t, NEW records, NEW table, NEW T, Mirrors(t, records, table),
         \A k : k \in DOMAIN table /\ k[1] = t <=> k \in DOMAIN T /\ k[1] = t,
         \A k \in DOMAIN T : k[1] = t => T[k] = table[k]
  PROVE  Mirrors(t, records, T)
<1>1. \A i \in DOMAIN records :
        /\ RowOf(t, records[i]) \in DOMAIN T
        /\ T[RowOf(t, records[i])] = table[RowOf(t, records[i])]
  BY DEF Mirrors, RowOf
<1>2. \A k \in Stores!RowsOf(T, t) : k \in Stores!RowsOf(table, t)
  BY DEF Stores!RowsOf
<1>. QED  BY <1>1, <1>2 DEF Mirrors

LEMMA SaveKeeps ==
  ASSUME StoresInv, NEW t \in StoreTenants, NEW key \in StoreKeys,
         NEW value \in [tenant : StoreTenants, body : StoreBodies], value.tenant = t,
         Stores!Save(t, key, value)
  PROVE  StoresInv'
<1>. DEFINE e == [key |-> key, value |-> value]
            k0 == <<t, key>>
            row == [value |-> value, updated |-> clock]
            b == bucket[t]
            rest == Stores!Without(b, key)
            whole == Append(rest, e)
            r == Stores!Newest(MaxRecords, whole)
            Without == Stores!Restricted(rows, DOMAIN rows \ {k0})
            With == Stores!WithRow(rows, k0, row)
            T == Stores!Evicted(With, t)
<1>1. /\ clock \in Nat /\ b \in Seq(StoreRecords) /\ Mirrors(t, b, rows)
      /\ \A k \in DOMAIN rows : rows[k].updated \in Nat /\ rows[k].updated < clock
      /\ \A i \in DOMAIN b : b[i].value.tenant = t
  BY DEF StoresInv
<1>2. e \in StoreRecords /\ e.key = key /\ e.value = value /\ RowOf(t, e) = k0
  BY DEF StoreRecords, RowOf
<1>3. bucket' = [bucket EXCEPT ![t] = r] /\ rows' = T /\ clock' = clock + 1
  BY Zenon DEF Stores!Save, Stores!Written, Stores!Stored
<1>4. /\ rest \in Seq(StoreRecords)
      /\ \A i \in DOMAIN rest : rest[i].value.tenant = t
      /\ Mirrors(t, rest, Without)
  <2>1. Without = Stores!Restricted(rows, DOMAIN rows \ {<<t, key>>})
    OBVIOUS
  <2>2. \A k \in DOMAIN rows : rows[k].updated \in Nat
    BY <1>1
  <2>3. b \in Seq(StoreRecords) /\ Mirrors(t, b, rows)
    BY <1>1
  <2>. HIDE DEF b, Without, k0
  <2>4. rest \in Seq(StoreRecords)
    BY <2>2, <2>3, WithoutMirrors
  <2>5. Mirrors(t, rest, Stores!Restricted(rows, DOMAIN rows \ {<<t, key>>}))
    BY <2>2, <2>3, WithoutMirrors
  <2>6. rest \in Seq({x \in StoreRecords : x.value.tenant = t})
    <3>. DEFINE own == {x \in StoreRecords : x.value.tenant = t}
    <3>1. b \in Seq(own)
      BY <1>1
    <3>. HIDE DEF own
    <3>2. rest \in Seq(own)
      BY <2>2, <2>3, <3>1, WithoutMirrors
    <3>. QED  BY <3>2 DEF own
  <2>. HIDE DEF rest
  <2>. QED  BY <2>1, <2>4, <2>5, <2>6
<1>5. /\ DOMAIN Without = DOMAIN rows \ {k0} /\ \A k \in DOMAIN Without : Without[k] = rows[k]
      /\ DOMAIN With = DOMAIN rows \union {k0}
      /\ \A k \in DOMAIN With : With[k] = IF k = k0 THEN row ELSE rows[k]
      /\ With = Stores!WithRow(Without, k0, row)
  <2>. HIDE DEF k0, row
  <2>1. /\ Without = [k \in DOMAIN rows \ {k0} |-> rows[k]]
        /\ With = [l \in DOMAIN rows \union {k0} |-> IF l = k0 THEN row ELSE rows[l]]
    BY DEF Stores!Restricted, Stores!WithRow
  <2>2. Stores!WithRow(Without, k0, row)
          = [l \in DOMAIN Without \union {k0} |-> IF l = k0 THEN row ELSE Without[l]]
    BY DEF Stores!WithRow
  <2>. HIDE DEF Without, With
  <2>3. /\ DOMAIN Without = DOMAIN rows \ {k0} /\ \A k \in DOMAIN Without : Without[k] = rows[k]
        /\ DOMAIN With = DOMAIN rows \union {k0}
        /\ \A k \in DOMAIN With : With[k] = IF k = k0 THEN row ELSE rows[k]
    BY <2>1
  <2>4. DOMAIN Without \union {k0} = DOMAIN rows \union {k0}
    BY <2>3
  <2>5. [l \in DOMAIN Without \union {k0} |-> IF l = k0 THEN row ELSE Without[l]] = With
    BY <2>1, <2>3, <2>4
  <2>. QED  BY <2>2, <2>3, <2>5
<1>. HIDE DEF b, rest, Without, With
<1>6. Mirrors(t, whole, With)
  <2>1. RowOf(t, e) \notin DOMAIN Without
    BY <1>2, <1>5
  <2>2. \A k \in DOMAIN Without : Without[k].updated \in Nat /\ Without[k].updated < clock
    BY <1>1, <1>5
  <2>3. row = [value |-> e.value, updated |-> clock]
    OBVIOUS
  <2>. HIDE DEF e, k0, row
  <2>. QED  BY <1>1, <1>2, <1>4, <1>5, <2>1, <2>2, <2>3, AppendMirrors
<1>7. /\ whole \in Seq(StoreRecords)
      /\ \A i \in DOMAIN whole : whole[i].value.tenant = t
  <2>1. /\ whole \in Seq(StoreRecords) /\ Len(whole) = Len(rest) + 1 /\ whole[Len(rest) + 1] = e
        /\ \A i \in 1..Len(rest) : whole[i] = rest[i]
    <3>. HIDE DEF e
    <3>. QED  BY <1>2, <1>4, AppendProperties
  <2>2. \A i \in 1..Len(rest) : rest[i].value.tenant = t
    <3>1. DOMAIN rest = 1..Len(rest)
      BY <1>4
    <3>. QED  BY <1>1, <1>4, <3>1
  <2>3. Len(rest) \in Nat /\ DOMAIN whole = 1..Len(rest) + 1
    BY <1>4, <2>1
  <2>. HIDE DEF whole
  <2>4. \A i \in DOMAIN whole : i = Len(rest) + 1 \/ i \in 1..Len(rest)
    BY <2>3
  <2>. QED  BY <2>1, <2>2, <2>4
<1>. HIDE DEF whole, e
<1>8. \A k \in DOMAIN With : With[k].updated \in Nat /\ With[k].updated < clock + 1
  BY <1>1, <1>5
<1>9. Mirrors(t, r, T)
  BY <1>6, <1>7, <1>8, NewestMirrors
<1>10. /\ r \in Seq(StoreRecords) /\ Len(r) <= MaxRecords
       /\ \A i \in DOMAIN r : r[i].value.tenant = t
  <2>. DEFINE d == IF Len(whole) <= MaxRecords THEN 0 ELSE Len(whole) - MaxRecords
  <2>1. /\ r \in Seq(StoreRecords) /\ Len(r) = Len(whole) - d /\ Len(r) <= MaxRecords /\ d \in Nat
        /\ \A i \in 1..Len(r) : r[i] = whole[i + d]
    BY <1>7, NewestOf
  <2>. HIDE DEF d
  <2>2. \A i \in DOMAIN r : i \in 1..Len(r) /\ i + d \in DOMAIN whole
    BY <1>7, <2>1
  <2>. QED  BY <1>7, <2>1, <2>2
<1>11. /\ DOMAIN T \subseteq DOMAIN With /\ \A k \in DOMAIN T : T[k] = With[k]
       /\ \A k \in DOMAIN With : k[1] # t => k \in DOMAIN T
  <2>. DEFINE kept == {k \in DOMAIN With : k \in Stores!RowsOf(With, t) =>
                         Stores!Cardinality({l \in Stores!RowsOf(With, t) : With[l].updated > With[k].updated})
                           < MaxRecords}
  <2>1. T = [k \in kept |-> With[k]]
    BY Zenon DEF Stores!Evicted, Stores!Restricted
  <2>2. \A k \in DOMAIN With : k[1] # t => k \in kept
    BY DEF Stores!RowsOf
  <2>3. kept \subseteq DOMAIN With
    OBVIOUS
  <2>. HIDE DEF kept, T
  <2>. QED  BY <2>1, <2>2, <2>3
<1>. HIDE DEF r, T
<1>12. bucket' \in [StoreTenants -> Seq(StoreRecords)]
  BY <1>3, <1>10 DEF StoresInv
<1>13. \A k \in DOMAIN rows' : rows'[k].updated \in Nat /\ rows'[k].updated < clock'
  BY <1>3, <1>8, <1>11
<1>14. ASSUME NEW u \in StoreTenants
       PROVE  /\ Mirrors(u, bucket'[u], rows') /\ Len(bucket'[u]) <= MaxRecords
              /\ \A i \in DOMAIN bucket'[u] : bucket'[u][i].value.tenant = u
  <2>1. CASE u = t
    <3>1. bucket'[u] = r
      BY <1>3, <2>1 DEF StoresInv
    <3>. QED  BY <1>3, <1>9, <1>10, <2>1, <3>1
  <2>2. CASE u # t
    <3>1. bucket'[u] = bucket[u]
      BY <1>3, <2>2 DEF StoresInv
    <3>2. \A k : k \in DOMAIN rows /\ k[1] = u <=> k \in DOMAIN T /\ k[1] = u
      <4>1. k0[1] = t
        OBVIOUS
      <4>. HIDE DEF k0
      <4>. QED  BY <1>5, <1>11, <2>2, <4>1
    <3>3. \A k \in DOMAIN T : k[1] = u => T[k] = rows[k]
      <4>1. k0[1] = t
        OBVIOUS
      <4>. HIDE DEF k0
      <4>. QED  BY <1>5, <1>11, <2>2, <4>1
    <3>4. Mirrors(u, bucket[u], rows)
      BY DEF StoresInv
    <3>5. Mirrors(u, bucket[u], T)
      BY <3>2, <3>3, <3>4, OthersMirror
    <3>. QED  BY <1>3, <3>1, <3>5 DEF StoresInv
  <2>. QED  BY <2>1, <2>2
<1>. QED  BY <1>1, <1>3, <1>12, <1>13, <1>14 DEF StoresInv

\* What a deletion or a clearing leaves: the bucket of one tenant and its rows change.
LEMMA RestrictKeeps ==
  ASSUME StoresInv, NEW t \in StoreTenants, NEW gone \in SUBSET Stores!RowsOf(rows, t),
         NEW left \in Seq(StoreRecords), Len(left) <= MaxRecords,
         \A i \in DOMAIN left : left[i].value.tenant = t,
         Mirrors(t, left, Stores!Restricted(rows, DOMAIN rows \ gone)),
         bucket' = [bucket EXCEPT ![t] = left],
         rows' = Stores!Restricted(rows, DOMAIN rows \ gone), clock' = clock
  PROVE  StoresInv'
<1>. DEFINE T == Stores!Restricted(rows, DOMAIN rows \ gone)
<1>1. DOMAIN T = DOMAIN rows \ gone /\ \A k \in DOMAIN T : T[k] = rows[k]
  BY DEF Stores!Restricted
<1>2. rows' = T /\ Mirrors(t, left, T)
  OBVIOUS
<1>. HIDE DEF T
<1>3. ASSUME NEW u \in StoreTenants
      PROVE  /\ Mirrors(u, bucket'[u], rows') /\ Len(bucket'[u]) <= MaxRecords
             /\ \A i \in DOMAIN bucket'[u] : bucket'[u][i].value.tenant = u
  <2>1. CASE u = t
    BY <1>2, <2>1 DEF StoresInv
  <2>2. CASE u # t
    <3>1. bucket'[u] = bucket[u] /\ Mirrors(u, bucket[u], rows)
      BY <2>2 DEF StoresInv
    <3>2. \A k : k \in DOMAIN rows /\ k[1] = u <=> k \in DOMAIN T /\ k[1] = u
      BY <1>1, <2>2 DEF Stores!RowsOf
    <3>3. Mirrors(u, bucket[u], T)
      BY <1>1, <3>1, <3>2, OthersMirror
    <3>. QED  BY <1>2, <3>1, <3>3 DEF StoresInv
  <2>. QED  BY <2>1, <2>2
<1>4. bucket' \in [StoreTenants -> Seq(StoreRecords)]
  BY DEF StoresInv
<1>5. \A k \in DOMAIN rows' : rows'[k].updated \in Nat /\ rows'[k].updated < clock'
  BY <1>1, <1>2 DEF StoresInv
<1>. QED  BY <1>3, <1>4, <1>5 DEF StoresInv

LEMMA DeleteKeeps ==
  ASSUME StoresInv, NEW t \in StoreTenants, NEW key \in StoreKeys, Stores!Delete(t, key)
  PROVE  StoresInv'
<1>. DEFINE b == bucket[t]
            left == Stores!Without(b, key)
            own == {x \in StoreRecords : x.value.tenant = t}
            gone == {<<t, key>>} \intersect DOMAIN rows
<1>1. /\ b \in Seq(StoreRecords) /\ b \in Seq(own) /\ Mirrors(t, b, rows) /\ Len(b) <= MaxRecords
      /\ \A k \in DOMAIN rows : rows[k].updated \in Nat
  BY DEF StoresInv
<1>2. DOMAIN rows \ {<<t, key>>} = DOMAIN rows \ gone /\ gone \in SUBSET Stores!RowsOf(rows, t)
  BY DEF Stores!RowsOf
<1>3. /\ bucket' = [bucket EXCEPT ![t] = left] /\ clock' = clock
      /\ rows' = Stores!Restricted(rows, DOMAIN rows \ gone)
  <2>1. rows' = Stores!Restricted(rows, DOMAIN rows \ {<<t, key>>})
    BY DEF Stores!Delete
  <2>. HIDE DEF gone
  <2>. QED  BY <1>2, <2>1 DEF Stores!Delete
<1>. HIDE DEF b, own
<1>4. Mirrors(t, left, Stores!Restricted(rows, DOMAIN rows \ {<<t, key>>}))
  BY <1>1, WithoutMirrors
<1>5. left \in Seq(StoreRecords) /\ Len(left) <= Len(b)
  BY <1>1, WithoutMirrors
<1>6. left \in Seq(own)
  BY <1>1, WithoutMirrors
<1>. HIDE DEF left, gone
<1>7. \A i \in DOMAIN left : left[i].value.tenant = t
  BY <1>6 DEF own
<1>8. Len(left) <= MaxRecords
  BY <1>1, <1>5, StoresAssumption
<1>9. Mirrors(t, left, Stores!Restricted(rows, DOMAIN rows \ gone))
  BY <1>2, <1>4
<1>. QED  BY <1>2, <1>3, <1>5, <1>7, <1>8, <1>9, RestrictKeeps

LEMMA ClearKeeps ==
  ASSUME StoresInv, NEW t \in StoreTenants, Stores!ClearTenant(t)
  PROVE  StoresInv'
<1>. DEFINE gone == Stores!RowsOf(rows, t)
            T == Stores!Restricted(rows, DOMAIN rows \ gone)
<1>1. bucket' = [bucket EXCEPT ![t] = <<>>] /\ clock' = clock /\ rows' = T
  BY DEF Stores!ClearTenant
<1>2. Stores!RowsOf(T, t) = {}
  BY DEF Stores!RowsOf, Stores!Restricted
<1>3. Mirrors(t, <<>>, T)
  <2>. HIDE DEF T
  <2>. QED  BY <1>2 DEF Mirrors
<1>4. <<>> \in Seq(StoreRecords) /\ Len(<<>>) <= MaxRecords /\ DOMAIN <<>> = {}
  BY StoresAssumption
<1>5. \A i \in DOMAIN <<>> : <<>>[i].value.tenant = t
  OBVIOUS
<1>. HIDE DEF gone
<1>6. gone \in SUBSET Stores!RowsOf(rows, t)
  BY DEF gone
<1>. QED  BY <1>1, <1>3, <1>4, <1>5, <1>6, RestrictKeeps

\* What memory answers for a key is one of the tenant's records, or nothing.
LEMMA FoundIn ==
  ASSUME NEW R, NEW records \in Seq(R), NEW key
  PROVE  LET found == Stores!Found(records, key)
         IN  /\ Stores!Has(records, key) =>
                  \E p \in DOMAIN records : records[p].key = key /\ found = <<records[p].value>>
             /\ ~Stores!Has(records, key) => found = Stores!None
<1>1. CASE Stores!Has(records, key)
  <2>. DEFINE p == Stores!Place(records, key)
  <2>1. p \in DOMAIN records /\ records[p].key = key
    BY <1>1 DEF Stores!Has, Stores!Place
  <2>2. Stores!Found(records, key) = <<records[p].value>>
    BY <1>1 DEF Stores!Found
  <2>. QED  BY <1>1, <2>1, <2>2
<1>2. CASE ~Stores!Has(records, key)
  BY <1>2 DEF Stores!Found
<1>. QED  BY <1>1, <1>2

LEMMA StoresInit ==
  ASSUME Stores!Init
  PROVE  StoresInv
<1>1. clock = 0 /\ rows = <<>> /\ bucket = [t \in StoreTenants |-> <<>>]
  BY DEF Stores!Init
<1>2. DOMAIN rows = {} /\ <<>> \in Seq(StoreRecords) /\ Len(<<>>) <= MaxRecords /\ DOMAIN <<>> = {}
  BY <1>1, StoresAssumption
<1>3. bucket \in [StoreTenants -> Seq(StoreRecords)]
  BY <1>1, <1>2
<1>4. ASSUME NEW t \in StoreTenants
      PROVE  /\ Mirrors(t, bucket[t], rows) /\ Len(bucket[t]) <= MaxRecords
             /\ \A i \in DOMAIN bucket[t] : bucket[t][i].value.tenant = t
  <2>1. bucket[t] = <<>>
    BY <1>1
  <2>. QED  BY <1>2, <2>1 DEF Mirrors, Stores!RowsOf
<1>. QED  BY <1>1, <1>2, <1>3, <1>4 DEF StoresInv

\* A record as it is made, and one written back changed, is of the tenant it is written for.
LEMMA RewrittenIsOwn ==
  ASSUME StoresInv, NEW t \in StoreTenants, NEW key \in StoreKeys, NEW body \in StoreBodies,
         Stores!FromMemory(t, key) # Stores!None
  PROVE  LET value == [Stores!FromMemory(t, key)[1] EXCEPT !.body = body]
         IN  value \in [tenant : StoreTenants, body : StoreBodies] /\ value.tenant = t
<1>. DEFINE b == bucket[t]
            found == Stores!Found(b, key)
<1>1. b \in Seq(StoreRecords) /\ \A i \in DOMAIN b : b[i].value.tenant = t
  BY DEF StoresInv
<1>2. found # Stores!None /\ Stores!FromMemory(t, key) = found
  BY DEF Stores!FromMemory
<1>. HIDE DEF b, found
<1>3. PICK p \in DOMAIN b : found = <<b[p].value>>
  BY <1>1, <1>2, FoundIn DEF found
<1>4. found[1] = b[p].value
  BY <1>3
<1>5. b[p].value \in [tenant : StoreTenants, body : StoreBodies] /\ b[p].value.tenant = t
  <2>1. b[p] \in StoreRecords
    BY <1>1
  <2>2. b[p].value \in [tenant : StoreTenants, body : StoreBodies]
    BY <2>1 DEF StoreRecords
  <2>. QED  BY <1>1, <2>2
<1>6. \A v \in [tenant : StoreTenants, body : StoreBodies] :
        /\ [v EXCEPT !.body = body] \in [tenant : StoreTenants, body : StoreBodies]
        /\ [v EXCEPT !.body = body].tenant = v.tenant
  OBVIOUS
<1>7. Stores!FromMemory(t, key)[1] = b[p].value
  BY <1>2, <1>4
<1>. QED  BY <1>5, <1>6, <1>7

LEMMA StoresStep ==
  ASSUME StoresInv, Stores!Next
  PROVE  StoresInv'
<1>1. CASE Stores!Dump \/ Stores!RestoreBackup
  <2>1. UNCHANGED <<bucket, rows, clock>>
    BY <1>1 DEF Stores!Dump, Stores!RestoreBackup
  <2>. QED  BY <2>1 DEF StoresInv
<1>2. ASSUME NEW t \in StoreTenants, Stores!ClearTenant(t)
      PROVE  StoresInv'
  BY <1>2, ClearKeeps
<1>3. ASSUME NEW t \in StoreTenants, NEW key \in StoreKeys, Stores!Delete(t, key)
      PROVE  StoresInv'
  BY <1>3, DeleteKeeps
<1>4. ASSUME NEW t \in StoreTenants, NEW key \in StoreKeys, NEW owner \in StoreTenants,
             NEW body \in StoreBodies, Stores!Put(t, key, Stores!Record(owner, body))
      PROVE  StoresInv'
  <2>. DEFINE value == Stores!Record(owner, body)
  <2>1. value \in [tenant : StoreTenants, body : StoreBodies]
    BY DEF Stores!Record
  <2>. HIDE DEF value
  <2>2. CASE value.tenant = t
    <3>1. Stores!Save(t, key, value)
      BY <1>4, <2>2 DEF Stores!Put, value
    <3>. QED  BY <2>1, <2>2, <3>1, SaveKeeps
  <2>3. CASE value.tenant # t
    <3>1. UNCHANGED <<bucket, rows, clock>>
      BY <1>4, <2>3 DEF Stores!Put, value
    <3>. QED  BY <3>1 DEF StoresInv
  <2>. QED  BY <2>2, <2>3
<1>5. ASSUME NEW t \in StoreTenants, NEW key \in StoreKeys, NEW body \in StoreBodies,
             Stores!Publish(t, key, body)
      PROVE  StoresInv'
  <2>. DEFINE value == Stores!Record(t, body)
  <2>1. value \in [tenant : StoreTenants, body : StoreBodies] /\ value.tenant = t
    BY DEF Stores!Record
  <2>2. Stores!Save(t, key, value)
    BY <1>5, Zenon DEF Stores!Publish
  <2>. HIDE DEF value
  <2>. QED  BY <2>1, <2>2, SaveKeeps
<1>6. ASSUME NEW t \in StoreTenants, NEW key \in StoreKeys, NEW body \in StoreBodies,
             Stores!Rewrite(t, key, body)
      PROVE  StoresInv'
  <2>. DEFINE value == [Stores!FromMemory(t, key)[1] EXCEPT !.body = body]
  <2>1. Stores!FromMemory(t, key) # Stores!None /\ Stores!Save(t, key, value)
    BY <1>6, Zenon DEF Stores!Rewrite
  <2>2. value \in [tenant : StoreTenants, body : StoreBodies] /\ value.tenant = t
    BY <2>1, RewrittenIsOwn
  <2>. HIDE DEF value
  <2>. QED  BY <2>1, <2>2, SaveKeeps
<1>. QED  BY <1>1, <1>2, <1>3, <1>4, <1>5, <1>6, Zenon DEF Stores!Next

LEMMA StoresInduction == SpecAll => []StoresInv
<1>1. ASSUME InitAll PROVE StoresInv
  BY <1>1, StoresInit DEF InitAll
<1>2. ASSUME StoresInv, [NextAll]_all PROVE StoresInv'
  <2>1. CASE Stores!Next
    BY <1>2, <2>1, StoresStep
  <2>2. CASE UNCHANGED stores
    <3>1. UNCHANGED <<bucket, rows, clock>>
      BY <2>2 DEF stores
    <3>. QED  BY <1>2, <3>1 DEF StoresInv
  <2>. QED  BY <1>2, <2>1, <2>2 DEF NextAll, all
<1>. QED  BY <1>1, <1>2, PTL DEF SpecAll

-----------------------------------------------------------------------------

LEMMA EitherAnswers ==
  ASSUME StoresInv, NEW t \in StoreTenants, NEW key \in StoreKeys
  PROVE  Stores!FromMemory(t, key) = Stores!FromRows(t, key)
<1>. DEFINE b == bucket[t]
<1>1. /\ b \in Seq(StoreRecords) /\ Mirrors(t, b, rows)
      /\ Stores!FromMemory(t, key) = Stores!Found(b, key)
  BY DEF StoresInv, Stores!FromMemory
<1>. HIDE DEF b
<1>2. CASE Stores!Has(b, key)
  <2>1. PICK p \in DOMAIN b : b[p].key = key /\ Stores!Found(b, key) = <<b[p].value>>
    BY <1>1, <1>2, FoundIn
  <2>2. RowOf(t, b[p]) = <<t, key>>
    BY <2>1 DEF RowOf
  <2>3. <<t, key>> \in DOMAIN rows /\ rows[<<t, key>>].value = b[p].value
    BY <1>1, <2>2 DEF Mirrors
  <2>. QED  BY <1>1, <2>1, <2>3 DEF Stores!FromRows
<1>3. CASE ~Stores!Has(b, key)
  <2>1. Stores!Found(b, key) = Stores!None
    BY <1>1, <1>3, FoundIn
  <2>2. <<t, key>> \notin DOMAIN rows
    <3>1. \A i \in DOMAIN b : RowOf(t, b[i]) # <<t, key>>
      BY <1>3 DEF Stores!Has, RowOf
    <3>2. <<t, key>> \in DOMAIN rows => <<t, key>> \in Stores!RowsOf(rows, t)
      BY DEF Stores!RowsOf
    <3>. QED  BY <1>1, <3>1, <3>2 DEF Mirrors
  <2>. QED  BY <1>1, <2>1, <2>2 DEF Stores!FromRows
<1>. QED  BY <1>2, <1>3

\* There is one order of the rows with the newest first, that of the bucket read backwards.
LEMMA OneOrder ==
  ASSUME StoresInv, NEW t \in StoreTenants
  PROVE  Stores!NewestFirst(rows, Stores!RowsOf(rows, t))
           = [i \in 1..Len(bucket[t]) |-> RowOf(t, bucket[t][Len(bucket[t]) - i + 1])]
<1>. DEFINE b == bucket[t]
            n == Len(b)
            mine == Stores!RowsOf(rows, t)
            backwards == [i \in 1..n |-> RowOf(t, b[n - i + 1])]
            Lists(s) == /\ \A k \in mine : \E i \in DOMAIN s : s[i] = k
                        /\ \A i, j \in DOMAIN s : i < j => rows[s[i]].updated > rows[s[j]].updated
            newest == Stores!NewestFirst(rows, mine)
            w == [k \in mine |-> rows[k].updated]
<1>1. b \in Seq(StoreRecords) /\ Mirrors(t, b, rows) /\ \A k \in DOMAIN rows : rows[k].updated \in Nat
  BY DEF StoresInv
<1>. HIDE DEF b
<1>2. n \in Nat
  BY <1>1
<1>3. /\ backwards \in [1..n -> mine] /\ \A k \in mine : \E i \in 1..n : backwards[i] = k
      /\ \A i, j \in 1..n : i < j => rows[backwards[i]].updated > rows[backwards[j]].updated
      /\ Cardinality(mine) = n
      /\ \A i \in 1..n : Cardinality(NewerRows(rows, t, backwards[i])) = i - 1
  BY <1>1, NewestInOrder
<1>. HIDE DEF n, backwards, mine
<1>4. newest = CHOOSE s \in [1..n -> mine] : Lists(s)
  <2>1. Stores!Cardinality(mine) = n
    BY <1>3 DEF Stores!Cardinality, Cardinality
  <2>. QED  BY <2>1 DEF Stores!NewestFirst
<1>5. DOMAIN backwards = 1..n
  BY <1>3
<1>6. Lists(backwards)
  BY <1>3, <1>5
<1>. HIDE DEF Lists, newest
<1>7. newest \in [1..n -> mine] /\ Lists(newest)
  BY <1>3, <1>4, <1>6
<1>8. w \in [mine -> Int] /\ \A k \in mine : w[k] = rows[k].updated
  <2>1. \A k \in mine : rows[k].updated \in Nat
    BY <1>1 DEF mine, Stores!RowsOf
  <2>. QED  BY <2>1
<1>. HIDE DEF w
<1>9. \A i \in 1..n : Cardinality(Heavier(mine, w, w[newest[i]])) = i - 1
  <2>1. DOMAIN newest = 1..n
    BY <1>7
  <2>2. /\ \A k \in mine : \E i \in 1..n : newest[i] = k
        /\ \A i, j \in 1..n : i < j => rows[newest[i]].updated > rows[newest[j]].updated
    BY <1>7, <2>1 DEF Lists
  <2>3. \A i, j \in 1..n : i < j => w[newest[i]] > w[newest[j]]
    BY <1>7, <1>8, <2>2
  <2>4. ListsByWeight(newest, n, mine, w)
    BY <1>7, <1>8, <2>2, <2>3 DEF ListsByWeight
  <2>. QED  BY <1>2, <2>4, PlacesInOrder, Zenon
<1>10. \A k \in mine : Heavier(mine, w, w[k]) = NewerRows(rows, t, k)
  BY <1>8 DEF Heavier, NewerRows, mine
<1>11. \A i \in 1..n : newest[i] = backwards[i]
  <2>. TAKE i \in 1..n
  <2>1. newest[i] \in mine
    BY <1>7
  <2>2. PICK j \in 1..n : backwards[j] = newest[i]
    BY <1>3, <2>1
  <2>3. i - 1 = j - 1
    BY <1>3, <1>9, <1>10, <2>1, <2>2
  <2>. QED  BY <2>2, <2>3
<1>12. newest = backwards
  <2>1. newest \in [1..n -> mine] /\ backwards \in [1..n -> mine]
    BY <1>3, <1>7
  <2>2. newest = [i \in 1..n |-> newest[i]] /\ backwards = [i \in 1..n |-> backwards[i]]
    BY <2>1, Zenon
  <2>3. [i \in 1..n |-> newest[i]] = [i \in 1..n |-> backwards[i]]
    BY <1>11, Zenon
  <2>. QED  BY <2>2, <2>3, Zenon
<1>. QED  BY <1>12 DEF newest, backwards, mine, n, b

LEMMA EitherLists ==
  ASSUME StoresInv, NEW t \in StoreTenants, NEW limit, NEW bodies
  PROVE  Stores!ListMemory(t, limit, bodies) = Stores!ListRows(t, limit, bodies)
<1>. DEFINE b == bucket[t]
            n == Len(b)
            newest == Stores!NewestFirst(rows, Stores!RowsOf(rows, t))
            records == [i \in DOMAIN newest |-> [key |-> newest[i][2], value |-> rows[newest[i]].value]]
            Listed(s) == Stores!First(limit, SelectSeq(s, LAMBDA e : e.value.body \in bodies))
<1>1. b \in Seq(StoreRecords) /\ Mirrors(t, b, rows) /\ n <= MaxRecords
  BY DEF StoresInv
<1>2. newest = [i \in 1..n |-> RowOf(t, b[n - i + 1])]
  BY OneOrder
<1>3. /\ Stores!ListMemory(t, limit, bodies) = Listed(Stores!Reverse(b))
      /\ Stores!ListRows(t, limit, bodies) = Listed(Stores!First(MaxRecords, records))
  BY Zenon DEF Stores!ListMemory, Stores!ListRows
<1>. HIDE DEF Listed, b, newest
<1>4. records = Stores!Reverse(b)
  <2>1. n \in Nat /\ DOMAIN b = 1..n /\ DOMAIN newest = 1..n
    BY <1>1, <1>2
  <2>2. Stores!Reverse(b) = [i \in 1..n |-> b[n - i + 1]]
    BY <2>1 DEF Stores!Reverse
  <2>3. ASSUME NEW i \in 1..n
        PROVE  [key |-> newest[i][2], value |-> rows[newest[i]].value] = b[n - i + 1]
    <3>1. n - i + 1 \in DOMAIN b
      BY <2>1
    <3>2. newest[i] = RowOf(t, b[n - i + 1])
      BY <1>2
    <3>3. newest[i][2] = b[n - i + 1].key
      BY <3>2 DEF RowOf
    <3>4. rows[newest[i]].value = b[n - i + 1].value
      BY <1>1, <3>1, <3>2 DEF Mirrors
    <3>5. b[n - i + 1] \in StoreRecords
      BY <1>1, <3>1
    <3>6. \A x \in StoreRecords : x = [key |-> x.key, value |-> x.value]
      BY DEF StoreRecords
    <3>. QED  BY <3>3, <3>4, <3>5, <3>6
  <2>4. records = [i \in 1..n |-> b[n - i + 1]]
    BY <2>1, <2>3
  <2>. QED  BY <2>2, <2>4
<1>5. Stores!First(MaxRecords, records) = records
  <2>1. Stores!Reverse(b) = [i \in 1..n |-> b[n - i + 1]] /\ n \in Nat
    BY <1>1 DEF Stores!Reverse
  <2>2. Len([i \in 1..n |-> b[n - i + 1]]) = n
    <3>. HIDE DEF n
    <3>. QED  BY <2>1
  <2>. HIDE DEF records
  <2>. QED  BY <1>1, <1>4, <2>1, <2>2 DEF Stores!First
<1>. HIDE DEF records
<1>. QED  BY <1>3, <1>4, <1>5, Zenon

\* Whatever is written, written again, refused, deleted, cleared and evicted, in memory
\* (tenancy/store.py) and in PostgreSQL (storage/postgres.py) a tenant has the same
\* records, its own, and they are listed in the same order.
THEOREM StoresHoldTheSame == SpecAll => []StoresAgree
<1>1. ASSUME StoresInv PROVE StoresAgree
  <2>. SUFFICES ASSUME NEW t \in StoreTenants
                PROVE  /\ \A key \in StoreKeys : Stores!FromMemory(t, key) = Stores!FromRows(t, key)
                       /\ \A limit \in 1..MaxRecords + 1, bodies \in SUBSET StoreBodies :
                            Stores!ListMemory(t, limit, bodies) = Stores!ListRows(t, limit, bodies)
                       /\ \A i \in DOMAIN bucket[t] : bucket[t][i].value.tenant = t
    BY Zenon DEF StoresAgree, Stores!StoresAgree
  <2>1. \A i \in DOMAIN bucket[t] : bucket[t][i].value.tenant = t
    BY <1>1 DEF StoresInv
  <2>. QED  BY <1>1, <2>1, EitherAnswers, EitherLists, Zenon
<1>. QED  BY <1>1, StoresInduction, PTL

=============================================================================

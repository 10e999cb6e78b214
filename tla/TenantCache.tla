----------------------------- MODULE TenantCache -----------------------------
(***************************************************************************)
(* The cache of tenancy/cache.py: in the worker's memory, or, when Redis is  *)
(* configured, in Redis (RedisCache of storage/redis.py), which several      *)
(* workers share and which may fail at any command.  The hit counters are    *)
(* left out.                                                                *)
(***************************************************************************)
EXTENDS Integers, SequencesExt, TenantBuckets

CONSTANTS
  Workers,
  Tenants,
  Namespaces,
  Parts,        \* what is asked of a namespace besides the tenant
  Payloads,
  Policies,     \* Policies[namespace]: [ttl, max, enabled]
  TTLs,         \* the ttl_seconds a caller may give
  MaxTime,      \* bound on the clock
  MaxPuts       \* bound on the writes

VARIABLES
  shared,     \* is Redis configured?
  now,
  local,      \* local[w][<<namespace, tenant>>]: bucket of [value, expires]
  redis,      \* redis[key]: [tenant, value, expires]
  puts,       \* history: the writes in order, and does an invalidation leave them standing?
  answer      \* history: the last answer given

vars == <<shared, now, local, redis, puts, answer>>

\* CacheKey.build and as_storage_key; RedisCache names its keys the same way.
Key(namespace, tenant, parts) == <<namespace, tenant, parts>>

-----------------------------------------------------------------------------
Init ==
  /\ shared \in BOOLEAN /\ now = 0
  /\ local = [w \in Workers |-> [b \in Namespaces \X Tenants |-> <<>>]]
  /\ redis = <<>>
  /\ puts = <<>> /\ answer = None

Answer(w, n, t, parts, value) ==
  answer' = IF value = None THEN None
            ELSE <<[worker |-> w, namespace |-> n, tenant |-> t, parts |-> parts,
                    value |-> value[1], at |-> now]>>

\* Mistake: an entry is served once more at its expiry.
Live_AtExpiry(entry) == now <= entry.expires

Live(entry) == now < entry.expires

\* get() with Redis: an error, an entry gone and an entry of another tenant are misses.
GetRedis(w, n, t, parts) ==
  LET key == Key(n, t, parts)
      there == key \in DOMAIN redis /\ Live(redis[key]) /\ redis[key].tenant = t
  IN  /\ \E value \in {None} \union (IF there THEN {<<redis[key].value>>} ELSE {}) :
           Answer(w, n, t, parts, value)
      /\ UNCHANGED local

\* get() in memory: an entry found expired is deleted.
GetLocal(w, n, t, parts) ==
  LET key == Key(n, t, parts)
      entry == Found(local[w][<<n, t>>], key)
      live == entry # None /\ Live(entry[1])
  IN  /\ Answer(w, n, t, parts, IF live THEN <<entry[1].value>> ELSE None)
      /\ local' = IF live THEN local ELSE [local EXCEPT ![w][<<n, t>>] = Without(@, key)]

Get(w, n, t, parts) ==
  /\ IF ~Policies[n].enabled THEN answer' = None /\ UNCHANGED local
     ELSE IF shared THEN GetRedis(w, n, t, parts) ELSE GetLocal(w, n, t, parts)
  /\ UNCHANGED <<shared, now, redis, puts>>

\* SET ... EX takes whole seconds, at least one.
Seconds(ttl) == IF ttl > 1 THEN ttl ELSE 1

Put(w, n, t, parts, value, given) ==
  LET ttl == IF given = None THEN Policies[n].ttl ELSE given[1]
      key == Key(n, t, parts)
  IN  /\ Policies[n].enabled /\ Len(puts) < MaxPuts
      /\ IF shared
         THEN /\ redis' \in {redis, [k \in DOMAIN redis \union {key} |->
                                      IF k = key THEN [tenant |-> t, value |-> value,
                                                       expires |-> now + Seconds(ttl)]
                                      ELSE redis[k]]}
              /\ UNCHANGED local
         ELSE /\ local' = [local EXCEPT ![w][<<n, t>>] =
                             Written(Policies[n].max, @, key, [value |-> value, expires |-> now + ttl])]
              /\ UNCHANGED redis
      /\ puts' = Append(puts, [worker |-> w, namespace |-> n, tenant |-> t, parts |-> parts,
                              value |-> value, until |-> now + (IF shared THEN Seconds(ttl) ELSE ttl),
                              standing |-> TRUE])
      /\ answer' = None
      /\ UNCHANGED <<shared, now>>

Fall(fallen(_)) ==
  puts' = [i \in DOMAIN puts |-> IF fallen(puts[i]) THEN [puts[i] EXCEPT !.standing = FALSE] ELSE puts[i]]

\* An invalidation that fails in Redis leaves the entry.
Invalidate(w, n, t, parts) ==
  LET key == Key(n, t, parts) IN
  /\ IF shared
     THEN /\ redis' \in {redis, [k \in DOMAIN redis \ {key} |-> redis[k]]}
          /\ UNCHANGED local
     ELSE /\ local' = [local EXCEPT ![w][<<n, t>>] = Without(@, key)]
          /\ UNCHANGED redis
  /\ Fall(LAMBDA p : /\ <<p.namespace, p.tenant, p.parts>> = <<n, t, parts>>
                      /\ IF shared THEN redis' # redis ELSE p.worker = w)
  /\ answer' = None
  /\ UNCHANGED <<shared, now>>

\* invalidate_namespace, invalidate_tenant: the memory of this worker only.
InvalidateAll(w, cleared, t) ==
  /\ local' = [local EXCEPT ![w] =
                 [b \in DOMAIN @ |-> IF b[1] \in cleared /\ b[2] = t THEN <<>> ELSE @[b]]]
  /\ Fall(LAMBDA p : ~shared /\ p.worker = w /\ p.namespace \in cleared /\ p.tenant = t)
  /\ answer' = None
  /\ UNCHANGED <<shared, now, redis>>

Tick ==
  /\ now < MaxTime
  /\ now' = now + 1
  /\ answer' = None
  /\ UNCHANGED <<shared, local, redis, puts>>

Next ==
  \/ Tick
  \/ \E w \in Workers, t \in Tenants, n \in Namespaces :
       \/ InvalidateAll(w, {n}, t) \/ InvalidateAll(w, Namespaces, t)
       \/ \E parts \in Parts :
            \/ Get(w, n, t, parts) \/ Invalidate(w, n, t, parts)
            \/ \E value \in Payloads, given \in TTLs : Put(w, n, t, parts, value, given)

Spec == Init /\ [][Next]_vars

-----------------------------------------------------------------------------
\* Properties

\* A hit was written by the same tenant to the same namespace for the same parts, within
\* its time to live and after every invalidation that took effect: of a single entry
\* anywhere, of a namespace or a tenant in this worker's memory (with Redis those two
\* clear nothing a hit is read from).  In memory it is the last such write.
HitsAreFresh ==
  answer # None =>
    LET a == answer[1]
        mine == {i \in DOMAIN puts :
                   /\ puts[i].namespace = a.namespace /\ puts[i].tenant = a.tenant
                   /\ puts[i].parts = a.parts /\ (shared \/ puts[i].worker = a.worker)}
    IN  \E i \in mine : /\ puts[i].value = a.value /\ a.at < puts[i].until /\ puts[i].standing
                        /\ shared \/ \A j \in mine : j <= i
=============================================================================

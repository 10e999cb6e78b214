----------------------------- MODULE TenantStores -----------------------------
(***************************************************************************)
(* Records per tenant: in memory (tenancy/store.py), in tenant_records      *)
(* (storage/postgres.py), copied by storage/backup.py, written by the        *)
(* repositories (storage/repositories.py, heal/store.py).                   *)
(*                                                                         *)
(* Both stores are driven by the same calls, so that they can be compared.  *)
(* The clock ticks with every write: times of two writes differ.            *)
(***************************************************************************)
EXTENDS Integers, SequencesExt, TenantBuckets

CONSTANTS
  Tenants,
  Keys,
  Bodies,       \* what a record may say: "draft", "published" ...
  MaxRecords,   \* max_records_per_tenant
  MaxWrites     \* bound on the writes

VARIABLES
  bucket,     \* bucket[t]: the records of t in memory, [key, value], oldest write first
  rows,       \* rows[<<t, key>>]: [value, updated]
  clock,
  flagged,    \* has IsolationAudit recorded a violation?
  backup,     \* the rows of a dump (one is taken), or None
  restored    \* the rows of an engine the dump was restored into

vars == <<bucket, rows, clock, flagged, backup, restored>>

Record(tenant, body) == [tenant |-> tenant, body |-> body]

-----------------------------------------------------------------------------
\* In memory: a bucket is in the order of the last write of each key.

FromMemory(t, key) == Found(bucket[t], key)

\* list(): the newest first, those that satisfy the predicate, at most `limit`.
First(limit, records) == IF Len(records) <= limit THEN records ELSE SubSeq(records, 1, limit)

ListMemory(t, limit, bodies) ==
  First(limit, SelectSeq(Reverse(bucket[t]), LAMBDA e : e.value.body \in bodies))

-----------------------------------------------------------------------------
\* In the database: every statement names the store and the tenant.

RowsOf(table, t) == {k \in DOMAIN table : k[1] = t}

Restricted(table, keep) == [k \in keep |-> table[k]]

\* _evict_overflow: of a tenant's rows the oldest go.
Evicted(table, t) ==
  LET mine == RowsOf(table, t)
      newer(k) == {l \in mine : table[l].updated > table[k].updated}
  IN  Restricted(table, {k \in DOMAIN table : k \in mine => Cardinality(newer(k)) < MaxRecords})

\* A row of the key, new or written over.
WithRow(table, k, row) == [l \in DOMAIN table \union {k} |-> IF l = k THEN row ELSE table[l]]

Stored(table, t, key, value) ==
  Evicted(WithRow(table, <<t, key>>, [value |-> value, updated |-> clock]), t)

FromRows(t, key) == IF <<t, key>> \in DOMAIN rows THEN <<rows[<<t, key>>].value>> ELSE None

\* ORDER BY updated_at DESC: each of them once.
NewestFirst(table, mine) ==
  CHOOSE s \in [1..Cardinality(mine) -> mine] :
    /\ \A k \in mine : \E i \in DOMAIN s : s[i] = k
    /\ \A i, j \in DOMAIN s : i < j => table[s[i]].updated > table[s[j]].updated

ListRows(t, limit, bodies) ==
  LET newest == NewestFirst(rows, RowsOf(rows, t))
      records == [i \in DOMAIN newest |-> [key |-> newest[i][2], value |-> rows[newest[i]].value]]
  IN  First(limit, SelectSeq(First(MaxRecords, records), LAMBDA e : e.value.body \in bodies))

-----------------------------------------------------------------------------
Init ==
  /\ bucket = [t \in Tenants |-> <<>>] /\ rows = <<>> /\ clock = 0
  /\ flagged = FALSE /\ backup = None /\ restored = <<>>

Save(t, key, value) ==
  /\ clock < MaxWrites
  /\ bucket' = [bucket EXCEPT ![t] = Written(MaxRecords, @, key, value)]
  /\ rows' = Stored(rows, t, key, value)
  /\ clock' = clock + 1
  /\ UNCHANGED <<flagged, backup, restored>>

\* put(): a record of another tenant is refused.
Put(t, key, value) ==
  IF value.tenant = t THEN Save(t, key, value)
  ELSE /\ flagged' = TRUE
       /\ UNCHANGED <<bucket, rows, clock, backup, restored>>

Delete(t, key) ==
  /\ bucket' = [bucket EXCEPT ![t] = Without(@, key)]
  /\ rows' = Restricted(rows, DOMAIN rows \ {<<t, key>>})
  /\ UNCHANGED <<clock, flagged, backup, restored>>

ClearTenant(t) ==
  /\ bucket' = [bucket EXCEPT ![t] = <<>>]
  /\ rows' = Restricted(rows, DOMAIN rows \ RowsOf(rows, t))
  /\ UNCHANGED <<clock, flagged, backup, restored>>

IsPublished(t, key) == \E v \in ToSet(FromMemory(t, key)) : v.body = "published"

\* PromptRepository.publish: a published record is not written over.
Publish(t, key, body) ==
  /\ ~IsPublished(t, key)
  /\ Save(t, key, Record(t, body))

\* promote, append_message, accept: what is there is read and written back changed.
Rewrite(t, key, body) ==
  /\ FromMemory(t, key) # None
  /\ Save(t, key, [FromMemory(t, key)[1] EXCEPT !.body = body])

\* dump_engine and restore_engine: merged into what the other engine holds.
Dump ==
  /\ backup = None
  /\ backup' = <<rows>>
  /\ UNCHANGED <<bucket, rows, clock, flagged, restored>>

RestoreBackup ==
  /\ backup # None
  /\ restored' = backup[1] @@ restored
  /\ UNCHANGED <<bucket, rows, clock, flagged, backup>>

Next ==
  \/ Dump \/ RestoreBackup
  \/ \E t \in Tenants :
       \/ ClearTenant(t)
       \/ \E key \in Keys :
            \/ Delete(t, key)
            \/ \E owner \in Tenants, body \in Bodies : Put(t, key, Record(owner, body))
            \/ \E body \in Bodies : Publish(t, key, body) \/ Rewrite(t, key, body)

Spec == Init /\ [][Next]_vars

-----------------------------------------------------------------------------
\* Properties

\* The durable store is the store in memory: after any writes, rewrites, deletions and
\* evictions both hold the same records of a tenant, list them in the same order, also
\* filtered and cut short, and every record is the tenant's own.
StoresAgree ==
  \A t \in Tenants :
    /\ \A key \in Keys : FromMemory(t, key) = FromRows(t, key)
    /\ \A limit \in 1..MaxRecords + 1, bodies \in SUBSET Bodies :
         ListMemory(t, limit, bodies) = ListRows(t, limit, bodies)
    /\ \A i \in DOMAIN bucket[t] : bucket[t][i].value.tenant = t
=============================================================================

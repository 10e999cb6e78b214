---------------------------- MODULE TenantBuckets ----------------------------
(***************************************************************************)
(* A tenant's bucket of tenancy/store.py (TenantScopedStore): a bounded      *)
(* sequence of [key, value] in the order of the last write of each key.  A    *)
(* key is at one place at most, as in the OrderedDict.                     *)
(***************************************************************************)
EXTENDS Integers, SequencesExt

None == <<>>

Has(records, key) == \E i \in DOMAIN records : records[i].key = key

Place(records, key) == CHOOSE i \in DOMAIN records : records[i].key = key

Without(records, key) == IF Has(records, key) THEN RemoveAt(records, Place(records, key)) ELSE records

Newest(max, records) ==
  IF Len(records) <= max THEN records ELSE SubSeq(records, Len(records) - max + 1, Len(records))

\* Mistake: a key written again keeps its place.
Written_InPlace(max, records, key, value) ==
  Newest(max, IF Has(records, key)
              THEN [records EXCEPT ![Place(records, key)].value = value]
              ELSE Append(records, [key |-> key, value |-> value]))

Written(max, records, key, value) ==
  Newest(max, Append(Without(records, key), [key |-> key, value |-> value]))

\* get(): reading a record does not renew its place.
Found(records, key) == IF Has(records, key) THEN <<records[Place(records, key)].value>> ELSE None
=============================================================================

----------------------------- MODULE MCRedisQuota -----------------------------
(* Two users of a tenant on several workers. *)
EXTENDS RedisQuota, TLC

CONSTANTS u1, u2, r1, r2, r3

ThreeRequests == (r1 :> u1) @@ (r2 :> u1) @@ (r3 :> u2)
TwoUsers      == (r1 :> u1) @@ (r2 :> u2)
=============================================================================

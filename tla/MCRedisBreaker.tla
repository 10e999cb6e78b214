--------------------------- MODULE MCRedisBreaker ---------------------------
(* An instance of RedisBreaker: two workers whose clocks disagree. *)
EXTENDS RedisBreaker, TLC

CONSTANTS w1, w2

Offsets == (w1 :> 0) @@ (w2 :> 1)
=============================================================================

------------------------------- MODULE MCGateway -------------------------------
(* Instances of Gateway: two users of a tenant and one project, with a request each *)
(* or with two requests of one user.                                           *)
EXTENDS Gateway

CONSTANTS u1, u2, p1, r1, r2, r3, MaxTime

Owners == (r1 :> u1) @@ (r2 :> u2)
InProject == (r1 :> p1) @@ (r2 :> p1)

ThreeOwners == (r1 :> u1) @@ (r2 :> u1) @@ (r3 :> u2)
ThreeInProject == (r1 :> p1) @@ (r2 :> NoProject) @@ (r3 :> p1)

Minutes == [p \in Periods |-> CASE p = "minute" -> 1 [] p = "day" -> 2 [] p = "month" -> 4]

Limits(minute, spend) ==
  [dim \in Dims |-> CASE dim = "minute" -> minute
                     [] dim = "spend" -> spend
                     [] OTHER -> None]
TenantLimits == Limits(2, 2)
UserLimits   == Limits(1, None)
Lives        == {None, 0, 1}

\* Bounds that keep the instance small: the clock; only u1 is revoked, by fingerprint
\* only for a while or when it has expired already.
Bounded ==
  /\ now <= MaxTime
  /\ \A t \in Tables : deny.orders[t][u2] = 0
  /\ deny.orders["prints"][u1] # None
  /\ \A i \in DOMAIN deny.ids : deny.ids[i].until # 0
  /\ \A i \in DOMAIN deny.prints : deny.prints[i].until \in {0, 2}

BoundedSpec == GatewayInit /\ [][GatewayNext /\ Bounded']_gatewayVars
=============================================================================

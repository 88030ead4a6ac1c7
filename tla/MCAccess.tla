------------------------------ MODULE MCAccess ------------------------------
(* Instances of Access: the handlers' routes, one user with a token that may *)
(* write, and two requests, one of any route and one that changes what the   *)
(* other reads.                                                              *)
EXTENDS AccessRoutes

CONSTANTS u1, t1, r1, r2

MCTokenUser == [t \in Tokens |-> u1]
MCPreset == [t \in Tokens |-> "git-write"]

MCMixes == {(r1 :> route) @@ (r2 :> "none") : route \in DOMAIN HandlerRoutes}
             \cup {(r1 :> "push") @@ (r2 :> route) : route \in {"push", "revokeToken", "archive"}}
Subscriptions == {(r1 :> "subscribe") @@ (r2 :> "none")}
=============================================================================

--------------------------- MODULE MCRateLimiter ---------------------------
(* Two workers of one host on one limiter, and a worker of another host. *)
EXTENDS RateLimiter, TLC

CONSTANTS c1, c2, c3, l1, l2

MCCallers == {c1, c2, c3}
MCLimiters == {l1, l2}
MCLimiterOf == c1 :> l1 @@ c2 :> l1 @@ c3 :> l2
=============================================================================

---------------------------- MODULE MCRateLimiter ----------------------------
(***************************************************************************)
(* RateLimiter for TLC: one attempt per account and window, two per        *)
(* address.                                                                *)
(***************************************************************************)
EXTENDS RateLimiter, TLC

CONSTANTS t1, t2, a1, ip1

Limits == (a1 :> 1) @@ (ip1 :> 2)

Symmetry == Permutations({t1, t2})
=============================================================================

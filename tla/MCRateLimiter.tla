--------------------------- MODULE MCRateLimiter ---------------------------
(* RateLimiter on a few requests and keys. *)
EXTENDS RateLimiter, TLC

CONSTANTS r1, r2, r3, k1, k2, k3

Symmetry == Permutations(Requests) \cup Permutations(Keys)

=============================================================================

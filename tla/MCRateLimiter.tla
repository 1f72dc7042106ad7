--------------------------- MODULE MCRateLimiter ---------------------------
(* RateLimiter for TLC: five requests, two allowed in three milliseconds. *)
EXTENDS RateLimiter, TLC
CONSTANTS r1, r2, r3, r4, r5
MCRequest == {r1, r2, r3, r4, r5}
RequestSymmetry == Permutations(MCRequest)
=============================================================================

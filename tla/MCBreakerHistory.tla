-------------------------- MODULE MCBreakerHistory --------------------------
(* BreakerHistory for TLC, and the mutants of the breaker's functions. *)
EXTENDS BreakerHistory, TLC
CONSTANTS c1, c2
MCCall == {c1, c2}
CallSymmetry == Permutations(MCCall)
=============================================================================

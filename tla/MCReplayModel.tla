--------------------------- MODULE MCReplayModel ---------------------------
(* ReplayModel for TLC: three requests, of the same words or of others. *)
EXTENDS ReplayModel, TLC
CONSTANTS r1, r2, r3, k1, k2
MCRequest == {r1, r2, r3}
MCKey == {k1, k2}
ReplaySymmetry == Permutations(MCRequest) \cup Permutations(MCKey)
=============================================================================

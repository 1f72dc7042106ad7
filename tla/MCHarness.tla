----------------------------- MODULE MCHarness -----------------------------
(* Harness for TLC: three calls, of a plain tool under two keys, of a gated   *)
(* one and of one that is not registered; c3's role may not use the gated     *)
(* tool.                                                                      *)
EXTENDS Harness, TLC
CONSTANTS c1, c2, c3, k1, k2, k3, k4, plain, gated, absent
MCCall == {c1, c2, c3}
MCKey == {k1, k2, k3, k4}
MCTool == {plain, gated, absent}
MCToolOf == (k1 :> plain @@ k2 :> plain @@ k3 :> gated @@ k4 :> absent)
MCScope == [c \in MCCall |-> IF c = c3 THEN {plain, absent} ELSE MCTool]
=============================================================================

---------------------------- MODULE MCA2AServer ----------------------------
(* A2AServer for TLC: three requests, one allowed in two milliseconds. *)
EXTENDS A2AServer
CONSTANTS r1, r2, r3
MCRequest == {r1, r2, r3}
MCStatedDepths == {-1, 1}
=============================================================================

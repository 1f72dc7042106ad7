---------------------------- MODULE MCEvalSuite ----------------------------
(* EvalSuite for TLC: two seeds, a lead with two subagents. *)
EXTENDS EvalSuite
MCScript == <<"search">>
MockScript == <<"search", "write">>
MCSub == {"sub-1", "sub-2"}
=============================================================================

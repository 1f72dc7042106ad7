---------------------------- MODULE MCAgentLoop ----------------------------
(* AgentLoop for TLC: two agents and one tool. *)
EXTENDS AgentLoop
CONSTANTS a1, a2, search
MCAgent == {a1, a2}
=============================================================================

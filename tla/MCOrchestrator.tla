--------------------------- MODULE MCOrchestrator ---------------------------
(* Orchestrator for TLC: two tasks, in either runtime; the disk may fail in   *)
(* the Python one.                                                            *)
EXTENDS Orchestrator
CONSTANTS t1, t2
MCTask == {t1, t2}
BothRuntimes == {"python", "typescript"}
OnlyPython == {"python"}
Nowhere == {}
MCDepths == {1, 2}
=============================================================================

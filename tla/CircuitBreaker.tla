--------------------------- MODULE CircuitBreaker ---------------------------
(***************************************************************************)
(* ToolCircuitBreaker: the breaker of one tool, as the functions that the   *)
(* harness applies to its state.  The runtimes keep one such state per tool *)
(* name; this module says nothing of where it is stored.                    *)
(*                                                                          *)
(* A failure is a pair <<time, call>>.  The code appends bare times to a    *)
(* list and only ever counts and prunes them; the call keeps two failures   *)
(* of one instant apart in a set.                                           *)
(***************************************************************************)
EXTENDS Integers, FiniteSets

CONSTANTS
    FailureThreshold,   \* failures within the window that open the breaker
    WindowMs,           \* length of the rolling window, in clock ticks
    CooldownMs          \* how long it stays open, in clock ticks

ASSUME BreakerOptionsAssumption ==
    /\ FailureThreshold \in Nat \ {0}
    /\ WindowMs \in Nat \ {0}
    /\ CooldownMs \in Nat \ {0}

Never == -1             \* opened_at holds no entry for the tool

\* The state of a tool that has no entry in either dictionary.
Closed == [failures |-> {}, openedAt |-> Never]

\* The set of breaker states over the failing calls of a set C.
BreakerState(C) == [failures : SUBSET (Nat \X C), openedAt : Nat \cup {Never}]

(***************************************************************************)
(* is_open(tool, now): its answer, and the state it leaves behind.  An      *)
(* elapsed cooldown clears both dictionaries on the way.                    *)
(***************************************************************************)
CooledDown(b, now) == b.openedAt # Never /\ now - b.openedAt >= CooldownMs

IsOpen(b, now) == b.openedAt # Never /\ now - b.openedAt < CooldownMs

AfterIsOpen(b, now) == IF CooledDown(b, now) THEN Closed ELSE b

\* record_success(tool).
AfterSuccess(b) == Closed

\* Mutant of Recent: the window is closed at its old end.
RecentOffByOne(b, now) == {f \in b.failures : f[1] >= now - WindowMs}

\* The failures of b that still count at time now.
Recent(b, now) == {f \in b.failures : f[1] > now - WindowMs}

AfterFailure(b, now, c) ==
    LET recent == Recent(b, now) \cup {<<now, c>>}
    IN  [failures |-> recent,
         openedAt |-> IF Cardinality(recent) >= FailureThreshold
                      THEN now ELSE b.openedAt]
=============================================================================

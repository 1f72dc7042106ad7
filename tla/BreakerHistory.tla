--------------------------- MODULE BreakerHistory ---------------------------
(***************************************************************************)
(* One tool's breaker under any legal sequence of calls of its API, beside  *)
(* the complete record of the failures reported since it was last cleared.  *)
(* The breaker prunes its list on every failure; the record never forgets.  *)
(* The two must agree on when the breaker opened.                           *)
(***************************************************************************)
EXTENDS CircuitBreaker

CONSTANTS
    Call,           \* the calls whose failures are reported
    MaxTime         \* bound: the clock stops here

ASSUME HistoryAssumption == MaxTime \in Nat

VARIABLES
    now,            \* the clock that _now() reads
    breaker,        \* the tool's breaker
    history         \* history variable: every failure since the last clearing

vars == <<now, breaker, history>>

TypeOK ==
    /\ now \in Nat
    /\ breaker \in BreakerState(Call)
    /\ history \in SUBSET (Nat \X Call)
    /\ breaker.openedAt <= now
    /\ \A f \in history : f[1] <= now

Init ==
    /\ now = 0
    /\ breaker = Closed
    /\ history = {}

\* is_open: only an elapsed cooldown changes anything.
Check ==
    /\ CooledDown(breaker, now)
    /\ breaker' = AfterIsOpen(breaker, now)
    /\ history' = {}
    /\ UNCHANGED now

RecordSuccess ==
    /\ breaker' = AfterSuccess(breaker)
    /\ history' = {}
    /\ UNCHANGED now

\* A call reports at most one failure per instant.
RecordFailure(c) ==
    /\ <<now, c>> \notin history
    /\ breaker' = AfterFailure(breaker, now, c)
    /\ history' = history \cup {<<now, c>>}
    /\ UNCHANGED now

Tick ==
    /\ now < MaxTime
    /\ now' = now + 1
    /\ UNCHANGED <<breaker, history>>

Next ==
    \/ Check
    \/ RecordSuccess
    \/ \E c \in Call : RecordFailure(c)
    \/ Tick

Spec == Init /\ [][Next]_vars
-----------------------------------------------------------------------------
\* The failures on record in the window that ends at time t.
InWindow(t) == {f \in history : f[1] > t - WindowMs /\ f[1] <= t}

\* The instants at which the record shows a burst: a failure that completes a
\* window of at least FailureThreshold failures.
Bursts == {t \in {f[1] : f \in history} : Cardinality(InWindow(t)) >= FailureThreshold}

(* The breaker is open exactly when the full record holds a burst, and it     *)
(* dates its opening from the latest one: pruning the list on every failure   *)
(* neither loses a failure that still counts nor keeps one that no longer     *)
(* does, however failures, successes, checks and time interleave.             *)
OpensExactlyOnBursts ==
    /\ breaker.openedAt = Never <=> Bursts = {}
    /\ breaker.openedAt # Never =>
          /\ breaker.openedAt \in Bursts
          /\ \A t \in Bursts : t <= breaker.openedAt

(* The pruned list is the tail of the record: exactly the failures within one *)
(* window of every failure on record, so of the latest.                       *)
PrunedListIsTheTail ==
    breaker.failures =
        {f \in history : \A g \in history : f[1] > g[1] - WindowMs}

\* The inductive invariant behind OpensExactlyOnBursts.
IInv ==
    /\ TypeOK
    /\ IsFiniteSet(history)
    /\ PrunedListIsTheTail
    /\ OpensExactlyOnBursts
=============================================================================

--------------------------- MODULE BreakerProofs ---------------------------
(***************************************************************************)
(* The breaker opens exactly on bursts, for every threshold, window and     *)
(* cooldown, and every set of calls.                                        *)
(***************************************************************************)
EXTENDS BreakerHistory, FiniteSetTheorems, TLAPS

LEMMA CleanIInv ==
    ASSUME now \in Nat, breaker = Closed, history = {}
    PROVE  IInv
<1>1. TypeOK
  BY DEF TypeOK, Closed, Never, BreakerState
<1>2. IsFiniteSet(history)
  BY FS_EmptySet
<1> QED
  BY <1>1, <1>2
  DEF IInv, PrunedListIsTheTail, OpensExactlyOnBursts, Bursts, Closed, Never

(***************************************************************************)
(* Reporting a failure: what the breaker keeps is the window that ends now, *)
(* so it counts what the record counts, and no other window changes.        *)
(***************************************************************************)
LEMMA FailureStep ==
    ASSUME IInv, NEW c \in Call, RecordFailure(c)
    PROVE  IInv'
<1> DEFINE f0 == <<now, c>>
           recent == Recent(breaker, now) \cup {f0}
<1>1. /\ now \in Nat /\ now' = now /\ history' = history \cup {f0}
      /\ breaker \in BreakerState(Call) /\ breaker' = AfterFailure(breaker, now, c)
      /\ history \in SUBSET (Nat \X Call) /\ \A f \in history : f[1] <= now
      /\ breaker.openedAt <= now /\ breaker.openedAt \in Nat \cup {Never}
  BY DEF IInv, TypeOK, RecordFailure, BreakerState
<1>2. /\ breaker'.failures = recent
      /\ breaker'.openedAt = IF Cardinality(recent) >= FailureThreshold
                             THEN now ELSE breaker.openedAt
  BY <1>1 DEF AfterFailure
<1>3. /\ WindowMs \in Nat /\ WindowMs > 0 /\ FailureThreshold \in Nat /\ FailureThreshold > 0
  BY BreakerOptionsAssumption
<1>4. recent = InWindow(now)'
  <2>1. \A f \in history : f[1] \in Nat /\ f[1] <= now
    BY <1>1
  <2>2. Recent(breaker, now) = {f \in history : f[1] > now - WindowMs}
    <3>1. \A f \in history : f[1] > now - WindowMs => f \in breaker.failures
      BY <1>1, <1>3, <2>1 DEF IInv, PrunedListIsTheTail
    <3> QED
      BY <3>1 DEF Recent, IInv, PrunedListIsTheTail
  <2>3. f0[1] = now /\ now > now - WindowMs
    BY <1>1, <1>3
  <2> QED
    BY <1>1, <2>1, <2>2, <2>3 DEF InWindow
<1>5. recent = {f \in history' : \A g \in history' : f[1] > g[1] - WindowMs}
  <2>1. \A g \in history' : g[1] \in Nat /\ g[1] <= now
    BY <1>1
  <2>2. f0 \in history' /\ f0[1] = now
    BY <1>1
  <2>3. recent = {f \in history' : f[1] > now - WindowMs}
    BY <1>1, <1>4, <2>1 DEF InWindow
  <2> QED
    BY <1>3, <2>1, <2>2, <2>3
<1>6. IsFiniteSet(history')
  BY <1>1, FS_AddElement DEF IInv
<1>7. /\ IsFiniteSet(recent) /\ Cardinality(recent) \in Nat
      /\ Cardinality(InWindow(now)) \in Nat
      /\ Cardinality(InWindow(now)) <= Cardinality(recent)
  <2>1. recent \subseteq history'
    BY <1>5
  <2>2. IsFiniteSet(recent)
    BY <1>6, <2>1, FS_Subset
  <2>3. InWindow(now) \subseteq recent
    BY <1>1, <1>4 DEF InWindow
  <2> QED
    BY <2>2, <2>3, FS_Subset, FS_CardinalityType
<1>8. TypeOK'
  <2>1. recent \in SUBSET (Nat \X Call)
    BY <1>1, <1>5
  <2>2. breaker' \in BreakerState(Call)
    BY <1>1, <2>1 DEF AfterFailure, BreakerState
  <2> QED
    BY <1>1, <1>2, <2>2 DEF TypeOK
<1>9. \A t \in Nat : t < now => InWindow(t)' = InWindow(t)
  BY <1>1 DEF InWindow
<1>10. Bursts' = IF Cardinality(recent) >= FailureThreshold THEN Bursts \cup {now} ELSE Bursts
  <2>1. {f[1] : f \in history'} = {f[1] : f \in history} \cup {now}
    <3>1. f0[1] = now
      OBVIOUS
    <3>2. \A t : t \in {f[1] : f \in history \cup {f0}} <=>
                 t \in {f[1] : f \in history} \cup {now}
      BY <3>1
    <3>3. {f[1] : f \in history \cup {f0}} = {f[1] : f \in history} \cup {now}
      BY <3>2
    <3> QED
      BY <1>1, <3>3
  <2>2. \A t \in {f[1] : f \in history} : t \in Nat /\ t <= now
    BY <1>1
  <2>3. now \in Bursts' <=> Cardinality(recent) >= FailureThreshold
    <3>1. recent = {f \in history' : f[1] > now - WindowMs /\ f[1] <= now}
      BY <1>1, <1>4 DEF InWindow
    <3>2. now \in Bursts' <=>
             /\ now \in {f[1] : f \in history'}
             /\ Cardinality({f \in history' : f[1] > now - WindowMs /\ f[1] <= now})
                   >= FailureThreshold
      BY DEF Bursts, InWindow
    <3> QED
      BY <2>1, <3>1, <3>2
  <2>4. now \in Bursts => Cardinality(recent) >= FailureThreshold
    BY <1>1, <1>3, <1>7 DEF Bursts
  <2>5. \A t : t # now => (t \in Bursts' <=> t \in Bursts)
    BY <1>1, <1>9, <2>1, <2>2 DEF Bursts
  <2> QED
    BY <2>3, <2>4, <2>5
<1>11. OpensExactlyOnBursts'
  <2>1. \A t \in Bursts : t \in Nat /\ t <= now
    BY <1>1 DEF Bursts
  <2>2. CASE Cardinality(recent) >= FailureThreshold
    BY <1>1, <1>2, <1>10, <2>1, <2>2 DEF OpensExactlyOnBursts, Never
  <2>3. CASE ~(Cardinality(recent) >= FailureThreshold)
    BY <1>2, <1>10, <2>3 DEF OpensExactlyOnBursts, IInv
  <2> QED
    BY <2>2, <2>3
<1> QED
  BY <1>2, <1>5, <1>6, <1>8, <1>11 DEF IInv, PrunedListIsTheTail

LEMMA NextIInv == IInv /\ [Next]_vars => IInv'
<1> SUFFICES ASSUME IInv, [Next]_vars PROVE IInv'
  OBVIOUS
<1>1. CASE Check \/ RecordSuccess
  <2>1. breaker' = Closed /\ history' = {} /\ now' \in Nat
    BY <1>1 DEF Check, RecordSuccess, AfterIsOpen, AfterSuccess, IInv, TypeOK
  <2>2. TypeOK' /\ IsFiniteSet(history')
    BY <2>1, FS_EmptySet DEF TypeOK, Closed, Never, BreakerState
  <2> QED
    BY <2>1, <2>2
    DEF IInv, PrunedListIsTheTail, OpensExactlyOnBursts, Bursts, Closed, Never
<1>2. ASSUME NEW c \in Call, RecordFailure(c) PROVE IInv'
  BY <1>2, FailureStep
<1>3. CASE Tick
  <2>1. now' = now + 1 /\ breaker' = breaker /\ history' = history
    BY <1>3 DEF Tick
  <2>2. TypeOK'
    BY <2>1 DEF IInv, TypeOK, BreakerState, Never
  <2> QED
    BY <2>1, <2>2 DEF IInv, PrunedListIsTheTail, OpensExactlyOnBursts, Bursts, InWindow
<1>4. CASE UNCHANGED vars
  BY <1>4 DEF vars, IInv, TypeOK, PrunedListIsTheTail, OpensExactlyOnBursts, Bursts, InWindow
<1> QED
  BY <1>1, <1>2, <1>3, <1>4 DEF Next
-----------------------------------------------------------------------------
(* The breaker is open exactly when the complete record of failures since its *)
(* last clearing holds a window of FailureThreshold of them, and it dates its *)
(* opening from the latest such window: the list it prunes loses nothing.     *)
THEOREM BreakerOpensOnBursts == Spec => []OpensExactlyOnBursts
<1>1. Init => IInv
  BY CleanIInv DEF Init
<1>2. IInv => OpensExactlyOnBursts
  BY DEF IInv
<1> QED
  BY <1>1, <1>2, NextIInv, PTL DEF Spec
=============================================================================

------------------------- MODULE OrchestratorProofs -------------------------
(***************************************************************************)
(* What may be found on disk and what a complete call means, for every set  *)
(* of tasks, every cap, any number of crashes and failed writes, in both    *)
(* runtimes.                                                                *)
(*                                                                          *)
(* StageInv says what each stage of a child has established: only an ok     *)
(* result is on its way to the disk, and a call that returned a result has  *)
(* no child that is not done.  What a call that raises leaves behind is     *)
(* followed on top of it: by Lasting what it may do to the disk, by WorkInv *)
(* how much of it there is.                                                 *)
(***************************************************************************)
EXTENDS Orchestrator, FiniteSetTheorems, TLAPS

USE OrchestratorAssumption

SavesOkResults == \A x \in Child : Saving(x) => result[x] = "ok"

OnlyStartedCallsHaveChildren ==
    /\ \A x \in Child : pc[x] # "none" => x[1] <= spawns
    /\ \A s \in Spawn : returned[s] # "none" => s <= spawns
    /\ phase = "waiting" => spawns \in Spawn /\ returned[spawns] = "none"

ReturnedCallsAreDone ==
    \A x \in Child :
        /\ returned[x[1]] \in {"complete", "partial"} => pc[x] \in {"none", "done"}
        /\ returned[x[1]] = "complete" /\ pc[x] = "done" => result[x] = "ok"

AttemptsAddUp ==
    \A x \in Child :
        /\ pc[x] \in {"none", "load"} => tries[x] = 0
        /\ pc[x] = "run" =>
              /\ tries[x] >= 1
              /\ IF SubagentRetries > 1
                 THEN left[x] >= 1 /\ tries[x] + left[x] = SubagentRetries + 1
                 ELSE tries[x] = 1 /\ left[x] = SubagentRetries

StageInv ==
    /\ TypeOK
    /\ SavesOkResults
    /\ OnlyStartedCallsHaveChildren
    /\ ReturnedCallsAreDone
    /\ AttemptsAddUp
    /\ AttemptsAreBounded
    /\ OnlyOkIsCheckpointed
-----------------------------------------------------------------------------
LEMMA ChildFields == \A x \in Child : x[1] \in Spawn /\ x[2] \in Task
BY DEF Child

LEMMA SpawnsAreNumbers == Spawn \subseteq Nat /\ \A s \in Spawn : s <= MaxSpawns
BY DEF Spawn

LEMMA InitStageInv == Init => StageInv
BY ChildFields
   DEF Init, NoneYet, Zero, NoneReturned, StageInv, TypeOK, ResultStatus, SavesOkResults, Saving,
       OnlyStartedCallsHaveChildren, ReturnedCallsAreDone, AttemptsAddUp,
       AttemptsAreBounded, OnlyOkIsCheckpointed

(* Whoever has come no further than the calls so far is before the next.      *)
LEMMA BeforeNextSpawn ==
    ASSUME spawns \in Nat, NEW s \in Spawn, s <= spawns
    PROVE  s <= spawns + 1
BY SpawnsAreNumbers

(* A new call: its children were never started before.                        *)
LEMMA SpawnKeepsStageInv ==
    ASSUME StageInv, NEW tasks \in SUBSET Task, NEW depth \in Depths, SpawnSubagents(tasks, depth)
    PROVE  StageInv'
<1> USE DEF StageInv
<1> DEFINE s == spawns + 1
<1>1. /\ s \in Spawn /\ spawns' = s /\ spawns \in Nat /\ s > spawns
      /\ UNCHANGED <<left, tries, result, file, completed, crashes, runtime>>
    BY DEF SpawnSubagents, disk, TypeOK, Spawn
<1>2. /\ returned[s] = "none"
      /\ \A x \in Child : x[1] = s => pc[x] = "none"
    BY <1>1, ChildFields DEF OnlyStartedCallsHaveChildren, Spawn
<1>3. CASE /\ phase' = "waiting" /\ UNCHANGED returned
           /\ pc' = [x \in Child |-> IF x[1] = s /\ x[2] \in tasks THEN "load" ELSE pc[x]]
    <2>1. TypeOK'
        BY <1>1, <1>3 DEF TypeOK, Spawn
    <2>2. \A x \in Child :
              pc'[x] = pc[x] \/ (pc[x] = "none" /\ pc'[x] = "load" /\ x[1] = s)
        BY <1>2, <1>3
    <2>3. OnlyStartedCallsHaveChildren'
        <3>1. \A q \in Spawn : returned[q] # "none" => q <= s
            BY <1>1, BeforeNextSpawn DEF OnlyStartedCallsHaveChildren
        <3>2. \A x \in Child : pc'[x] # "none" => x[1] <= s
            <4> SUFFICES ASSUME NEW x \in Child, pc'[x] # "none" PROVE x[1] <= s
                OBVIOUS
            <4>1. CASE x[1] = s
                BY <1>1, <4>1
            <4>2. CASE pc[x] # "none"
                BY <1>1, <4>2, ChildFields, BeforeNextSpawn DEF OnlyStartedCallsHaveChildren
            <4> QED
                BY <2>2, <4>1, <4>2
        <3> QED
            BY <1>1, <1>2, <1>3, <3>1, <3>2 DEF OnlyStartedCallsHaveChildren
    <2>4. SavesOkResults' /\ AttemptsAddUp' /\ AttemptsAreBounded' /\ OnlyOkIsCheckpointed'
        BY <1>1, <2>2 DEF SavesOkResults, Saving, AttemptsAddUp, AttemptsAreBounded, OnlyOkIsCheckpointed
    <2>5. ReturnedCallsAreDone'
        BY <1>1, <1>2, <1>3, <2>2 DEF ReturnedCallsAreDone
    <2> QED
        BY <2>1, <2>3, <2>4, <2>5
<1>4. CASE returned' = [returned EXCEPT ![s] = "refused"] /\ UNCHANGED <<phase, pc>>
    <2>0. phase = "thinking"
        BY DEF SpawnSubagents
    <2>1. TypeOK'
        BY <1>1, <1>4 DEF TypeOK, Spawn
    <2>2. OnlyStartedCallsHaveChildren'
        <3>1. \A q \in Spawn : returned'[q] # "none" => q = s \/ returned[q] # "none"
            BY <1>1, <1>4 DEF TypeOK
        <3>2. \A q \in Spawn : returned'[q] # "none" => q <= s
            <4> SUFFICES ASSUME NEW q \in Spawn, returned'[q] # "none" PROVE q <= s
                OBVIOUS
            <4>1. CASE q = s
                BY <4>1, SpawnsAreNumbers
            <4>2. CASE returned[q] # "none"
                <5>1. q <= spawns
                    BY <4>2 DEF OnlyStartedCallsHaveChildren
                <5> QED
                    BY <1>1, <5>1, BeforeNextSpawn
            <4> QED
                BY <3>1, <4>1, <4>2
        <3>3. \A x \in Child : pc[x] # "none" => x[1] <= s
            BY <1>1, ChildFields, BeforeNextSpawn DEF OnlyStartedCallsHaveChildren
        <3> QED
            BY <1>1, <1>4, <2>0, <3>2, <3>3 DEF OnlyStartedCallsHaveChildren
    <2>3. SavesOkResults' /\ AttemptsAddUp' /\ AttemptsAreBounded' /\ OnlyOkIsCheckpointed'
        BY <1>1, <1>4 DEF SavesOkResults, Saving, AttemptsAddUp, AttemptsAreBounded, OnlyOkIsCheckpointed
    <2>4. ReturnedCallsAreDone'
        BY <1>1, <1>4, ChildFields DEF ReturnedCallsAreDone, TypeOK
    <2> QED
        BY <2>1, <2>2, <2>3, <2>4
<1> QED
    BY <1>3, <1>4 DEF SpawnSubagents

(* A step of one child x that is not done: it moves from a stage to the next, *)
(* and nothing else of the process or the disk changes.                       *)
LEMMA OneChildMoves ==
    ASSUME StageInv, NEW x \in Child, pc[x] \notin {"none", "done"},
           UNCHANGED <<phase, spawns, returned, crashes, runtime>>,
           TypeOK',
           \A y \in Child \ {x} : pc'[y] = pc[y] /\ result'[y] = result[y] /\ left'[y] = left[y] /\ tries'[y] = tries[y],
           pc'[x] # "none",
           pc'[x] \in {"save", "saving"} => result'[x] = "ok",
           OnlyOkIsCheckpointed',
           AttemptsAddUp', AttemptsAreBounded'
    PROVE  StageInv'
<1> USE DEF StageInv
<1>1. SavesOkResults'
    BY DEF SavesOkResults, Saving
<1>3. OnlyStartedCallsHaveChildren'
    BY DEF OnlyStartedCallsHaveChildren
<1>4. ReturnedCallsAreDone'
    <2>1. returned[x[1]] \notin {"complete", "partial"}
        BY DEF ReturnedCallsAreDone
    <2> QED
        BY <2>1 DEF ReturnedCallsAreDone
<1> QED
    BY <1>1, <1>3, <1>4

(* An attempt starts: the first, or the next of a child with attempts left.   *)
LEMMA AttemptsStillAddUp ==
    ASSUME StageInv, NEW x \in Child, NEW attempts \in Int, StartAttempt(x, attempts),
           \/ pc[x] = "load" /\ attempts = SubagentRetries
           \/ pc[x] = "run" /\ left[x] > 1 /\ attempts = left[x] - 1
    PROVE  AttemptsAddUp' /\ AttemptsAreBounded'
<1> USE DEF StageInv, TypeOK
<1>1. /\ pc' = [pc EXCEPT ![x] = "run"] /\ left' = [left EXCEPT ![x] = attempts]
      /\ tries' = [tries EXCEPT ![x] = tries[x] + 1]
    BY DEF StartAttempt
<1>2. /\ pc'[x] = "run" /\ left'[x] = attempts /\ tries'[x] = tries[x] + 1
      /\ tries[x] \in Nat /\ left[x] \in Int
    BY <1>1
<1>3. /\ tries'[x] >= 1
      /\ IF SubagentRetries > 1
         THEN left'[x] >= 1 /\ tries'[x] + left'[x] = SubagentRetries + 1
         ELSE tries'[x] = 1 /\ left'[x] = SubagentRetries
    <2>1. CASE pc[x] = "load" /\ attempts = SubagentRetries
        <3>1. tries[x] = 0
            BY <2>1 DEF AttemptsAddUp
        <3> QED
            BY <1>2, <2>1, <3>1
    <2>2. CASE pc[x] = "run" /\ left[x] > 1 /\ attempts = left[x] - 1
        <3>1. SubagentRetries > 1 /\ tries[x] + left[x] = SubagentRetries + 1
            BY <2>2 DEF AttemptsAddUp
        <3> QED
            BY <1>2, <2>2, <3>1
    <2> QED
        BY <2>1, <2>2
<1>4. \A y \in Child \ {x} : pc'[y] = pc[y] /\ left'[y] = left[y] /\ tries'[y] = tries[y]
    BY <1>1
<1>5. AttemptsAddUp'
    BY <1>2, <1>3, <1>4 DEF AttemptsAddUp
<1>6. AttemptsAreBounded'
    BY <1>2, <1>3, <1>4 DEF AttemptsAreBounded
<1> QED
    BY <1>5, <1>6

(* A child that does not start an attempt keeps its counts.                   *)
LEMMA NoNewAttempt ==
    ASSUME StageInv, NEW x \in Child, UNCHANGED <<left, tries>>,
           \A y \in Child \ {x} : pc'[y] = pc[y],
           pc'[x] \notin {"none", "load", "run"}
    PROVE  AttemptsAddUp' /\ AttemptsAreBounded'
BY DEF StageInv, AttemptsAddUp, AttemptsAreBounded

LEMMA LoadKeepsStageInv ==
    ASSUME StageInv, NEW x \in Child, Load(x)
    PROVE  StageInv'
<1> USE DEF StageInv
<1>1. /\ pc[x] = "load" /\ UNCHANGED <<phase, spawns, returned, file, completed, crashes, runtime>>
      /\ x[2] \in Task
    BY ChildFields DEF Load, disk
<1>2. OnlyOkIsCheckpointed'
    BY <1>1 DEF OnlyOkIsCheckpointed, TypeOK
<1>3. CASE Restorable(x[2]) /\ Restore(x)
    <2>1. TypeOK'
        BY <1>1, <1>3 DEF Restore, Restorable, TypeOK
    <2>2. pc'[x] = "done" /\ result'[x] = file[x[2]] /\ UNCHANGED <<left, tries>>
          /\ \A y \in Child \ {x} : pc'[y] = pc[y] /\ result'[y] = result[y]
        BY <1>3 DEF Restore, TypeOK
    <2>3. AttemptsAddUp' /\ AttemptsAreBounded'
        BY <2>2, NoNewAttempt
    <2> QED
        BY <1>1, <1>2, <2>1, <2>2, <2>3, OneChildMoves
<1>4. CASE LoadRaises(x[2]) /\ FailChild(x)
    <2>1. TypeOK'
        BY <1>1, <1>4 DEF FailChild, TypeOK
    <2>2. pc'[x] = "raised" /\ UNCHANGED <<left, tries, result>>
          /\ \A y \in Child \ {x} : pc'[y] = pc[y]
        BY <1>4 DEF FailChild, TypeOK
    <2>3. AttemptsAddUp' /\ AttemptsAreBounded'
        BY <2>2, NoNewAttempt
    <2> QED
        BY <1>1, <1>2, <2>1, <2>2, <2>3, OneChildMoves
<1>5. CASE StartAttempt(x, SubagentRetries)
    <2>1. TypeOK'
        BY <1>1, <1>5 DEF StartAttempt, TypeOK
    <2>2. pc'[x] = "run" /\ result' = result
          /\ \A y \in Child \ {x} : pc'[y] = pc[y] /\ left'[y] = left[y] /\ tries'[y] = tries[y]
        BY <1>5 DEF StartAttempt, TypeOK
    <2>3. AttemptsAddUp' /\ AttemptsAreBounded'
        BY <1>1, <1>5, AttemptsStillAddUp
    <2> QED
        BY <1>1, <1>2, <2>1, <2>2, <2>3, OneChildMoves
<1> QED
    BY <1>3, <1>4, <1>5 DEF Load

LEMMA AttemptEndsKeepsStageInv ==
    ASSUME StageInv, NEW x \in Child, AttemptEnds(x)
    PROVE  StageInv'
<1> USE DEF StageInv
<1>1. pc[x] = "run" /\ UNCHANGED <<phase, spawns, returned, file, completed, crashes, runtime>>
    BY DEF AttemptEnds, disk
<1>2. OnlyOkIsCheckpointed'
    BY <1>1 DEF OnlyOkIsCheckpointed, TypeOK
<1>3. ASSUME NEW status \in ResultStatus, EndWith(x, status)
      PROVE  StageInv'
    <2>1. TypeOK'
        BY <1>1, <1>3 DEF EndWith, TypeOK
    <2>2. /\ pc'[x] \in {"save", "done"} /\ (pc'[x] = "save" <=> result'[x] = "ok")
          /\ UNCHANGED <<left, tries>>
          /\ \A y \in Child \ {x} : pc'[y] = pc[y] /\ result'[y] = result[y]
        BY <1>3 DEF EndWith, Checkpointed, TypeOK
    <2>3. AttemptsAddUp' /\ AttemptsAreBounded'
        BY <2>2, NoNewAttempt
    <2> QED
        BY <1>1, <1>2, <2>1, <2>2, <2>3, OneChildMoves
<1>4. CASE Retries(x) /\ StartAttempt(x, left[x] - 1)
    <2>1. left[x] \in Int
        BY DEF TypeOK
    <2>2. TypeOK'
        BY <1>1, <1>4, <2>1 DEF StartAttempt, TypeOK
    <2>3. pc'[x] = "run" /\ result' = result
          /\ \A y \in Child \ {x} : pc'[y] = pc[y] /\ left'[y] = left[y] /\ tries'[y] = tries[y]
        BY <1>4 DEF StartAttempt, TypeOK
    <2>4. AttemptsAddUp' /\ AttemptsAreBounded'
        BY <1>1, <1>4, <2>1, AttemptsStillAddUp DEF Retries
    <2> QED
        BY <1>1, <1>2, <2>2, <2>3, <2>4, OneChildMoves
<1> QED
    BY <1>3, <1>4 DEF AttemptEnds, ResultStatus

LEMMA SaveKeepsStageInv ==
    ASSUME StageInv, NEW x \in Child, BeginSave(x) \/ EndSave(x)
    PROVE  StageInv'
<1> USE DEF StageInv
<1>1. /\ pc[x] \in {"save", "saving"} /\ result[x] = "ok" /\ x[2] \in Task
      /\ UNCHANGED <<phase, spawns, returned, crashes, runtime, left, tries, result>>
    BY ChildFields DEF BeginSave, EndSave, FailChild, SavesOkResults, Saving
<1>2. CASE BeginSave(x)
    <2>1. TypeOK'
        BY <1>1, <1>2 DEF BeginSave, TypeOK
    <2>2. pc'[x] = "saving" /\ completed' = completed /\ \A y \in Child \ {x} : pc'[y] = pc[y]
        BY <1>2 DEF BeginSave, TypeOK
    <2>3. file' = [file EXCEPT ![x[2]] = "torn"]
        BY <1>2 DEF BeginSave
    <2>4. OnlyOkIsCheckpointed'
        BY <1>1, <2>2, <2>3 DEF OnlyOkIsCheckpointed, TypeOK
    <2>5. AttemptsAddUp' /\ AttemptsAreBounded'
        BY <1>1, <2>2, NoNewAttempt
    <2> QED
        BY <1>1, <2>1, <2>2, <2>4, <2>5, OneChildMoves
<1>3. CASE /\ pc' = [pc EXCEPT ![x] = "done"]
           /\ file' = [file EXCEPT ![x[2]] = result[x]]
           /\ completed' = [completed EXCEPT ![x[2]] = completed[x[2]] + 1]
    <2>1. TypeOK'
        BY <1>1, <1>3 DEF TypeOK, ResultStatus
    <2>2. pc'[x] = "done" /\ \A y \in Child \ {x} : pc'[y] = pc[y]
        BY <1>3 DEF TypeOK
    <2>3. /\ \A t \in Task : completed[t] \in Nat
          /\ completed'[x[2]] = completed[x[2]] + 1
          /\ \A t \in Task \ {x[2]} : completed'[t] = completed[t] /\ file'[t] = file[t]
          /\ file'[x[2]] = "ok"
        BY <1>1, <1>3 DEF TypeOK
    <2>5. OnlyOkIsCheckpointed'
        BY <1>1, <2>3 DEF OnlyOkIsCheckpointed
    <2>6. AttemptsAddUp' /\ AttemptsAreBounded'
        BY <1>1, <2>2, NoNewAttempt
    <2> QED
        BY <1>1, <2>1, <2>2, <2>5, <2>6, OneChildMoves
<1>4. CASE FailChild(x) /\ UNCHANGED <<file, completed>>
    <2>1. TypeOK'
        BY <1>1, <1>4 DEF FailChild, TypeOK
    <2>2. pc'[x] = "raised" /\ \A y \in Child \ {x} : pc'[y] = pc[y]
        BY <1>4 DEF FailChild, TypeOK
    <2>3. OnlyOkIsCheckpointed'
        BY <1>4 DEF OnlyOkIsCheckpointed, TypeOK
    <2>4. AttemptsAddUp' /\ AttemptsAreBounded'
        BY <1>1, <2>2, NoNewAttempt
    <2> QED
        BY <1>1, <1>4, <2>1, <2>2, <2>3, <2>4, OneChildMoves
<1> QED
    BY <1>2, <1>3, <1>4 DEF EndSave, disk

(* The call ends: complete only if every child is done and ok.                *)
LEMMA GatherKeepsStageInv ==
    ASSUME StageInv, Gather
    PROVE  StageInv'
<1> USE DEF StageInv
<1>1. /\ phase = "waiting" /\ phase' = "thinking" /\ spawns \in Spawn
      /\ UNCHANGED <<spawns, pc, left, tries, result, file, completed, crashes, runtime>>
    BY DEF Gather, disk, OnlyStartedCallsHaveChildren
<1>2. PICK r \in {"raised", "partial", "complete"} :
          /\ returned' = [returned EXCEPT ![spawns] = r]
          /\ r # "raised" => \A y \in ChildrenOf(spawns) : pc[y] = "done"
          /\ r = "complete" => ~IsPartial(spawns)
    BY DEF Gather
<1>3. TypeOK'
    BY <1>1, <1>2 DEF TypeOK
<1>4. OnlyStartedCallsHaveChildren'
    BY <1>1, <1>2, SpawnsAreNumbers DEF OnlyStartedCallsHaveChildren, TypeOK
<1>5. ReturnedCallsAreDone'
    <2> SUFFICES ASSUME NEW x \in Child
                 PROVE  /\ returned'[x[1]] \in {"complete", "partial"} => pc[x] \in {"none", "done"}
                        /\ returned'[x[1]] = "complete" /\ pc[x] = "done" => result[x] = "ok"
        BY <1>1 DEF ReturnedCallsAreDone
    <2>1. CASE x[1] # spawns
        BY <1>2, <2>1, ChildFields DEF ReturnedCallsAreDone, TypeOK
    <2>2. CASE x[1] = spawns
        <3>1. returned'[x[1]] = r
            BY <1>1, <1>2, <2>2 DEF TypeOK
        <3>2. pc[x] # "none" => x \in ChildrenOf(spawns)
            BY <2>2 DEF ChildrenOf
        <3> QED
            BY <1>2, <3>1, <3>2 DEF IsPartial
    <2> QED
        BY <2>1, <2>2
<1>6. SavesOkResults' /\ AttemptsAddUp' /\ AttemptsAreBounded' /\ OnlyOkIsCheckpointed'
    BY <1>1 DEF SavesOkResults, Saving, AttemptsAddUp, AttemptsAreBounded, OnlyOkIsCheckpointed
<1> QED
    BY <1>3, <1>4, <1>5, <1>6

(* A crash leaves the disk, and that alone must satisfy the invariant.        *)
LEMMA CrashKeepsStageInv ==
    ASSUME StageInv, Crash
    PROVE  StageInv'
<1> USE DEF StageInv
<1>1. TypeOK'
    BY DEF Crash, disk, TypeOK, NoneYet, Zero, NoneReturned
<1>2. OnlyOkIsCheckpointed'
    BY DEF Crash, disk, NoneYet, OnlyOkIsCheckpointed
<1>3. SavesOkResults' /\ OnlyStartedCallsHaveChildren' /\ ReturnedCallsAreDone' /\ AttemptsAddUp'
    BY ChildFields DEF Crash, NoneYet, Zero, NoneReturned, SavesOkResults, Saving, OnlyStartedCallsHaveChildren,
           ReturnedCallsAreDone, AttemptsAddUp
<1>4. AttemptsAreBounded'
    BY DEF Crash, Zero, AttemptsAreBounded
<1> QED
    BY <1>1, <1>2, <1>3, <1>4

LEMMA ResumeKeepsStageInv ==
    ASSUME StageInv, Resume \/ UNCHANGED vars
    PROVE  StageInv'
<1>1. /\ UNCHANGED <<spawns, pc, left, tries, result, returned, file, completed, crashes, runtime>>
      /\ phase' \in {phase, "thinking"}
    BY DEF Resume, disk, vars
<1> QED
    BY <1>1 DEF StageInv, TypeOK, SavesOkResults, Saving, OnlyStartedCallsHaveChildren,
                ReturnedCallsAreDone, AttemptsAddUp, AttemptsAreBounded, OnlyOkIsCheckpointed

LEMMA NextKeepsStageInv == StageInv /\ [Next]_vars => StageInv'
<1> SUFFICES ASSUME StageInv, [Next]_vars PROVE StageInv'
    OBVIOUS
<1>1. ASSUME NEW x \in Child, ChildStep(x) PROVE StageInv'
    BY <1>1, LoadKeepsStageInv, AttemptEndsKeepsStageInv, SaveKeepsStageInv DEF ChildStep
<1>2. ASSUME NEW tasks \in SUBSET Task, NEW depth \in Depths, SpawnSubagents(tasks, depth)
      PROVE  StageInv'
    BY <1>2, SpawnKeepsStageInv
<1> QED
    BY <1>1, <1>2, GatherKeepsStageInv, CrashKeepsStageInv, ResumeKeepsStageInv DEF Next

(* The invariant of every stage of spawn_subagents.                           *)
THEOREM StageInvariance == Spec => []StageInv
BY InitStageInv, NextKeepsStageInv, PTL DEF Spec

(* What can be restored is an ok result, and only that (_run_or_restore).     *)
THEOREM OnlyOkOnDisk == Spec => []OnlyOkIsCheckpointed
<1>1. StageInv => OnlyOkIsCheckpointed
    BY DEF StageInv
<1> QED
    BY <1>1, StageInvariance, PTL

(* Retries do not add up past subagent_retries (_run_with_retry).             *)
THEOREM BoundedAttempts == Spec => []AttemptsAreBounded
<1>1. StageInv => AttemptsAreBounded
    BY DEF StageInv
<1> QED
    BY <1>1, StageInvariance, PTL

(* The state of an orchestrator has the types that TypeOK gives it.           *)
THEOREM TypeCorrect == Spec => []TypeOK
<1>1. StageInv => TypeOK
    BY DEF StageInv
<1> QED
    BY <1>1, StageInvariance, PTL
-----------------------------------------------------------------------------
(***************************************************************************)
(* Where nothing raises there are no orphans: what is at work belongs to    *)
(* the call that the lead waits for, one child to a task.                   *)
(***************************************************************************)
AtWork(x) == pc[x] \notin {"none", "done"}

Once ==
    /\ \A x \in Child : pc[x] # "raised"
    /\ CrashCostsOnlyTheUnfinished
    /\ \A x \in Child : AtWork(x) => phase = "waiting" /\ x[1] = spawns
    /\ \A x \in Child : pc[x] \in {"run", "save", "saving"} => completed[x[2]] = 0
    /\ \A t \in Task : completed[t] <= 1 /\ (completed[t] = 1 => file[t] = "ok")

OnceInv == ~Python /\ ~StoreMayFail => Once

LEMMA InitOnce == Init => OnceInv
BY DEF Init, OnceInv, Once, AtWork, NoneYet, NoneReturned, CrashCostsOnlyTheUnfinished

LEMMA OnceStep ==
    ASSUME StageInv, Once, ~Python, ~StoreMayFail, Next
    PROVE  Once'
<1> USE DEF StageInv, TypeOK
<1>1. ASSUME NEW tasks \in SUBSET Task, NEW depth \in Depths, SpawnSubagents(tasks, depth)
      PROVE  Once'
    <2>1. \A x \in Child : ~AtWork(x)
        BY <1>1 DEF SpawnSubagents, Once
    <2>2. /\ phase = "thinking" /\ spawns' = spawns + 1 /\ spawns + 1 \in Spawn
          /\ UNCHANGED <<file, completed>>
        BY <1>1 DEF SpawnSubagents, disk, Spawn
    <2>3. CASE /\ phase' = "waiting" /\ UNCHANGED returned
               /\ pc' = [x \in Child |-> IF x[1] = spawns + 1 /\ x[2] \in tasks
                                        THEN "load" ELSE pc[x]]
        BY <2>1, <2>2, <2>3 DEF Once, AtWork, CrashCostsOnlyTheUnfinished
    <2>4. CASE /\ returned' = [returned EXCEPT ![spawns + 1] = "refused"]
               /\ UNCHANGED <<phase, pc>>
        BY <2>1, <2>2, <2>4 DEF Once, AtWork, CrashCostsOnlyTheUnfinished
    <2> QED
        BY <1>1, <2>3, <2>4 DEF SpawnSubagents
<1>2. ASSUME NEW x \in Child, ChildStep(x) PROVE Once'
    <2>1. /\ AtWork(x) /\ phase = "waiting" /\ x[1] = spawns /\ x[2] \in Task
          /\ UNCHANGED <<phase, spawns, returned>>
        BY <1>2, ChildFields
        DEF ChildStep, Load, AttemptEnds, BeginSave, EndSave, Saving, Once, AtWork, FailChild
    <2>2. \A y \in Child \ {x} : AtWork(y) => y[2] # x[2]
        <3>1. \A y \in Child : y = <<y[1], y[2]>>
            BY DEF Child
        <3> QED
            BY <2>1, <3>1 DEF Once
    <2>3. ASSUME NEW to \in {"run", "save", "done"}, pc' = [pc EXCEPT ![x] = to],
                 UNCHANGED <<file, completed>>,
                 to # "done" => completed[x[2]] = 0
          PROVE  Once'
        BY <2>1, <2>3 DEF Once, AtWork, CrashCostsOnlyTheUnfinished
    <2>4. CASE Load(x)
        <3>1. ~Restorable(x[2]) => completed[x[2]] = 0
            BY <2>1 DEF Restorable, ResultStatus, Once
        <3>2. UNCHANGED <<file, completed>>
            BY <2>4 DEF Load, disk
        <3> QED
            BY <2>3, <2>4, <3>1, <3>2 DEF Load, Restore, StartAttempt, LoadRaises
    <2>5. CASE AttemptEnds(x)
        <3>1. completed[x[2]] = 0 /\ UNCHANGED <<file, completed>>
            BY <2>5 DEF AttemptEnds, disk, Once
        <3> QED
            BY <2>3, <2>5, <3>1 DEF AttemptEnds, EndWith, StartAttempt
    <2>6. CASE BeginSave(x)
        <3>1. /\ completed[x[2]] = 0 /\ UNCHANGED completed
              /\ pc' = [pc EXCEPT ![x] = "saving"] /\ file' = [file EXCEPT ![x[2]] = "torn"]
            BY <2>6 DEF BeginSave, Once
        <3> QED
            BY <2>1, <3>1 DEF Once, AtWork, CrashCostsOnlyTheUnfinished
    <2>7. CASE EndSave(x)
        <3>1. /\ completed[x[2]] = 0 /\ result[x] = "ok"
              /\ pc' = [pc EXCEPT ![x] = "done"] /\ file' = [file EXCEPT ![x[2]] = result[x]]
              /\ completed' = [completed EXCEPT ![x[2]] = completed[x[2]] + 1]
            BY <2>7 DEF EndSave, Once, SavesOkResults, Saving
        <3>2. /\ completed'[x[2]] = 1 /\ file'[x[2]] = "ok"
              /\ \A t \in Task \ {x[2]} : completed'[t] = completed[t] /\ file'[t] = file[t]
            BY <2>1, <3>1
        <3>3. \A y \in Child : y[2] \in Task
            BY ChildFields
        <3> QED
            BY <2>1, <2>2, <3>1, <3>2, <3>3 DEF Once, AtWork, CrashCostsOnlyTheUnfinished
    <2> QED
        BY <1>2, <2>4, <2>5, <2>6, <2>7 DEF ChildStep
<1>3. CASE Gather
    <2>1. /\ spawns \in Spawn /\ UNCHANGED <<spawns, pc, file, completed>>
          /\ \A x \in ChildrenOf(spawns) : pc[x] = "done"
          /\ \E r \in {"complete", "partial"} : returned' = [returned EXCEPT ![spawns] = r]
        BY <1>3 DEF Gather, disk, OnlyStartedCallsHaveChildren, Once, ChildrenOf
    <2>2. \A x \in Child : ~AtWork(x)
        BY <2>1 DEF Once, AtWork, ChildrenOf
    <2> QED
        BY <2>1, <2>2 DEF Once, AtWork, CrashCostsOnlyTheUnfinished
<1>4. CASE Crash
    BY <1>4 DEF Crash, disk, NoneYet, NoneReturned, Once, AtWork, CrashCostsOnlyTheUnfinished
<1>5. CASE Resume
    BY <1>5 DEF Resume, disk, Once, AtWork, CrashCostsOnlyTheUnfinished
<1> QED
    BY <1>1, <1>2, <1>3, <1>4, <1>5 DEF Next

LEMMA NextOnce == StageInv /\ OnceInv /\ [Next]_vars => OnceInv'
<1> SUFFICES ASSUME StageInv, OnceInv, [Next]_vars, ~Python', ~StoreMayFail' PROVE Once'
    BY DEF OnceInv
<1>1. runtime' = runtime
    BY DEF Next, SpawnSubagents, ChildStep, Load, AttemptEnds, BeginSave, EndSave, Gather, Crash,
           Resume, vars
<1>2. ~Python /\ ~StoreMayFail
    BY <1>1 DEF Python, StoreMayFail
<1>3. CASE UNCHANGED vars
    BY <1>2, <1>3 DEF OnceInv, Once, AtWork, CrashCostsOnlyTheUnfinished, vars
<1> QED
    BY <1>2, <1>3, OnceStep DEF OnceInv

(* On a disk that works the TypeScript runtime does each task's work once:    *)
(* its checkpoint is completed at most once, over all crashes and resumes,    *)
(* and no call fails because of what a crash left (_run_or_restore).          *)
THEOREM WorkIsDoneOnce == Spec => []CompletedOnceAndKept
<1>1. OnceInv => CompletedOnceAndKept
    BY DEF OnceInv, Once, CompletedOnceAndKept
<1> QED
    BY <1>1, InitOnce, NextOnce, StageInvariance, PTL DEF Spec
-----------------------------------------------------------------------------
(***************************************************************************)
(* What stays on disk.  As long as no call has raised, a child at work      *)
(* belongs to the call in hand and an ok result is left alone; after that   *)
(* an orphan may be writing over it.                                        *)
(***************************************************************************)
InHand(x) == phase = "waiting" /\ x[1] = spawns

NobodyRaised == \A s \in Spawn : returned[s] # "raised"

Kept(x) == pc[x] = "done" /\ result[x] = "ok"

Overwritten(t) == \E y \in Child : y[2] = t /\ (pc[y] = "saving" \/ SaveFailed(y))

LeftAlone(x) ==
    /\ file[x[2]] = "ok"
    /\ \A y \in Child : y # x /\ y[2] = x[2] => pc[y] \in {"none", "load", "done"}

Lasting ==
    /\ NobodyRaised => \A x \in Child : AtWork(x) => InHand(x)
    /\ NobodyRaised => \A x \in Child : Kept(x) => LeftAlone(x)
    /\ \A x \in Child : Kept(x) => file[x[2]] = "ok" \/ Overwritten(x[2])

LEMMA InitLasting == Init => Lasting
BY DEF Init, Lasting, AtWork, Kept, NoneYet

(* A child that is done ok has its task for itself, while nobody raised.      *)
LEMMA Alone ==
    ASSUME Lasting, NobodyRaised, NEW x \in Child, AtWork(x), NEW y \in Child, y # x, y[2] = x[2]
    PROVE  pc[y] \in {"none", "done"}
<1>1. x = <<x[1], x[2]>> /\ y = <<y[1], y[2]>>
    BY DEF Child
<1> QED
    BY <1>1 DEF Lasting, AtWork, InHand

LEMMA ChildStepKeepsLasting ==
    ASSUME StageInv, Lasting, NEW x \in Child, ChildStep(x)
    PROVE  Lasting'
<1> USE DEF StageInv, TypeOK
<1>1. /\ AtWork(x) /\ pc[x] # "raised" /\ x[2] \in Task
      /\ UNCHANGED <<phase, spawns, returned>>
      /\ NobodyRaised' <=> NobodyRaised
      /\ \A y \in Child : InHand(y)' <=> InHand(y)
    BY ChildFields DEF ChildStep, Load, AttemptEnds, BeginSave, EndSave, AtWork, FailChild,
                       NobodyRaised, InHand
<1>2. /\ \A y \in Child \ {x} : pc'[y] = pc[y] /\ result'[y] = result[y]
      /\ \A t \in Task \ {x[2]} : file'[t] = file[t]
    BY <1>1 DEF ChildStep, Load, AttemptEnds, BeginSave, EndSave, Restore, StartAttempt, EndWith,
                FailChild, disk
<1>3. NobodyRaised' => \A y \in Child : AtWork(y)' => InHand(y)'
    BY <1>1, <1>2 DEF Lasting, AtWork
<1>4. \A y \in Child : y[2] \in Task
    BY ChildFields
<1>5. \A y \in Child \ {x} : Kept(y)' <=> Kept(y)
    BY <1>2 DEF Kept
<1>6. \A t \in Task \ {x[2]} : Overwritten(t)' <=> Overwritten(t)
    <2> SUFFICES ASSUME NEW t \in Task \ {x[2]}, NEW y \in Child, y[2] = t
                 PROVE  pc'[y] = pc[y] /\ result'[y] = result[y]
        BY DEF Overwritten, SaveFailed
    <2> QED
        BY <1>2
<1>7. ASSUME NobodyRaised PROVE \A y \in Child \ {x} : y[2] # x[2] => (Kept(y)' => LeftAlone(y)')
    BY <1>1, <1>2, <1>4, <1>5, <1>7 DEF Lasting, LeftAlone
<1>8. \A y \in Child \ {x} : y[2] # x[2] /\ Kept(y)' => file'[y[2]] = "ok" \/ Overwritten(y[2])'
    BY <1>2, <1>4, <1>5, <1>6 DEF Lasting
\* What is left: x itself, and the other children of its task.
<1>9. SUFFICES ASSUME NEW y \in Child, y[2] = x[2], Kept(y)'
               PROVE  /\ NobodyRaised => LeftAlone(y)'
                      /\ file'[x[2]] = "ok" \/ Overwritten(x[2])'
    BY <1>1, <1>3, <1>7, <1>8 DEF Lasting
<1>10. ASSUME y = x, file'[x[2]] = "ok"
       PROVE  /\ NobodyRaised => LeftAlone(y)'
              /\ file'[x[2]] = "ok" \/ Overwritten(x[2])'
    BY <1>1, <1>2, <1>10, Alone DEF LeftAlone
<1>11. ASSUME y # x, UNCHANGED file, pc[x] = "load", pc'[x] = "done" \/ file[x[2]] # "ok"
       PROVE  /\ NobodyRaised => LeftAlone(y)'
              /\ file'[x[2]] = "ok" \/ Overwritten(x[2])'
    <2>1. Kept(y) /\ (NobodyRaised => LeftAlone(y) /\ file[x[2]] = "ok")
        BY <1>5, <1>9, <1>11 DEF Lasting, LeftAlone
    <2>2. NobodyRaised => LeftAlone(y)'
        BY <1>2, <1>9, <1>11, <2>1 DEF LeftAlone
    <2>3. Overwritten(x[2]) => Overwritten(x[2])'
        BY <1>2, <1>11 DEF Overwritten, SaveFailed
    <2> QED
        BY <1>9, <1>11, <2>1, <2>2, <2>3 DEF Lasting
<1>12. ASSUME y # x, pc[x] # "load" PROVE ~NobodyRaised
    BY <1>1, <1>5, <1>9, <1>12 DEF Lasting, LeftAlone, AtWork
<1>13. CASE Load(x)
    <2>1. pc[x] = "load" /\ UNCHANGED file
        BY <1>13 DEF Load, disk
    <2>2. CASE Restorable(x[2]) /\ Restore(x)
        <3>1. pc'[x] = "done" /\ result'[x] = file[x[2]]
            BY <2>2 DEF Restore
        <3> QED
            BY <1>9, <1>10, <1>11, <2>1, <3>1 DEF Kept
    <2>3. CASE ~Restorable(x[2]) /\ (FailChild(x) \/ StartAttempt(x, SubagentRetries))
        <3>1. pc'[x] \in {"run", "raised"} /\ file[x[2]] # "ok"
            BY <2>3 DEF FailChild, StartAttempt, Restorable, ResultStatus
        <3> QED
            BY <1>9, <1>11, <2>1, <3>1 DEF Kept
    <2> QED
        BY <1>13, <2>2, <2>3 DEF Load, LoadRaises, Restorable, ResultStatus
<1>14. CASE AttemptEnds(x)
    <2>1. /\ pc[x] = "run" /\ UNCHANGED file
          /\ pc'[x] \in {"run", "save"} \/ (pc'[x] = "done" /\ result'[x] # "ok")
        BY <1>14 DEF AttemptEnds, StartAttempt, EndWith, Checkpointed, disk
    <2>2. y # x /\ ~NobodyRaised
        BY <1>9, <1>12, <2>1 DEF Kept
    <2>3. Overwritten(x[2]) => Overwritten(x[2])'
        BY <1>2, <2>1 DEF Overwritten, SaveFailed
    <2> QED
        BY <1>5, <1>9, <2>1, <2>2, <2>3 DEF Lasting
<1>15. CASE BeginSave(x)
    <2>1. pc[x] = "save" /\ pc'[x] = "saving"
        BY <1>15 DEF BeginSave
    <2>2. y # x /\ ~NobodyRaised
        BY <1>9, <1>12, <2>1 DEF Kept
    <2> QED
        BY <2>1, <2>2 DEF Overwritten
<1>16. CASE EndSave(x)
    <2>1. pc[x] = "saving" /\ result[x] = "ok" /\ result' = result
        BY <1>16 DEF EndSave, FailChild, SavesOkResults, Saving
    <2>2. \/ pc'[x] = "done" /\ file'[x[2]] = "ok"
          \/ pc'[x] = "raised" /\ SaveFailed(x)'
        BY <1>1, <1>16, <2>1 DEF EndSave, FailChild, SaveFailed
    <2>3. CASE y = x
        BY <1>9, <1>10, <2>2, <2>3 DEF Kept
    <2>4. CASE y # x
        BY <1>12, <2>1, <2>2, <2>4 DEF Overwritten
    <2> QED
        BY <2>3, <2>4
<1> QED
    BY <1>13, <1>14, <1>15, <1>16 DEF ChildStep

LEMMA SpawnKeepsLasting ==
    ASSUME StageInv, Lasting, NEW tasks \in SUBSET Task, NEW depth \in Depths,
           SpawnSubagents(tasks, depth)
    PROVE  Lasting'
<1> USE DEF StageInv, TypeOK
<1>1. /\ phase = "thinking" /\ spawns' = spawns + 1 /\ spawns + 1 \in Spawn
      /\ UNCHANGED <<file, result>> /\ returned[spawns + 1] = "none"
    BY DEF SpawnSubagents, disk, Spawn, OnlyStartedCallsHaveChildren
<1>2. NobodyRaised' <=> NobodyRaised
    BY <1>1 DEF SpawnSubagents, NobodyRaised
<1>3. /\ \A x \in Child : pc'[x] = pc[x] \/ (pc[x] = "none" /\ pc'[x] = "load" /\ InHand(x)')
      /\ NobodyRaised => \A x \in Child : ~AtWork(x)
    <2>1. \A x \in Child : x[1] = spawns + 1 => pc[x] = "none"
        BY <1>1 DEF OnlyStartedCallsHaveChildren
    <2> QED
        BY <1>1, <2>1 DEF SpawnSubagents, Lasting, InHand
<1>4. \A x \in Child : (Kept(x)' <=> Kept(x)) /\ (AtWork(x)' => InHand(x)' \/ AtWork(x))
    BY <1>1, <1>3 DEF Kept, AtWork
<1>5. \A t \in Task : Overwritten(t) => Overwritten(t)'
    BY <1>1, <1>3 DEF Overwritten, SaveFailed
<1>6. \A x \in Child : LeftAlone(x) => LeftAlone(x)'
    BY <1>1, <1>3 DEF LeftAlone
<1> QED
    BY <1>1, <1>2, <1>3, <1>4, <1>5, <1>6, ChildFields DEF Lasting

LEMMA NextKeepsLasting == StageInv /\ Lasting /\ [Next]_vars => Lasting'
<1> SUFFICES ASSUME StageInv, Lasting, [Next]_vars PROVE Lasting'
    OBVIOUS
<1>1. CASE Gather
    <2>1. /\ phase = "waiting" /\ spawns \in Spawn /\ UNCHANGED <<spawns, pc, result, file>>
        BY <1>1 DEF Gather, disk, StageInv, OnlyStartedCallsHaveChildren
    <2>2. PICK r \in {"raised", "partial", "complete"} :
              /\ returned' = [returned EXCEPT ![spawns] = r]
              /\ r # "raised" => \A y \in ChildrenOf(spawns) : pc[y] = "done"
        BY <1>1 DEF Gather
    <2>3. NobodyRaised' => NobodyRaised /\ r # "raised"
        BY <2>1, <2>2 DEF NobodyRaised, StageInv, TypeOK, OnlyStartedCallsHaveChildren
    <2>4. \A x \in Child : (NobodyRaised' => ~AtWork(x)') /\ (Kept(x)' <=> Kept(x))
        BY <2>1, <2>2, <2>3 DEF Lasting, AtWork, InHand, ChildrenOf, Kept
    <2> QED
        BY <2>1, <2>3, <2>4 DEF Lasting, LeftAlone, Overwritten, SaveFailed
<1>2. CASE Crash
    BY <1>2 DEF Crash, NoneYet, Lasting, AtWork, Kept
<1>3. CASE Resume \/ UNCHANGED vars
    BY <1>3 DEF Resume, vars, disk, Lasting, NobodyRaised, AtWork, InHand, Kept, LeftAlone,
                Overwritten, SaveFailed
<1> QED
    BY <1>1, <1>2, <1>3, ChildStepKeepsLasting, SpawnKeepsLasting DEF Next

(* What a complete call returned stays on disk, whole, unless a call raised   *)
(* and an orphan is writing it again, or has failed to: through any number of *)
(* calls, crashes, failed writes and torn files.                              *)
THEOREM DurableCompletion == Spec => []CompleteIsDurable
<1>1. StageInv /\ Lasting => CompleteIsDurable
    <2> SUFFICES ASSUME StageInv, Lasting,
                        NEW s \in Spawn, returned[s] = "complete", NEW x \in ChildrenOf(s)
                 PROVE  \/ file[x[2]] = "ok"
                        \/ ~NobodyRaised /\ Overwritten(x[2])
        BY DEF CompleteIsDurable, NobodyRaised, Overwritten
    <2>1. x \in Child /\ x[1] = s /\ pc[x] # "none"
        BY DEF ChildrenOf
    <2>2. Kept(x)
        BY <2>1 DEF StageInv, ReturnedCallsAreDone, Kept
    <2> QED
        BY <2>1, <2>2 DEF Lasting, LeftAlone
<1> QED
    BY <1>1, InitLasting, NextKeepsLasting, StageInvariance, PTL DEF Spec
-----------------------------------------------------------------------------
(***************************************************************************)
(* How many are at work: at most MaxSubagents of the call in hand, and as   *)
(* many of each call that raised.                                           *)
(***************************************************************************)
InHandWorkers == {x \in Child : Working(x) /\ InHand(x)}
Stragglers == {x \in Child : Working(x) /\ ~InHand(x)}

WorkInv ==
    /\ Cardinality(InHandWorkers) <= MaxSubagents
    /\ Cardinality(Stragglers) <= MaxSubagents * Cardinality(RaisedCalls)

LEMMA FiniteChildren ==
    /\ IsFiniteSet(Child) /\ IsFiniteSet(Spawn)
    /\ \A S \in SUBSET Child : IsFiniteSet(S) /\ Cardinality(S) \in Nat
    /\ \A S \in SUBSET Spawn : IsFiniteSet(S) /\ Cardinality(S) \in Nat
<1>1. IsFiniteSet(Spawn)
    BY FS_Interval DEF Spawn
<1>2. IsFiniteSet(Child)
    BY <1>1, FS_Product DEF Child
<1> QED
    BY <1>1, <1>2, FS_Subset, FS_CardinalityType

LEMMA Smaller ==
    ASSUME NEW S \in SUBSET Child, NEW T \in SUBSET S
    PROVE  Cardinality(T) <= Cardinality(S)
BY FiniteChildren, FS_Subset

LEMMA OneMoreShare == \A n \in Nat :
    MaxSubagents * n \in Nat /\ MaxSubagents * (n + 1) = MaxSubagents * n + MaxSubagents
OBVIOUS

LEMMA WorkersAddUp ==
    ASSUME NEW S \in SUBSET Child, NEW T \in SUBSET Child
    PROVE  Cardinality(S \cup T) <= Cardinality(S) + Cardinality(T)
<1>1. Cardinality(S \cup T) = Cardinality(S) + Cardinality(T) - Cardinality(S \cap T)
    BY FiniteChildren, FS_Union
<1>2. /\ Cardinality(S) \in Nat /\ Cardinality(T) \in Nat /\ Cardinality(S \cap T) \in Nat
    BY FiniteChildren
<1> QED
    BY <1>1, <1>2

LEMMA InitWork == Init => WorkInv
<1> SUFFICES ASSUME Init PROVE WorkInv
    OBVIOUS
<1>1. InHandWorkers = {} /\ Stragglers = {}
    BY DEF Init, NoneYet, InHandWorkers, Stragglers, Working
<1>2. Cardinality(RaisedCalls) \in Nat
    BY FiniteChildren DEF RaisedCalls
<1> QED
    BY <1>1, <1>2, FS_EmptySet, OneMoreShare DEF WorkInv

(* Nobody new is at work, and the call in hand stays the same.                *)
LEMMA NobodyNew ==
    ASSUME WorkInv, UNCHANGED RaisedCalls,
           \A x \in Child : Working(x)' => Working(x) /\ (InHand(x)' <=> InHand(x))
    PROVE  WorkInv'
<1>1. /\ InHandWorkers' \in SUBSET InHandWorkers /\ InHandWorkers \in SUBSET Child
      /\ Stragglers' \in SUBSET Stragglers /\ Stragglers \in SUBSET Child
    BY DEF InHandWorkers, Stragglers
<1>2. /\ Cardinality(InHandWorkers') <= Cardinality(InHandWorkers)
      /\ Cardinality(Stragglers') <= Cardinality(Stragglers)
    BY <1>1, Smaller
<1>3. /\ Cardinality(InHandWorkers') \in Nat /\ Cardinality(InHandWorkers) \in Nat
      /\ Cardinality(Stragglers') \in Nat /\ Cardinality(Stragglers) \in Nat
      /\ MaxSubagents * Cardinality(RaisedCalls) \in Nat
    BY <1>1, FiniteChildren, OneMoreShare DEF InHandWorkers, Stragglers, RaisedCalls
<1>4. /\ Cardinality(InHandWorkers)' = Cardinality(InHandWorkers')
      /\ Cardinality(Stragglers)' = Cardinality(Stragglers')
      /\ Cardinality(RaisedCalls)' = Cardinality(RaisedCalls)
    OBVIOUS
<1> QED
    BY <1>2, <1>3, <1>4 DEF WorkInv

LEMMA SpawnKeepsWork ==
    ASSUME StageInv, WorkInv, NEW tasks \in SUBSET Task, NEW depth \in Depths,
           SpawnSubagents(tasks, depth)
    PROVE  WorkInv'
<1> USE DEF StageInv, TypeOK
<1> DEFINE s == spawns + 1
<1>1. /\ phase = "thinking" /\ spawns' = s /\ s \in Spawn /\ returned[s] = "none"
      /\ \A x \in Child : x[1] = s => pc[x] = "none"
    BY DEF SpawnSubagents, Spawn, OnlyStartedCallsHaveChildren
<1>2. UNCHANGED RaisedCalls
    BY <1>1 DEF SpawnSubagents, RaisedCalls
<1>3. CASE returned' = [returned EXCEPT ![s] = "refused"] /\ UNCHANGED <<phase, pc>>
    BY <1>1, <1>2, <1>3, NobodyNew DEF Working, InHand
<1>4. CASE /\ phase' = "waiting" /\ WithinCaps(tasks, depth)
           /\ pc' = [x \in Child |-> IF x[1] = s /\ x[2] \in tasks THEN "load" ELSE pc[x]]
    <2>1. Stragglers' = Stragglers
        BY <1>1, <1>4 DEF Stragglers, Working, InHand
    <2>2. InHandWorkers' = {s} \X tasks
        <3>1. \A x \in Child : x = <<x[1], x[2]>>
            BY DEF Child
        <3>2. \A x \in Child : Working(x)' /\ InHand(x)' <=> x[1] = s /\ x[2] \in tasks
            BY <1>1, <1>4 DEF Working, InHand
        <3> QED
            BY <1>1, <3>1, <3>2 DEF InHandWorkers, Child
    <2>3. IsFiniteSet(tasks) /\ IsFiniteSet({s}) /\ Cardinality({s}) = 1
        BY FS_Subset, FS_Singleton
    <2>4. Cardinality({s} \X tasks) = Cardinality({s}) * Cardinality(tasks)
        BY <2>3, FS_Product
    <2>5. Cardinality({s} \X tasks) = Cardinality(tasks) /\ Cardinality(tasks) <= MaxSubagents
        BY <1>4, <2>3, <2>4, FS_CardinalityType DEF WithinCaps
    <2>6. /\ Cardinality(InHandWorkers)' = Cardinality({s} \X tasks)
          /\ Cardinality(Stragglers)' = Cardinality(Stragglers)
          /\ Cardinality(RaisedCalls)' = Cardinality(RaisedCalls)
        BY <1>2, <2>1, <2>2
    <2> QED
        BY <2>5, <2>6 DEF WorkInv
<1> QED
    BY <1>3, <1>4 DEF SpawnSubagents

LEMMA GatherKeepsWork ==
    ASSUME StageInv, WorkInv, Gather
    PROVE  WorkInv'
<1> USE DEF StageInv, TypeOK
<1>1. /\ phase = "waiting" /\ phase' = "thinking" /\ spawns \in Spawn /\ returned[spawns] = "none"
      /\ UNCHANGED <<spawns, pc>>
    BY DEF Gather, OnlyStartedCallsHaveChildren
<1>2. InHandWorkers' = {} /\ Stragglers' = InHandWorkers \cup Stragglers
    BY <1>1 DEF InHandWorkers, Stragglers, Working, InHand
<1>3. /\ InHandWorkers \in SUBSET Child /\ Stragglers \in SUBSET Child
      /\ RaisedCalls \in SUBSET Spawn
    BY DEF InHandWorkers, Stragglers, RaisedCalls
<1>4. /\ Cardinality(InHandWorkers)' = 0
      /\ Cardinality(Stragglers)' = Cardinality(InHandWorkers \cup Stragglers)
    BY <1>2, FS_EmptySet
<1>5. /\ Cardinality(InHandWorkers) \in Nat /\ Cardinality(Stragglers) \in Nat
      /\ Cardinality(InHandWorkers \cup Stragglers) \in Nat
      /\ Cardinality(RaisedCalls) \in Nat
    BY <1>3, FiniteChildren
<1>6. CASE returned' = [returned EXCEPT ![spawns] = "raised"]
    <2>1. RaisedCalls' = RaisedCalls \cup {spawns} /\ spawns \notin RaisedCalls
        BY <1>1, <1>6 DEF RaisedCalls
    <2>2. Cardinality(RaisedCalls)' = Cardinality(RaisedCalls) + 1
        BY <1>3, <2>1, FiniteChildren, FS_AddElement
    <2>3. Cardinality(InHandWorkers \cup Stragglers) <= Cardinality(InHandWorkers) + Cardinality(Stragglers)
        BY <1>3, WorkersAddUp
    <2>4. /\ MaxSubagents * Cardinality(RaisedCalls) \in Nat
          /\ MaxSubagents * (Cardinality(RaisedCalls) + 1)
                = MaxSubagents * Cardinality(RaisedCalls) + MaxSubagents
        BY <1>5, OneMoreShare
    <2>5. Cardinality(InHandWorkers \cup Stragglers) <= MaxSubagents * (Cardinality(RaisedCalls) + 1)
        BY <1>5, <2>3, <2>4 DEF WorkInv
    <2> QED
        BY <1>4, <2>2, <2>5 DEF WorkInv
<1>7. CASE \E r \in {"partial", "complete"} : returned' = [returned EXCEPT ![spawns] = r]
                                              /\ \A x \in ChildrenOf(spawns) : pc[x] = "done"
    <2>1. RaisedCalls' = RaisedCalls
        BY <1>1, <1>7 DEF RaisedCalls
    <2>2. \A x \in Child : Working(x)' => Working(x) /\ ~InHand(x)
        BY <1>1, <1>7 DEF Working, InHand, ChildrenOf
    <2> QED
        BY <1>1, <2>1, <2>2, NobodyNew DEF InHand
<1> QED
    BY <1>6, <1>7 DEF Gather

LEMMA NextKeepsWork == StageInv /\ WorkInv /\ [Next]_vars => WorkInv'
<1> SUFFICES ASSUME StageInv, WorkInv, [Next]_vars PROVE WorkInv'
    OBVIOUS
<1> USE DEF StageInv, TypeOK
<1>1. ASSUME NEW x \in Child, ChildStep(x) PROVE WorkInv'
    <2>1. /\ UNCHANGED <<phase, spawns, returned>> /\ Working(x)
          /\ \A y \in Child \ {x} : pc'[y] = pc[y]
        BY <1>1 DEF ChildStep, Load, AttemptEnds, BeginSave, EndSave, Restore, StartAttempt,
                    EndWith, FailChild, Working
    <2> QED
        BY <2>1, NobodyNew DEF Working, InHand, RaisedCalls
<1>2. CASE Crash
    <2>1. /\ Stragglers' = {} /\ InHandWorkers' = {} /\ RaisedCalls' = {}
        BY <1>2 DEF Crash, NoneYet, NoneReturned, Stragglers, InHandWorkers, Working, RaisedCalls
    <2>2. /\ Cardinality(Stragglers)' = 0 /\ Cardinality(InHandWorkers)' = 0
          /\ Cardinality(RaisedCalls)' = 0
        BY <2>1, FS_EmptySet
    <2> QED
        BY <2>2 DEF WorkInv
<1>3. CASE Resume \/ UNCHANGED vars
    <2>1. /\ \A x \in Child : Working(x)' => Working(x) /\ (InHand(x)' <=> InHand(x))
          /\ UNCHANGED RaisedCalls
        BY <1>3 DEF Resume, vars, Working, InHand, RaisedCalls
    <2> QED
        BY <2>1, NobodyNew
<1> QED
    BY <1>1, <1>2, <1>3, SpawnKeepsWork, GatherKeepsWork DEF Next

(* The subagents at work stay within the cap of one call and, for every call  *)
(* that raised, the cap once more for the orphans it may have left.           *)
THEOREM BoundedWorkers == Spec => []WorkersAreBounded
<1>1. WorkInv => WorkersAreBounded
    <2> SUFFICES ASSUME WorkInv PROVE WorkersAreBounded
        OBVIOUS
    <2>1. /\ InHandWorkers \in SUBSET Child /\ Stragglers \in SUBSET Child
          /\ RaisedCalls \in SUBSET Spawn
          /\ {x \in Child : Working(x)} = InHandWorkers \cup Stragglers
        BY DEF InHandWorkers, Stragglers, RaisedCalls
    <2>2. /\ Cardinality(InHandWorkers) \in Nat /\ Cardinality(Stragglers) \in Nat
          /\ Cardinality(InHandWorkers \cup Stragglers) \in Nat
          /\ Cardinality(RaisedCalls) \in Nat
        BY <2>1, FiniteChildren
    <2>3. Cardinality(InHandWorkers \cup Stragglers) <= Cardinality(InHandWorkers) + Cardinality(Stragglers)
        BY <2>1, WorkersAddUp
    <2>4. /\ MaxSubagents * Cardinality(RaisedCalls) \in Nat
          /\ MaxSubagents * (Cardinality(RaisedCalls) + 1)
                = MaxSubagents * Cardinality(RaisedCalls) + MaxSubagents
        BY <2>2, OneMoreShare
    <2>5. Cardinality(InHandWorkers \cup Stragglers) <= MaxSubagents * (Cardinality(RaisedCalls) + 1)
        BY <2>2, <2>3, <2>4 DEF WorkInv
    <2>6. Cardinality(RaisedCalls) + 1 = 1 + Cardinality(RaisedCalls)
        BY <2>2
    <2> QED
        BY <2>1, <2>5, <2>6 DEF WorkersAreBounded
<1> QED
    BY <1>1, InitWork, NextKeepsWork, StageInvariance, PTL DEF Spec
=============================================================================

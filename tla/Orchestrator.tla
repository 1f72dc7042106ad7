---------------------------- MODULE Orchestrator ----------------------------
(***************************************************************************)
(* Orchestrator.spawn_subagents and the checkpoint store, over the life of  *)
(* one run_id: the lead fans subagents out, each is restored from its       *)
(* checkpoint or run with retries and checkpointed when it is ok, and the   *)
(* process may die at any point and be started again with the same run_id.  *)
(* What a subagent does is left to AgentLoop: here it ends ok, ends         *)
(* partial, or raises.                                                      *)
(*                                                                          *)
(* A call of spawn_subagents is numbered by s; the child of task t in it is *)
(* <<s, t>>.  gather gives up on the first child that raises and leaves the *)
(* others running: an orphan is a child of a call that is over.             *)
(***************************************************************************)
EXTENDS Integers, FiniteSets

CONSTANTS
    Task,               \* task ids
    SubagentRetries,    \* OrchestratorOptions.subagent_retries
    MaxSubagents,       \* HarnessCaps.max_subagents
    MaxDelegationDepth, \* HarnessCaps.max_delegation_depth
    Depths,             \* the depths spawn_subagents may be called with
    Runtimes,           \* the runtimes to look at, python and typescript
    StoreFailsIn,       \* those in which a write of the store can fail (a full disk)
    MaxSpawns,          \* bound: spawn_subagents calls in one life of the process
    MaxCrashes          \* bound: crashes of the process

ASSUME OrchestratorAssumption ==
    /\ IsFiniteSet(Task)
    /\ SubagentRetries \in Int
    /\ MaxSubagents \in Nat /\ MaxDelegationDepth \in Nat
    /\ Depths \subseteq Nat
    /\ Runtimes \subseteq {"python", "typescript"} /\ StoreFailsIn \subseteq Runtimes
    /\ MaxSpawns \in Nat /\ MaxCrashes \in Nat

Spawn == 1..MaxSpawns
Child == Spawn \X Task

VARIABLES
    runtime,    \* the runtime of the process: it never changes
    phase,      \* the lead: thinking, waiting for spawn_subagents, or down
    spawns,     \* calls of spawn_subagents in this life of the process
    pc,         \* pc[s, t]: where _run_or_restore is for that child
    left,       \* attempts_left of the child's _run_with_retry
    tries,      \* history variable: attempts of run_subagent by the child
    result,     \* the status of the child's AgentResult
    returned,   \* how call s ended
    file,       \* the checkpoint of each task: absent, torn, or a status
    completed,  \* history variable: completed writes of each checkpoint
    crashes     \* crashes so far

disk == <<file, completed>>
vars == <<runtime, phase, spawns, pc, left, tries, result, returned, file, completed, crashes>>

Python == runtime = "python"
StoreMayFail == runtime \in StoreFailsIn

ResultStatus == {"ok", "partial", "error"}

TypeOK ==
    /\ runtime \in Runtimes
    /\ phase \in {"thinking", "waiting", "down"}
    /\ spawns \in 0..MaxSpawns
    /\ pc \in [Child -> {"none", "load", "run", "save", "saving", "done", "raised"}]
    /\ left \in [Child -> Int]
    /\ tries \in [Child -> Nat]
    /\ result \in [Child -> ResultStatus \cup {"none"}]
    /\ returned \in [Spawn -> {"none", "refused", "raised", "complete", "partial"}]
    /\ file \in [Task -> ResultStatus \cup {"absent", "torn"}]
    /\ completed \in [Task -> Nat]
    /\ crashes \in 0..MaxCrashes

\* A process that has spawned nothing.
NoneYet == [x \in Child |-> "none"]
Zero == [x \in Child |-> 0]
NoneReturned == [s \in Spawn |-> "none"]

Init ==
    /\ runtime \in Runtimes
    /\ phase = "thinking" /\ spawns = 0
    /\ pc = NoneYet /\ left = Zero /\ tries = Zero /\ result = NoneYet
    /\ returned = NoneReturned
    /\ file = [t \in Task |-> "absent"]
    /\ completed = [t \in Task |-> 0]
    /\ crashes = 0

ChildrenOf(s) == {x \in Child : x[1] = s /\ pc[x] # "none"}

(***************************************************************************)
(* The Python store writes without awaiting: nothing else of the process    *)
(* runs between the end of a subagent that is ok and the end of its save.   *)
(***************************************************************************)
Saving(x) == pc[x] \in {"save", "saving"}
LoopIsFree == phase # "down" /\ (Python => \A x \in Child : ~Saving(x))
-----------------------------------------------------------------------------
(***************************************************************************)
(* spawn_subagents: the two caps, then one child per task.                  *)
(***************************************************************************)
WithinCaps(tasks, depth) ==
    /\ Cardinality(tasks) <= MaxSubagents
    /\ depth <= MaxDelegationDepth

SpawnSubagents(tasks, depth) ==
    LET s == spawns + 1
    IN  /\ LoopIsFree /\ phase = "thinking" /\ s <= MaxSpawns
        /\ spawns' = s
        /\ IF WithinCaps(tasks, depth)
           THEN /\ phase' = "waiting"
                /\ pc' = [x \in Child |-> IF x[1] = s /\ x[2] \in tasks THEN "load" ELSE pc[x]]
                /\ UNCHANGED returned
           ELSE /\ returned' = [returned EXCEPT ![s] = "refused"]
                /\ UNCHANGED <<phase, pc>>
        /\ UNCHANGED <<left, tries, result, disk, crashes, runtime>>

(***************************************************************************)
(* CheckpointStore.load: a torn file raises in Python and counts as absent  *)
(* in TypeScript.                                                           *)
(***************************************************************************)
\* Mutant: a resume that never finds a checkpoint (another run_id in the path).
NeverRestorable(t) == FALSE

Restorable(t) == file[t] \in ResultStatus

LoadRaises(t) == Python /\ file[t] = "torn"

StartAttempt(x, attempts) ==
    /\ pc' = [pc EXCEPT ![x] = "run"]
    /\ left' = [left EXCEPT ![x] = attempts]
    /\ tries' = [tries EXCEPT ![x] = @ + 1]
    /\ UNCHANGED result

Restore(x) ==
    /\ pc' = [pc EXCEPT ![x] = "done"]
    /\ result' = [result EXCEPT ![x] = file[x[2]]]
    /\ UNCHANGED <<left, tries>>

FailChild(x) ==
    /\ pc' = [pc EXCEPT ![x] = "raised"]
    /\ UNCHANGED <<left, tries, result>>

Load(x) ==
    /\ LoopIsFree /\ pc[x] = "load"
    /\ \/ Restorable(x[2]) /\ Restore(x)
       \/ LoadRaises(x[2]) /\ FailChild(x)
       \/ ~Restorable(x[2]) /\ ~LoadRaises(x[2]) /\ StartAttempt(x, SubagentRetries)
    /\ UNCHANGED <<phase, spawns, returned, disk, crashes, runtime>>

(***************************************************************************)
(* An attempt of run_subagent ends.  A result goes back to _run_or_restore, *)
(* which checkpoints it only if it is ok; an exception is retried while     *)
(* attempts_left > 1 and becomes an error result after that.                *)
(***************************************************************************)
\* Mutant: every result but an error is saved.
CheckpointedUnlessError(status) == status # "error"

Checkpointed(status) == status = "ok"

EndWith(x, status) ==
    /\ pc' = [pc EXCEPT ![x] = IF Checkpointed(status) THEN "save" ELSE "done"]
    /\ result' = [result EXCEPT ![x] = status]
    /\ UNCHANGED <<left, tries>>

Retries(x) == left[x] > 1

AttemptEnds(x) ==
    /\ LoopIsFree /\ pc[x] = "run"
    /\ \/ \E status \in {"ok", "partial"} : EndWith(x, status)
       \/ Retries(x) /\ StartAttempt(x, left[x] - 1)
       \/ ~Retries(x) /\ EndWith(x, "error")
    /\ UNCHANGED <<phase, spawns, returned, disk, crashes, runtime>>

(***************************************************************************)
(* CheckpointStore.save opens the file, which truncates it, and writes it.  *)
(* A write that fails leaves it truncated and raises out of gather.         *)
(***************************************************************************)
BeginSave(x) ==
    /\ phase # "down" /\ pc[x] = "save"
    /\ pc' = [pc EXCEPT ![x] = "saving"]
    /\ file' = [file EXCEPT ![x[2]] = "torn"]
    /\ UNCHANGED <<phase, spawns, left, tries, result, returned, completed, crashes, runtime>>

EndSave(x) ==
    /\ phase # "down" /\ pc[x] = "saving"
    /\ \/ /\ pc' = [pc EXCEPT ![x] = "done"]
          /\ file' = [file EXCEPT ![x[2]] = result[x]]
          /\ completed' = [completed EXCEPT ![x[2]] = @ + 1]
          /\ UNCHANGED <<left, tries, result>>
       \/ /\ StoreMayFail
          /\ FailChild(x)
          /\ UNCHANGED disk
    /\ UNCHANGED <<phase, spawns, returned, crashes, runtime>>

(***************************************************************************)
(* gather: all children done, or the first that raised.                     *)
(***************************************************************************)
\* Mutant: only failed children make a call partial.
IsPartialOnErrors(s) == \E x \in ChildrenOf(s) : result[x] = "error"

IsPartial(s) == \E x \in ChildrenOf(s) : result[x] # "ok"

\* Mutants: a call that ends with the first child that is done, and one that
\* waits for results and never looks at exceptions.
GatherFirst ==
    /\ LoopIsFree /\ phase = "waiting"
    /\ \E x \in ChildrenOf(spawns) : pc[x] = "done"
    /\ returned' = [returned EXCEPT ![spawns] = "partial"]
    /\ phase' = "thinking"
    /\ UNCHANGED <<spawns, pc, left, tries, result, disk, crashes, runtime>>

GatherOnlyDone ==
    /\ LoopIsFree /\ phase = "waiting"
    /\ \A x \in ChildrenOf(spawns) : pc[x] = "done"
    /\ returned' = [returned EXCEPT ![spawns] = IF IsPartial(spawns) THEN "partial" ELSE "complete"]
    /\ phase' = "thinking"
    /\ UNCHANGED <<spawns, pc, left, tries, result, disk, crashes, runtime>>

Gather ==
    /\ LoopIsFree /\ phase = "waiting"
    /\ \/ /\ \A x \in ChildrenOf(spawns) : pc[x] = "done"
          /\ returned' = [returned EXCEPT ![spawns] =
                             IF IsPartial(spawns) THEN "partial" ELSE "complete"]
       \/ /\ \E x \in ChildrenOf(spawns) : pc[x] = "raised"
          /\ returned' = [returned EXCEPT ![spawns] = "raised"]
    /\ phase' = "thinking"
    /\ UNCHANGED <<spawns, pc, left, tries, result, disk, crashes, runtime>>

(***************************************************************************)
(* The process dies, at any point, and is started again with the run_id.    *)
(***************************************************************************)
Crash ==
    /\ phase # "down" /\ crashes < MaxCrashes
    /\ crashes' = crashes + 1
    /\ phase' = "down" /\ spawns' = 0
    /\ pc' = NoneYet /\ left' = Zero /\ tries' = Zero /\ result' = NoneYet
    /\ returned' = NoneReturned
    /\ UNCHANGED <<disk, runtime>>

Resume ==
    /\ phase = "down"
    /\ phase' = "thinking"
    /\ UNCHANGED <<spawns, pc, left, tries, result, returned, disk, crashes, runtime>>

ChildStep(x) == Load(x) \/ AttemptEnds(x) \/ BeginSave(x) \/ EndSave(x)

Next ==
    \/ \E tasks \in SUBSET Task, depth \in Depths : SpawnSubagents(tasks, depth)
    \/ \E x \in Child : ChildStep(x)
    \/ Gather
    \/ Crash
    \/ Resume

Spec == Init /\ [][Next]_vars

(***************************************************************************)
(* The loop runs every coroutine that can go on, and every attempt ends:    *)
(* run_agent has a bounded number of turns (AgentLoop), models and tools    *)
(* are assumed to answer.  Nobody is bound to restart a dead process.       *)
(***************************************************************************)
Fairness == WF_vars(Gather) /\ \A x \in Child : WF_vars(ChildStep(x))

FairSpec == Spec /\ Fairness
-----------------------------------------------------------------------------
(* A child is given SubagentRetries attempts in all, and always at least one: *)
(* retries do not add up across the recursion of _run_with_retry.             *)
AttemptsAreBounded ==
    \A x \in Child : tries[x] <= IF SubagentRetries > 1 THEN SubagentRetries ELSE 1

(* A result that froze a bad outcome never comes back: what can be restored   *)
(* is an ok result, whatever crashed, failed or was written twice             *)
(* (_run_or_restore, docs reliability.md "Only ok results are checkpointed"). *)
OnlyOkIsCheckpointed ==
    \A t \in Task : file[t] \notin {"partial", "error"}

(* What a complete call returned can be restored: its children's checkpoints  *)
(* stay on disk, whole, through the calls that follow it.  Only a call that    *)
(* raised can undo that, by an orphan that writes the same checkpoint again   *)
(* and is in the middle of it, or failed in it.                               *)
SaveFailed(x) == pc[x] = "raised" /\ result[x] = "ok"

CompleteIsDurable ==
    \A s \in Spawn : returned[s] = "complete" =>
        \A x \in ChildrenOf(s) :
            \/ file[x[2]] = "ok"
            \/ /\ \E q \in Spawn : returned[q] = "raised"
               /\ \E y \in Child : y[2] = x[2] /\ (pc[y] = "saving" \/ SaveFailed(y))

(* MaxSubagents is a cap on one call.  What is at work at once exceeds it by  *)
(* the orphans of calls that raised, and by no more than as many again for    *)
(* each of those: gather cancels nobody, and the next call does not count     *)
(* them (assert_subagent_count_within_cap sees only its own tasks).           *)
Working(x) == pc[x] \in {"load", "run", "save", "saving"}

RaisedCalls == {s \in Spawn : returned[s] = "raised"}

WorkersAreBounded ==
    Cardinality({x \in Child : Working(x)}) <= MaxSubagents * (1 + Cardinality(RaisedCalls))

(* "A crash on subagent 5 of 6 costs you subagent 5": no call of              *)
(* spawn_subagents fails because of what a crash left on disk.                *)
CrashCostsOnlyTheUnfinished == \A s \in Spawn : returned[s] # "raised"

(* Where loads and saves do not raise, which is TypeScript on a disk that     *)
(* works, a crash costs what was unfinished, and the expensive work is done   *)
(* once: over crashes, torn files, retries and resumes a task's checkpoint is *)
(* completed at most once in a run, and survives all that follows.  (Where a  *)
(* call raises, an orphan and a child of the next call may both complete it.) *)
CompletedOnceAndKept == ~Python /\ ~StoreMayFail =>
    /\ CrashCostsOnlyTheUnfinished
    /\ \A t \in Task :
          completed[t] <= 1 /\ (completed[t] = 1 => file[t] = "ok")

(* A call of spawn_subagents returns or raises, unless the process dies.      *)
SpawnReturns == \A s \in Spawn :
    phase = "waiting" /\ spawns = s ~> returned[s] # "none" \/ phase = "down"
=============================================================================

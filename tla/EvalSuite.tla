------------------------------ MODULE EvalSuite ------------------------------
(***************************************************************************)
(* run_eval.main: the seed tasks, one after the other, through lead agent,  *)
(* subagents and judge, all over one harness.                               *)
(*                                                                          *)
(* The harness is seen through IdempotentKeys, the promise that Harness is  *)
(* shown to keep.  The agents make the calls of mock.py's script: the lead  *)
(* fans out to its subagents, and each of those calls the tools of Script.  *)
(* A call is <<seed, agent, tool>>.  Of the attempts that Orchestrator gives *)
(* a subagent, the one here is the last.                                     *)
(***************************************************************************)
EXTENDS Integers, Sequences

CONSTANTS
    Sub,                \* the subagents of the lead's one fan-out
    Script,             \* the tools a subagent calls, one after the other
    NumSeeds,           \* the number of seed tasks
    UniqueIds,          \* does a tool call's id never come back?  Not the mock's
    NoCall

ASSUME EvalSuiteAssumption ==
    /\ "lead" \notin Sub
    /\ Script \in Seq(STRING)
    /\ \A i \in DOMAIN Script : Script[i] # "spawn"
    /\ NumSeeds \in Nat \ {0}
    /\ UniqueIds \in BOOLEAN

Seed == 1..NumSeeds
Child == Seed \X Sub
Tool == {Script[i] : i \in DOMAIN Script}
Call == (Seed \X {"lead"} \X {"spawn"}) \cup (Seed \X Sub \X Tool)
Key == Call \cup ({0} \X {"any"} \X (Tool \cup {"spawn"}))

ASSUME NoCallAssumption == NoCall \notin Call

VARIABLES
    phase,          \* where main is with the current seed
    seed,           \* the current seed
    pc,             \* where each subagent is
    step,           \* the number of the call of Script that it is before
    outcome,        \* what the harness has said to a call
    running, settled, answer,   \* the harness's idempotency keys
    forced,         \* lead_result.needs_review
    records         \* the records of the seeds judged so far

mainVars == <<phase, seed, forced, records>>
subVars == <<pc, step>>
keyVars == <<running, settled, answer>>
vars == <<mainVars, subVars, outcome, keyVars>>

Keys == INSTANCE IdempotentKeys

Init ==
    /\ phase = "ask" /\ seed = 1
    /\ pc = [x \in Child |-> "none"]
    /\ step = [x \in Child |-> 1]
    /\ outcome = [c \in Call |-> "none"]
    /\ Keys!Init
    /\ forced = FALSE /\ records = <<>>

\* The loop runs until main returns or raises.  (Main may also wait for Ctrl-C.)
Alive == phase \notin {"raised", "done"}
-----------------------------------------------------------------------------
(***************************************************************************)
(* The harness: the first call with a key executes the tool, the calls that *)
(* come meanwhile wait for it, and those that come later get its output.    *)
(***************************************************************************)
\* Mutant: the harness tells calls of one tool not apart.
KeyOfTool(c) == <<0, "any", c[3]>>

KeyOf(c) == IF UniqueIds THEN c ELSE <<0, "any", c[3]>>

Said(c, what) == outcome' = [outcome EXCEPT ![c] = what]

Submit(c) ==
    LET k == KeyOf(c)
    IN  \/ Keys!Answer(k, c) /\ Said(c, "ok")
        \/ Keys!Begin(k, c) /\ Said(c, "waiting")
        \/ running[k] # NoCall /\ UNCHANGED keyVars /\ Said(c, "waiting")

Executes(c) == running[KeyOf(c)] = c

Succeed(c) == Keys!Succeed(KeyOf(c)) /\ UNCHANGED outcome

\* The execution fails, and all calls that wait for it with it.
Fail(c) ==
    /\ Keys!Fail(KeyOf(c))
    /\ outcome' = [d \in Call |-> IF outcome[d] = "waiting" /\ KeyOf(d) = KeyOf(c)
                                  THEN "error" ELSE outcome[d]]

\* A call that waited gets the output.
Resume(c) ==
    /\ Alive /\ outcome[c] = "waiting"
    /\ Keys!Answer(KeyOf(c), c) /\ Said(c, "ok")
    /\ UNCHANGED <<mainVars, subVars>>

\* search_web and write_artifact end.
ToolEnds(c) ==
    /\ Alive /\ Executes(c) /\ c[3] # "spawn"
    /\ Succeed(c) \/ Fail(c)
    /\ UNCHANGED <<mainVars, subVars>>
-----------------------------------------------------------------------------
(***************************************************************************)
(* spawn_subagents: refused by a cap or the schema, or one subagent per     *)
(* task; then gather, to which the first child that raises is the end.      *)
(***************************************************************************)
SpawnCall(s) == <<s, "lead", "spawn">>
ChildrenOf(s) == {x \in Child : x[1] = s}

FanOut(s) ==
    /\ Alive /\ Executes(SpawnCall(s)) /\ \A x \in ChildrenOf(s) : pc[x] = "none"
    /\ \/ /\ pc' = [x \in Child |-> IF x[1] = s THEN "run" ELSE pc[x]]
          /\ UNCHANGED <<keyVars, outcome>>
       \/ Fail(SpawnCall(s)) /\ UNCHANGED pc
    /\ UNCHANGED <<mainVars, step>>

\* Mutant: gather waits for results and is blind to exceptions.
GatherDone(s) ==
    /\ Alive /\ Executes(SpawnCall(s))
    /\ \A x \in ChildrenOf(s) : pc[x] = "done"
    /\ Succeed(SpawnCall(s))
    /\ UNCHANGED <<mainVars, subVars>>

Gather(s) ==
    /\ Alive /\ Executes(SpawnCall(s))
    /\ \/ (\A x \in ChildrenOf(s) : pc[x] = "done") /\ Succeed(SpawnCall(s))
       \/ (\E x \in ChildrenOf(s) : pc[x] = "raised") /\ Fail(SpawnCall(s))
    /\ UNCHANGED <<mainVars, subVars>>

(***************************************************************************)
(* A subagent: run_subagent under _run_with_retry and _run_or_restore.  Its *)
(* model asks for the next call once it has the last one's outcome, good or *)
(* bad, or raises for the last time, or is not asked any more since the      *)
(* tokens are spent.                                                        *)
(***************************************************************************)
CallOf(x, i) == <<x[1], x[2], Script[i]>>

Heard(x) == step[x] > 1 => outcome[CallOf(x, step[x] - 1)] \in {"ok", "error"}

EndWith(x, status) ==
    /\ pc' = [pc EXCEPT ![x] = IF status = "ok" THEN "save" ELSE "done"]
    /\ UNCHANGED <<step, outcome, keyVars>>

ModelAnswers(x) ==
    \/ /\ step[x] <= Len(Script)
       /\ Submit(CallOf(x, step[x]))
       /\ step' = [step EXCEPT ![x] = @ + 1]
       /\ UNCHANGED pc
    \/ step[x] = Len(Script) + 1 /\ EndWith(x, "ok")

Subagent(x) ==
    /\ Alive /\ pc[x] = "run" /\ Heard(x)
    /\ ModelAnswers(x) \/ \E status \in {"partial", "error"} : EndWith(x, status)
    /\ UNCHANGED mainVars

\* The checkpoint of an ok result is written, or the disk fails.
SaveCheckpoint(x) ==
    /\ Alive /\ pc[x] = "save"
    /\ \E end \in {"done", "raised"} : pc' = [pc EXCEPT ![x] = end]
    /\ UNCHANGED <<mainVars, step, outcome, keyVars>>
-----------------------------------------------------------------------------
(***************************************************************************)
(* The lead: asked with the query it fans out, and with the outcome of that *)
(* it answers.  It also may answer at once, run out of tokens, or raise.    *)
(***************************************************************************)
LeadRaises ==
    /\ phase \in {"ask", "answer"}
    /\ phase = "answer" => outcome[SpawnCall(seed)] \in {"ok", "error"}
    /\ phase' = "raised"
    /\ UNCHANGED <<seed, forced, records, subVars, outcome, keyVars>>

LeadFansOut ==
    /\ phase = "ask"
    /\ Submit(SpawnCall(seed))
    /\ phase' = "answer"
    /\ UNCHANGED <<seed, forced, records, subVars>>

\* Mutant: the lead's flags look at how it ended alone.
FlaggedByEnd(cutOff) == cutOff

\* derive_review_flags: a failed call, or an end that is no proper answer.
Flagged(cutOff) == cutOff \/ outcome[SpawnCall(seed)] = "error"

LeadAnswers ==
    /\ phase \in {"ask", "answer"}
    /\ phase = "answer" => outcome[SpawnCall(seed)] \in {"ok", "error"}
    /\ \E cutOff \in BOOLEAN : forced' = Flagged(cutOff)
    /\ phase' = "judge"
    /\ UNCHANGED <<seed, records, subVars, outcome, keyVars>>

(***************************************************************************)
(* run_judge: a verdict, whose flag is joined by the lead's, or an answer   *)
(* that is not JSON, which ends the suite.                                  *)
(***************************************************************************)
JudgeRaises ==
    /\ phase = "judge"
    /\ phase' = "raised"
    /\ UNCHANGED <<seed, forced, records, subVars, outcome, keyVars>>

Verdict(flag) == [seed |-> seed, flagged |-> flag \/ forced]

Judge ==
    /\ phase = "judge"
    /\ \E flag \in BOOLEAN : records' = Append(records, Verdict(flag))
    /\ \/ seed < NumSeeds /\ seed' = seed + 1 /\ phase' = "ask"
       \/ seed = NumSeeds /\ phase' = "done" /\ UNCHANGED seed
    /\ UNCHANGED <<forced, subVars, outcome, keyVars>>

Next ==
    \/ LeadFansOut \/ LeadAnswers \/ LeadRaises \/ Judge \/ JudgeRaises
    \/ \E s \in Seed : FanOut(s) \/ Gather(s)
    \/ \E x \in Child : Subagent(x) \/ SaveCheckpoint(x)
    \/ \E c \in Call : Resume(c) \/ ToolEnds(c)

(***************************************************************************)
(* The loop runs what can run; models answer or raise (ResilientChatModel), *)
(* and the tools end.                                                       *)
(***************************************************************************)
Spec == Init /\ [][Next]_vars /\ WF_vars(Next)
-----------------------------------------------------------------------------
TypeOK ==
    /\ phase \in {"ask", "answer", "judge", "raised", "done"}
    /\ seed \in Seed
    /\ pc \in [Child -> {"none", "run", "save", "done", "raised"}]
    /\ step \in [Child -> 1..(Len(Script) + 1)]
    /\ outcome \in [Call -> {"none", "waiting", "ok", "error"}]
    /\ running \in [Key -> Call \cup {NoCall}]
    /\ settled \in [Key -> Call \cup {NoCall}]
    /\ answer \in [Call -> Call \cup {NoCall}]
    /\ forced \in BOOLEAN
    /\ records \in Seq([seed : Seed, flagged : BOOLEAN])

Judged == DOMAIN records

(* The work that seed s's answer rests on: the execution that its fan-out was *)
(* answered with, and those its subagents' calls were answered with.          *)
Basis(s) ==
    LET spawn == answer[SpawnCall(s)]
        calls == {c \in Call : c[1] = spawn[1] /\ c[3] # "spawn"}
    IN  IF spawn = NoCall THEN {} ELSE ({spawn} \cup {answer[c] : c \in calls}) \ {NoCall}

(* What is judged as the answer to a seed was found for that seed, by the     *)
(* subagent that reports it, however the seeds, and subagents of a failed     *)
(* fan-out that run on, overlap in the one harness (run_eval.main).           *)
OwnFindings ==
    /\ \A s \in Judged : \A c \in Basis(s) : c[1] = s
    /\ \A c \in Call : answer[c] # NoCall => answer[c][2] = c[2]

(* A seed whose record nobody is asked to review has no subagent that is      *)
(* still at work, or was lost to the disk, when the next seed is on and ever  *)
(* after: an orphan costs its seed a structural flag (run_eval's flags,       *)
(* derive_review_flags, the gather of spawn_subagents).                       *)
OrphansAreFlagged ==
    \A s \in Judged : ~records[s].flagged =>
        \A x \in ChildrenOf(s) : pc[x] \in {"none", "done"}

(* The suite judges every seed, or dies of a model or of a verdict.           *)
SuiteEnds == <>(phase \in {"done", "raised"})
=============================================================================

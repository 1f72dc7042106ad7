------------------------------ MODULE AgentLoop ------------------------------
(***************************************************************************)
(* run_agent: the agents of one run, side by side, over the one harness and *)
(* the one RunBudget they share.  Each agent asks the model, executes the   *)
(* tool calls of its answer one after the other through the harness, and    *)
(* asks again, until the model stops asking for tools, the turns run out or *)
(* the run's tokens are spent.                                              *)
(*                                                                          *)
(* The harness is the module Harness, with one call for every tool call     *)
(* that an agent is still allowed to make.  Call <<a, n>> is the n-th that  *)
(* agent a's ToolCallBudget counts.                                         *)
(***************************************************************************)
EXTENDS Integers, FiniteSets, Sequences

CONSTANTS
    Agent,              \* the agents (invocations of run_agent) of the run
    Tool, Gated,        \* the tools, and those that require approval
    MaxToolCalls,       \* the role's budget.maxToolCalls
    MaxTurns,           \* max_turns
    MaxCallsPerTurn,    \* bound: tool calls in one answer of the model
    MaxTokens,          \* the ceiling of the RunBudget; 0 is unlimited
    MaxUsage,           \* bound: tokens that one model call uses
    UniqueIds,          \* are the provider's call ids unique in the run?
    FailureThreshold,   \* CircuitBreakerOptions.failure_threshold
    NoCall, NoKey

ASSUME AgentLoopAssumption ==
    /\ IsFiniteSet(Agent)
    /\ Gated \subseteq Tool
    /\ MaxToolCalls \in Nat /\ MaxTurns \in Nat /\ MaxCallsPerTurn \in Nat
    /\ MaxTokens \in Nat /\ MaxUsage \in Nat
    /\ UniqueIds \in BOOLEAN
    /\ FailureThreshold \in Nat \ {0}

VARIABLES
    phase,      \* where agent a is in its loop
    turn,       \* the loop variable
    asked,      \* tool calls in the model's last answer
    index,      \* how many of them have been taken up
    used,       \* ToolCallBudget._used
    stopped,    \* how the loop ended: the status and stop reason of finish
    consumed,   \* RunBudget._consumed
    now, breaker, pc, key, inFlight, task, awaits, outcome, audit, faults

loopVars == <<phase, turn, asked, index, used, stopped>>
harnessVars == <<now, breaker, pc, key, inFlight, task, awaits, outcome, audit, faults>>
vars == <<loopVars, consumed, harnessVars>>

\* The calls that the harness can get to see.
Call == Agent \X (1..MaxToolCalls)

(***************************************************************************)
(* The ids that providers give to tool calls.  Anthropic's and OpenAI's are *)
(* unique.  Gemini has none, so the adapter numbers the calls of each       *)
(* response from 0: the same id comes back in another turn and in another   *)
(* agent.  Either way a call id belongs to one tool.                        *)
(***************************************************************************)
Key == Tool \X (Agent \cup {NoCall}) \X (0..(MaxToolCalls + MaxCallsPerTurn))

ASSUME NoCallNoKeyAssumption == NoCall \notin Call /\ NoKey \notin Key

CallId(a, tool) ==
    IF UniqueIds THEN <<tool, a, used[a]>> ELSE <<tool, NoCall, index[a]>>

Harness == INSTANCE Harness WITH
    ToolOf <- [k \in Key |-> k[1]],
    Scope <- [c \in Call |-> Tool],
    Registered <- Tool,
    MayRaise <- {},
    WindowMs <- 1, CooldownMs <- 1, MaxTime <- 0

Phases == {"turn", "model", "tools", "waiting", "finished", "failed"}
Stops == {"none", "end_turn", "max_tokens", "max_turns", "run_budget"}

TypeOK ==
    /\ phase \in [Agent -> Phases]
    /\ turn \in [Agent -> 0..MaxTurns]
    /\ asked \in [Agent -> 0..MaxCallsPerTurn]
    /\ index \in [Agent -> 0..MaxCallsPerTurn]
    /\ used \in [Agent -> Nat]
    /\ stopped \in [Agent -> Stops]
    /\ consumed \in Nat
    /\ Harness!TypeOK

Init ==
    /\ phase = [a \in Agent |-> "turn"]
    /\ turn = [a \in Agent |-> 0]
    /\ asked = [a \in Agent |-> 0]
    /\ index = [a \in Agent |-> 0]
    /\ used = [a \in Agent |-> 0]
    /\ stopped = [a \in Agent |-> "none"]
    /\ consumed = 0
    /\ Harness!Init
-----------------------------------------------------------------------------
Goto(a, p) == phase' = [phase EXCEPT ![a] = p]

Finish(a, why) ==
    /\ Goto(a, "finished")
    /\ stopped' = [stopped EXCEPT ![a] = why]

\* Mutant: off by one.
ExhaustedPastCeiling == MaxTokens > 0 /\ consumed > MaxTokens

\* RunBudget.is_exhausted.
Exhausted == MaxTokens > 0 /\ consumed >= MaxTokens

\* Mutant: one turn more.
BeginTurnOnceMore(a) ==
    /\ phase[a] = "turn"
    /\ \/ turn[a] > MaxTurns /\ Finish(a, "max_turns")
       \/ turn[a] <= MaxTurns /\ Exhausted /\ Finish(a, "run_budget")
       \/ turn[a] <= MaxTurns /\ ~Exhausted /\ Goto(a, "model") /\ UNCHANGED stopped
    /\ UNCHANGED <<turn, asked, index, used, consumed, harnessVars>>

(***************************************************************************)
(* The top of the loop: out of turns, out of tokens, or on to the model.    *)
(***************************************************************************)
BeginTurn(a) ==
    /\ phase[a] = "turn"
    /\ \/ turn[a] = MaxTurns /\ Finish(a, "max_turns")
       \/ turn[a] < MaxTurns /\ Exhausted /\ Finish(a, "run_budget")
       \/ turn[a] < MaxTurns /\ ~Exhausted /\ Goto(a, "model") /\ UNCHANGED stopped
    /\ UNCHANGED <<turn, asked, index, used, consumed, harnessVars>>

(***************************************************************************)
(* model.complete answers, its tokens are recorded, and the agent finishes  *)
(* or takes up the tool calls; or it raises, and run_agent with it.         *)
(***************************************************************************)
Record(usage) == consumed' = consumed + usage

Answered(a) ==
    \/ /\ \E why \in {"end_turn", "max_tokens"} : Finish(a, why)
       /\ UNCHANGED <<asked, index>>
    \/ /\ \E n \in 1..MaxCallsPerTurn : asked' = [asked EXCEPT ![a] = n]
       /\ index' = [index EXCEPT ![a] = 0]
       /\ Goto(a, "tools")
       /\ UNCHANGED stopped

ModelAnswers(a) ==
    /\ phase[a] = "model"
    /\ \E usage \in 0..MaxUsage : Record(usage)
    /\ Answered(a)
    /\ UNCHANGED <<turn, used, harnessVars>>

ModelRaises(a) ==
    /\ phase[a] = "model"
    /\ Goto(a, "failed")
    /\ UNCHANGED <<turn, asked, index, used, stopped, consumed, harnessVars>>

(***************************************************************************)
(* The next tool call: the budget counts it, and the harness executes it    *)
(* unless that was one too many.  Such a call gets a rejected outcome       *)
(* without the harness, and the loop goes on.                               *)
(***************************************************************************)
\* Mutant: off by one.
OverBudgetTooSoon(a) == used[a] + 1 >= MaxToolCalls

OverBudget(a) == used[a] + 1 > MaxToolCalls

CallTool(a) ==
    /\ phase[a] = "tools" /\ index[a] < asked[a]
    /\ used' = [used EXCEPT ![a] = @ + 1]
    /\ index' = [index EXCEPT ![a] = @ + 1]
    /\ IF OverBudget(a)
       THEN UNCHANGED <<phase, harnessVars>>
       ELSE /\ \E tool \in Tool : Harness!Submit(<<a, used[a] + 1>>, CallId(a, tool))
            /\ Goto(a, "waiting")
    /\ UNCHANGED <<turn, asked, stopped, consumed>>

\* Mutant: an agent whose call was rejected is not told.
ToolReturnsIfRun(a) ==
    /\ phase[a] = "waiting" /\ pc[<<a, used[a]>>] = "done"
    /\ outcome[<<a, used[a]>>] # "rejected"
    /\ Goto(a, "tools")
    /\ UNCHANGED <<turn, asked, index, used, stopped, consumed, harnessVars>>

ToolReturns(a) ==
    /\ phase[a] = "waiting" /\ pc[<<a, used[a]>>] = "done"
    /\ Goto(a, "tools")
    /\ UNCHANGED <<turn, asked, index, used, stopped, consumed, harnessVars>>

EndTurn(a) ==
    /\ phase[a] = "tools" /\ index[a] = asked[a]
    /\ turn' = [turn EXCEPT ![a] = @ + 1]
    /\ Goto(a, "turn")
    /\ UNCHANGED <<asked, index, used, stopped, consumed, harnessVars>>

AgentStep(a) ==
    \/ BeginTurn(a) \/ ModelAnswers(a) \/ ModelRaises(a)
    \/ CallTool(a) \/ ToolReturns(a) \/ EndTurn(a)

HarnessStep(c) ==
    /\ Harness!Decide(c) \/ Harness!TaskEnds(c) \/ Harness!Resume(c)
    /\ UNCHANGED <<loopVars, consumed>>

Next ==
    \/ \E a \in Agent : AgentStep(a)
    \/ \E c \in Call : HarnessStep(c)

Spec == Init /\ [][Next]_vars

(***************************************************************************)
(* The loop runs what can run; models answer or raise (ResilientChatModel   *)
(* times them out), and approvals and tools are assumed to end.             *)
(***************************************************************************)
Fairness ==
    /\ \A a \in Agent : WF_vars(AgentStep(a))
    /\ \A c \in Call : WF_vars(HarnessStep(c))

FairSpec == Spec /\ Fairness
-----------------------------------------------------------------------------
(* The result of a finished agent: its status and its review flags, as        *)
(* finish and derive_review_flags compute them.                               *)
Status(a) == IF stopped[a] \in {"end_turn", "max_tokens"} THEN "ok" ELSE "partial"

\* Mutant: only what a tool raised counts, not what the harness rejected.
FailedInTool(a) == {n \in 1..used[a] : n <= MaxToolCalls /\ outcome[<<a, n>>] = "error"}

\* unrecovered_errors holds every outcome that was not ok, to the end.
FailedCalls(a) == {n \in 1..used[a] : n > MaxToolCalls \/ outcome[<<a, n>>] # "ok"}

ReviewFlags(a) ==
    (IF Status(a) = "partial" THEN {"partial_completion"} ELSE {})
        \cup (IF FailedCalls(a) # {} THEN {"unrecovered_tool_error"} ELSE {})
        \cup (IF stopped[a] = "max_tokens" THEN {"max_tokens_truncation"} ELSE {})

(* The check of the ceiling and the recording of tokens are apart, with a     *)
(* model call between them that other agents' calls overlap; the run          *)
(* overshoots by at most one call per agent (RunBudget, run_agent).           *)
OvershootIsBounded ==
    MaxTokens > 0 => consumed < MaxTokens + Cardinality(Agent) * MaxUsage

(* Whatever the model asks for, and over all turns together, the harness gets *)
(* no more calls of an agent than the role's budget, and each call counted    *)
(* within it reached the harness and was audited once it returned.            *)
BudgetedCallsAreExecuted ==
    \A a \in Agent, n \in 1..MaxToolCalls :
        /\ pc[<<a, n>>] # "idle" <=> n <= used[a]
        /\ n < used[a] => Len(audit[<<a, n>>]) = 1

(* A result that nobody is asked to review comes from an agent that ended on  *)
(* the model's own end of turn with every tool call it ever made executed and *)
(* ok, none of them another call's execution that failed.                     *)
UnflaggedMeansClean ==
    \A a \in Agent : phase[a] = "finished" /\ ReviewFlags(a) = {} =>
        /\ stopped[a] = "end_turn"
        /\ used[a] <= MaxToolCalls
        /\ \A n \in 1..used[a] :
              /\ audit[<<a, n>>] = <<"ok">>
              /\ \E c \in Call : awaits[<<a, n>>] = c /\ task[c] = "ok"

(* Every agent comes to an end, by one of its caps if the model never stops.  *)
AgentsEnd == \A a \in Agent : <>(phase[a] \in {"finished", "failed"})
=============================================================================

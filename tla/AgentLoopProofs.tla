--------------------------- MODULE AgentLoopProofs ---------------------------
(***************************************************************************)
(* The agents of a run, for every number of agents, tools and turns and for *)
(* every budget.                                                            *)
(*                                                                          *)
(* First the ceiling of the RunBudget.  An agent checks the ceiling, waits  *)
(* for the model, and records what was used.  So the tokens that count are  *)
(* those recorded and those that the agents now at the model may still      *)
(* record: the inductive invariant bounds their sum.  It grows only when an *)
(* agent passes the check, and then what is recorded is still below the     *)
(* ceiling.                                                                 *)
(*                                                                          *)
(* Then the agents' tool calls, on top of what HarnessProofs proves of the  *)
(* harness that executes them.                                              *)
(***************************************************************************)
EXTENDS AgentLoop, FiniteSetTheorems, TLAPS

USE AgentLoopAssumption

AtModel == {a \in Agent : phase[a] = "model"}

CommittedTokens == consumed + Cardinality(AtModel) * MaxUsage

TokensInv ==
    /\ phase \in [Agent -> Phases]
    /\ consumed \in Nat
    /\ MaxTokens > 0 => CommittedTokens < MaxTokens + Cardinality(Agent) * MaxUsage

LEMMA AgentsAtModelAreFinite ==
    /\ IsFiniteSet(AtModel) /\ Cardinality(AtModel) \in Nat
    /\ Cardinality(Agent) \in Nat
    /\ Cardinality(AtModel) <= Cardinality(Agent)
BY FS_Subset, FS_CardinalityType DEF AtModel

LEMMA ProductIsMonotonic ==
    ASSUME NEW m \in Nat, NEW n \in Nat, m <= n, NEW u \in Nat
    PROVE  /\ m * u \in Nat /\ n * u \in Nat
           /\ m * u <= n * u
<1>1. PICK d \in Nat : n = m + d
    <2>1. n - m \in Nat /\ n = m + (n - m)
        OBVIOUS
    <2> QED
        BY <2>1
<1>2. n * u = m * u + d * u /\ d * u \in Nat /\ m * u \in Nat
    BY <1>1
<1> QED
    BY <1>2

LEMMA InitTokens == Init => TokensInv
<1> SUFFICES ASSUME Init PROVE TokensInv
    OBVIOUS
<1>1. AtModel = {}
    BY DEF Init, AtModel
<1>2. Cardinality(AtModel) = 0
    BY <1>1, FS_EmptySet
<1>3. Cardinality(Agent) * MaxUsage \in Nat
    BY AgentsAtModelAreFinite, ProductIsMonotonic
<1>4. CommittedTokens = 0
    BY <1>2 DEF CommittedTokens, Init
<1> QED
    BY <1>3, <1>4 DEF TokensInv, Init, Phases

(* A step that sends nobody to the model and records nothing.                 *)
LEMMA AwayFromModel ==
    ASSUME TokensInv, NEW a \in Agent, NEW p \in Phases \ {"model"},
           Goto(a, p), consumed' = consumed
    PROVE  TokensInv'
<1>1. phase' \in [Agent -> Phases]
    BY DEF TokensInv, Goto
<1>2. AtModel' \in SUBSET AtModel
    BY DEF TokensInv, Goto, AtModel
<1>3. Cardinality(AtModel') \in Nat /\ Cardinality(AtModel') <= Cardinality(AtModel)
    BY <1>2, AgentsAtModelAreFinite, FS_Subset, FS_CardinalityType
<1>4. /\ Cardinality(AtModel') * MaxUsage \in Nat /\ Cardinality(AtModel) * MaxUsage \in Nat
      /\ Cardinality(AtModel') * MaxUsage <= Cardinality(AtModel) * MaxUsage
    BY <1>3, AgentsAtModelAreFinite, ProductIsMonotonic
<1>5. Cardinality(Agent) * MaxUsage \in Nat
    BY AgentsAtModelAreFinite, ProductIsMonotonic
<1> QED
    BY <1>1, <1>4, <1>5 DEF TokensInv, CommittedTokens

(* An agent passes the check: whoever is at the model now, the sum is below   *)
(* the ceiling and one call each.                                             *)
LEMMA PassCheck ==
    ASSUME TokensInv, NEW a \in Agent, ~Exhausted, Goto(a, "model"), consumed' = consumed
    PROVE  TokensInv'
<1>1. phase' \in [Agent -> Phases]
    BY DEF TokensInv, Goto, Phases
<1>2. AtModel' \in SUBSET Agent
    BY DEF AtModel
<1>3. Cardinality(AtModel') \in Nat /\ Cardinality(AtModel') <= Cardinality(Agent)
    BY <1>2, AgentsAtModelAreFinite, FS_Subset, FS_CardinalityType
<1>4. /\ Cardinality(AtModel') * MaxUsage \in Nat /\ Cardinality(Agent) * MaxUsage \in Nat
      /\ Cardinality(AtModel') * MaxUsage <= Cardinality(Agent) * MaxUsage
    BY <1>3, AgentsAtModelAreFinite, ProductIsMonotonic
<1>5. MaxTokens > 0 => consumed < MaxTokens
    BY DEF Exhausted, TokensInv
<1> QED
    BY <1>1, <1>4, <1>5 DEF TokensInv, CommittedTokens

(* The model answers: what it used was committed.                             *)
LEMMA RecordUsage ==
    ASSUME TokensInv, NEW a \in Agent, phase[a] = "model",
           NEW p \in Phases \ {"model"}, Goto(a, p),
           NEW usage \in 0..MaxUsage, Record(usage)
    PROVE  TokensInv'
<1>1. phase' \in [Agent -> Phases]
    BY DEF TokensInv, Goto
<1>2. AtModel' = AtModel \ {a} /\ a \in AtModel
    BY DEF TokensInv, Goto, AtModel
<1>3. Cardinality(AtModel') = Cardinality(AtModel) - 1 /\ Cardinality(AtModel') \in Nat
    <2>1. Cardinality(AtModel \ {a}) =
              IF a \in AtModel THEN Cardinality(AtModel) - 1 ELSE Cardinality(AtModel)
        BY AgentsAtModelAreFinite, FS_RemoveElement, Zenon
    <2>2. IsFiniteSet(AtModel')
        BY <1>2, AgentsAtModelAreFinite, FS_RemoveElement
    <2>3. Cardinality(AtModel') \in Nat
        BY <2>2, FS_CardinalityType
    <2> QED
        BY <1>2, <2>1, <2>3
<1>4. Cardinality(AtModel) * MaxUsage = Cardinality(AtModel') * MaxUsage + MaxUsage
    BY <1>3, AgentsAtModelAreFinite
<1>5. /\ Cardinality(AtModel') * MaxUsage \in Nat
      /\ Cardinality(Agent) * MaxUsage \in Nat
    BY <1>3, AgentsAtModelAreFinite, ProductIsMonotonic
<1> QED
    BY <1>1, <1>4, <1>5 DEF TokensInv, CommittedTokens, Record

LEMMA AgentStepKeepsTokens ==
    ASSUME TokensInv, NEW a \in Agent, AgentStep(a)
    PROVE  TokensInv'
<1>1. CASE BeginTurn(a)
    BY <1>1, AwayFromModel, PassCheck DEF BeginTurn, Finish, Phases
<1>2. CASE ModelAnswers(a)
    <2>1. PICK usage \in 0..MaxUsage : Record(usage)
        BY <1>2 DEF ModelAnswers
    <2>2. \E p \in Phases \ {"model"} : Goto(a, p)
        BY <1>2 DEF ModelAnswers, Answered, Finish, Phases
    <2> QED
        BY <1>2, <2>1, <2>2, RecordUsage DEF ModelAnswers
<1>3. CASE ModelRaises(a)
    BY <1>3, AwayFromModel DEF ModelRaises, Phases
<1>4. CASE CallTool(a)
    <2>1. consumed' = consumed
        BY <1>4 DEF CallTool
    <2>2. CASE Goto(a, "waiting")
        BY <2>1, <2>2, AwayFromModel DEF Phases
    <2>3. CASE phase' = phase
        BY <2>1, <2>3 DEF TokensInv, CommittedTokens, AtModel
    <2> QED
        BY <1>4, <2>2, <2>3 DEF CallTool
<1>5. CASE ToolReturns(a)
    BY <1>5, AwayFromModel DEF ToolReturns, Phases
<1>6. CASE EndTurn(a)
    BY <1>6, AwayFromModel DEF EndTurn, Phases
<1> QED
    BY <1>1, <1>2, <1>3, <1>4, <1>5, <1>6 DEF AgentStep

LEMMA NextKeepsTokens == TokensInv /\ [Next]_vars => TokensInv'
<1> SUFFICES ASSUME TokensInv, [Next]_vars PROVE TokensInv'
    OBVIOUS
<1>1. ASSUME NEW a \in Agent, AgentStep(a) PROVE TokensInv'
    BY <1>1, AgentStepKeepsTokens
<1>2. CASE UNCHANGED <<loopVars, consumed>>
    BY <1>2 DEF loopVars, TokensInv, CommittedTokens, AtModel
<1>3. ASSUME NEW c \in Call, HarnessStep(c) PROVE TokensInv'
    BY <1>2, <1>3 DEF HarnessStep
<1>4. CASE UNCHANGED vars
    BY <1>2, <1>4 DEF vars
<1> QED
    BY <1>1, <1>3, <1>4 DEF Next

(* What a run spends past its ceiling is bounded by one model call for each   *)
(* agent of it (RunBudget, run_agent).                                        *)
THEOREM TokenCeiling == Spec => []OvershootIsBounded
<1>1. TokensInv => OvershootIsBounded
    <2> SUFFICES ASSUME TokensInv, MaxTokens > 0
                 PROVE  consumed < MaxTokens + Cardinality(Agent) * MaxUsage
        BY DEF OvershootIsBounded
    <2>1. Cardinality(AtModel) * MaxUsage \in Nat /\ Cardinality(Agent) * MaxUsage \in Nat
        BY AgentsAtModelAreFinite, ProductIsMonotonic
    <2> QED
        BY <2>1 DEF TokensInv, CommittedTokens
<1> QED
    BY <1>1, InitTokens, NextKeepsTokens, PTL DEF Spec
-----------------------------------------------------------------------------
(***************************************************************************)
(* The calls of the agents.  HarnessProofs is about every set of calls and  *)
(* every scope, so about this harness too: what it proves is cited here as  *)
(* Proved, once it is shown that the harness is the same one.               *)
(***************************************************************************)
Proved == INSTANCE HarnessProofs WITH
    ToolOf <- [k \in Key |-> k[1]],
    Scope <- [c \in Call |-> Tool],
    Registered <- Tool,
    MayRaise <- {},
    WindowMs <- 1, CooldownMs <- 1, MaxTime <- 0

LEMMA HarnessAssumptions == Proved!HarnessAssumption /\ Proved!BreakerOptionsAssumption
<1>1. Proved!HarnessAssumption
  BY NoCallNoKeyAssumption DEF Proved!HarnessAssumption, Proved!Injected, Key
<1>2. Proved!BreakerOptionsAssumption
  BY DEF Proved!BreakerOptionsAssumption
<1> QED
  BY <1>1, <1>2

LEMMA SameHarness ==
    /\ Harness!Init <=> Proved!Init
    /\ Harness!TypeOK <=> Proved!TypeOK
    /\ \A c \in Call : /\ Harness!Decide(c) <=> Proved!Decide(c)
                       /\ Harness!TaskEnds(c) <=> Proved!TaskEnds(c)
                       /\ Harness!Resume(c) <=> Proved!Resume(c)
    /\ \A c \in Call, k \in Key : Harness!Submit(c, k) <=> Proved!Submit(c, k)
<1>1. Harness!Init <=> Proved!Init
  BY DEF Harness!Init, Harness!Closed, Harness!Never,
         Proved!Init, Proved!Closed, Proved!Never
<1>2. Harness!TypeOK <=> Proved!TypeOK
  BY DEF Harness!TypeOK, Harness!BreakerState, Harness!Never, Harness!Status, Harness!Injected,
         Proved!TypeOK, Proved!BreakerState, Proved!Never, Proved!Status, Proved!Injected
<1>3. ASSUME NEW c \in Call PROVE Harness!Decide(c) <=> Proved!Decide(c)
  BY DEF Harness!Decide, Harness!Approve, Harness!Deny, Harness!DecisionRaises, Harness!EnterCache, Harness!Joins, Harness!Return, Harness!Record,
         Proved!Decide, Proved!Approve, Proved!Deny, Proved!DecisionRaises, Proved!EnterCache, Proved!Joins, Proved!Return, Proved!Record
<1>4. ASSUME NEW c \in Call PROVE Harness!TaskEnds(c) <=> Proved!TaskEnds(c)
  BY DEF Harness!TaskEnds,
         Proved!TaskEnds
<1>5. ASSUME NEW c \in Call PROVE Harness!Resume(c) <=> Proved!Resume(c)
  <2>1. Harness!Closed = Proved!Closed
    BY DEF Harness!Closed, Proved!Closed, Harness!Never, Proved!Never
  <2>2. \A b : /\ Harness!AfterSuccess(b) = Proved!AfterSuccess(b)
              /\ Harness!AfterFailure(b, now, c) = Proved!AfterFailure(b, now, c)
    BY <2>1 DEF Harness!AfterSuccess, Harness!AfterFailure, Harness!Recent, Harness!Cardinality,
               Proved!AfterSuccess, Proved!AfterFailure, Proved!Recent, Proved!Cardinality
  <2>3. \A s, b : Harness!Return(c, s, b) <=> Proved!Return(c, s, b)
    BY DEF Harness!Return, Harness!Record, Proved!Return, Proved!Record
  <2>4. Harness!PopsKey(c) <=> Proved!PopsKey(c)
    BY DEF Harness!PopsKey, Proved!PopsKey
  <2> QED
    BY <2>2, <2>3, <2>4
    DEF Harness!Resume, Harness!ResumeOk, Harness!ResumeFailed,
        Proved!Resume, Proved!ResumeOk, Proved!ResumeFailed
<1>6. ASSUME NEW c \in Call, NEW k \in Key PROVE Harness!Submit(c, k) <=> Proved!Submit(c, k)
  BY DEF Harness!Submit, Harness!Refuse, Harness!Callable, Harness!ShortCircuited, Harness!AskApproval, Harness!PassBreaker, Harness!Run, Harness!EnterCache, Harness!Joins, Harness!IsOpen, Harness!AfterIsOpen, Harness!CooledDown, Harness!Closed, Harness!Never, Harness!Return, Harness!Record,
         Proved!Submit, Proved!Refuse, Proved!Callable, Proved!ShortCircuited, Proved!AskApproval, Proved!PassBreaker, Proved!Run, Proved!EnterCache, Proved!Joins, Proved!IsOpen, Proved!AfterIsOpen, Proved!CooledDown, Proved!Closed, Proved!Never, Proved!Return, Proved!Record
<1> QED
  BY <1>1, <1>2, <1>3, <1>4, <1>5, <1>6

(***************************************************************************)
(* The invariant of the agents: where an agent is in its loop decides how   *)
(* far the harness is with its calls.  It has submitted those that its      *)
(* budget counted and no other, and all of them have returned, but for the  *)
(* one that it waits for.                                                   *)
(***************************************************************************)
LoopTypes ==
    /\ phase \in [Agent -> Phases]
    /\ turn \in [Agent -> 0..MaxTurns]
    /\ asked \in [Agent -> 0..MaxCallsPerTurn]
    /\ index \in [Agent -> 0..MaxCallsPerTurn]
    /\ used \in [Agent -> Nat]
    /\ stopped \in [Agent -> Stops]
    /\ consumed \in Nat

InLoop(a) ==
    /\ phase[a] \in {"model", "tools", "waiting"} => turn[a] < MaxTurns
    /\ index[a] <= asked[a]
    /\ phase[a] = "waiting" => used[a] \in 1..MaxToolCalls
    /\ phase[a] = "finished" => stopped[a] # "none"

CallsInHarness(a) ==
    \A n \in 1..MaxToolCalls :
        /\ pc[<<a, n>>] # "idle" <=> n <= used[a]
        /\ n <= used[a] =>
              pc[<<a, n>>] = "done" \/ (phase[a] = "waiting" /\ n = used[a])

AgentInv(a) == InLoop(a) /\ CallsInHarness(a)

\* This harness is given no part that raises.
NoFaults == faults = [c \in Call |-> {}]

LoopInv ==
    /\ LoopTypes /\ Proved!IInv /\ NoFaults
    /\ \A a \in Agent : AgentInv(a)

LEMMA InitLoop == Init => LoopInv
<1> SUFFICES ASSUME Init PROVE LoopInv
    OBVIOUS
<1>1. LoopTypes
    BY DEF Init, LoopTypes, Phases, Stops
<1>2. Harness!Init
    BY DEF Init
<1>3. Proved!IInv
    BY <1>2, SameHarness, HarnessAssumptions, Proved!InitIInv
<1>4. NoFaults /\ \A c \in Call : pc[c] = "idle"
    BY <1>2 DEF Harness!Init, NoFaults
<1>5. ASSUME NEW a \in Agent PROVE AgentInv(a)
    BY <1>4 DEF Init, AgentInv, InLoop, CallsInHarness, Call
<1> QED
    BY <1>1, <1>3, <1>4, <1>5 DEF LoopInv

(* What the harness's steps do to the calls, as far as the agents can tell.   *)
LEMMA SubmitMoves ==
    ASSUME NEW c \in Call, NEW k \in Key, Harness!Submit(c, k)
    PROVE  /\ pc[c] = "idle" /\ (NoFaults => NoFaults')
           /\ \E p \in {"gate", "await", "done"} : pc' = [pc EXCEPT ![c] = p]
BY DEF Harness!Submit, Harness!Refuse, Harness!AskApproval, Harness!Run, Harness!EnterCache,
       Harness!Return, Harness!Record, NoFaults

LEMMA HarnessMoves ==
    ASSUME NEW c \in Call, HarnessStep(c)
    PROVE  /\ (NoFaults => NoFaults')
           /\ \/ pc' = pc
              \/ /\ pc[c] \in {"gate", "await"}
                 /\ \E p \in {"await", "done"} : pc' = [pc EXCEPT ![c] = p]
<1>1. CASE Harness!Decide(c)
    <2>1. CASE Harness!Approve(c)
        BY <2>1 DEF Harness!Approve, Harness!EnterCache, NoFaults
    <2>2. CASE Harness!Deny(c)
        BY <2>2 DEF Harness!Deny, Harness!Return, Harness!Record, NoFaults
    <2>3. ~Harness!DecisionRaises(c)
        BY DEF Harness!DecisionRaises
    <2> QED
        BY <1>1, <2>1, <2>2, <2>3 DEF Harness!Decide
<1>2. CASE Harness!TaskEnds(c)
    BY <1>2 DEF Harness!TaskEnds, NoFaults
<1>3. CASE Harness!Resume(c)
    BY <1>3 DEF Harness!Resume, Harness!ResumeOk, Harness!ResumeFailed,
                Harness!Return, Harness!Record, NoFaults
<1> QED
    BY <1>1, <1>2, <1>3 DEF HarnessStep

(* The harness keeps its invariant through the steps of the agents.           *)
LEMMA HarnessUntouched ==
    ASSUME LoopInv, UNCHANGED harnessVars
    PROVE  Proved!IInv' /\ NoFaults'
<1>1. UNCHANGED Proved!vars
    BY DEF harnessVars, Proved!vars
<1> QED
    BY <1>1, HarnessAssumptions, Proved!NextIInv DEF LoopInv, harnessVars, NoFaults

(* An agent's own step, between its calls.                                    *)
LEMMA BetweenCalls ==
    ASSUME LoopInv, LoopTypes', NEW a \in Agent, UNCHANGED <<used, harnessVars>>,
           InLoop(a)',
           phase[a] = "waiting" => pc[<<a, used[a]>>] = "done",
           \A b \in Agent \ {a} :
               /\ phase'[b] = phase[b] /\ turn'[b] = turn[b] /\ asked'[b] = asked[b]
               /\ index'[b] = index[b] /\ stopped'[b] = stopped[b]
    PROVE  LoopInv'
<1>1. Proved!IInv' /\ NoFaults'
    BY HarnessUntouched
<1>2. used' = used /\ pc' = pc
    BY DEF harnessVars
<1>3. CallsInHarness(a)'
    BY <1>2 DEF LoopInv, AgentInv, CallsInHarness
<1>4. ASSUME NEW b \in Agent \ {a} PROVE AgentInv(b)'
    BY <1>2 DEF LoopInv, AgentInv, InLoop, CallsInHarness
<1> QED
    BY <1>1, <1>3, <1>4 DEF LoopInv, AgentInv

LEMMA BeginTurnKeepsLoop ==
    ASSUME LoopInv, NEW a \in Agent, BeginTurn(a)
    PROVE  LoopInv'
<1>1. /\ phase[a] = "turn" /\ turn[a] \in 0..MaxTurns
      /\ UNCHANGED <<turn, asked, index, used, consumed, harnessVars>>
    BY DEF BeginTurn, LoopInv, LoopTypes
<1>2. LoopTypes'
    BY <1>1 DEF BeginTurn, Finish, Goto, LoopInv, LoopTypes, Phases, Stops
<1>3. InLoop(a)'
    BY <1>1 DEF BeginTurn, Finish, Goto, LoopInv, LoopTypes, AgentInv, InLoop
<1> QED
    BY <1>1, <1>2, <1>3, BetweenCalls DEF BeginTurn, Finish, Goto, LoopInv, LoopTypes

LEMMA ModelKeepsLoop ==
    ASSUME LoopInv, NEW a \in Agent, ModelAnswers(a) \/ ModelRaises(a)
    PROVE  LoopInv'
<1>1. phase[a] = "model" /\ UNCHANGED <<turn, used, harnessVars>>
    BY DEF ModelAnswers, ModelRaises
<1>2. LoopTypes'
    <2>1. consumed' \in Nat
        BY DEF ModelAnswers, ModelRaises, Record, LoopInv, LoopTypes
    <2> QED
        BY <1>1, <2>1
        DEF ModelAnswers, Answered, ModelRaises, Finish, Goto, LoopInv, LoopTypes, Phases, Stops
<1>3. InLoop(a)'
    BY <1>1
    DEF ModelAnswers, Answered, ModelRaises, Finish, Goto, LoopInv, LoopTypes, AgentInv, InLoop
<1> QED
    BY <1>1, <1>2, <1>3, BetweenCalls
    DEF ModelAnswers, Answered, ModelRaises, Finish, Goto, LoopInv, LoopTypes

LEMMA ReturnKeepsLoop ==
    ASSUME LoopInv, NEW a \in Agent, ToolReturns(a) \/ EndTurn(a)
    PROVE  LoopInv'
<1>1. /\ phase[a] \in {"waiting", "tools"} /\ turn[a] < MaxTurns
      /\ phase[a] = "waiting" => pc[<<a, used[a]>>] = "done"
      /\ UNCHANGED <<asked, index, used, stopped, consumed, harnessVars>>
    BY DEF ToolReturns, EndTurn, LoopInv, AgentInv, InLoop
<1>2. LoopTypes'
    BY <1>1 DEF ToolReturns, EndTurn, Goto, LoopInv, LoopTypes, Phases
<1>3. InLoop(a)'
    BY <1>1 DEF ToolReturns, EndTurn, Goto, LoopInv, LoopTypes, AgentInv, InLoop
<1> QED
    BY <1>1, <1>2, <1>3, BetweenCalls DEF ToolReturns, EndTurn, Goto, LoopInv, LoopTypes

(* The id of a call within the budget is a key of the harness.                *)
LEMMA CallIdIsAKey ==
    ASSUME LoopInv, NEW a \in Agent, NEW tool \in Tool,
           index[a] < asked[a], ~OverBudget(a)
    PROVE  CallId(a, tool) \in Key /\ <<a, used[a] + 1>> \in Call
BY DEF LoopInv, LoopTypes, OverBudget, CallId, Key, Call

LEMMA CallToolKeepsLoop ==
    ASSUME LoopInv, NEW a \in Agent, CallTool(a)
    PROVE  LoopInv'
<1>1. /\ phase[a] = "tools" /\ index[a] < asked[a] /\ turn[a] < MaxTurns
      /\ used' = [used EXCEPT ![a] = @ + 1] /\ index' = [index EXCEPT ![a] = @ + 1]
      /\ UNCHANGED <<turn, asked, stopped, consumed>>
    BY DEF CallTool, LoopInv, AgentInv, InLoop
<1>2. phase' = phase \/ phase' = [phase EXCEPT ![a] = "waiting"]
    BY DEF CallTool, Goto
<1>3. LoopTypes'
    BY <1>1, <1>2 DEF LoopInv, LoopTypes, Phases
<1>4. CASE OverBudget(a)
    <2>1. UNCHANGED <<phase, harnessVars>>
        BY <1>4 DEF CallTool
    <2>2. Proved!IInv' /\ NoFaults'
        BY <2>1, HarnessUntouched
    <2>3. ASSUME NEW b \in Agent PROVE InLoop(b)'
        BY <1>1, <2>1 DEF LoopInv, LoopTypes, AgentInv, InLoop
    <2>4. ASSUME NEW b \in Agent PROVE CallsInHarness(b)'
        BY <1>1, <1>4, <2>1
        DEF LoopInv, LoopTypes, AgentInv, CallsInHarness, OverBudget, harnessVars
    <2> QED
        BY <1>3, <2>2, <2>3, <2>4 DEF LoopInv, AgentInv
<1>5. CASE ~OverBudget(a)
    <2> DEFINE c == <<a, used[a] + 1>>
    <2>1. PICK tool \in Tool : Harness!Submit(c, CallId(a, tool))
        BY <1>5 DEF CallTool
    <2>2. CallId(a, tool) \in Key /\ c \in Call
        BY <1>1, <1>5, CallIdIsAKey
    <2>3. Proved!IInv'
        BY <2>1, <2>2, SameHarness, HarnessAssumptions, Proved!SubmitStep DEF LoopInv
    <2>4. /\ NoFaults'
          /\ \E p \in {"gate", "await", "done"} : pc' = [pc EXCEPT ![c] = p]
        BY <2>1, <2>2, SubmitMoves DEF LoopInv
    <2>5. phase' = [phase EXCEPT ![a] = "waiting"] /\ used[a] + 1 \in 1..MaxToolCalls
        BY <1>5 DEF CallTool, Goto, OverBudget, LoopInv, LoopTypes
    <2>6. ASSUME NEW b \in Agent PROVE InLoop(b)'
        BY <1>1, <2>5 DEF LoopInv, LoopTypes, AgentInv, InLoop
    <2>7. pc \in [Call -> {"idle", "gate", "await", "done"}]
        BY DEF LoopInv, Proved!IInv, Proved!TypeOK
    <2>8. ASSUME NEW b \in Agent PROVE CallsInHarness(b)'
        <3>1. CASE b = a
            <4> SUFFICES ASSUME NEW n \in 1..MaxToolCalls
                         PROVE  /\ pc'[<<a, n>>] # "idle" <=> n <= used[a] + 1
                                /\ n <= used[a] => pc'[<<a, n>>] = "done"
                BY <1>1, <2>5, <3>1 DEF LoopInv, LoopTypes, CallsInHarness
            <4>1. /\ used[a] \in Nat
                  /\ pc[<<a, n>>] # "idle" <=> n <= used[a]
                  /\ n <= used[a] => pc[<<a, n>>] = "done"
                BY <1>1 DEF LoopInv, LoopTypes, AgentInv, CallsInHarness
            <4>2. CASE n = used[a] + 1
                BY <2>2, <2>4, <2>7, <4>1, <4>2
            <4>3. CASE n # used[a] + 1
                <5>1. pc'[<<a, n>>] = pc[<<a, n>>]
                    BY <2>2, <2>4, <2>7, <4>3 DEF Call
                <5> QED
                    BY <4>1, <4>3, <5>1
            <4> QED
                BY <4>2, <4>3
        <3>2. CASE b # a
            BY <1>1, <2>2, <2>4, <2>5, <2>7, <3>2
            DEF LoopInv, LoopTypes, AgentInv, CallsInHarness, Call
        <3> QED
            BY <3>1, <3>2
    <2> QED
        BY <1>3, <2>3, <2>4, <2>6, <2>8 DEF LoopInv, AgentInv
<1> QED
    BY <1>4, <1>5

LEMMA HarnessStepKeepsLoop ==
    ASSUME LoopInv, NEW c \in Call, HarnessStep(c)
    PROVE  LoopInv'
<1>1. UNCHANGED <<phase, turn, asked, index, used, stopped, consumed>>
    BY DEF HarnessStep, loopVars
<1>2. Proved!IInv'
    BY SameHarness, HarnessAssumptions, Proved!DecideStep, Proved!TaskEndsStep, Proved!ResumeStep
    DEF LoopInv, HarnessStep
<1>3. LoopTypes' /\ NoFaults'
    BY <1>1, HarnessMoves DEF LoopInv, LoopTypes
<1>4. pc \in [Call -> {"idle", "gate", "await", "done"}]
    BY DEF LoopInv, Proved!IInv, Proved!TypeOK
<1>5. ASSUME NEW a \in Agent PROVE AgentInv(a)'
    <2>1. InLoop(a)'
        BY <1>1 DEF LoopInv, AgentInv, InLoop
    <2>2. ASSUME NEW n \in 1..MaxToolCalls
          PROVE  /\ pc'[<<a, n>>] = "idle" <=> pc[<<a, n>>] = "idle"
                 /\ pc[<<a, n>>] = "done" => pc'[<<a, n>>] = "done"
        <3>1. <<a, n>> \in Call
            BY DEF Call
        <3> QED
            BY <1>4, <3>1, HarnessMoves
    <2> QED
        BY <1>1, <2>1, <2>2 DEF LoopInv, AgentInv, CallsInHarness
<1> QED
    BY <1>2, <1>3, <1>5 DEF LoopInv

LEMMA NextKeepsLoop == LoopInv /\ [Next]_vars => LoopInv'
<1> SUFFICES ASSUME LoopInv, [Next]_vars PROVE LoopInv'
    OBVIOUS
<1>1. ASSUME NEW a \in Agent, AgentStep(a) PROVE LoopInv'
    BY <1>1, BeginTurnKeepsLoop, ModelKeepsLoop, ReturnKeepsLoop, CallToolKeepsLoop DEF AgentStep
<1>2. ASSUME NEW c \in Call, HarnessStep(c) PROVE LoopInv'
    BY <1>2, HarnessStepKeepsLoop
<1>3. CASE UNCHANGED vars
    BY <1>3, HarnessUntouched
    DEF vars, loopVars, harnessVars, LoopInv, LoopTypes, AgentInv, InLoop, CallsInHarness
<1> QED
    BY <1>1, <1>2, <1>3 DEF Next

THEOREM LoopInvariance == Spec => []LoopInv
BY InitLoop, NextKeepsLoop, PTL DEF Spec

(* The loop's variables and the harness's keep their types; turn never passes *)
(* max_turns and index never passes the calls that were asked for.            *)
THEOREM LoopTypeCorrect == Spec => []TypeOK
<1>1. LoopInv => TypeOK
    BY SameHarness DEF LoopInv, LoopTypes, TypeOK, Proved!IInv
<1> QED
    BY <1>1, LoopInvariance, PTL

(* A call has reached the harness exactly if the budget counted it, and those *)
(* that have returned left one audit entry (ToolCallBudget, Harness.execute). *)
THEOREM BudgetedCalls == Spec => []BudgetedCallsAreExecuted
<1>1. LoopInv => BudgetedCallsAreExecuted
    <2> SUFFICES ASSUME LoopInv, NEW a \in Agent, NEW n \in 1..MaxToolCalls
                 PROVE  /\ pc[<<a, n>>] # "idle" <=> n <= used[a]
                        /\ n < used[a] => Len(audit[<<a, n>>]) = 1
        BY DEF BudgetedCallsAreExecuted
    <2>1. pc[<<a, n>>] # "idle" <=> n <= used[a]
        BY DEF LoopInv, AgentInv, CallsInHarness
    <2>2. ASSUME n < used[a] PROVE audit[<<a, n>>] = <<outcome[<<a, n>>]>>
        <3>1. <<a, n>> \in Call /\ pc[<<a, n>>] = "done"
            BY <2>2 DEF LoopInv, LoopTypes, AgentInv, CallsInHarness, Call
        <3> QED
            BY <3>1 DEF LoopInv, Proved!IInv, Proved!AuditMissesOnlyFaults, Proved!Unrecorded, NoFaults
    <2> QED
        BY <2>1, <2>2
<1> QED
    BY <1>1, LoopInvariance, PTL

(* A result without review flags rests on calls that were all executed with   *)
(* success (derive_review_flags).                                             *)
THEOREM UnflaggedResults == Spec => []UnflaggedMeansClean
<1>1. LoopInv => UnflaggedMeansClean
    <2> SUFFICES ASSUME LoopInv, NEW a \in Agent, phase[a] = "finished", ReviewFlags(a) = {}
                 PROVE  /\ stopped[a] = "end_turn"
                        /\ used[a] <= MaxToolCalls
                        /\ \A n \in 1..used[a] :
                              /\ audit[<<a, n>>] = <<"ok">>
                              /\ \E c \in Call : awaits[<<a, n>>] = c /\ task[c] = "ok"
        BY DEF UnflaggedMeansClean
    <2>1. used[a] \in Nat
        BY DEF LoopInv, LoopTypes
    <2>2. stopped[a] = "end_turn"
        BY DEF ReviewFlags, Status
    <2>3. \A n \in 1..used[a] : n <= MaxToolCalls /\ outcome[<<a, n>>] = "ok"
        BY DEF ReviewFlags, FailedCalls
    <2>4. used[a] <= MaxToolCalls
        <3>1. CASE used[a] = 0
            BY <3>1
        <3>2. CASE used[a] # 0
            <4>1. used[a] \in 1..used[a]
                BY <2>1, <3>2
            <4> QED
                BY <2>3, <4>1, Zenon
        <3> QED
            BY <3>1, <3>2
    <2>5. ASSUME NEW n \in 1..used[a]
          PROVE  /\ audit[<<a, n>>] = <<"ok">>
                 /\ \E c \in Call : awaits[<<a, n>>] = c /\ task[c] = "ok"
        <3>1. /\ <<a, n>> \in Call /\ n \in 1..MaxToolCalls
              /\ outcome[<<a, n>>] = "ok"
            BY <2>1, <2>3 DEF LoopInv, Call
        <3>2. pc[<<a, n>>] = "done"
            BY <2>1, <3>1 DEF LoopInv, AgentInv, CallsInHarness
        <3>3. audit[<<a, n>>] = <<"ok">>
            BY <3>1, <3>2 DEF LoopInv, Proved!IInv, Proved!AuditMissesOnlyFaults, Proved!Unrecorded, NoFaults
        <3>4. awaits[<<a, n>>] \in Call /\ task[awaits[<<a, n>>]] = "ok"
            BY <3>1 DEF LoopInv, Proved!IInv, Proved!TypeOK, Proved!OutcomesAreOfExecutions
        <3> QED
            BY <3>3, <3>4
    <2> QED
        BY <2>2, <2>4, <2>5
<1> QED
    BY <1>1, LoopInvariance, PTL
-----------------------------------------------------------------------------
(* The agents' steps are steps of the harness, or none of its business.       *)
LEMMA StepsOfTheHarness == LoopInv /\ [Next]_vars => [Proved!Next]_(Proved!vars)
<1> SUFFICES ASSUME LoopInv, [Next]_vars PROVE [Proved!Next]_(Proved!vars)
    OBVIOUS
<1>1. ASSUME UNCHANGED harnessVars PROVE UNCHANGED Proved!vars
    BY <1>1 DEF harnessVars, Proved!vars
<1>2. ASSUME NEW a \in Agent, CallTool(a), ~OverBudget(a) PROVE Proved!Next
    <2>1. PICK tool \in Tool : Harness!Submit(<<a, used[a] + 1>>, CallId(a, tool))
        BY <1>2 DEF CallTool
    <2>2. CallId(a, tool) \in Key /\ <<a, used[a] + 1>> \in Call
        BY <1>2, CallIdIsAKey DEF CallTool
    <2>3. Proved!Submit(<<a, used[a] + 1>>, CallId(a, tool))
        BY <2>1, <2>2, SameHarness
    <2> QED
        BY <2>2, <2>3 DEF Proved!Next
<1>3. ASSUME NEW a \in Agent, AgentStep(a) PROVE UNCHANGED harnessVars \/ Proved!Next
    BY <1>2, <1>3
    DEF AgentStep, BeginTurn, ModelAnswers, ModelRaises, CallTool, ToolReturns, EndTurn, harnessVars
<1>4. ASSUME NEW c \in Call, HarnessStep(c) PROVE Proved!Next
    BY <1>4, SameHarness DEF HarnessStep, Proved!Next
<1> QED
    BY <1>1, <1>3, <1>4 DEF Next, vars

(* The harness that the agents share behaves as Harness says.                 *)
THEOREM AgentsUseHarness == Spec => Proved!Spec
<1>1. Init => Proved!Init
    BY SameHarness DEF Init
<1> QED
    BY <1>1, StepsOfTheHarness, LoopInvariance, PTL DEF Spec, Proved!Spec

(* So an idempotency key keeps its promise to every agent of the run: one     *)
(* execution at a time, none after a success, and one answer for all.         *)
THEOREM AgentsKeepPromise == Spec => Proved!KeepsIdempotencyPromise
<1>1. Proved!Spec => Proved!KeepsIdempotencyPromise
    BY HarnessAssumptions, Proved!IdempotencyPromise
<1> QED
    BY <1>1, AgentsUseHarness, PTL
=============================================================================

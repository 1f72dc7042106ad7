---------------------------- MODULE Conversation ----------------------------
(***************************************************************************)
(* What one agent says to its models: the message history of run_agent, the *)
(* compactor that collapses it, the chain of providers that answer it, and  *)
(* the form in which each of them is sent it.                               *)
(*                                                                          *)
(* Turn n is request n of ResilientModel.  What the tool calls do is left   *)
(* to AgentLoop: here every call gets its result block.  A call is known by *)
(* its id: the adapter that made it up, the tool, and its numbers.          *)
(***************************************************************************)
EXTENDS ResilientModel, Sequences, SequencesExt

CONSTANTS
    MaxTurns,       \* max_turns
    Configured,     \* the chains to look at: sequences of provider names
    Roles,          \* the roles the agent may have
    KeepRecents,    \* the values of the compactor's keep_recent to look at
    ToolNames,      \* the tools of the registry
    Asks            \* bound: the tools that an answer may ask for, in order

ASSUME ConversationAssumption ==
    /\ MaxTurns \in Nat \ {0} /\ Request = 1..MaxTurns
    /\ KeepRecents \subseteq Nat
    /\ \A names \in Configured : Len(names) = Chain
    /\ Asks \subseteq Seq(ToolNames) \ {<<>>}
    /\ {"spawn_subagents", "search_web", "write_artifact"} \subseteq ToolNames

VARIABLES
    vendor,         \* the adapter of each model of the chain
    role,           \* the agent's role
    keepRecent,     \* SummarizingCompactor._keep_recent
    history,        \* messages
    transcript,     \* history variable: all messages that ever were in it
    phase, turn,    \* where run_agent is, and how many turns it has begun
    stopReason,     \* what finish is told of the end
    cut             \* history variable: the answer it ended on was cut off

setup == <<vendor, role, keepRecent>>
vars == <<modelVars, setup, history, transcript, phase, turn, stopReason, cut>>

Keys == {"anthropic", "openai", "google"}

(***************************************************************************)
(* resolve_provider: a name without its key, and any other name, is the     *)
(* mock.                                                                    *)
(***************************************************************************)
Resolve(name, keys) == IF name \in keys THEN name ELSE "mock"

Message(who, text, calls, results) ==
    [role |-> who, text |-> text, calls |-> calls, results |-> results]

Task == Message("user", "task", <<>>, <<>>)
Summary == Message("user", "summary", <<>>, <<>>)
AnswerMessage(calls) == Message("assistant", "", calls, <<>>)
ResultsMessage(calls) == Message("tool", "", <<>>, calls)

Init ==
    /\ ModelInit
    /\ \E names \in Configured, keys \in SUBSET Keys :
          vendor = [i \in 1..Chain |-> Resolve(names[i], keys)]
    /\ role \in Roles /\ keepRecent \in KeepRecents
    /\ history = <<Task>> /\ transcript = <<Task>>
    /\ phase = "turn" /\ turn = 0 /\ stopReason = "none" /\ cut = FALSE
-----------------------------------------------------------------------------
(***************************************************************************)
(* maybe_compact: over the threshold, and with a middle to collapse, the    *)
(* history becomes its first message, a summary, and its last messages.     *)
(***************************************************************************)
\* Mutant: the tail starts a message late.
CompactedShort(h) == <<h[1], Summary>> \o SubSeq(h, Len(h) - keepRecent + 2, Len(h))

Compacted(h) == <<h[1], Summary>> \o SubSeq(h, Len(h) - keepRecent + 1, Len(h))

HasMiddle(h) == Len(h) > keepRecent + 1

MaybeCompact(h) == {h} \cup {Compacted(g) : g \in {f \in {h} : HasMiddle(f)}}

(***************************************************************************)
(* The top of run_agent's loop, up to model.complete.                       *)
(***************************************************************************)
BeginTurn ==
    /\ phase = "turn" /\ turn < MaxTurns
    /\ turn' = turn + 1
    /\ history' \in MaybeCompact(history)
    /\ Begin(turn + 1)
    /\ phase' = "model"
    /\ UNCHANGED <<setup, transcript, stopReason, cut>>

OutOfTurns ==
    /\ phase = "turn" /\ turn = MaxTurns
    /\ phase' = "ended" /\ stopReason' = "max_turns"
    /\ UNCHANGED <<modelVars, setup, history, transcript, turn, cut>>

ChainGoesOn ==
    /\ phase = "model" /\ GoesOn(turn)
    /\ UNCHANGED <<setup, history, transcript, phase, turn, stopReason, cut>>

ProviderIsDone ==
    /\ \E x \in Calls : ProviderEnds(x)
    /\ UNCHANGED <<setup, history, transcript, phase, turn, stopReason, cut>>

ModelRaises ==
    /\ phase = "model" /\ stage[turn] = "raised"
    /\ phase' = "failed"
    /\ UNCHANGED <<modelVars, setup, history, transcript, turn, stopReason, cut>>

(***************************************************************************)
(* What the adapter that answered makes of the provider's response: the ids *)
(* of its tool calls and the stop reason.  Anthropic and OpenAI send both.  *)
(* Gemini sends neither, so its adapter numbers the calls of a response and *)
(* takes any call for the stop reason.  The mock is a script that counts    *)
(* the answers in the history.                                              *)
(***************************************************************************)
\* Mutant: every adapter numbers the calls of a response.
PositionalCallIds(v, tools) ==
    [i \in DOMAIN tools |-> [by |-> v, tool |-> tools[i], no |-> <<i - 1>>]]

CallIds(v, tools) ==
    [i \in DOMAIN tools |->
        [by |-> v, tool |-> tools[i],
         no |-> CASE v \in {"anthropic", "openai"} -> <<turn, i>>
                  [] v = "google" -> <<i - 1>>
                  [] OTHER -> <<0>>]]

\* Mutants: no adapter reads the reason; an adapter hands on one it does not know.
StopReasonOfCalls(v, tools, cutOff) == IF tools # <<>> THEN "tool_use" ELSE "end_turn"
StopReasonAsSent(v, tools, cutOff) ==
    CASE v # "google" /\ cutOff -> "length"
      [] tools # <<>> -> "tool_use"
      [] OTHER -> "end_turn"

StopReason(v, tools, cutOff) ==
    CASE v # "google" /\ cutOff -> "max_tokens"
      [] tools # <<>> -> "tool_use"
      [] OTHER -> "end_turn"

IsAnswer(m) == m.role = "assistant"

ScriptedTools ==
    LET n == Cardinality({i \in DOMAIN history : IsAnswer(history[i])})
    IN  CASE role = "lead" /\ n = 0 -> <<"spawn_subagents">>
          [] role = "subagent" /\ n = 0 -> <<"search_web">>
          [] role = "subagent" /\ n = 1 -> <<"write_artifact">>
          [] OTHER -> <<>>

\* What a provider may answer: the tools it asks for, and whether the answer
\* is cut off at max_tokens.
Responses(v) ==
    IF v = "mock" THEN {ScriptedTools} \X {FALSE} ELSE (Asks \cup {<<>>}) \X BOOLEAN

Answering == vendor[try[turn][1]]

AnswerWith(v, tools, cutOff) ==
    LET message == AnswerMessage(CallIds(v, tools))
    IN  /\ history' = Append(history, message)
        /\ transcript' = Append(transcript, message)
        /\ IF StopReason(v, tools, cutOff) = "tool_use"
           THEN phase' = "tools" /\ UNCHANGED <<stopReason, cut>>
           ELSE /\ phase' = "ended" /\ stopReason' = StopReason(v, tools, cutOff)
                /\ cut' = cutOff

ModelAnswers ==
    /\ phase = "model" /\ Answers(turn)
    /\ \E r \in Responses(Answering) : AnswerWith(Answering, r[1], r[2])
    /\ UNCHANGED <<setup, turn>>

(***************************************************************************)
(* The tool calls of the last message, one after the other, and the message *)
(* with a result block for each, be it an output or an error.               *)
(***************************************************************************)
\* Mutant: only calls that went well get a block.
ToolsRunForSome ==
    /\ phase = "tools"
    /\ \E calls \in {Last(history).calls, Front(Last(history).calls)} :
          /\ history' = Append(history, ResultsMessage(calls))
          /\ transcript' = Append(transcript, ResultsMessage(calls))
    /\ phase' = "turn"
    /\ UNCHANGED <<modelVars, setup, turn, stopReason, cut>>

ToolsRun ==
    /\ phase = "tools"
    /\ history' = Append(history, ResultsMessage(Last(history).calls))
    /\ transcript' = Append(transcript, ResultsMessage(Last(history).calls))
    /\ phase' = "turn"
    /\ UNCHANGED <<modelVars, setup, turn, stopReason, cut>>

AgentStep ==
    \/ BeginTurn \/ OutOfTurns \/ ChainGoesOn
    \/ ModelRaises \/ ModelAnswers \/ ToolsRun

Next == AgentStep \/ ProviderIsDone

(***************************************************************************)
(* The loop runs what can run.  Providers owe nobody an answer.             *)
(***************************************************************************)
Spec == Init /\ [][Next]_vars /\ WF_vars(AgentStep)
-----------------------------------------------------------------------------
(***************************************************************************)
(* The wire: what the adapters make of the history for their providers.     *)
(* Calls and results are named as the provider gets to see them: Gemini     *)
(* sees the tool of a call, and as the name of a response the call's id.    *)
(***************************************************************************)
Entry(who, calls, results) == [role |-> who, calls |-> calls, results |-> results]

ToAnthropic(m) ==
    <<Entry(IF m.role = "assistant" THEN "assistant" ELSE "user", m.calls, m.results)>>

ToOpenAI(m) ==
    CASE m.role = "assistant" -> <<Entry("assistant", m.calls, <<>>)>>
      [] m.role # "assistant" /\ m.results # <<>> ->
            [i \in DOMAIN m.results |-> Entry("tool", <<>>, <<m.results[i]>>)]
      [] OTHER -> <<Entry("user", <<>>, <<>>)>>

ToGemini(m) ==
    <<Entry(IF m.role = "assistant" THEN "model" ELSE "user",
            [i \in DOMAIN m.calls |-> m.calls[i].tool], m.results)>>

OnWire(v, m) ==
    CASE v = "anthropic" -> ToAnthropic(m)
      [] v = "openai" -> ToOpenAI(m)
      [] v = "google" -> ToGemini(m)
      [] OTHER -> <<m>>

Wire(v) == FlattenSeq([i \in DOMAIN history |-> OnWire(v, history[i])])

\* The results in the entries directly behind entry i, in their order.
ResultsBehind(w, i) ==
    LET ends == {j \in i..Len(w) : j = Len(w) \/ w[j + 1].results = <<>>}
        end == CHOOSE j \in ends : \A k \in ends : j <= k
    IN  FlattenSeq([k \in 1..(end - i) |-> w[i + k].results])

\* Do these results answer these calls?  Gemini pairs them by their order.
Pairs(v, calls, results) ==
    IF v = "google" THEN Len(calls) = Len(results) ELSE calls = results

-----------------------------------------------------------------------------
TypeOK ==
    /\ ModelTypeOK
    /\ vendor \in [1..Chain -> Keys \cup {"mock"}]
    /\ role \in Roles /\ keepRecent \in KeepRecents
    /\ \A m \in ToSet(history) \cup ToSet(transcript) :
          m.role \in {"user", "assistant", "tool"}
    /\ phase \in {"turn", "model", "tools", "ended", "failed"}
    /\ turn \in 0..MaxTurns
    /\ stopReason \in {"none", "end_turn", "max_tokens", "max_turns"}
    /\ cut \in BOOLEAN

(* However often the history was compacted, it starts with the task, at most  *)
(* one stretch of what was said is missing, a summary stands for it, and the  *)
(* last keep_recent messages are there word for word (maybe_compact).         *)
TranscriptIsKept ==
    \/ history = transcript
    \/ \E n \in 2..(Len(transcript) + 1) :
          /\ history = <<Task, Summary>> \o SubSeq(transcript, n, Len(transcript))
          /\ Len(transcript) - n + 1 >= keepRecent

(* Every request that goes out is one its provider can follow: each call of   *)
(* the history is answered right behind it, and each result answers a call    *)
(* right before it, but where an odd keep_recent cuts a turn in two           *)
(* (maybe_compact, and the adapters' messages of the wire).                   *)
CallsAreAnswered == phase = "model" =>
    \A v \in ToSet(vendor) :
        LET w == Wire(v)
        IN  /\ \A i \in DOMAIN w : w[i].calls # <<>> =>
                  Pairs(v, w[i].calls, ResultsBehind(w, i))
            /\ \A j \in DOMAIN w : w[j].results # <<>> =>
                  \E i \in 1..(j - 1) :
                      /\ \A k \in (i + 1)..j : w[k].results # <<>>
                      /\ w[i].calls # <<>> \/ (i = 2 /\ history[2] = Summary /\ keepRecent % 2 = 1)

(* Ids of tool calls, the harness's idempotency keys, come back within one    *)
(* agent only from Gemini, which has none, or from a mock whose count of the  *)
(* turns a compaction has set back (the adapters' tool_call blocks).          *)
CallIdsComeBack ==
    \A i, j \in DOMAIN transcript :
        i < j /\ ToSet(transcript[i].calls) \cap ToSet(transcript[j].calls) # {} =>
            \/ \E c \in ToSet(transcript[i].calls) : c.by = "google"
            \/ "mock" \in ToSet(vendor) /\ Summary \in ToSet(history)

(* An agent that ended on an answer cut off at max_tokens knows, and flags    *)
(* the result, unless Gemini gave the answer: its finish reason is not read   *)
(* (stop_reason of the adapters, derive_review_flags).                        *)
TruncationIsKnown == phase = "ended" /\ cut =>
    stopReason = "max_tokens" \/ Answering = "google"

(* The agent comes to its end, though no provider ever answers a call and     *)
(* the model never stops asking for tools.                                    *)
AgentEnds == <>(phase \in {"ended", "failed"})
=============================================================================

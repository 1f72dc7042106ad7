------------------------- MODULE ConversationProofs -------------------------
(***************************************************************************)
(* The conversation of an agent, for every chain of vendors, every          *)
(* keep_recent and every number of turns: its history, and at the end the   *)
(* wire, what the adapters make of the history for their providers.         *)
(***************************************************************************)
EXTENDS Conversation, SequenceTheorems, FiniteSetTheorems, NaturalsInduction,
        WellFoundedInduction, TLAPS

USE ResilientAssumption

(***************************************************************************)
(* The chain of models keeps its types.                                     *)
(***************************************************************************)
ModelInv == ModelTypeOK /\ \A r \in Request : stage[r] = "backoff" => HasRetry(r)

LEMMA StartCallTypes ==
    ASSUME ModelInv, NEW r \in Request, NEW t \in Try,
           NEW calls \in [Calls -> CallStates], StartCall(r, t, calls), timedOut' \in SUBSET Calls
    PROVE  ModelInv'
<1>1. "calling" \in Stages /\ "running" \in CallStates /\ <<r, t>> \in Calls
    BY DEF Stages, CallStates, Calls
<1>2. ModelTypeOK'
    BY <1>1 DEF StartCall, ModelInv, ModelTypeOK
<1>3. ASSUME NEW q \in Request, stage'[q] = "backoff" PROVE stage[q] = "backoff" /\ try'[q] = try[q]
    BY <1>3 DEF StartCall, ModelInv, ModelTypeOK
<1> QED
    BY <1>2, <1>3 DEF ModelInv, HasRetry

LEMMA NextTryTypes ==
    ASSUME ModelInv, NEW r \in Request, NEW calls \in [Calls -> CallStates],
           NextTry(r, calls), timedOut' \in SUBSET Calls
    PROVE  ModelInv'
<1>1. try[r] \in Try /\ "backoff" \in Stages /\ "raised" \in Stages
    BY DEF ModelInv, ModelTypeOK, Stages
<1>2. CASE ~HasRetry(r) /\ try[r][1] < Chain /\ StartCall(r, <<try[r][1] + 1, 0>>, calls)
    <2>1. <<try[r][1] + 1, 0>> \in Try
        BY <1>1, <1>2 DEF Try
    <2> QED
        BY <1>2, <2>1, StartCallTypes
<1>3. ASSUME NEW s \in {"backoff", "raised"}, s = "backoff" => HasRetry(r),
             stage' = [stage EXCEPT ![r] = s], call' = calls, UNCHANGED try
      PROVE  ModelInv'
    BY <1>1, <1>3 DEF ModelInv, ModelTypeOK, HasRetry
<1> QED
    BY <1>2, <1>3 DEF NextTry

LEMMA RequestKeepsTypes ==
    ASSUME ModelInv, NEW r \in Request, Begin(r) \/ GoesOn(r) \/ Answers(r)
    PROVE  ModelInv'
<1>1. /\ try[r] \in Try /\ Current(r) \in Calls /\ <<1, 0>> \in Try
      /\ "answered" \in Stages /\ "raised" \in Stages /\ "cancelled" \in CallStates
      /\ call \in [Calls -> CallStates] /\ timedOut \in SUBSET Calls
    BY DEF ModelInv, ModelTypeOK, Current, Calls, Try, Stages, CallStates
<1>2. CASE Begin(r)
    BY <1>1, <1>2, StartCallTypes DEF Begin
<1>3. CASE WakeUp(r)
    <2>1. <<try[r][1], try[r][2] + 1>> \in Try
        BY <1>1, <1>3 DEF Try, HasRetry, WakeUp, ModelInv
    <2> QED
        BY <1>1, <1>3, <2>1, StartCallTypes DEF WakeUp
<1>4. CASE FailsTransiently(r)
    BY <1>1, <1>4, NextTryTypes DEF FailsTransiently
<1>5. CASE FailsForGood(r) \/ Answers(r)
    BY <1>1, <1>5 DEF FailsForGood, Answers, ModelInv, ModelTypeOK, HasRetry
<1>6. CASE TimesOut(r)
    <2>1. [call EXCEPT ![Current(r)] = "cancelled"] \in [Calls -> CallStates]
        BY <1>1
    <2>2. timedOut' \in SUBSET Calls
        BY <1>1, <1>6 DEF TimesOut
    <2> QED
        BY <1>1, <1>6, <2>1, <2>2, NextTryTypes DEF TimesOut
<1> QED
    BY <1>2, <1>3, <1>4, <1>5, <1>6 DEF GoesOn

LEMMA ProviderKeepsTypes ==
    ASSUME ModelInv, NEW x \in Calls, ProviderEnds(x)
    PROVE  ModelInv'
BY DEF ProviderEnds, ModelInv, ModelTypeOK, CallStates, HasRetry
-----------------------------------------------------------------------------
(***************************************************************************)
(* What is said.  Messages are typed, and the transcript tells the turns:   *)
(* after the task, message 2k is the answer of turn k, and behind it are    *)
(* its results.                                                             *)
(***************************************************************************)
Vendors == Keys \cup {"mock"}

ToolCalls == [by : Vendors, tool : ToolNames, no : Seq(Nat)]

Messages ==
    [role : {"user", "assistant", "tool"}, text : {"", "task", "summary"},
     calls : Seq(ToolCalls), results : Seq(ToolCalls)]

Types ==
    /\ ModelInv
    /\ vendor \in [1..Chain -> Vendors]
    /\ role \in Roles /\ keepRecent \in KeepRecents
    /\ history \in Seq(Messages) /\ transcript \in Seq(Messages)
    /\ phase \in {"turn", "model", "tools", "ended", "failed"}
    /\ turn \in 0..MaxTurns
    /\ stopReason \in {"none", "end_turn", "max_tokens", "max_turns"}
    /\ cut \in BOOLEAN

Grown ==
    /\ phase = "turn" => Len(transcript) = 2 * turn + 1
    /\ phase = "model" => Len(transcript) = 2 * turn - 1
    /\ phase = "tools" => Len(transcript) = 2 * turn

AnswerAt(i) == transcript[i] = AnswerMessage(transcript[i].calls)

ResultsAt(i) ==
    /\ transcript[i - 1].calls # <<>>
    /\ transcript[i] = ResultsMessage(transcript[i - 1].calls)

InTurn(i) == (i % 2 = 0 => AnswerAt(i)) /\ (i % 2 = 1 => ResultsAt(i))

Alternates ==
    /\ Len(transcript) >= 1 /\ transcript[1] = Task
    /\ \A i \in 2..Len(transcript) : InTurn(i)
    /\ phase = "tools" =>
          /\ transcript[Len(transcript)].calls # <<>>
          /\ history[Len(history)] = transcript[Len(transcript)]

(***************************************************************************)
(* TranscriptIsKept, and what an even keep_recent adds to it: the tail that *)
(* was kept starts with an answer.                                          *)
(***************************************************************************)
Shortened(h, t, n) == h = <<Task, Summary>> \o SubSeq(t, n, Len(t))

KeptFrom(n) ==
    /\ Shortened(history, transcript, n)
    /\ Len(transcript) - n + 1 >= keepRecent
    /\ n % 2 = keepRecent % 2

Kept == history = transcript \/ \E n \in 2..(Len(transcript) + 1) : KeptFrom(n)

(***************************************************************************)
(* The numbers in the ids.  The vendors that number for good do so by the   *)
(* turn; the mock calls each tool in a turn of its own, as long as it can   *)
(* see all turns.                                                           *)
(***************************************************************************)
NumberedCall(i, c) ==
    /\ c.by \in ToSet(vendor)
    /\ c.by \in {"anthropic", "openai"} => c.no[1] * 2 = i
    /\ c.by = "mock" =>
          Summary \in ToSet(history) \/ i = IF c.tool = "write_artifact" THEN 4 ELSE 2

Numbered ==
    \A i \in DOMAIN transcript : \A c \in ToSet(transcript[i].calls) : NumberedCall(i, c)

Uncut == phase \in {"turn", "model", "tools"} => ~cut

Inv == Types /\ Grown /\ Alternates /\ Kept /\ Numbered /\ Uncut /\ TruncationIsKnown
-----------------------------------------------------------------------------
LEMMA SpokenMessages ==
    /\ Task \in Messages /\ Summary \in Messages
    /\ \A calls \in Seq(ToolCalls) :
          AnswerMessage(calls) \in Messages /\ ResultsMessage(calls) \in Messages
<1>1. <<>> \in Seq(ToolCalls)
    OBVIOUS
<1> QED
    BY <1>1 DEF Messages, Task, Summary, AnswerMessage, ResultsMessage, Message

LEMMA CallIdTypes ==
    ASSUME NEW v \in Vendors, NEW tools \in Seq(ToolNames), turn \in Nat
    PROVE  /\ CallIds(v, tools) \in Seq(ToolCalls)
           /\ DOMAIN CallIds(v, tools) = 1..Len(tools)
           /\ \A i \in 1..Len(tools) : CallIds(v, tools)[i] =
                 [by |-> v, tool |-> tools[i],
                  no |-> CASE v \in {"anthropic", "openai"} -> <<turn, i>>
                           [] v = "google" -> <<i - 1>>
                           [] OTHER -> <<0>>]
<1>1. DOMAIN tools = 1..Len(tools) /\ Len(tools) \in Nat /\ \A i \in 1..Len(tools) : tools[i] \in ToolNames
    OBVIOUS
<1>2. ASSUME NEW i \in 1..Len(tools)
      PROVE  [by |-> v, tool |-> tools[i],
              no |-> CASE v \in {"anthropic", "openai"} -> <<turn, i>>
                       [] v = "google" -> <<i - 1>>
                       [] OTHER -> <<0>>] \in ToolCalls
    <2>1. <<turn, i>> \in Seq(Nat) /\ <<i - 1>> \in Seq(Nat) /\ <<0>> \in Seq(Nat)
        OBVIOUS
    <2> QED
        BY <1>1, <2>1 DEF ToolCalls
<1>3. CallIds(v, tools) \in [1..Len(tools) -> ToolCalls]
    BY <1>1, <1>2 DEF CallIds
<1>4. CallIds(v, tools) \in Seq(ToolCalls)
    BY <1>1, <1>3, SeqDef
<1> QED
    BY <1>1, <1>3, <1>4 DEF CallIds

(* The mock's script, by the number of answers that it sees in the history.   *)
AnswersSeen == {i \in DOMAIN history : IsAnswer(history[i])}

LEMMA Script ==
    /\ ScriptedTools \in {<<"spawn_subagents">>, <<"search_web">>, <<"write_artifact">>, <<>>}
    /\ ScriptedTools \in Seq(ToolNames)
    /\ ScriptedTools \in {<<"spawn_subagents">>, <<"search_web">>} => Cardinality(AnswersSeen) = 0
    /\ ScriptedTools = <<"write_artifact">> => Cardinality(AnswersSeen) = 1
<1> DEFINE n == Cardinality(AnswersSeen)
<1>1. ScriptedTools = CASE role = "lead" /\ n = 0 -> <<"spawn_subagents">>
                        [] role = "subagent" /\ n = 0 -> <<"search_web">>
                        [] role = "subagent" /\ n = 1 -> <<"write_artifact">>
                        [] OTHER -> <<>>
    BY DEF ScriptedTools, AnswersSeen
<1> HIDE DEF n
<1>2. \/ n = 0 /\ ScriptedTools \in {<<"spawn_subagents">>, <<"search_web">>}
      \/ n = 1 /\ ScriptedTools = <<"write_artifact">>
      \/ ScriptedTools = <<>>
    BY <1>1
<1>3. /\ <<"spawn_subagents">> # <<"write_artifact">> /\ <<"search_web">> # <<"write_artifact">>
      /\ <<>> \notin {<<"spawn_subagents">>, <<"search_web">>, <<"write_artifact">>}
    OBVIOUS
<1>4. {<<"spawn_subagents">>, <<"search_web">>, <<"write_artifact">>} \subseteq Seq(ToolNames)
    <2>1. \A tool \in ToolNames : <<tool>> \in Seq(ToolNames)
        OBVIOUS
    <2> QED
        BY <2>1, ConversationAssumption
<1>5. <<>> \in Seq(ToolNames)
    OBVIOUS
<1> QED
    BY <1>2, <1>3, <1>4, <1>5 DEF n

(* What an answer is.                                                         *)
LEMMA AnswerIs ==
    ASSUME Types, turn \in Request, ModelAnswers
    PROVE  \E tools \in Seq(ToolNames), cutOff \in BOOLEAN :
              /\ Answering \in Vendors /\ Answering \in ToSet(vendor)
              /\ <<tools, cutOff>> \in Responses(Answering)
              /\ AnswerWith(Answering, tools, cutOff)
<1>1. try[turn] \in Try
    BY DEF Types, ModelInv, ModelTypeOK
<1>2. Answering \in Vendors /\ Answering \in ToSet(vendor)
    BY <1>1 DEF Types, Answering, Try, ToSet
<1>3. PICK r \in Responses(Answering) : AnswerWith(Answering, r[1], r[2])
    BY DEF ModelAnswers
<1>4. ScriptedTools \in Seq(ToolNames)
    BY Script
<1>5. <<>> \in Seq(ToolNames)
    OBVIOUS
<1>6. Asks \cup {<<>>} \subseteq Seq(ToolNames)
    BY <1>5, ConversationAssumption
<1>7. PICK T \in {{ScriptedTools}, Asks \cup {<<>>}}, O \in {{FALSE}, BOOLEAN} : r \in T \X O
    BY DEF Responses
<1>8. T \subseteq Seq(ToolNames) /\ O \subseteq BOOLEAN
    BY <1>4, <1>6
<1>9. r[1] \in T /\ r[2] \in O /\ r = <<r[1], r[2]>>
    BY <1>7
<1> QED
    BY <1>2, <1>3, <1>8, <1>9
-----------------------------------------------------------------------------
(* What a shortened history is, message by message.                           *)
LEMMA PairBefore ==
    ASSUME NEW S, NEW a \in S, NEW b \in S, NEW q \in Seq(S)
    PROVE  /\ <<a, b>> \o q \in Seq(S) /\ Len(<<a, b>> \o q) = Len(q) + 2
           /\ (<<a, b>> \o q)[1] = a /\ (<<a, b>> \o q)[2] = b
           /\ \A i \in 1..Len(q) : (<<a, b>> \o q)[i + 2] = q[i]
OBVIOUS

LEMMA ShortenedIs ==
    ASSUME NEW t \in Seq(Messages), NEW n \in 2..(Len(t) + 1), NEW h \in Seq(Messages)
    PROVE  Shortened(h, t, n) <=>
              /\ Len(h) = Len(t) - n + 3
              /\ h[1] = Task /\ h[2] = Summary
              /\ \A i \in 3..Len(h) : h[i] = t[i + n - 3]
<1> DEFINE q == SubSeq(t, n, Len(t))
           g == <<Task, Summary>> \o q
<1>1. Len(t) \in Nat /\ Len(h) \in Nat
    BY LenProperties
<1>2. /\ q \in Seq(Messages) /\ Len(q) = Len(t) - n + 1
      /\ \A i \in 1..(Len(t) - n + 1) : q[i] = t[n + i - 1]
    OBVIOUS
<1>3. q \in Seq(Messages)
    BY <1>2
<1> HIDE DEF q
<1>4. /\ g \in Seq(Messages) /\ Len(g) = Len(q) + 2 /\ g[1] = Task /\ g[2] = Summary
      /\ \A i \in 1..Len(q) : g[i + 2] = q[i]
    BY <1>3, SpokenMessages, PairBefore
<1> HIDE DEF g
<1>5. ASSUME NEW i \in 3..(Len(t) - n + 3) PROVE g[i] = t[i + n - 3]
    <2>1. /\ i - 2 \in 1..Len(q) /\ i - 2 \in 1..(Len(t) - n + 1)
          /\ (i - 2) + 2 = i /\ n + (i - 2) - 1 = i + n - 3
        BY <1>1, <1>2
    <2> QED
        BY <1>2, <1>4, <2>1
<1>6. Len(g) = Len(t) - n + 3
    BY <1>1, <1>2, <1>4
<1>7. ASSUME Len(h) = Len(t) - n + 3, h[1] = Task, h[2] = Summary,
             \A i \in 3..Len(h) : h[i] = t[i + n - 3]
      PROVE  h = g
    <2>1. ASSUME NEW i \in 1..Len(h) PROVE h[i] = g[i]
        <3>1. i = 1 \/ i = 2 \/ i \in 3..Len(h)
            BY <1>1
        <3> QED
            BY <1>4, <1>5, <1>7, <3>1
    <2> QED
        BY <1>4, <1>6, <1>7, <2>1, SeqEqual
<1>8. Shortened(h, t, n) <=> h = g
    BY DEF Shortened, g, q
<1> QED
    BY <1>4, <1>5, <1>6, <1>7, <1>8

(* Something is said: it goes behind both.                                    *)
LEMMA SayingKeeps ==
    ASSUME history \in Seq(Messages), transcript \in Seq(Messages), keepRecent \in Nat, Kept,
           NEW m \in Messages, history' = Append(history, m), transcript' = Append(transcript, m),
           keepRecent' = keepRecent
    PROVE  /\ history' \in Seq(Messages) /\ transcript' \in Seq(Messages) /\ Kept'
           /\ Len(transcript) \in Nat /\ Len(transcript') = Len(transcript) + 1
           /\ \A i \in 1..Len(transcript) : transcript'[i] = transcript[i]
           /\ transcript'[Len(transcript) + 1] = m
           /\ Summary \in ToSet(history) => Summary \in ToSet(history')
<1>1. /\ transcript' \in Seq(Messages) /\ Len(transcript') = Len(transcript) + 1
      /\ \A i \in 1..Len(transcript) : transcript'[i] = transcript[i]
      /\ transcript'[Len(transcript) + 1] = m /\ Len(transcript) \in Nat
    BY AppendProperties, LenProperties
<1>2. /\ history' \in Seq(Messages) /\ Len(history') = Len(history) + 1
      /\ \A i \in 1..Len(history) : history'[i] = history[i]
      /\ history'[Len(history) + 1] = m /\ Len(history) \in Nat
    BY AppendProperties, LenProperties
<1>3. ASSUME history = transcript PROVE Kept'
    BY <1>3 DEF Kept
<1>4. ASSUME NEW n \in 2..(Len(transcript) + 1), KeptFrom(n) PROVE Kept'
    <2>1. /\ Len(history) = Len(transcript) - n + 3
          /\ history[1] = Task /\ history[2] = Summary
          /\ \A i \in 3..Len(history) : history[i] = transcript[i + n - 3]
        BY <1>4, ShortenedIs DEF KeptFrom
    <2>2. n \in 2..(Len(transcript') + 1)
        BY <1>1
    <2>3. Len(history') = Len(transcript') - n + 3 /\ history'[1] = Task /\ history'[2] = Summary
        BY <1>1, <1>2, <2>1
    <2>4. ASSUME NEW i \in 3..Len(history') PROVE history'[i] = transcript'[i + n - 3]
        <3>1. CASE i = Len(history) + 1
            BY <1>1, <1>2, <2>1, <3>1
        <3>2. CASE i \in 3..Len(history)
            <4>1. i + n - 3 \in 1..Len(transcript) /\ i \in 1..Len(history)
                BY <1>1, <1>2, <2>1, <3>2
            <4> QED
                BY <1>1, <1>2, <2>1, <3>2, <4>1
        <3>3. i = Len(history) + 1 \/ i \in 3..Len(history)
            BY <1>2
        <3> QED
            BY <3>1, <3>2, <3>3
    <2>5. Shortened(history', transcript', n)
        BY <1>1, <1>2, <2>2, <2>3, <2>4, ShortenedIs
    <2>6. Len(transcript') - n + 1 >= keepRecent' /\ n % 2 = keepRecent' % 2
        BY <1>1, <1>4 DEF KeptFrom
    <2> QED
        BY <2>2, <2>5, <2>6 DEF Kept, KeptFrom
<1>5. Kept'
    BY <1>3, <1>4 DEF Kept
<1>6. Summary \in ToSet(history) => Summary \in ToSet(history')
    <2>1. DOMAIN history = 1..Len(history) /\ DOMAIN history' = 1..(Len(history) + 1)
        BY <1>2, LenProperties
    <2> QED
        BY <1>2, <2>1 DEF ToSet
<1> QED
    BY <1>1, <1>2, <1>5, <1>6

(* The compactor collapses the middle, be it of all that was said or of what  *)
(* earlier compactions left: the same tail stays.                             *)
LEMMA CompactingKeeps ==
    ASSUME history \in Seq(Messages), transcript \in Seq(Messages), keepRecent \in Nat, Kept,
           Len(transcript) % 2 = 1, transcript[1] = Task,
           history' \in MaybeCompact(history), UNCHANGED <<transcript, keepRecent>>
    PROVE  /\ history' \in Seq(Messages) /\ Kept'
           /\ Summary \in ToSet(history) => Summary \in ToSet(history')
<1>1. Len(history) \in Nat /\ Len(transcript) \in Nat
    BY LenProperties
<1>2. ASSUME history' = history PROVE history' \in Seq(Messages) /\ Kept'
    BY <1>2 DEF Kept, KeptFrom
<1>3. ASSUME history' = Compacted(history), HasMiddle(history)
      PROVE  history' \in Seq(Messages) /\ Kept' /\ Summary \in ToSet(history')
    <2> DEFINE n == Len(transcript) - keepRecent + 1
               m == Len(history) - keepRecent + 1
    <2>1. Len(history) > keepRecent + 1
        BY <1>3 DEF HasMiddle
    <2>2. /\ history[1] = Task /\ keepRecent < Len(transcript)
          /\ \A i \in m..Len(history) : history[i] = transcript[i + n - m]
        <3>1. CASE history = transcript
            BY <1>1, <2>1, <3>1
        <3>2. ASSUME NEW k \in 2..(Len(transcript) + 1), KeptFrom(k)
              PROVE  /\ history[1] = Task /\ keepRecent < Len(transcript)
                     /\ \A i \in m..Len(history) : history[i] = transcript[i + n - m]
            <4>1. /\ Len(history) = Len(transcript) - k + 3
                  /\ history[1] = Task /\ history[2] = Summary
                  /\ \A i \in 3..Len(history) : history[i] = transcript[i + k - 3]
                BY <3>2, ShortenedIs DEF KeptFrom
            <4>2. /\ n - m = k - 3 /\ m >= 3 /\ m \in Int /\ n \in Int /\ k \in Int
                  /\ keepRecent < Len(transcript)
                BY <1>1, <2>1, <4>1
            <4> HIDE DEF m, n
            <4>3. \A i \in m..Len(history) : i \in 3..Len(history) /\ i + n - m = i + k - 3
                BY <1>1, <4>2
            <4> QED
                BY <4>1, <4>2, <4>3
        <3> QED
            BY <3>1, <3>2 DEF Kept
    <2>3. n \in 2..(Len(transcript) + 1) /\ m \in 2..(Len(history) + 1)
        BY <1>1, <2>1, <2>2
    <2>4. history' = <<Task, Summary>> \o SubSeq(history, m, Len(history))
        BY <1>3, <2>2 DEF Compacted
    <2>5. history' \in Seq(Messages)
        <3>1. \A i \in m..Len(history) : history[i] \in Messages
            BY <1>1, <2>3, ElementOfSeq
        <3>2. SubSeq(history, m, Len(history)) \in Seq(Messages)
            BY <1>1, <2>3, <3>1, SubSeqProperties
        <3> QED
            BY <2>4, <3>2, SpokenMessages, PairBefore
    <2>6. /\ Len(history') = Len(history) - m + 3
          /\ history'[1] = Task /\ history'[2] = Summary
          /\ \A i \in 3..Len(history') : history'[i] = history[i + m - 3]
        BY <2>3, <2>4, <2>5, ShortenedIs DEF Shortened
    <2>7. Len(history') = Len(transcript) - n + 3
        <3>1. Len(history) - m = Len(transcript) - n
            BY <1>1
        <3> HIDE DEF m, n
        <3> QED
            BY <1>1, <2>3, <2>6, <3>1
    <2>8. ASSUME NEW i \in 3..Len(history') PROVE history'[i] = transcript[i + n - 3]
        <3>1. i + m - 3 \in m..Len(history) /\ (i + m - 3) + n - m = i + n - 3
            BY <1>1, <2>3, <2>6
        <3> QED
            BY <2>2, <2>6, <3>1
    <2>9. Shortened(history', transcript, n)
        BY <2>3, <2>5, <2>6, <2>7, <2>8, ShortenedIs
    <2>10. Len(transcript) - n + 1 >= keepRecent /\ n % 2 = keepRecent % 2
        BY <1>1, <2>3
    <2>11. Kept'
        BY <2>3, <2>9, <2>10 DEF Kept, KeptFrom
    <2>12. 2 \in DOMAIN history'
        BY <1>1, <2>3, <2>5, <2>6, LenProperties
    <2> QED
        BY <2>5, <2>6, <2>11, <2>12 DEF ToSet
<1> QED
    BY <1>2, <1>3 DEF MaybeCompact
-----------------------------------------------------------------------------
(***************************************************************************)
(* The steps.                                                               *)
(***************************************************************************)
LEMMA InitInv == Init => Inv
<1> SUFFICES ASSUME Init PROVE Inv
    OBVIOUS
<1>1. ModelInv
    <2>1. <<1, 0>> \in Try
        BY DEF Try
    <2> QED
        BY <2>1 DEF Init, ModelInit, ModelInv, ModelTypeOK, Stages, CallStates
<1>2. vendor \in [1..Chain -> Vendors]
    <2>1. PICK names \in Configured, keys \in SUBSET Keys :
             vendor = [i \in 1..Chain |-> Resolve(names[i], keys)]
        BY DEF Init
    <2>2. \A i \in 1..Chain : Resolve(names[i], keys) \in Vendors
        BY DEF Resolve, Vendors
    <2> QED
        BY <2>1, <2>2
<1>3. /\ transcript = <<Task>> /\ history = <<Task>>
      /\ transcript \in Seq(Messages) /\ Len(transcript) = 1 /\ transcript[1] = Task
    BY SpokenMessages DEF Init
<1>4. Types
    <2>1. history \in Seq(Messages) /\ transcript \in Seq(Messages)
        BY <1>3
    <2>2. turn \in 0..MaxTurns
        BY ConversationAssumption DEF Init
    <2> QED
        BY <1>1, <1>2, <2>1, <2>2 DEF Init, Types
<1>5. Grown /\ Alternates /\ Kept /\ Uncut /\ TruncationIsKnown
    BY <1>3 DEF Init, Grown, Alternates, Kept, Uncut, TruncationIsKnown
<1>6. Numbered
    <2>1. \A i \in DOMAIN transcript : transcript[i].calls = <<>>
        BY <1>3 DEF Task, Message
    <2>2. ToSet(<<>>) = {}
        BY DEF ToSet
    <2> QED
        BY <2>1, <2>2 DEF Numbered
<1> QED
    BY <1>4, <1>5, <1>6 DEF Inv

(* A step that says nothing.                                                  *)
LEMMA QuietKeeps ==
    ASSUME Inv, UNCHANGED <<setup, history, transcript>>, phase' = "tools" => phase = "tools"
    PROVE  /\ Alternates' /\ Kept' /\ Numbered'
           /\ history' \in Seq(Messages) /\ transcript' \in Seq(Messages)
           /\ vendor' \in [1..Chain -> Vendors] /\ role' \in Roles /\ keepRecent' \in KeepRecents
<1>1. Alternates'
    BY DEF Inv, Alternates, InTurn, AnswerAt, ResultsAt
<1>2. Kept'
    BY DEF Inv, Kept, KeptFrom, setup
<1>3. Numbered'
    BY DEF Inv, Numbered, NumberedCall, setup
<1> QED
    BY <1>1, <1>2, <1>3 DEF Inv, Types, setup

LEMMA BeginTurnKeeps == ASSUME Inv, BeginTurn PROVE Inv'
<1>1. turn + 1 \in Request /\ turn \in Nat /\ turn' = turn + 1 /\ turn' \in 0..MaxTurns
    BY ConversationAssumption DEF Inv, Types, BeginTurn
<1>2. ModelInv'
    BY <1>1, RequestKeepsTypes DEF Inv, Types, BeginTurn
<1>3. keepRecent \in Nat /\ Len(transcript) = 2 * turn + 1 /\ Len(transcript) % 2 = 1
    BY <1>1, ConversationAssumption DEF Inv, Types, Grown, BeginTurn
<1>4. /\ history' \in Seq(Messages) /\ Kept'
      /\ Summary \in ToSet(history) => Summary \in ToSet(history')
    BY <1>3, CompactingKeeps DEF Inv, Types, Alternates, BeginTurn, setup
<1>5. Types'
    BY <1>1, <1>2, <1>4 DEF Inv, Types, BeginTurn, setup
<1>6. Grown'
    BY <1>1, <1>3 DEF Grown, BeginTurn
<1>7. Alternates'
    BY DEF Inv, Alternates, InTurn, AnswerAt, ResultsAt, BeginTurn
<1>8. Numbered'
    BY <1>4 DEF Inv, Numbered, NumberedCall, BeginTurn, setup
<1>9. Uncut' /\ TruncationIsKnown'
    BY DEF Inv, Uncut, TruncationIsKnown, BeginTurn
<1> QED
    BY <1>4, <1>5, <1>6, <1>7, <1>8, <1>9 DEF Inv

LEMMA LoopEndsKeeps == ASSUME Inv, OutOfTurns \/ ModelRaises PROVE Inv'
<1>1. /\ UNCHANGED <<setup, history, transcript, modelVars, turn, cut>>
      /\ phase' \in {"ended", "failed"} /\ stopReason' \in {stopReason, "max_turns"}
      /\ ~cut
    BY DEF Inv, Uncut, OutOfTurns, ModelRaises
<1>2. ModelInv'
    BY <1>1 DEF Inv, Types, ModelInv, ModelTypeOK, HasRetry, modelVars
<1>3. Types'
    BY <1>1, <1>2, QuietKeeps DEF Inv, Types
<1>4. Grown' /\ Uncut' /\ TruncationIsKnown'
    BY <1>1 DEF Grown, Uncut, TruncationIsKnown
<1> QED
    BY <1>1, <1>3, <1>4, QuietKeeps DEF Inv

LEMMA ModelWorksKeeps == ASSUME Inv, ChainGoesOn \/ ProviderIsDone PROVE Inv'
<1>1. UNCHANGED <<setup, history, transcript, phase, turn, stopReason, cut>>
    BY DEF ChainGoesOn, ProviderIsDone
<1>2. ModelInv'
    <2>1. CASE ChainGoesOn
        <3>1. turn \in Request
            BY <2>1, ConversationAssumption, LenProperties
               DEF Inv, Types, Grown, Alternates, ChainGoesOn
        <3> QED
            BY <2>1, <3>1, RequestKeepsTypes DEF Inv, Types, ChainGoesOn
    <2>2. CASE ProviderIsDone
        BY <2>2, ProviderKeepsTypes DEF Inv, Types, ProviderIsDone
    <2> QED
        BY <2>1, <2>2
<1>3. Types'
    BY <1>1, <1>2, QuietKeeps DEF Inv, Types
<1>4. Grown' /\ Uncut'
    BY <1>1 DEF Inv, Grown, Uncut
<1>5. TruncationIsKnown'
    <2>1. CASE ChainGoesOn
        BY <1>1, <2>1 DEF TruncationIsKnown, ChainGoesOn
    <2>2. CASE ProviderIsDone
        BY <1>1, <2>2 DEF Inv, TruncationIsKnown, Answering, ProviderIsDone, ProviderEnds, setup
    <2> QED
        BY <2>1, <2>2
<1> QED
    BY <1>1, <1>3, <1>4, <1>5, QuietKeeps DEF Inv

(* A step that says something keeps what was said before.                     *)
LEMMA TellingKeeps ==
    ASSUME transcript \in Seq(Messages), Len(transcript) >= 1, transcript[1] = Task,
           \A i \in 2..Len(transcript) : InTurn(i),
           Len(transcript') = Len(transcript) + 1,
           \A i \in 1..Len(transcript) : transcript'[i] = transcript[i],
           NEW last \in Nat, last = Len(transcript) + 1, InTurn(last)'
    PROVE  /\ Len(transcript') >= 1 /\ transcript'[1] = Task
           /\ \A i \in 2..Len(transcript') : InTurn(i)'
<1>1. Len(transcript) \in Nat
    BY LenProperties
<1>2. ASSUME NEW i \in 2..Len(transcript) PROVE InTurn(i)'
    <2>1. transcript'[i] = transcript[i] /\ transcript'[i - 1] = transcript[i - 1]
        BY <1>1
    <2> QED
        BY <2>1 DEF InTurn, AnswerAt, ResultsAt
<1>3. ASSUME NEW i \in 2..Len(transcript') PROVE InTurn(i)'
    <2>1. CASE i = last
        BY <2>1
    <2>2. CASE i \in 2..Len(transcript)
        BY <1>2, <2>2
    <2> QED
        BY <1>1, <2>1, <2>2
<1> QED
    BY <1>1, <1>3

LEMMA ToolsRunKeeps == ASSUME Inv, ToolsRun PROVE Inv'
<1> DEFINE L == Len(transcript)
           calls == transcript[L].calls
<1>1. keepRecent \in Nat /\ turn \in Nat /\ L = 2 * turn
    BY ConversationAssumption DEF Inv, Types, Grown, ToolsRun
<1>2. L \in Nat /\ L >= 1
    BY LenProperties DEF Inv, Types, Alternates
<1>3. calls \in Seq(ToolCalls) /\ calls # <<>>
    <2>1. transcript[L] \in Messages
        BY <1>2, ElementOfSeq DEF Inv, Types
    <2> QED
        BY <2>1 DEF Inv, Alternates, ToolsRun, Messages
<1> DEFINE message == ResultsMessage(calls)
<1>4. /\ message \in Messages
      /\ history' = Append(history, message) /\ transcript' = Append(transcript, message)
    <2>1. Last(history) = transcript[L]
        BY DEF Last, Inv, Alternates, ToolsRun
    <2> QED
        BY <1>3, <2>1, SpokenMessages DEF ToolsRun
<1> HIDE DEF calls, message
<1>5. /\ history' \in Seq(Messages) /\ transcript' \in Seq(Messages) /\ Kept'
      /\ Len(transcript') = L + 1
      /\ \A i \in 1..L : transcript'[i] = transcript[i]
      /\ transcript'[L + 1] = message
      /\ Summary \in ToSet(history) => Summary \in ToSet(history')
    BY <1>1, <1>4, SayingKeeps DEF Inv, Types, ToolsRun, setup
<1>6. UNCHANGED <<modelVars, vendor, role, keepRecent, turn, stopReason, cut>> /\ phase = "tools" /\ phase' = "turn"
    BY DEF ToolsRun, setup
<1>7. Types'
    <2>1. ModelInv'
        BY <1>6 DEF Inv, Types, ModelInv, ModelTypeOK, HasRetry, modelVars
    <2> QED
        BY <1>5, <1>6, <2>1 DEF Inv, Types
<1>8. Grown'
    BY <1>1, <1>5, <1>6 DEF Grown
<1>9. Alternates'
    <2>1. (L + 1) % 2 = 1 /\ L \in 1..L /\ (L + 1) - 1 = L
        BY <1>1, <1>2
    <2>2. PICK last \in Nat : last = L + 1
        BY <1>2
    <2>3. InTurn(last)'
        BY <1>3, <1>5, <2>1, <2>2 DEF InTurn, ResultsAt, calls, message
    <2> QED
        BY <1>5, <1>6, <2>2, <2>3, TellingKeeps DEF Inv, Types, Alternates
<1>10. Numbered'
    <2>1. message.calls = <<>> /\ ToSet(<<>>) = {}
        BY DEF message, ResultsMessage, Message, ToSet
    <2>2. DOMAIN transcript' = 1..(L + 1) /\ DOMAIN transcript = 1..L
        BY <1>5, LenProperties DEF Inv, Types
    <2> QED
        BY <1>2, <1>5, <1>6, <2>1, <2>2 DEF Inv, Numbered, NumberedCall
<1>11. Uncut' /\ TruncationIsKnown'
    BY <1>6 DEF Inv, Uncut, TruncationIsKnown
<1> QED
    BY <1>5, <1>7, <1>8, <1>9, <1>10, <1>11 DEF Inv
-----------------------------------------------------------------------------
(* The mock sees its own turns: all of them, as long as nothing is compacted. *)
LEMMA MockSees ==
    ASSUME Inv, phase = "model", Summary \notin ToSet(history)
    PROVE  /\ Cardinality(AnswersSeen) = 0 => Len(transcript) = 1
           /\ Cardinality(AnswersSeen) = 1 => Len(transcript) = 3
<1> DEFINE L == Len(transcript)
<1>1. L \in Nat /\ L >= 1 /\ turn \in Nat /\ L = 2 * turn - 1 /\ DOMAIN transcript = 1..L
    BY LenProperties DEF Inv, Types, Alternates, Grown
<1>2. history = transcript
    <2>1. ASSUME NEW n \in 2..(L + 1), KeptFrom(n) PROVE FALSE
        <3>1. Len(history) = L - n + 3 /\ history[2] = Summary /\ DOMAIN history = 1..Len(history)
            BY <2>1, ShortenedIs, LenProperties DEF KeptFrom, Inv, Types
        <3>2. 2 \in DOMAIN history
            BY <1>1, <3>1
        <3> QED
            BY <3>1, <3>2 DEF ToSet
    <2> QED
        BY <2>1 DEF Inv, Kept
<1>3. ASSUME NEW i \in 2..L, i % 2 = 0 PROVE i \in AnswersSeen
    <2>1. AnswerAt(i) /\ i \in DOMAIN transcript
        BY <1>1, <1>3 DEF Inv, Alternates, InTurn
    <2>2. IsAnswer(transcript[i])
        <3>1. \A calls : IsAnswer(AnswerMessage(calls))
            BY DEF IsAnswer, AnswerMessage, Message
        <3> QED
            BY <2>1, <3>1 DEF AnswerAt
    <2> QED
        BY <1>2, <2>1, <2>2 DEF AnswersSeen
<1>4. IsFiniteSet(AnswersSeen)
    <2>1. AnswersSeen \subseteq 1..L
        BY <1>1, <1>2 DEF AnswersSeen
    <2>2. IsFiniteSet(1..L)
        BY <1>1, FS_Interval
    <2> QED
        BY <2>1, <2>2, FS_Subset
<1>5. ASSUME Cardinality(AnswersSeen) = 0 PROVE L = 1
    <2>1. AnswersSeen = {}
        BY <1>4, <1>5, FS_EmptySet
    <2>2. ~(2 \in 2..L)
        BY <1>3, <2>1
    <2> QED
        BY <1>1, <2>2
<1>6. ASSUME Cardinality(AnswersSeen) = 1 PROVE L = 3
    <2>1. PICK x : AnswersSeen = {x}
        BY <1>4, <1>6, FS_Singleton
    <2>2. ~(2 \in 2..L /\ 4 \in 2..L)
        BY <1>3, <2>1
    <2>3. L # 1
        <3>1. AnswersSeen # {} /\ x \in DOMAIN history /\ IsAnswer(history[x])
            BY <2>1 DEF AnswersSeen
        <3> QED
            BY <1>1, <1>2, <3>1 DEF Inv, Alternates, IsAnswer, Task, Message
    <2> QED
        BY <1>1, <2>2, <2>3
<1> QED
    BY <1>5, <1>6

(* The numbers of the calls in a new answer.                                  *)
LEMMA NumberedAnswer ==
    ASSUME Inv, phase = "model", Answering \in Vendors, Answering \in ToSet(vendor),
           NEW tools \in Seq(ToolNames), Answering = "mock" => tools = ScriptedTools,
           NEW c \in ToSet(CallIds(Answering, tools)), NEW i \in Nat, i = Len(transcript) + 1
    PROVE  NumberedCall(i, c)
<1>1. turn \in Nat /\ Len(transcript) = 2 * turn - 1
    BY ConversationAssumption DEF Inv, Types, Grown
<1>2. PICK k \in 1..Len(tools) :
         c = [by |-> Answering, tool |-> tools[k],
              no |-> CASE Answering \in {"anthropic", "openai"} -> <<turn, k>>
                       [] Answering = "google" -> <<k - 1>>
                       [] OTHER -> <<0>>]
    BY <1>1, CallIdTypes DEF ToSet
<1>3. c.by = Answering /\ c.tool = tools[k]
    BY <1>2
<1>4. ASSUME c.by \in {"anthropic", "openai"} PROVE c.no[1] * 2 = i
    <2>1. c.no = <<turn, k>>
        BY <1>2, <1>3, <1>4
    <2> QED
        BY <1>1, <2>1
<1>5. ASSUME c.by = "mock", Summary \notin ToSet(history)
      PROVE  i = IF c.tool = "write_artifact" THEN 4 ELSE 2
    <2>1. tools = ScriptedTools
        BY <1>3, <1>5
    <2>2. CASE tools \in {<<"spawn_subagents">>, <<"search_web">>}
        <3>1. c.tool # "write_artifact"
            BY <1>3, <2>2
        <3>2. ScriptedTools \in {<<"spawn_subagents">>, <<"search_web">>}
            BY <2>1, <2>2
        <3>3. Cardinality(AnswersSeen) = 0
            BY <3>2, Script
        <3>4. Len(transcript) = 1
            BY <1>5, <3>3, MockSees
        <3> QED
            BY <3>1, <3>4
    <2>3. CASE tools = <<"write_artifact">>
        <3>1. c.tool = "write_artifact"
            BY <1>3, <2>3
        <3>2. ScriptedTools = <<"write_artifact">>
            BY <2>1, <2>3
        <3>3. Cardinality(AnswersSeen) = 1
            BY <3>2, Script
        <3>4. Len(transcript) = 3
            BY <1>5, <3>3, MockSees
        <3> QED
            BY <3>1, <3>4
    <2>4. CASE tools = <<>>
        BY <2>4
    <2> QED
        BY <2>1, <2>2, <2>3, <2>4, Script
<1> QED
    BY <1>3, <1>4, <1>5 DEF NumberedCall

LEMMA ModelAnswersKeeps == ASSUME Inv, ModelAnswers PROVE Inv'
<1> DEFINE L == Len(transcript)
<1>1. /\ keepRecent \in Nat /\ turn \in Request /\ turn \in Nat
      /\ L \in Nat /\ L >= 1 /\ L = 2 * turn - 1
    BY ConversationAssumption, LenProperties DEF Inv, Types, Grown, Alternates, ModelAnswers
<1>2. PICK tools \in Seq(ToolNames), cutOff \in BOOLEAN :
         /\ Answering \in Vendors /\ Answering \in ToSet(vendor)
         /\ <<tools, cutOff>> \in Responses(Answering)
         /\ AnswerWith(Answering, tools, cutOff)
    BY <1>1, AnswerIs DEF Inv
<1>3. Answering = "mock" => tools = ScriptedTools /\ ~cutOff
    BY <1>2 DEF Responses
<1> DEFINE calls == CallIds(Answering, tools)
           message == AnswerMessage(calls)
<1>4. /\ calls \in Seq(ToolCalls) /\ message \in Messages
      /\ tools # <<>> => calls # <<>>
    <2>1. calls \in Seq(ToolCalls) /\ DOMAIN calls = 1..Len(tools)
        BY <1>1, <1>2, CallIdTypes
    <2>2. tools # <<>> => 1 \in 1..Len(tools)
        BY EmptySeq
    <2>3. DOMAIN <<>> = {}
        OBVIOUS
    <2> QED
        BY <2>1, <2>2, <2>3, SpokenMessages
<1>5. /\ history' = Append(history, message) /\ transcript' = Append(transcript, message)
      /\ phase = "model" /\ Answers(turn) /\ UNCHANGED <<vendor, role, keepRecent, turn, try>>
      /\ \/ /\ phase' = "tools" /\ UNCHANGED <<stopReason, cut>>
            /\ StopReason(Answering, tools, cutOff) = "tool_use"
         \/ /\ phase' = "ended" /\ stopReason' = StopReason(Answering, tools, cutOff)
            /\ StopReason(Answering, tools, cutOff) # "tool_use" /\ cut' = cutOff
    BY <1>2 DEF ModelAnswers, AnswerWith, Answers, setup
<1>6. ModelInv'
    BY <1>1, <1>5, RequestKeepsTypes DEF Inv, Types
<1>7. \A c \in ToSet(calls) : \A i \in Nat : i = L + 1 => NumberedCall(i, c)
    BY <1>2, <1>3, <1>5, NumberedAnswer
<1>8. message.calls = calls
    BY DEF AnswerMessage, Message
<1>9. message = AnswerMessage(message.calls)
    BY <1>8
<1> HIDE DEF calls, message
<1>10. /\ history' \in Seq(Messages) /\ transcript' \in Seq(Messages) /\ Kept'
       /\ Len(transcript') = L + 1
       /\ \A i \in 1..L : transcript'[i] = transcript[i]
       /\ transcript'[L + 1] = message
       /\ Summary \in ToSet(history) => Summary \in ToSet(history')
    BY <1>1, <1>4, <1>5, SayingKeeps DEF Inv, Types
<1>11. stopReason' \in {"none", "end_turn", "max_tokens", "max_turns"} /\ cut' \in BOOLEAN
    BY <1>2, <1>5 DEF Inv, Types, StopReason
<1>12. Types'
    BY <1>5, <1>6, <1>10, <1>11 DEF Inv, Types
<1>13. Grown'
    BY <1>1, <1>5, <1>10 DEF Grown
<1>14. Alternates'
    <2>1. PICK last \in Nat : last = L + 1
        BY <1>1
    <2>2. last % 2 = 0
        BY <1>1, <2>1
    <2>3. InTurn(last)'
        BY <1>9, <1>10, <2>1, <2>2 DEF InTurn, AnswerAt
    <2>4. Len(transcript') >= 1 /\ transcript'[1] = Task /\ \A i \in 2..Len(transcript') : InTurn(i)'
        BY <1>10, <2>1, <2>3, TellingKeeps DEF Inv, Types, Alternates
    <2>5. history'[Len(history')] = message
        BY <1>4, <1>5, AppendProperties DEF Inv, Types
    <2>6. phase' = "tools" => calls # <<>>
        BY <1>4, <1>5 DEF StopReason
    <2> QED
        BY <1>8, <1>10, <2>4, <2>5, <2>6 DEF Alternates
<1>15. Numbered'
    <2>1. DOMAIN transcript' = 1..(L + 1) /\ DOMAIN transcript = 1..L
        BY <1>10, LenProperties DEF Inv, Types
    <2>2. ASSUME NEW i \in Nat, NEW c, NumberedCall(i, c) PROVE NumberedCall(i, c)'
        BY <1>5, <1>10, <2>2 DEF NumberedCall
    <2>3. ASSUME NEW i \in 1..(L + 1), NEW c \in ToSet(transcript'[i].calls) PROVE NumberedCall(i, c)
        <3>1. CASE i = L + 1
            BY <1>1, <1>7, <1>8, <1>10, <2>3, <3>1
        <3>2. CASE i \in 1..L
            BY <1>10, <2>1, <2>3, <3>2 DEF Inv, Numbered
        <3> QED
            BY <1>1, <3>1, <3>2
    <2>4. ASSUME NEW i \in DOMAIN transcript', NEW c \in ToSet(transcript'[i].calls)
          PROVE  NumberedCall(i, c)'
        <3>1. i \in 1..(L + 1) /\ i \in Nat
            BY <1>1, <2>1
        <3> QED
            BY <2>2, <2>3, <2>4, <3>1
    <2> QED
        BY <2>4 DEF Numbered
<1>16. Uncut'
    BY <1>5 DEF Inv, Uncut
<1>17. TruncationIsKnown'
    <2>1. Answering' = Answering
        BY <1>5 DEF Answering
    <2> QED
        BY <1>2, <1>5, <2>1 DEF TruncationIsKnown, StopReason
<1> QED
    BY <1>10, <1>12, <1>13, <1>14, <1>15, <1>16, <1>17 DEF Inv
-----------------------------------------------------------------------------
LEMMA StutterKeeps == ASSUME Inv, UNCHANGED vars PROVE Inv'
<1>1. UNCHANGED <<stage, try, call, timedOut, vendor, role, keepRecent, history, transcript,
                  phase, turn, stopReason, cut>>
    BY DEF vars, modelVars, setup
<1>2. Types'
    BY <1>1 DEF Inv, Types, ModelInv, ModelTypeOK, HasRetry
<1>3. Grown' /\ Uncut' /\ TruncationIsKnown'
    BY <1>1 DEF Inv, Grown, Uncut, TruncationIsKnown, Answering
<1> QED
    BY <1>1, <1>2, <1>3, QuietKeeps DEF Inv, setup

LEMMA NextKeeps == Inv /\ [Next]_vars => Inv'
<1> SUFFICES ASSUME Inv, [Next]_vars PROVE Inv'
    OBVIOUS
<1>1. CASE BeginTurn
    BY <1>1, BeginTurnKeeps
<1>2. CASE OutOfTurns \/ ModelRaises
    BY <1>2, LoopEndsKeeps
<1>3. CASE ChainGoesOn \/ ProviderIsDone
    BY <1>3, ModelWorksKeeps
<1>4. CASE ModelAnswers
    BY <1>4, ModelAnswersKeeps
<1>5. CASE ToolsRun
    BY <1>5, ToolsRunKeeps
<1>6. CASE UNCHANGED vars
    BY <1>6, StutterKeeps
<1> QED
    BY <1>1, <1>2, <1>3, <1>4, <1>5, <1>6 DEF Next, AgentStep

(* The inductive invariant.                                                   *)
THEOREM Invariance == Spec => []Inv
BY InitInv, NextKeeps, PTL DEF Spec

(* The state of the conversation is well typed: TypeOK of the run.            *)
THEOREM ConversationTypeCorrect == Spec => []TypeOK
<1>1. Inv => TypeOK
    <2> SUFFICES ASSUME Inv PROVE TypeOK
        OBVIOUS
    <2>1. \A m \in ToSet(history) \cup ToSet(transcript) : m \in Messages
        BY ElementOfSeq, LenProperties DEF ToSet, Inv, Types
    <2>2. \A m \in Messages : m.role \in {"user", "assistant", "tool"}
        BY DEF Messages
    <2> QED
        BY <2>1, <2>2 DEF TypeOK, Inv, Types, ModelInv, Vendors
<1> QED
    BY <1>1, Invariance, PTL

(* However often maybe_compact collapses the history, what is left of it is   *)
(* the task, a summary and the last messages, of which there are at least     *)
(* keep_recent.                                                               *)
THEOREM HistoryIsKept == Spec => []TranscriptIsKept
<1>1. Inv => TranscriptIsKept
    BY DEF Inv, Kept, KeptFrom, Shortened, TranscriptIsKept
<1> QED
    BY <1>1, Invariance, PTL

(* The ids of an agent's calls, its idempotency keys, differ from turn to     *)
(* turn but for Gemini and for the mock behind a compaction.                  *)
THEOREM CallIdsRepeatOnly == Spec => []CallIdsComeBack
<1>1. Inv => CallIdsComeBack
    <2> SUFFICES ASSUME Inv, NEW i \in DOMAIN transcript, NEW j \in DOMAIN transcript, i < j,
                        NEW c \in ToSet(transcript[i].calls), c \in ToSet(transcript[j].calls),
                        c.by # "google"
                 PROVE  "mock" \in ToSet(vendor) /\ Summary \in ToSet(history)
        BY DEF CallIdsComeBack
    <2>1. NumberedCall(i, c) /\ NumberedCall(j, c)
        BY DEF Inv, Numbered
    <2>2. i \in Nat /\ j \in Nat
        BY LenProperties DEF Inv, Types
    <2>3. c.by \in Vendors
        <3>1. c.by \in ToSet(vendor) /\ DOMAIN vendor = 1..Chain
            BY <2>1 DEF NumberedCall, Inv, Types
        <3> QED
            BY <3>1 DEF ToSet, Inv, Types
    <2>4. c.by = "mock"
        <3>1. ~(c.by \in {"anthropic", "openai"})
            BY <2>1, <2>2 DEF NumberedCall
        <3> QED
            BY <2>3, <3>1 DEF Vendors, Keys
    <2> QED
        BY <2>1, <2>4 DEF NumberedCall
<1> QED
    BY <1>1, Invariance, PTL

(* Only behind Gemini does an agent take a cut off answer for a whole one.    *)
THEOREM TruncationIsSeen == Spec => []TruncationIsKnown
<1>1. Inv => TruncationIsKnown
    BY DEF Inv
<1> QED
    BY <1>1, Invariance, PTL

(***************************************************************************)
(* The messages that CallsAreAnswered is about, before the adapters put     *)
(* them on their wires: calls and their results stand next to each other.   *)
(***************************************************************************)
Whole(i) ==
    /\ history[i].calls # <<>> =>
          i + 1 \in DOMAIN history /\ history[i + 1].results = history[i].calls
    /\ history[i].results # <<>> =>
          \/ i - 1 \in DOMAIN history /\ history[i - 1].calls = history[i].results
          \/ i = 3 /\ history[2] = Summary /\ keepRecent % 2 = 1

TurnsStayWhole == phase = "model" => \A i \in DOMAIN history : Whole(i)

(* What an agent sends pairs every call with its result, whatever was         *)
(* collapsed, but for the first result behind a summary when keep_recent is   *)
(* odd (run_agent, maybe_compact).                                            *)
THEOREM PairsSurviveCompaction == Spec => []TurnsStayWhole
<1> DEFINE L == Len(transcript)
           H == Len(history)
<1>1. Inv => TurnsStayWhole
    <2> SUFFICES ASSUME Inv, phase = "model", NEW i \in DOMAIN history PROVE Whole(i)
        BY DEF TurnsStayWhole
    <2>1. /\ L \in Nat /\ L % 2 = 1 /\ DOMAIN history = 1..H /\ H \in Nat /\ turn \in Nat
          /\ DOMAIN transcript = 1..L /\ L >= 1 /\ transcript[1] = Task
        BY LenProperties DEF Inv, Types, Grown, Alternates
    <2>2. /\ Task.calls = <<>> /\ Task.results = <<>>
          /\ Summary.calls = <<>> /\ Summary.results = <<>>
          /\ \A c : AnswerMessage(c).results = <<>> /\ ResultsMessage(c).calls = <<>>
                  /\ ResultsMessage(c).results = c
        BY DEF Task, Summary, AnswerMessage, ResultsMessage, Message
    \* Calls have their results behind them, results their calls in front.
    <2>3. ASSUME NEW k \in 1..L, transcript[k].calls # <<>>
          PROVE  k + 1 \in 1..L /\ transcript[k + 1].results = transcript[k].calls
        <3>1. k # 1 /\ ~ResultsAt(k)
            BY <2>1, <2>2, <2>3 DEF ResultsAt
        <3>2. k % 2 = 0 /\ k + 1 \in 2..L /\ (k + 1) % 2 = 1
            BY <2>1, <3>1 DEF Inv, Alternates, InTurn
        <3>3. ResultsAt(k + 1)
            BY <3>2 DEF Inv, Alternates, InTurn
        <3>4. (k + 1) - 1 = k /\ k + 1 \in 1..L
            BY <2>1, <3>2
        <3>5. transcript[k + 1] = ResultsMessage(transcript[k].calls)
            BY <3>3, <3>4 DEF ResultsAt
        <3> QED
            BY <2>2, <3>4, <3>5
    <2>4. ASSUME NEW k \in 1..L, transcript[k].results # <<>>
          PROVE  k - 1 \in 1..L /\ k % 2 = 1 /\ transcript[k - 1].calls = transcript[k].results
        <3>1. k # 1 /\ ~AnswerAt(k)
            BY <2>1, <2>2, <2>4 DEF AnswerAt
        <3>2. k % 2 = 1 /\ k \in 2..L
            BY <2>1, <3>1 DEF Inv, Alternates, InTurn
        <3>3. ResultsAt(k)
            BY <3>2 DEF Inv, Alternates, InTurn
        <3> QED
            BY <2>1, <2>2, <3>2, <3>3 DEF ResultsAt
    <2>5. CASE history = transcript
        BY <2>1, <2>3, <2>4, <2>5 DEF Whole
    <2>6. ASSUME NEW n \in 2..(L + 1), KeptFrom(n) PROVE Whole(i)
        <3>1. /\ H = L - n + 3 /\ history[1] = Task /\ history[2] = Summary
              /\ \A m \in 3..H : history[m] = transcript[m + n - 3]
              /\ n % 2 = keepRecent % 2
            BY <2>6, ShortenedIs DEF KeptFrom, Inv, Types
        <3> DEFINE k == i + n - 3
        <3>2. CASE i \in {1, 2}
            BY <2>2, <3>1, <3>2 DEF Whole
        <3>3. CASE i \in 3..H
            <4>1. k \in 1..L /\ k \in Int /\ history[i] = transcript[k]
                <5>1. history[i] = transcript[i + n - 3]
                    BY <3>1, <3>3
                <5>2. i + n - 3 \in 1..L /\ i + n - 3 \in Int
                    BY <2>1, <3>1, <3>3
                <5> QED
                    BY <5>1, <5>2
            <4>2. ASSUME history[i].calls # <<>>
                  PROVE  i + 1 \in DOMAIN history /\ history[i + 1].results = history[i].calls
                <5>1. k + 1 \in 1..L /\ transcript[k + 1].results = transcript[k].calls
                    BY <2>3, <4>1, <4>2
                <5>2. i + 1 \in 3..H /\ (i + 1) + n - 3 = k + 1
                    BY <2>1, <3>1, <3>3, <5>1
                <5>3. history[i + 1] = transcript[k + 1]
                    <6>1. history[i + 1] = transcript[(i + 1) + n - 3]
                        BY <3>1, <5>2
                    <6> QED
                        BY <5>2, <6>1
                <5>4. i + 1 \in DOMAIN history
                    BY <2>1, <5>2
                <5> QED
                    BY <4>1, <5>1, <5>3, <5>4
            <4>3. ASSUME history[i].results # <<>>, i # 3
                  PROVE  i - 1 \in DOMAIN history /\ history[i - 1].calls = history[i].results
                <5>1. k - 1 \in 1..L /\ transcript[k - 1].calls = transcript[k].results
                    BY <2>4, <4>1, <4>3
                <5>2. i - 1 \in 3..H /\ (i - 1) + n - 3 = k - 1
                    BY <2>1, <3>1, <3>3, <4>3
                <5>3. history[i - 1] = transcript[k - 1]
                    <6>1. history[i - 1] = transcript[(i - 1) + n - 3]
                        BY <3>1, <5>2
                    <6> QED
                        BY <5>2, <6>1
                <5>4. i - 1 \in DOMAIN history
                    BY <2>1, <5>2
                <5> QED
                    BY <4>1, <5>1, <5>3, <5>4
            <4>4. ASSUME history[i].results # <<>>, i = 3 PROVE keepRecent % 2 = 1
                <5>1. k % 2 = 1 /\ k = n
                    BY <2>4, <4>1, <4>4
                <5> QED
                    BY <3>1, <5>1
            <4> QED
                BY <3>1, <4>2, <4>3, <4>4 DEF Whole
        <3> QED
            BY <2>1, <3>2, <3>3
    <2> QED
        BY <2>5, <2>6 DEF Inv, Kept
<1> QED
    BY <1>1, Invariance, PTL

(* Each turn is a request of its own to the chain of models: an agent does    *)
(* nothing to it that ResilientModel does not do, so that what holds of the   *)
(* chain by itself holds of every agent's (run_agent, model.complete).        *)
THEOREM TurnsAreRequests == Spec => ModelSpec
<1>1. Init => ModelInit
    BY DEF Init
<1>2. Inv /\ [Next]_vars => [ModelNext]_modelVars
    <2> SUFFICES ASSUME Inv, [Next]_vars PROVE [ModelNext]_modelVars
        OBVIOUS
    <2>1. phase = "model" => turn \in Request
        BY ConversationAssumption, LenProperties DEF Inv, Types, Grown, Alternates
    <2>2. CASE BeginTurn
        <3>1. turn + 1 \in Request
            BY <2>2, ConversationAssumption DEF BeginTurn, Inv, Types
        <3> QED
            BY <2>2, <3>1 DEF BeginTurn, ModelNext
    <2>3. CASE OutOfTurns \/ ModelRaises \/ ToolsRun \/ UNCHANGED vars
        BY <2>3 DEF OutOfTurns, ModelRaises, ToolsRun, vars
    <2>4. CASE ChainGoesOn
        BY <2>1, <2>4 DEF ChainGoesOn, ModelNext
    <2>5. CASE ProviderIsDone
        BY <2>5 DEF ProviderIsDone, ModelNext
    <2>6. CASE ModelAnswers
        BY <2>1, <2>6 DEF ModelAnswers, ModelNext
    <2> QED
        BY <2>2, <2>3, <2>4, <2>5, <2>6 DEF Next, AgentStep
<1> QED
    BY <1>1, <1>2, Invariance, PTL DEF Spec, ModelSpec
-----------------------------------------------------------------------------
(***************************************************************************)
(* So what ResilientProofs proves of the chain holds of each turn.  Its     *)
(* cassette has no part in this; the agent's chain is shown to be the same. *)
(***************************************************************************)
Proved == INSTANCE ResilientProofs WITH
    Key <- {}, Mode <- "auto", MaxStops <- 0, NoAnswer <- 0, NoKey <- 0,
    mode <- "none", key <- 0, cassette <- 0, file <- 0, served <- 0, replayed <- 0,
    stops <- 0, latest <- 0, unsaved <- 0, lost <- 0

LEMMA ChainAssumptions == Proved!ResilientAssumption /\ Proved!ReplayAssumption
<1>1. Proved!ResilientAssumption
    BY ResilientAssumption DEF Proved!ResilientAssumption
<1>2. 0 \notin Request
    BY ConversationAssumption
<1> QED
    BY <1>1, <1>2 DEF Proved!ReplayAssumption

LEMMA SameChain ==
    /\ ModelInit <=> Proved!ModelInit
    /\ modelVars = Proved!modelVars
    /\ \A r \in Request : /\ Begin(r) <=> Proved!Begin(r)
                          /\ GoesOn(r) <=> Proved!GoesOn(r)
                          /\ Answers(r) <=> Proved!Answers(r)
    /\ \A x : ProviderEnds(x) <=> Proved!ProviderEnds(x)
    /\ Calls = Proved!Calls
    /\ TriesInOrder <=> Proved!TriesInOrder
    /\ ResultIsOfTheLastTry <=> Proved!ResultIsOfTheLastTry
    /\ OnlyTimedOutCallsRunOn <=> Proved!OnlyTimedOutCallsRunOn
<1>1. Try = Proved!Try /\ Calls = Proved!Calls
    BY DEF Try, Calls, Proved!Try, Proved!Calls
<1>2. \A r : Current(r) = Proved!Current(r) /\ (HasRetry(r) <=> Proved!HasRetry(r))
    BY DEF Current, Proved!Current, HasRetry, Proved!HasRetry
<1>3. \A r, t, c : StartCall(r, t, c) <=> Proved!StartCall(r, t, c)
    BY DEF StartCall, Proved!StartCall
<1>4. \A r, c : NextTry(r, c) <=> Proved!NextTry(r, c)
    BY <1>2, <1>3 DEF NextTry, Proved!NextTry
<1>5. ModelInit <=> Proved!ModelInit
    BY <1>1 DEF ModelInit, Proved!ModelInit
<1>6. modelVars = Proved!modelVars
    BY DEF modelVars, Proved!modelVars
<1>7. ASSUME NEW r \in Request
      PROVE  /\ Begin(r) <=> Proved!Begin(r)
             /\ GoesOn(r) <=> Proved!GoesOn(r)
             /\ Answers(r) <=> Proved!Answers(r)
    <2>1. Begin(r) <=> Proved!Begin(r)
        BY <1>3 DEF Begin, Proved!Begin
    <2>2. WakeUp(r) <=> Proved!WakeUp(r)
        BY <1>3 DEF WakeUp, Proved!WakeUp
    <2>3. FailsTransiently(r) <=> Proved!FailsTransiently(r)
        BY <1>2, <1>4 DEF FailsTransiently, Proved!FailsTransiently
    <2>4. FailsForGood(r) <=> Proved!FailsForGood(r)
        BY <1>2 DEF FailsForGood, Proved!FailsForGood
    <2>5. TimesOut(r) <=> Proved!TimesOut(r)
        BY <1>2, <1>4 DEF TimesOut, Proved!TimesOut
    <2>6. Answers(r) <=> Proved!Answers(r)
        BY <1>2 DEF Answers, HasAnswer, Proved!Answers, Proved!HasAnswer
    <2> QED
        BY <2>1, <2>2, <2>3, <2>4, <2>5, <2>6 DEF GoesOn, Proved!GoesOn
<1>8. \A x : ProviderEnds(x) <=> Proved!ProviderEnds(x)
    BY DEF ProviderEnds, Proved!ProviderEnds
<1>9. TriesInOrder <=> Proved!TriesInOrder
    BY <1>1 DEF TriesInOrder, Proved!TriesInOrder, Before, Proved!Before
<1>10. ResultIsOfTheLastTry <=> Proved!ResultIsOfTheLastTry
    BY <1>2 DEF ResultIsOfTheLastTry, Proved!ResultIsOfTheLastTry
<1>11. OnlyTimedOutCallsRunOn <=> Proved!OnlyTimedOutCallsRunOn
    BY <1>1 DEF OnlyTimedOutCallsRunOn, Proved!OnlyTimedOutCallsRunOn
<1> QED
    BY <1>1, <1>5, <1>6, <1>7, <1>8, <1>9, <1>10, <1>11

(* In every turn of an agent the models are tried in order, and what the      *)
(* agent gets, an answer or the exception that ends it, is what became of the *)
(* last try (run_agent, ResilientChatModel.complete).                         *)
THEOREM TurnsGetTheLastTry ==
    Spec => [](TriesInOrder /\ ResultIsOfTheLastTry /\ OnlyTimedOutCallsRunOn)
<1>1. ModelInit => Proved!ModelInit
    BY SameChain
<1>2. [ModelNext]_modelVars => [Proved!ModelNext]_Proved!modelVars
    BY SameChain DEF ModelNext, Proved!ModelNext, modelVars, Proved!modelVars
<1>3. ModelSpec => Proved!ModelSpec
    BY <1>1, <1>2, PTL DEF ModelSpec, Proved!ModelSpec
<1>4. /\ Proved!ModelSpec => []Proved!TriesInOrder
      /\ Proved!ModelSpec => []Proved!ResultIsOfTheLastTry
      /\ Proved!ModelSpec => []Proved!OnlyTimedOutCallsRunOn
    BY ChainAssumptions, Proved!OrderOfTries, Proved!ResultOfTheLastTry, Proved!StrayCallsTimedOut
<1>5. /\ Proved!TriesInOrder => TriesInOrder
      /\ Proved!ResultIsOfTheLastTry => ResultIsOfTheLastTry
      /\ Proved!OnlyTimedOutCallsRunOn => OnlyTimedOutCallsRunOn
    BY SameChain
<1> QED
    BY <1>3, <1>4, <1>5, TurnsAreRequests, PTL
-----------------------------------------------------------------------------
(* Every set of numbers that has a member has a least one.                    *)
LEMMA LeastNumber ==
    ASSUME NEW S \in SUBSET Nat, S # {}
    PROVE  \E m \in S : \A k \in S : m <= k
<1>1. PICK m \in S : \A k \in S : <<k, m>> \notin OpToRel(<, Nat)
    BY NatLessThanWellFounded, WFMin, Zenon
<1>2. \A k \in S : ~(k < m)
    BY <1>1, Zenon DEF OpToRel
<1> QED
    BY <1>2

(***************************************************************************)
(* The wire is a FlattenSeq, which is defined by a recursive function.      *)
(* What it computes is proved without an induction theorem: of all numbers  *)
(* of parts for which a fact fails there would be a least one.  So the      *)
(* function exists, and part i stands behind all parts before it.           *)
(***************************************************************************)
Unfolds(f, s, n) == f = [i \in 1..n |-> IF i = 1 THEN s[i] ELSE f[i - 1] \o s[i]]

LEMMA UnfoldingExists ==
    ASSUME NEW X, NEW s \in Seq(Seq(X)), NEW n \in 0..Len(s)
    PROVE  \E f \in [1..n -> Seq(X)] : Unfolds(f, s, n)
<1> DEFINE None == {m \in 0..Len(s) : \A f \in [1..m -> Seq(X)] : ~Unfolds(f, s, m)}
<1>1. SUFFICES ASSUME None # {} PROVE FALSE
    OBVIOUS
<1>2. Len(s) \in Nat /\ \A i \in 1..Len(s) : s[i] \in Seq(X)
    OBVIOUS
<1>3. PICK m \in None : \A k \in None : m <= k
    <2>1. None \in SUBSET Nat
        BY <1>2
    <2> HIDE DEF None
    <2> QED
        BY <1>1, <2>1, LeastNumber
<1>4. m \in 0..Len(s) /\ \A f \in [1..m -> Seq(X)] : ~Unfolds(f, s, m)
    OBVIOUS
<1>5. m # 0
    <2>1. CASE m = 0
        <3>1. [i \in 1..0 |-> <<>>] \in [1..m -> Seq(X)]
            BY <2>1
        <3>2. Unfolds([i \in 1..0 |-> <<>>], s, m)
            BY <2>1 DEF Unfolds
        <3> QED
            BY <1>4, <3>1, <3>2
    <2> QED
        BY <2>1
<1>6. PICK f \in [1..(m - 1) -> Seq(X)] : Unfolds(f, s, m - 1)
    <2>1. m - 1 \in 0..Len(s) /\ ~(m <= m - 1)
        BY <1>2, <1>4, <1>5
    <2>2. m - 1 \notin None
        BY <1>3, <2>1
    <2> QED
        BY <2>1, <2>2
<1> DEFINE g == [i \in 1..m |-> IF i = 1 THEN s[i] ELSE f[i - 1] \o s[i]]
<1>7. ASSUME NEW i \in 1..m, i # 1 PROVE i - 1 \in 1..(m - 1) /\ f[i - 1] \in Seq(X) /\ g[i - 1] = f[i - 1]
    <2>1. i - 1 \in 1..(m - 1) /\ i - 1 \in 1..m
        BY <1>2, <1>4, <1>7
    <2>2. f[i - 1] = IF i - 1 = 1 THEN s[i - 1] ELSE f[(i - 1) - 1] \o s[i - 1]
        BY <1>6, <2>1 DEF Unfolds
    <2> QED
        BY <2>1, <2>2
<1>8. g \in [1..m -> Seq(X)]
    <2>1. ASSUME NEW i \in 1..m PROVE g[i] \in Seq(X)
        <3>1. i \in 1..Len(s) /\ s[i] \in Seq(X)
            BY <1>2, <1>4
        <3>2. CASE i = 1
            BY <3>1, <3>2
        <3>3. CASE i # 1
            BY <1>7, <3>1, <3>3, ConcatProperties
        <3> QED
            BY <3>2, <3>3
    <2> QED
        BY <2>1
<1>9. Unfolds(g, s, m)
    <2>1. \A i \in 1..m : g[i] = IF i = 1 THEN s[i] ELSE g[i - 1] \o s[i]
        BY <1>7
    <2> QED
        BY <2>1 DEF Unfolds
<1> QED
    BY <1>4, <1>8, <1>9

(* Where the parts of FlattenSeq(s) begin: part i is behind position off[i-1]. *)
Places(s, off) ==
    /\ off \in [0..Len(s) -> Nat] /\ off[0] = 0
    /\ \A i \in 1..Len(s) : off[i] = off[i - 1] + Len(s[i])

Laid(s, off, n, w) ==
    /\ Len(w) = off[n]
    /\ \A i \in 1..n : \A k \in 1..Len(s[i]) :
          off[i - 1] + k \in 1..Len(w) /\ w[off[i - 1] + k] = s[i][k]
    /\ \A j \in 1..Len(w) : \E i \in 1..n : \E k \in 1..Len(s[i]) : j = off[i - 1] + k

LEMMA PartAppended ==
    ASSUME NEW X, NEW s \in Seq(Seq(X)), NEW off, NEW i \in 1..Len(s), i # 1,
           NEW u \in Seq(X), Laid(s, off, i - 1, u), off[i - 1] \in Nat,
           off[i] = off[i - 1] + Len(s[i])
    PROVE  u \o s[i] \in Seq(X) /\ Laid(s, off, i, u \o s[i])
<1> DEFINE w == u \o s[i]
           m == Len(u)
<1>1. /\ s[i] \in Seq(X) /\ Len(s[i]) \in Nat /\ m \in Nat /\ m = off[i - 1]
      /\ Len(s) \in Nat /\ i \in Nat
    BY LenProperties DEF Laid
<1>2. /\ w \in Seq(X) /\ Len(w) = m + Len(s[i])
      /\ \A j \in 1..m : w[j] = u[j]
      /\ \A k \in 1..Len(s[i]) : w[m + k] = s[i][k]
    <2>1. \A j \in 1..(m + Len(s[i])) : w[j] = IF j <= m THEN u[j] ELSE s[i][j - m]
        BY <1>1, ConcatProperties
    <2>2. w \in Seq(X) /\ Len(w) = m + Len(s[i])
        BY <1>1, ConcatProperties
    <2> HIDE DEF w, m
    <2>3. \A k \in 1..Len(s[i]) : m + k \in 1..(m + Len(s[i])) /\ ~(m + k <= m) /\ (m + k) - m = k
        BY <1>1
    <2>4. \A j \in 1..m : j \in 1..(m + Len(s[i])) /\ j <= m
        BY <1>1
    <2> QED
        BY <2>1, <2>2, <2>3, <2>4
<1> HIDE DEF w
<1>3. ASSUME NEW h \in 1..i, NEW k \in 1..Len(s[h])
      PROVE  off[h - 1] + k \in 1..Len(w) /\ w[off[h - 1] + k] = s[h][k]
    <2>1. CASE h = i
        <3>1. k \in 1..Len(s[i]) /\ s[h][k] = s[i][k] /\ off[h - 1] = m
            BY <1>1, <2>1
        <3> HIDE DEF m
        <3>2. m + k \in 1..(m + Len(s[i]))
            BY <1>1, <3>1
        <3> QED
            BY <1>2, <3>1, <3>2
    <2>2. CASE h \in 1..(i - 1)
        <3>1. off[h - 1] + k \in 1..m /\ u[off[h - 1] + k] = s[h][k]
            BY <2>2 DEF Laid
        <3> HIDE DEF m
        <3>2. 1..m \subseteq 1..(m + Len(s[i]))
            BY <1>1
        <3> QED
            BY <1>2, <3>1, <3>2
    <2> QED
        BY <1>1, <2>1, <2>2
<1>4. ASSUME NEW j \in 1..Len(w) PROVE \E h \in 1..i : \E k \in 1..Len(s[h]) : j = off[h - 1] + k
    <2>1. CASE j \in 1..m
        <3>1. PICK h \in 1..(i - 1) : \E k \in 1..Len(s[h]) : j = off[h - 1] + k
            BY <2>1 DEF Laid
        <3>2. h \in 1..i
            BY <1>1
        <3> QED
            BY <3>1, <3>2
    <2>2. CASE j \notin 1..m
        <3>1. j - m \in 1..Len(s[i]) /\ j = m + (j - m)
            BY <1>1, <1>2, <2>2
        <3> QED
            BY <1>1, <3>1
    <2> QED
        BY <2>1, <2>2
<1> QED
    BY <1>1, <1>2, <1>3, <1>4 DEF Laid, w

LEMMA Flattened ==
    ASSUME NEW X, NEW s \in Seq(Seq(X)), s # <<>>
    PROVE  /\ FlattenSeq(s) \in Seq(X)
           /\ \E off : Places(s, off) /\ Laid(s, off, Len(s), FlattenSeq(s))
<1> DEFINE L == Len(s)
           f == CHOOSE g : Unfolds(g, s, L)
           off == [i \in 0..L |-> IF i = 0 THEN 0 ELSE Len(f[i])]
<1>1. L \in Nat /\ L # 0 /\ \A i \in 1..L : s[i] \in Seq(X) /\ Len(s[i]) \in Nat
    BY EmptySeq
<1>2. \A i \in 1..L : f[i] = IF i = 1 THEN s[i] ELSE f[i - 1] \o s[i]
    <2>1. L \in 0..Len(s)
        BY <1>1
    <2>2. \E g \in [1..L -> Seq(X)] : Unfolds(g, s, L)
        BY <2>1, UnfoldingExists
    <2>3. Unfolds(f, s, L)
        BY <2>2
    <2> HIDE DEF f
    <2> QED
        BY <2>3 DEF Unfolds
<1>3. FlattenSeq(s) = f[L]
    BY <1>1 DEF FlattenSeq, Unfolds
<1> HIDE DEF f
<1> DEFINE Good(i) ==
        /\ f[i] \in Seq(X) /\ off[i] = off[i - 1] + Len(s[i])
        /\ Laid(s, off, i, f[i])
           Bad == {i \in 1..L : ~Good(i)}
<1>4. ASSUME NEW i \in 1..L, i = 1 \/ (i # 1 /\ Good(i - 1)) PROVE Good(i)
    <2>1. /\ off[i] = Len(f[i]) /\ off[0] = 0
          /\ i # 1 => off[i - 1] = Len(f[i - 1])
        BY <1>1
    <2> HIDE DEF off
    <2>2. CASE i = 1
        <3>1. f[1] = s[1] /\ s[1] \in Seq(X) /\ Len(s[1]) \in Nat
            BY <1>1, <1>2, <2>2
        <3>2. Laid(s, off, 1, s[1])
            BY <2>1, <2>2, <3>1 DEF Laid
        <3> QED
            BY <2>1, <2>2, <3>1, <3>2
    <2>3. CASE i # 1
        <3>1. /\ f[i - 1] \in Seq(X) /\ Laid(s, off, i - 1, f[i - 1])
              /\ f[i] = f[i - 1] \o s[i] /\ s[i] \in Seq(X)
            BY <1>1, <1>2, <1>4, <2>3
        <3>2. off[i - 1] \in Nat /\ off[i] = off[i - 1] + Len(s[i])
            <4>1. Len(f[i - 1] \o s[i]) = Len(f[i - 1]) + Len(s[i])
                BY <3>1, ConcatProperties
            <4> QED
                BY <2>1, <2>3, <3>1, <4>1, LenProperties
        <3>3. f[i] \in Seq(X) /\ Laid(s, off, i, f[i])
            BY <2>3, <3>1, <3>2, PartAppended
        <3> QED
            BY <3>2, <3>3
    <2> QED
        BY <2>2, <2>3
<1>5. \A i \in 1..L : Good(i)
    <2>1. SUFFICES ASSUME Bad # {} PROVE FALSE
        OBVIOUS
    <2>2. PICK i \in Bad : \A k \in Bad : i <= k
        <3>1. Bad \in SUBSET Nat
            OBVIOUS
        <3> HIDE DEF Bad
        <3> QED
            BY <2>1, <3>1, LeastNumber
    <2>3. i \in 1..L /\ ~Good(i)
        OBVIOUS
    <2> HIDE DEF Good
    <2>4. i # 1 => i - 1 \in 1..L /\ i - 1 \notin Bad
        BY <1>1, <2>2, <2>3
    <2> QED
        BY <1>4, <2>3, <2>4
<1>6. off \in [0..L -> Nat] /\ off[0] = 0
    BY <1>1, <1>5, LenProperties
<1>7. Places(s, off) /\ FlattenSeq(s) \in Seq(X) /\ Laid(s, off, L, FlattenSeq(s))
    <2>1. L \in 1..L
        BY <1>1
    <2> HIDE DEF off
    <2> QED
        BY <1>3, <1>5, <1>6, <2>1 DEF Places
<1> QED
    BY <1>7

(* Parts of one member each.                                                  *)
LEMMA FlattenedSingles ==
    ASSUME NEW X, NEW t \in Seq(X), NEW s, s = [i \in 1..Len(t) |-> <<t[i]>>], t # <<>>
    PROVE  FlattenSeq(s) = t
<1> DEFINE L == Len(t)
           w == FlattenSeq(s)
<1>1. L \in Nat /\ L # 0 /\ \A i \in 1..L : t[i] \in X /\ <<t[i]>> \in Seq(X)
    BY EmptySeq
<1>2. s \in Seq(Seq(X)) /\ Len(s) = L /\ s # <<>>
      /\ \A i \in 1..L : s[i] = <<t[i]>> /\ Len(s[i]) = 1 /\ s[i][1] = t[i]
    <2>1. s \in [1..L -> Seq(X)]
        BY <1>1
    <2>2. s \in Seq(Seq(X)) /\ Len(s) = L
        BY <1>1, <2>1
    <2> QED
        BY <1>1, <2>2
<1>3. PICK off : Places(s, off) /\ Laid(s, off, L, w)
    BY <1>2, Flattened
<1>4. w \in Seq(X)
    BY <1>2, Flattened
<1> HIDE DEF w
<1> DEFINE Off == {i \in 0..L : off[i] # i}
<1>5. \A i \in 0..L : off[i] = i
    <2>1. SUFFICES ASSUME Off # {} PROVE FALSE
        OBVIOUS
    <2>2. PICK i \in Off : \A k \in Off : i <= k
        <3>1. Off \in SUBSET Nat
            OBVIOUS
        <3> HIDE DEF Off
        <3> QED
            BY <2>1, <3>1, LeastNumber
    <2>3. i \in 0..L /\ off[i] # i
        OBVIOUS
    <2>4. i # 0
        BY <1>3, <2>3 DEF Places
    <2>5. i - 1 \in 0..L /\ i - 1 \notin Off /\ i \in 1..L
        BY <1>1, <2>2, <2>3, <2>4
    <2>6. off[i - 1] = i - 1
        BY <2>5
    <2>7. off[i] = off[i - 1] + Len(s[i]) /\ Len(s[i]) = 1
        BY <1>2, <1>3, <2>5 DEF Places
    <2>8. (i - 1) + 1 = i
        BY <2>5
    <2> QED
        BY <2>3, <2>6, <2>7, <2>8
<1>6. Len(w) = L /\ \A i \in 1..L : w[i] = t[i]
    <2>1. L \in 0..L /\ \A i \in 1..L : i - 1 \in 0..L
        BY <1>1
    <2>2. \A i \in 1..L : w[off[i - 1] + 1] = t[i]
        <3>1. \A i \in 1..L : 1 \in 1..Len(s[i])
            BY <1>2
        <3> QED
            BY <1>2, <1>3, <3>1 DEF Laid
    <2>3. \A i \in 1..L : off[i - 1] + 1 = i
        BY <1>1, <1>5, <2>1
    <2>4. Len(w) = off[L] /\ off[L] = L
        BY <1>3, <1>5, <2>1 DEF Laid
    <2> QED
        BY <2>2, <2>3, <2>4
<1>7. t \in Seq(X) /\ Len(t) = Len(w) /\ \A i \in 1..Len(t) : t[i] = w[i]
    BY <1>6
<1> QED
    BY <1>4, <1>7, SeqEqual DEF w
-----------------------------------------------------------------------------
(* What the messages of a history can be.                                     *)
Spoken(m) ==
    \/ m = Task \/ m = Summary
    \/ \E calls \in Seq(ToolCalls) : m = AnswerMessage(calls)
    \/ \E calls \in Seq(ToolCalls) : calls # <<>> /\ m = ResultsMessage(calls)

LEMMA HistoryIsSpoken ==
    ASSUME Inv
    PROVE  /\ history \in Seq(Messages) /\ 1 \in DOMAIN history /\ history[1] = Task
           /\ \A i \in DOMAIN history : Spoken(history[i])
<1> DEFINE L == Len(transcript)
<1>1. /\ L \in Nat /\ L >= 1 /\ DOMAIN transcript = 1..L /\ transcript[1] = Task
      /\ history \in Seq(Messages) /\ transcript \in Seq(Messages)
    BY LenProperties DEF Inv, Types, Alternates
<1>2. ASSUME NEW k \in 1..L PROVE Spoken(transcript[k])
    <2>1. \A i \in 1..L : transcript[i].calls \in Seq(ToolCalls)
        <3>1. \A i \in 1..L : transcript[i] \in Messages
            BY <1>1
        <3> QED
            BY <3>1 DEF Messages
    <2>2. CASE k = 1
        BY <1>1, <2>2 DEF Spoken
    <2>3. CASE k # 1
        <3>1. k \in 2..L /\ k - 1 \in 1..L /\ InTurn(k)
            BY <1>1, <2>3 DEF Inv, Alternates
        <3>2. k % 2 = 0 \/ k % 2 = 1
            BY <3>1
        <3>3. AnswerAt(k) \/ ResultsAt(k)
            BY <3>1, <3>2 DEF InTurn
        <3> QED
            BY <2>1, <3>1, <3>3 DEF AnswerAt, ResultsAt, Spoken
    <2> QED
        BY <2>2, <2>3
<1>3. CASE history = transcript
    BY <1>1, <1>2, <1>3
<1>4. ASSUME NEW n \in 2..(L + 1), KeptFrom(n)
      PROVE  /\ 1 \in DOMAIN history /\ history[1] = Task
             /\ \A i \in DOMAIN history : Spoken(history[i])
    <2> DEFINE H == Len(history)
    <2>1. /\ H = L - n + 3 /\ history[1] = Task /\ history[2] = Summary
          /\ \A m \in 3..H : history[m] = transcript[m + n - 3]
        BY <1>4, ShortenedIs DEF KeptFrom, Inv, Types
    <2>2. DOMAIN history = 1..H /\ H \in Nat
        BY <1>1, LenProperties
    <2> HIDE DEF H, L
    <2>3. ASSUME NEW i \in 3..H PROVE Spoken(history[i])
        <3>1. i + n - 3 \in 1..L
            BY <1>1, <2>1, <2>2
        <3> QED
            BY <1>2, <2>1, <3>1
    <2>4. \A i \in 1..H : i \in {1, 2} \/ i \in 3..H
        BY <2>2
    <2>5. 1 \in 1..H
        BY <1>1, <2>1, <2>2
    <2> QED
        BY <2>1, <2>2, <2>3, <2>4, <2>5 DEF Spoken
<1> QED
    BY <1>1, <1>3, <1>4 DEF Inv, Kept

LEMMA FlattenedOne ==
    ASSUME NEW X, NEW r \in Seq(X)
    PROVE  FlattenSeq([k \in 1..1 |-> r]) = r
<1> DEFINE s == [k \in 1..1 |-> r]
           w == FlattenSeq(s)
<1>1. s \in Seq(Seq(X)) /\ Len(s) = 1 /\ s # <<>> /\ s[1] = r
    BY EmptySeq
<1> HIDE DEF s
<1>2. PICK off : Places(s, off) /\ Laid(s, off, 1, w)
    BY <1>1, Flattened
<1>3. w \in Seq(X)
    BY <1>1, Flattened
<1> HIDE DEF w
<1>4. 1 \in 1..1 /\ 1 - 1 = 0 /\ Len(r) \in Nat
    BY LenProperties
<1>5. off[0] = 0 /\ off[1] = Len(r)
    BY <1>1, <1>2, <1>4 DEF Places
<1>6. \A k \in 1..Len(r) : w[k] = r[k]
    <2>1. \A k \in 1..Len(s[1]) : w[off[1 - 1] + k] = s[1][k]
        BY <1>2, <1>4 DEF Laid
    <2>2. \A k \in 1..Len(r) : 0 + k = k
        BY <1>4
    <2> QED
        BY <1>1, <1>4, <1>5, <2>1, <2>2
<1>7. Len(w) = Len(r)
    BY <1>2, <1>5 DEF Laid
<1> QED
    BY <1>3, <1>6, <1>7, SeqEqual DEF w, s

(***************************************************************************)
(* What an adapter makes of a message: calls are one entry, and so is text, *)
(* results are one entry or one for each of them.                           *)
(***************************************************************************)
Entries ==
    Messages \cup [role : {"user", "assistant", "model", "tool"},
                   calls : Seq(ToolCalls) \cup Seq(ToolNames), results : Seq(ToolCalls)]

Shows(v, shown, calls) == IF v = "google" THEN Len(shown) = Len(calls) ELSE shown = calls

FormOf(v, m, t) ==
    /\ t \in Seq(Entries) /\ Len(t) >= 1
    /\ m.results = <<>> => Len(t) = 1 /\ t[1].results = <<>>
    /\ m.calls = <<>> => \A k \in 1..Len(t) : t[k].calls = <<>>
    /\ m.calls # <<>> => t[1].calls # <<>> /\ Shows(v, t[1].calls, m.calls)
    /\ m.results # <<>> =>
          /\ \A k \in 1..Len(t) : t[k].results # <<>>
          /\ FlattenSeq([k \in 1..Len(t) |-> t[k].results]) = m.results

LEMMA SpokenIs ==
    ASSUME NEW m, Spoken(m)
    PROVE  /\ m \in Messages /\ m.calls \in Seq(ToolCalls) /\ m.results \in Seq(ToolCalls)
           /\ m.role \in {"user", "assistant", "tool"}
           /\ m.calls # <<>> => m.role = "assistant"
           /\ m.results # <<>> => m.role = "tool" /\ m.calls = <<>>
           /\ m.role = "assistant" => m.results = <<>>
<1>1. m \in Messages
    BY SpokenMessages DEF Spoken
<1>2. m.calls \in Seq(ToolCalls) /\ m.results \in Seq(ToolCalls) /\ m.role \in {"user", "assistant", "tool"}
    BY <1>1 DEF Messages
<1>3. CASE m = Task \/ m = Summary
    BY <1>1, <1>2, <1>3 DEF Task, Summary, Message
<1>4. ASSUME NEW calls \in Seq(ToolCalls), m = AnswerMessage(calls)
      PROVE  m.role = "assistant" /\ m.results = <<>>
    BY <1>4 DEF AnswerMessage, Message
<1>5. ASSUME NEW calls \in Seq(ToolCalls), m = ResultsMessage(calls)
      PROVE  m.role = "tool" /\ m.calls = <<>>
    BY <1>5 DEF ResultsMessage, Message
<1> QED
    BY <1>1, <1>2, <1>3, <1>4, <1>5 DEF Spoken

LEMMA OneEntry ==
    ASSUME NEW v, NEW m, Spoken(m), NEW e \in Entries, e.results = m.results,
           m.calls = <<>> => e.calls = <<>>,
           m.calls # <<>> => e.calls # <<>> /\ Shows(v, e.calls, m.calls)
    PROVE  FormOf(v, m, <<e>>)
<1>1. <<e>> \in Seq(Entries) /\ Len(<<e>>) = 1 /\ <<e>>[1] = e
    OBVIOUS
<1>2. [k \in 1..1 |-> <<e>>[k].results] = [k \in 1..1 |-> m.results]
    BY <1>1
<1>3. FlattenSeq([k \in 1..1 |-> m.results]) = m.results
    BY SpokenIs, FlattenedOne
<1> QED
    BY <1>1, <1>2, <1>3 DEF FormOf

LEMMA AdapterForms ==
    ASSUME NEW v, NEW m, Spoken(m)
    PROVE  FormOf(v, m, OnWire(v, m))
<1>0. /\ m \in Messages /\ m.calls \in Seq(ToolCalls) /\ m.results \in Seq(ToolCalls)
      /\ m.role \in {"user", "assistant", "tool"}
      /\ m.calls # <<>> => m.role = "assistant"
      /\ m.results # <<>> => m.role = "tool" /\ m.calls = <<>>
      /\ m.role = "assistant" => m.results = <<>>
    BY SpokenIs
<1>1. CASE v = "anthropic"
    <2> DEFINE e == Entry(IF m.role = "assistant" THEN "assistant" ELSE "user", m.calls, m.results)
    <2>1. OnWire(v, m) = <<e>>
        BY <1>1 DEF OnWire, ToAnthropic
    <2>2. e \in Entries /\ e.results = m.results /\ e.calls = m.calls
        BY <1>0 DEF Entries, Entry
    <2> HIDE DEF e
    <2> QED
        BY <1>1, <2>1, <2>2, OneEntry DEF Shows
<1>2. CASE v = "google"
    <2> DEFINE shown == [i \in DOMAIN m.calls |-> m.calls[i].tool]
               e == Entry(IF m.role = "assistant" THEN "model" ELSE "user", shown, m.results)
    <2>1. OnWire(v, m) = <<e>>
        BY <1>2 DEF OnWire, ToGemini
    <2>2. shown \in Seq(ToolNames) /\ Len(shown) = Len(m.calls)
        <3>1. DOMAIN m.calls = 1..Len(m.calls) /\ Len(m.calls) \in Nat
            BY <1>0, LenProperties
        <3>2. \A i \in 1..Len(m.calls) : m.calls[i].tool \in ToolNames
            <4>1. \A i \in 1..Len(m.calls) : m.calls[i] \in ToolCalls
                BY <1>0
            <4> QED
                BY <4>1 DEF ToolCalls
        <3>3. shown \in [1..Len(m.calls) -> ToolNames]
            BY <3>1, <3>2
        <3> QED
            BY <3>1, <3>3
    <2> HIDE DEF shown
    <2>3. m.calls = <<>> <=> shown = <<>>
        BY <1>0, <2>2, EmptySeq
    <2>4. e \in Entries /\ e.results = m.results /\ e.calls = shown
        BY <1>0, <2>2 DEF Entries, Entry
    <2> HIDE DEF e
    <2> QED
        BY <1>2, <2>1, <2>2, <2>3, <2>4, OneEntry DEF Shows
<1>3. CASE v \notin {"anthropic", "openai", "google"}
    <2>1. OnWire(v, m) = <<m>>
        BY <1>3 DEF OnWire
    <2>2. m \in Entries
        BY <1>0 DEF Entries
    <2> QED
        BY <1>0, <1>3, <2>1, <2>2, OneEntry DEF Shows
<1>4. CASE v = "openai"
    <2>0. OnWire(v, m) = ToOpenAI(m)
        BY <1>4 DEF OnWire
    <2>1. CASE m.role = "assistant"
        <3>1. Entry("assistant", m.calls, <<>>) \in Entries
            BY <1>0 DEF Entries, Entry
        <3>2. ToOpenAI(m) = <<Entry("assistant", m.calls, <<>>)>>
            BY <2>1 DEF ToOpenAI
        <3> QED
            BY <1>0, <1>4, <2>0, <2>1, <3>1, <3>2, OneEntry DEF Shows, Entry
    <2>2. CASE m.role # "assistant" /\ m.results = <<>>
        <3>1. Entry("user", <<>>, <<>>) \in Entries
            BY <1>0 DEF Entries, Entry
        <3>2. ToOpenAI(m) = <<Entry("user", <<>>, <<>>)>>
            BY <2>2 DEF ToOpenAI
        <3>3. m.calls = <<>>
            BY <1>0, <2>2
        <3> QED
            BY <1>0, <1>4, <2>0, <2>2, <3>1, <3>2, <3>3, OneEntry DEF Shows, Entry
    <2>3. CASE m.role # "assistant" /\ m.results # <<>>
        <3> DEFINE r == m.results
                   t == [i \in DOMAIN r |-> Entry("tool", <<>>, <<r[i]>>)]
        <3>1. ToOpenAI(m) = t
            BY <2>3 DEF ToOpenAI
        <3>2. DOMAIN r = 1..Len(r) /\ Len(r) \in Nat /\ Len(r) # 0 /\ \A i \in 1..Len(r) : r[i] \in ToolCalls
            BY <1>0, <2>3, LenProperties, EmptySeq
        <3>3. \A i \in 1..Len(r) : Entry("tool", <<>>, <<r[i]>>) \in Entries
            BY <3>2 DEF Entries, Entry
        <3>4. t \in [1..Len(r) -> Entries]
            BY <3>2, <3>3
        <3>5. t \in Seq(Entries) /\ Len(t) = Len(r)
            BY <3>2, <3>4
        <3>6. \A i \in 1..Len(r) : t[i].results = <<r[i]>> /\ t[i].calls = <<>>
            BY <3>2 DEF Entry
        <3> HIDE DEF t
        <3>7. [k \in 1..Len(t) |-> t[k].results] = [i \in 1..Len(r) |-> <<r[i]>>]
            BY <3>5, <3>6
        <3>8. FlattenSeq([i \in 1..Len(r) |-> <<r[i]>>]) = r
            BY <1>0, <2>3, FlattenedSingles
        <3>9. \A i \in 1..Len(r) : <<r[i]>> # <<>>
            OBVIOUS
        <3>10. FlattenSeq([k \in 1..Len(t) |-> t[k].results]) = m.results
            BY <3>7, <3>8
        <3>11. \A k \in 1..Len(t) : t[k].results # <<>> /\ t[k].calls = <<>>
            BY <3>5, <3>6, <3>9
        <3>12. Len(t) >= 1 /\ m.calls = <<>>
            BY <1>0, <2>3, <3>2, <3>5
        <3>13. OnWire(v, m) = t
            BY <2>0, <3>1
        <3> QED
            BY <2>3, <3>5, <3>10, <3>11, <3>12, <3>13 DEF FormOf
    <2> QED
        BY <2>1, <2>2, <2>3
<1> QED
    BY <1>1, <1>2, <1>3, <1>4

(* The results directly behind an entry, when there are n of them.            *)
LEMMA ResultsBehindIs ==
    ASSUME NEW w \in Seq(Entries), NEW j \in 1..Len(w), NEW n \in Nat, j + n <= Len(w),
           \A k \in 1..n : w[j + k].results # <<>>,
           j + n = Len(w) \/ w[j + n + 1].results = <<>>
    PROVE  ResultsBehind(w, j) = FlattenSeq([k \in 1..n |-> w[j + k].results])
<1> DEFINE ends == {e \in j..Len(w) : e = Len(w) \/ w[e + 1].results = <<>>}
           end == CHOOSE e \in ends : \A k \in ends : e <= k
<1>1. j \in Nat /\ Len(w) \in Nat
    OBVIOUS
<1>2. j + n \in ends
    BY <1>1
<1>3. ASSUME NEW e \in ends PROVE j + n <= e
    <2>1. SUFFICES ASSUME e < j + n PROVE FALSE
        BY <1>1
    <2>2. e - j + 1 \in 1..n /\ j + (e - j + 1) = e + 1 /\ e # Len(w)
        BY <1>1, <2>1
    <2>3. w[j + (e - j + 1)].results # <<>>
        BY <2>2
    <2> QED
        BY <2>2, <2>3
<1>4. end = j + n
    <2>1. end \in ends /\ \A k \in ends : end <= k
        BY <1>2, <1>3
    <2>2. \A e \in ends : e \in Nat
        BY <1>1
    <2> HIDE DEF end, ends
    <2> QED
        BY <1>1, <1>2, <1>3, <2>1, <2>2
<1>5. (j + n) - j = n
    BY <1>1
<1>6. ResultsBehind(w, j) = FlattenSeq([k \in 1..(end - j) |-> w[j + k].results])
    BY DEF ResultsBehind
<1> HIDE DEF end
<1> QED
    BY <1>4, <1>5, <1>6

(***************************************************************************)
(* The wire of a provider: the entries of message i stand behind place      *)
(* off[i - 1].                                                              *)
(***************************************************************************)
LaidOut(v, off) ==
    /\ off \in [0..Len(history) -> Nat] /\ off[0] = 0 /\ off[Len(history)] = Len(Wire(v))
    /\ \A i \in DOMAIN history :
          /\ FormOf(v, history[i], OnWire(v, history[i]))
          /\ off[i] = off[i - 1] + Len(OnWire(v, history[i]))
          /\ \A k \in 1..Len(OnWire(v, history[i])) :
                off[i - 1] + k \in 1..Len(Wire(v)) /\ Wire(v)[off[i - 1] + k] = OnWire(v, history[i])[k]
    /\ \A j \in 1..Len(Wire(v)) : \E i \in DOMAIN history :
          \E k \in 1..Len(OnWire(v, history[i])) : j = off[i - 1] + k

LEMMA WireIsLaidOut ==
    ASSUME Inv, NEW v
    PROVE  Wire(v) \in Seq(Entries) /\ \E off : LaidOut(v, off)
<1> DEFINE s == [i \in DOMAIN history |-> OnWire(v, history[i])]
           H == Len(history)
<1>1. /\ DOMAIN history = 1..H /\ H \in Nat /\ 1 \in 1..H
      /\ \A i \in 1..H : FormOf(v, history[i], OnWire(v, history[i]))
    BY HistoryIsSpoken, AdapterForms, LenProperties
<1>2. \A i \in 1..H : OnWire(v, history[i]) \in Seq(Entries)
    BY <1>1 DEF FormOf
<1>3. /\ s \in Seq(Seq(Entries)) /\ Len(s) = H /\ s # <<>>
      /\ \A i \in 1..H : s[i] = OnWire(v, history[i])
    <2>1. s \in [1..H -> Seq(Entries)]
        BY <1>1, <1>2
    <2>2. s \in Seq(Seq(Entries)) /\ Len(s) = H
        BY <1>1, <2>1
    <2>3. H # 0
        BY <1>1
    <2> QED
        BY <1>1, <2>2, <2>3, EmptySeq
<1>4. Wire(v) = FlattenSeq(s)
    BY DEF Wire
<1> HIDE DEF s
<1>5. PICK off : Places(s, off) /\ Laid(s, off, Len(s), FlattenSeq(s))
    BY <1>3, Flattened
<1>6. FlattenSeq(s) \in Seq(Entries)
    BY <1>3, Flattened
<1> HIDE DEF H
<1>7. /\ off \in [0..H -> Nat] /\ off[0] = 0 /\ off[H] = Len(Wire(v))
      /\ \A i \in 1..H : off[i] = off[i - 1] + Len(OnWire(v, history[i]))
    BY <1>3, <1>4, <1>5 DEF Places, Laid
<1>8. \A i \in 1..H : \A k \in 1..Len(OnWire(v, history[i])) :
          off[i - 1] + k \in 1..Len(Wire(v)) /\ Wire(v)[off[i - 1] + k] = OnWire(v, history[i])[k]
    BY <1>3, <1>4, <1>5 DEF Laid
<1>9. \A j \in 1..Len(Wire(v)) : \E i \in 1..H :
          \E k \in 1..Len(OnWire(v, history[i])) : j = off[i - 1] + k
    BY <1>3, <1>4, <1>5 DEF Laid
<1>10. LaidOut(v, off)
    <2>1. \A i \in DOMAIN history :
              /\ FormOf(v, history[i], OnWire(v, history[i]))
              /\ off[i] = off[i - 1] + Len(OnWire(v, history[i]))
              /\ \A k \in 1..Len(OnWire(v, history[i])) :
                    off[i - 1] + k \in 1..Len(Wire(v)) /\ Wire(v)[off[i - 1] + k] = OnWire(v, history[i])[k]
        BY <1>1, <1>7, <1>8, Zenon
    <2>2. \A j \in 1..Len(Wire(v)) : \E i \in DOMAIN history :
              \E k \in 1..Len(OnWire(v, history[i])) : j = off[i - 1] + k
        BY <1>1, <1>9, Zenon
    <2>3. /\ off \in [0..Len(history) -> Nat] /\ off[0] = 0
          /\ off[Len(history)] = Len(Wire(v))
        BY <1>7 DEF H
    <2> QED
        BY <2>1, <2>2, <2>3, Zenon DEF LaidOut
<1> QED
    BY <1>4, <1>6, <1>10

(* The entries of a message with calls, with results, with neither.           *)
LEMMA MessageOnWire ==
    ASSUME Inv, NEW v, NEW off, LaidOut(v, off), NEW i \in DOMAIN history
    PROVE  /\ DOMAIN history = 1..Len(history) /\ Len(history) \in Nat /\ i \in Nat
           /\ off[i - 1] \in Nat /\ off[i] \in Nat
           /\ Len(OnWire(v, history[i])) \in Nat /\ Len(OnWire(v, history[i])) >= 1
           /\ off[i] = off[i - 1] + Len(OnWire(v, history[i]))
           /\ off[i - 1] + 1 \in 1..Len(Wire(v))
           /\ Wire(v)[off[i - 1] + 1] = OnWire(v, history[i])[1]
           /\ history[i].results = <<>> => off[i] = off[i - 1] + 1
           /\ history[i].calls # <<>> => history[i].results = <<>>
<1>1. DOMAIN history = 1..Len(history) /\ Len(history) \in Nat /\ Spoken(history[i])
    BY HistoryIsSpoken, LenProperties
<1>2. /\ FormOf(v, history[i], OnWire(v, history[i]))
      /\ off[i] = off[i - 1] + Len(OnWire(v, history[i]))
      /\ \A k \in 1..Len(OnWire(v, history[i])) :
            off[i - 1] + k \in 1..Len(Wire(v)) /\ Wire(v)[off[i - 1] + k] = OnWire(v, history[i])[k]
    BY DEF LaidOut
<1>3. Len(OnWire(v, history[i])) \in Nat /\ Len(OnWire(v, history[i])) >= 1
      /\ (history[i].results = <<>> => Len(OnWire(v, history[i])) = 1)
    BY <1>2, LenProperties DEF FormOf
<1>4. 1 \in 1..Len(OnWire(v, history[i]))
    BY <1>3
<1>5. i \in 0..Len(history) /\ i - 1 \in 0..Len(history) /\ i \in Nat
    BY <1>1
<1>6. off[i - 1] \in Nat /\ off[i] \in Nat
    BY <1>5 DEF LaidOut
<1>7. history[i].calls # <<>> => history[i].results = <<>>
    BY <1>1, SpokenIs
<1> QED
    BY <1>1, <1>2, <1>3, <1>4, <1>5, <1>6, <1>7

LEMMA AnsweredBehind ==
    ASSUME Inv, NEW v, NEW off, LaidOut(v, off), \A i \in DOMAIN history : Whole(i),
           NEW j \in DOMAIN Wire(v), Wire(v)[j].calls # <<>>
    PROVE  Pairs(v, Wire(v)[j].calls, ResultsBehind(Wire(v), j))
<1> DEFINE w == Wire(v)
           H == Len(history)
           t(i) == OnWire(v, history[i])
<1>1. w \in Seq(Entries) /\ DOMAIN w = 1..Len(w) /\ Len(w) \in Nat
    BY WireIsLaidOut, LenProperties
<1>2. PICK i \in DOMAIN history : \E k \in 1..Len(t(i)) : j = off[i - 1] + k
    BY <1>1 DEF LaidOut
<1>3. PICK k \in 1..Len(t(i)) : j = off[i - 1] + k
    BY <1>2
<1>4. w[j] = t(i)[k] /\ FormOf(v, history[i], t(i))
    BY <1>3 DEF LaidOut
<1>5. history[i].calls # <<>>
    BY <1>4 DEF FormOf
<1>6. k = 1 /\ j = off[i] /\ history[i].results = <<>>
    <2>1. history[i].results = <<>> /\ off[i] = off[i - 1] + 1 /\ off[i - 1] \in Nat
          /\ off[i] = off[i - 1] + Len(t(i)) /\ Len(t(i)) \in Nat
        BY <1>5, MessageOnWire
    <2> HIDE DEF t
    <2> QED
        BY <1>3, <2>1
<1>7. i + 1 \in DOMAIN history /\ history[i + 1].results = history[i].calls
    BY <1>5 DEF Whole
<1> DEFINE n == Len(t(i + 1))
<1>8. FormOf(v, history[i + 1], t(i + 1)) /\ n \in Nat
    BY <1>7, MessageOnWire DEF LaidOut
<1>9. (i + 1) - 1 = i /\ i \in Nat
    BY MessageOnWire
<1>10. off[i + 1] = j + n /\ \A m \in 1..n : j + m \in 1..Len(w) /\ w[j + m] = t(i + 1)[m]
    <2>1. off[i + 1] = off[(i + 1) - 1] + n
          /\ \A m \in 1..n : off[(i + 1) - 1] + m \in 1..Len(w) /\ w[off[(i + 1) - 1] + m] = t(i + 1)[m]
        BY <1>7 DEF LaidOut
    <2> QED
        BY <1>6, <1>9, <2>1
<1>11. history[i + 1].results # <<>>
    BY <1>5, <1>7
<1>12. \A m \in 1..n : w[j + m].results # <<>>
    BY <1>8, <1>10, <1>11 DEF FormOf
<1>13. j + n <= Len(w)
    <2>1. n >= 1 /\ n \in 1..n
        BY <1>7, <1>8, MessageOnWire
    <2> HIDE DEF n
    <2> QED
        BY <1>1, <1>10, <2>1
<1>14. j + n = Len(w) \/ w[j + n + 1].results = <<>>
    <2>1. SUFFICES ASSUME j + n # Len(w) PROVE w[j + n + 1].results = <<>>
        OBVIOUS
    <2>2. i + 1 # H
        BY <1>10, <2>1 DEF LaidOut
    <2>3. i + 2 \in DOMAIN history /\ (i + 2) - 1 = i + 1
        <3>1. DOMAIN history = 1..H /\ H \in Nat
            BY MessageOnWire
        <3> HIDE DEF H
        <3> QED
            BY <1>7, <1>9, <2>2, <3>1
    <2>4. history[i + 2].results = <<>>
        <3>1. history[i + 1].calls = <<>>
            BY <1>7, <1>11, MessageOnWire
        <3>2. i # 1
            BY <1>5, HistoryIsSpoken DEF Task, Message
        <3>3. i + 2 # 3
            BY <1>9, <3>2
        <3> QED
            BY <2>3, <3>1, <3>3 DEF Whole
    <2>5. w[off[(i + 2) - 1] + 1] = t(i + 2)[1] /\ FormOf(v, history[i + 2], t(i + 2))
        <3>1. FormOf(v, history[i + 2], t(i + 2))
            BY <2>3 DEF LaidOut
        <3> QED
            BY <2>3, <3>1, MessageOnWire
    <2>6. t(i + 2)[1].results = <<>>
        BY <2>4, <2>5 DEF FormOf
    <2> QED
        BY <1>10, <2>3, <2>5, <2>6
<1>15. ResultsBehind(w, j) = FlattenSeq([m \in 1..n |-> w[j + m].results])
    <2> HIDE DEF w, n
    <2> QED
        BY <1>1, <1>8, <1>12, <1>13, <1>14, ResultsBehindIs DEF w
<1>16. [m \in 1..n |-> w[j + m].results] = [m \in 1..n |-> t(i + 1)[m].results]
    BY <1>10
<1>17. FlattenSeq([m \in 1..n |-> t(i + 1)[m].results]) = history[i].calls
    BY <1>7, <1>8, <1>11 DEF FormOf
<1>18. Shows(v, w[j].calls, history[i].calls)
    BY <1>4, <1>5, <1>6 DEF FormOf
<1> QED
    BY <1>15, <1>16, <1>17, <1>18 DEF Pairs, Shows

LEMMA AskedBefore ==
    ASSUME Inv, NEW v, NEW off, LaidOut(v, off), \A i \in DOMAIN history : Whole(i),
           NEW j \in DOMAIN Wire(v), Wire(v)[j].results # <<>>
    PROVE  \E p \in 1..(j - 1) :
               /\ \A q \in (p + 1)..j : Wire(v)[q].results # <<>>
               /\ \/ Wire(v)[p].calls # <<>>
                  \/ p = 2 /\ history[2] = Summary /\ keepRecent % 2 = 1
<1> DEFINE w == Wire(v)
           t(i) == OnWire(v, history[i])
<1>1. w \in Seq(Entries) /\ DOMAIN w = 1..Len(w) /\ Len(w) \in Nat
    BY WireIsLaidOut, LenProperties
<1>2. PICK i \in DOMAIN history : \E k \in 1..Len(t(i)) : j = off[i - 1] + k
    BY <1>1 DEF LaidOut
<1>3. PICK k \in 1..Len(t(i)) : j = off[i - 1] + k
    BY <1>2
<1>4. FormOf(v, history[i], t(i)) /\ \A m \in 1..Len(t(i)) : w[off[i - 1] + m] = t(i)[m]
    BY DEF LaidOut
<1>5. off[i - 1] \in Nat /\ Len(t(i)) \in Nat /\ i \in Nat
    BY MessageOnWire
<1>6. history[i].results # <<>>
    <2>1. SUFFICES ASSUME history[i].results = <<>> PROVE FALSE
        OBVIOUS
    <2>2. Len(t(i)) = 1 /\ t(i)[1].results = <<>>
        BY <1>4, <2>1 DEF FormOf
    <2>3. k = 1
        BY <2>2
    <2> QED
        BY <1>3, <1>4, <2>2, <2>3
<1>7. \A m \in 1..Len(t(i)) : w[off[i - 1] + m].results # <<>>
    BY <1>4, <1>6 DEF FormOf
<1>8. \A q \in (off[i - 1] + 1)..j : w[q].results # <<>>
    <2>1. ASSUME NEW q \in (off[i - 1] + 1)..j
          PROVE  q - off[i - 1] \in 1..Len(t(i)) /\ off[i - 1] + (q - off[i - 1]) = q
        <3> HIDE DEF t
        <3> QED
            BY <1>3, <1>5, <2>1
    <2> QED
        BY <1>7, <2>1
<1>9. CASE i - 1 \in DOMAIN history /\ history[i - 1].calls = history[i].results
    <2>1. off[i - 1] = off[i - 2] + 1 /\ off[i - 2] \in Nat
          /\ w[off[i - 2] + 1] = t(i - 1)[1]
        <3>1. (i - 1) - 1 = i - 2
            BY <1>5
        <3>2. /\ history[i - 1].results = <<>> /\ off[(i - 1) - 1] \in Nat
              /\ off[i - 1] = off[(i - 1) - 1] + 1
              /\ w[off[(i - 1) - 1] + 1] = t(i - 1)[1]
            BY <1>6, <1>9, MessageOnWire
        <3> QED
            BY <3>1, <3>2
    <2>2. t(i - 1)[1].calls # <<>>
        BY <1>6, <1>9 DEF LaidOut, FormOf
    <2>3. w[off[i - 1]].calls # <<>>
        BY <2>1, <2>2
    <2>4. off[i - 1] \in 1..(j - 1)
        <3> HIDE DEF t
        <3> QED
            BY <1>3, <1>5, <2>1
    <2> QED
        BY <1>8, <2>3, <2>4
<1>10. CASE i = 3 /\ history[2] = Summary /\ keepRecent % 2 = 1
    <2>1. DOMAIN history = 1..Len(history) /\ 1 \in DOMAIN history /\ 2 \in DOMAIN history
        BY <1>10, MessageOnWire
    <2>2. history[1].results = <<>> /\ history[2].results = <<>>
        BY <1>10, HistoryIsSpoken DEF Task, Summary, Message
    <2>3. off[1] = off[0] + 1 /\ off[2] = off[1] + 1
        <3>1. 1 - 1 = 0 /\ 2 - 1 = 1
            OBVIOUS
        <3>2. \A m \in DOMAIN history : history[m].results = <<>> => off[m] = off[m - 1] + 1
            BY MessageOnWire
        <3> HIDE DEF t, w
        <3>3. off[1] = off[1 - 1] + 1
            BY <2>1, <2>2, <3>2, Zenon
        <3>4. off[2] = off[2 - 1] + 1
            BY <2>1, <2>2, <3>2, Zenon
        <3> QED
            BY <3>1, <3>3, <3>4
    <2>4. off[2] = 2
        BY <2>3 DEF LaidOut
    <2>5. off[i - 1] = 2 /\ 2 \in 1..(j - 1)
        <3>1. i - 1 = 2
            BY <1>10
        <3> HIDE DEF t
        <3> QED
            BY <1>3, <1>5, <2>4, <3>1
    <2> QED
        BY <1>8, <1>10, <2>5
<1> QED
    BY <1>6, <1>9, <1>10 DEF Whole

(* Whatever the vendor and however often the history was cut, what goes out   *)
(* has every call answered right behind it and every result's call right      *)
(* before it, but where an odd keep_recent cut a turn in two (the adapters'   *)
(* messages, maybe_compact).                                                  *)
THEOREM RequestsAreWellFormed == Spec => []CallsAreAnswered
<1>1. Inv /\ TurnsStayWhole => CallsAreAnswered
    <2> SUFFICES ASSUME Inv, TurnsStayWhole, phase = "model", NEW v \in ToSet(vendor)
                 PROVE  /\ \A j \in DOMAIN Wire(v) : Wire(v)[j].calls # <<>> =>
                              Pairs(v, Wire(v)[j].calls, ResultsBehind(Wire(v), j))
                        /\ \A j \in DOMAIN Wire(v) : Wire(v)[j].results # <<>> =>
                              \E p \in 1..(j - 1) :
                                  /\ \A q \in (p + 1)..j : Wire(v)[q].results # <<>>
                                  /\ \/ Wire(v)[p].calls # <<>>
                                     \/ p = 2 /\ history[2] = Summary /\ keepRecent % 2 = 1
        BY DEF CallsAreAnswered
    <2>1. PICK off : LaidOut(v, off)
        BY WireIsLaidOut
    <2>2. \A i \in DOMAIN history : Whole(i)
        BY DEF TurnsStayWhole
    <2> QED
        BY <2>1, <2>2, AnsweredBehind, AskedBefore
<1> QED
    BY <1>1, Invariance, PairsSurviveCompaction, PTL
=============================================================================

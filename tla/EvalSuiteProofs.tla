-------------------------- MODULE EvalSuiteProofs --------------------------
(***************************************************************************)
(* Proofs about EvalSuite, for every number of seeds and subagents and every *)
(* script: an answer rests on its own seed's findings when ids never come    *)
(* back, an orphan costs its seed a flag whether they do or not, and the     *)
(* keys of the one harness behave as IdempotentKeys says.                    *)
(***************************************************************************)
EXTENDS EvalSuite, SequenceTheorems, TLAPS

LEMMA SpawnCallShape ==
    ASSUME NEW s \in Seed
    PROVE  SpawnCall(s) \in Call /\ SpawnCall(s)[1] = s /\ SpawnCall(s)[3] = "spawn"
  BY DEF SpawnCall, Call

LEMMA CallShape ==
    ASSUME NEW c \in Call
    PROVE  /\ c[1] \in Seed /\ c[3] \in Tool \cup {"spawn"}
           /\ c = <<c[1], c[2], c[3]>>
           /\ c[3] = "spawn" => c = SpawnCall(c[1])
  <1>1. c \in Seed \X {"lead"} \X {"spawn"} \/ c \in Seed \X Sub \X Tool
    BY DEF Call
  <1>2. "spawn" \notin Tool
    BY EvalSuiteAssumption DEF Tool
  <1> QED  BY <1>1, <1>2 DEF SpawnCall

LEMMA KeyShape ==
    ASSUME NEW c \in Call
    PROVE  KeyOf(c) \in Key /\ KeyOf(c)[3] = c[3]
  BY CallShape DEF KeyOf, Key

LEMMA ScriptShape ==
    ASSUME NEW x \in Child, NEW i \in 1..Len(Script)
    PROVE  CallOf(x, i) \in Call /\ CallOf(x, i)[3] # "spawn"
  <1>1. i \in DOMAIN Script
    BY EvalSuiteAssumption
  <1>2. Script[i] \in Tool /\ Script[i] # "spawn"
    BY <1>1, EvalSuiteAssumption DEF Tool
  <1>3. x[1] \in Seed /\ x[2] \in Sub
    BY DEF Child
  <1> QED  BY <1>2, <1>3 DEF CallOf, Call
-----------------------------------------------------------------------------
(* What each operation on the keys leaves of their types. *)
KeyTypes ==
    /\ running \in [Key -> Call \cup {NoCall}]
    /\ settled \in [Key -> Call \cup {NoCall}]
    /\ answer \in [Call -> Call \cup {NoCall}]
    /\ outcome \in [Call -> {"none", "waiting", "ok", "error"}]

LEMMA SubmitType ==
    ASSUME KeyTypes, NEW c \in Call, Submit(c)
    PROVE  KeyTypes'
  <1>1. KeyOf(c) \in Key
    BY KeyShape
  <1>2. outcome' \in [Call -> {"none", "waiting", "ok", "error"}]
    BY DEF KeyTypes, Submit, Said
  <1>3. CASE Keys!Answer(KeyOf(c), c)
    BY <1>1, <1>2, <1>3 DEF KeyTypes, Keys!Answer
  <1>4. CASE Keys!Begin(KeyOf(c), c)
    BY <1>1, <1>2, <1>4 DEF KeyTypes, Keys!Begin
  <1>5. CASE UNCHANGED keyVars
    BY <1>2, <1>5 DEF KeyTypes, keyVars
  <1> QED  BY <1>3, <1>4, <1>5 DEF Submit

LEMMA EndType ==
    ASSUME KeyTypes, NEW c \in Call, Succeed(c) \/ Fail(c)
    PROVE  KeyTypes'
  <1>1. KeyOf(c) \in Key
    BY KeyShape
  <1>2. CASE Succeed(c)
    BY <1>1, <1>2 DEF KeyTypes, Succeed, Keys!Succeed
  <1>3. CASE Fail(c)
    BY <1>1, <1>3 DEF KeyTypes, Fail, Keys!Fail
  <1> QED  BY <1>2, <1>3

LEMMA ResumeType ==
    ASSUME KeyTypes, NEW c \in Call, Resume(c)
    PROVE  KeyTypes'
  <1>1. KeyOf(c) \in Key
    BY KeyShape
  <1> QED  BY <1>1 DEF KeyTypes, Resume, Said, Keys!Answer

(* Every step keeps the types, the count of records in step with the seeds,   *)
(* and main out of a seed that is over.                                       *)
Counted == Len(records) = IF phase = "done" THEN NumSeeds ELSE seed - 1

TypeInv == TypeOK /\ Counted

LEMMA InitType == Init => TypeInv
  <1> SUFFICES ASSUME Init PROVE TypeInv
    OBVIOUS
  <1>1. seed \in Seed /\ records \in Seq([seed : Seed, flagged : BOOLEAN])
    BY EvalSuiteAssumption DEF Init, Seed
  <1>2. step \in [Child -> 1..(Len(Script) + 1)]
    BY EvalSuiteAssumption DEF Init
  <1>3. Counted
    BY DEF Init, Counted
  <1> QED  BY <1>1, <1>2, <1>3 DEF Init, Keys!Init, TypeOK, TypeInv

LEMMA NextType == TypeInv /\ [Next]_vars => TypeInv'
  <1> SUFFICES ASSUME TypeInv, [Next]_vars PROVE TypeInv'
    OBVIOUS
  <1> USE EvalSuiteAssumption DEF TypeInv
  <1>0. KeyTypes
    BY DEF TypeOK, KeyTypes
  <1>1. ASSUME UNCHANGED <<phase, seed, records>>, KeyTypes', forced' \in BOOLEAN,
               pc' \in [Child -> {"none", "run", "save", "done", "raised"}],
               step' \in [Child -> 1..(Len(Script) + 1)]
        PROVE  TypeInv'
    BY <1>1 DEF TypeOK, KeyTypes, Counted
  <1>2. ASSUME NEW p \in {"answer", "judge", "raised"}, phase' = p, UNCHANGED <<seed, records>>,
               phase \notin {"done"}, KeyTypes', forced' \in BOOLEAN, UNCHANGED subVars
        PROVE  TypeInv'
    BY <1>2 DEF TypeOK, KeyTypes, Counted, subVars
  <1>3. CASE LeadFansOut
    <2>1. SpawnCall(seed) \in Call
      BY SpawnCallShape DEF TypeOK
    <2>2. KeyTypes'
      BY <1>0, <1>3, <2>1, SubmitType DEF LeadFansOut
    <2> QED  BY <1>2, <1>3, <2>2 DEF LeadFansOut, TypeOK
  <1>4. CASE LeadAnswers
    BY <1>0, <1>2, <1>4 DEF LeadAnswers, Flagged, KeyTypes, keyVars
  <1>5. CASE LeadRaises
    BY <1>0, <1>2, <1>5 DEF LeadRaises, TypeOK, KeyTypes, keyVars
  <1>6. CASE JudgeRaises
    BY <1>0, <1>2, <1>6 DEF JudgeRaises, TypeOK, KeyTypes, keyVars
  <1>7. CASE Judge
    <2>1. PICK flag \in BOOLEAN : records' = Append(records, Verdict(flag))
      BY <1>7 DEF Judge
    <2>2. Verdict(flag) \in [seed : Seed, flagged : BOOLEAN]
      BY DEF Verdict, TypeOK
    <2>3. /\ records' \in Seq([seed : Seed, flagged : BOOLEAN])
          /\ Len(records') = Len(records) + 1
      BY <2>1, <2>2, AppendProperties DEF TypeOK
    <2>4. KeyTypes' /\ UNCHANGED <<pc, step, forced>> /\ phase = "judge"
      BY <1>0, <1>7 DEF Judge, KeyTypes, keyVars, subVars
    <2>5. seed \in Nat /\ seed \in 1..NumSeeds
      BY DEF TypeOK, Seed
    <2>6. CASE seed < NumSeeds /\ seed' = seed + 1 /\ phase' = "ask"
      BY <2>3, <2>4, <2>5, <2>6 DEF TypeOK, KeyTypes, Counted, Seed
    <2>7. CASE seed = NumSeeds /\ phase' = "done" /\ UNCHANGED seed
      BY <2>3, <2>4, <2>5, <2>7 DEF TypeOK, KeyTypes, Counted, Seed
    <2> QED  BY <1>7, <2>6, <2>7 DEF Judge
  <1>8. ASSUME NEW s \in Seed, FanOut(s) \/ Gather(s) PROVE TypeInv'
    <2>1. SpawnCall(s) \in Call
      BY SpawnCallShape
    <2>2. KeyTypes'
      BY <1>0, <1>8, <2>1, EndType DEF FanOut, Gather, KeyTypes, keyVars
    <2>3. pc' \in [Child -> {"none", "run", "save", "done", "raised"}]
      BY <1>8 DEF FanOut, Gather, TypeOK, subVars
    <2> QED  BY <1>1, <1>8, <2>2, <2>3 DEF FanOut, Gather, mainVars, subVars, TypeOK
  <1>9. ASSUME NEW x \in Child, Subagent(x) \/ SaveCheckpoint(x) PROVE TypeInv'
    <2>1. UNCHANGED mainVars
      BY <1>9 DEF Subagent, SaveCheckpoint
    <2>2. step[x] \in 1..(Len(Script) + 1) /\ Len(Script) \in Nat
      BY DEF TypeOK
    <2>3. CASE SaveCheckpoint(x)
      BY <1>0, <1>1, <2>1, <2>3 DEF SaveCheckpoint, TypeOK, KeyTypes, keyVars, mainVars
    <2>4. CASE \E status \in {"ok", "partial", "error"} : EndWith(x, status)
      BY <1>0, <1>1, <2>1, <2>4 DEF EndWith, TypeOK, KeyTypes, keyVars, mainVars
    <2>5. CASE /\ step[x] <= Len(Script) /\ Submit(CallOf(x, step[x]))
               /\ step' = [step EXCEPT ![x] = @ + 1] /\ UNCHANGED pc
      <3>1. CallOf(x, step[x]) \in Call
        BY <2>2, <2>5, ScriptShape
      <3>2. KeyTypes'
        BY <1>0, <2>5, <3>1, SubmitType
      <3>3. step' \in [Child -> 1..(Len(Script) + 1)]
        BY <2>2, <2>5 DEF TypeOK
      <3> QED  BY <1>1, <2>1, <2>5, <3>2, <3>3 DEF TypeOK, mainVars
    <2> QED  BY <1>9, <2>3, <2>4, <2>5 DEF Subagent, ModelAnswers
  <1>10. ASSUME NEW c \in Call, Resume(c) \/ ToolEnds(c) PROVE TypeInv'
    <2>1. KeyTypes'
      BY <1>0, <1>10, EndType, ResumeType DEF ToolEnds
    <2> QED  BY <1>1, <1>10, <2>1 DEF Resume, ToolEnds, mainVars, subVars, TypeOK
  <1>11. CASE UNCHANGED vars
    BY <1>0, <1>1, <1>11 DEF vars, mainVars, subVars, keyVars, TypeOK, KeyTypes
  <1> QED  BY <1>3, <1>4, <1>5, <1>6, <1>7, <1>8, <1>9, <1>10, <1>11 DEF Next

(* Every state of the suite has the types that TypeOK gives it, whatever the  *)
(* number of seeds, the subagents and their script.                           *)
THEOREM TypeCorrect == Spec => []TypeOK
  <1>1. TypeInv => TypeOK
    BY DEF TypeInv
  <1> QED  BY <1>1, InitType, NextType, PTL DEF Spec

LEMMA TypeInvariance == Spec => []TypeInv
  BY InitType, NextType, PTL DEF Spec
-----------------------------------------------------------------------------
(* With ids that never come back the key of a call is the call: what runs,    *)
(* settled or answered under it is its own execution.                         *)
Own ==
    /\ \A k \in Key : running[k] \in {k, NoCall} /\ settled[k] \in {k, NoCall}
    /\ \A c \in Call : answer[c] \in {c, NoCall}

LEMMA OwnStep ==
    ASSUME UniqueIds, KeyTypes, Own, NEW c \in Call,
           Submit(c) \/ Succeed(c) \/ Fail(c) \/ Resume(c)
    PROVE  Own'
  <1>1. KeyOf(c) = c /\ c \in Key
    BY KeyShape DEF KeyOf
  <1>2. CASE Keys!Answer(c, c)
    BY <1>1, <1>2 DEF Own, KeyTypes, Keys!Answer
  <1>3. CASE Keys!Begin(c, c)
    BY <1>1, <1>3 DEF Own, KeyTypes, Keys!Begin
  <1>4. CASE Keys!Succeed(c)
    BY <1>1, <1>4 DEF Own, KeyTypes, Keys!Succeed
  <1>5. CASE Keys!Fail(c)
    BY <1>1, <1>5 DEF Own, KeyTypes, Keys!Fail
  <1>6. CASE UNCHANGED keyVars
    BY <1>6 DEF Own, keyVars
  <1> QED
    BY <1>1, <1>2, <1>3, <1>4, <1>5, <1>6 DEF Submit, Succeed, Fail, Resume

LEMMA InitOwn == Init => Own
  BY DEF Init, Keys!Init, Own

LEMMA NextOwn == UniqueIds /\ TypeInv /\ Own /\ [Next]_vars => Own'
  <1> SUFFICES ASSUME UniqueIds, TypeInv, Own, [Next]_vars PROVE Own'
    OBVIOUS
  <1>0. KeyTypes
    BY DEF TypeInv, TypeOK, KeyTypes
  <1>1. ASSUME UNCHANGED keyVars PROVE Own'
    BY <1>1 DEF Own, keyVars
  <1>2. CASE LeadFansOut
    BY <1>0, <1>2, SpawnCallShape, OwnStep DEF LeadFansOut, TypeInv, TypeOK
  <1>3. CASE LeadAnswers \/ LeadRaises \/ Judge \/ JudgeRaises
    BY <1>1, <1>3 DEF LeadAnswers, LeadRaises, Judge, JudgeRaises
  <1>4. ASSUME NEW s \in Seed, FanOut(s) \/ Gather(s) PROVE Own'
    BY <1>0, <1>1, <1>4, SpawnCallShape, OwnStep DEF FanOut, Gather
  <1>5. ASSUME NEW x \in Child, Subagent(x) \/ SaveCheckpoint(x) PROVE Own'
    <2>1. CASE step[x] <= Len(Script) /\ Submit(CallOf(x, step[x]))
      <3>1. step[x] \in 1..Len(Script)
        BY <2>1, EvalSuiteAssumption DEF TypeInv, TypeOK
      <3> QED  BY <1>0, <2>1, <3>1, ScriptShape, OwnStep
    <2>2. CASE UNCHANGED keyVars
      BY <1>1, <2>2
    <2> QED  BY <1>5, <2>1, <2>2 DEF Subagent, ModelAnswers, EndWith, SaveCheckpoint
  <1>6. ASSUME NEW c \in Call, Resume(c) \/ ToolEnds(c) PROVE Own'
    BY <1>0, <1>6, OwnStep DEF ToolEnds
  <1>7. CASE UNCHANGED vars
    BY <1>1, <1>7 DEF vars
  <1> QED  BY <1>2, <1>3, <1>4, <1>5, <1>6, <1>7 DEF Next

LEMMA JudgedAreSeeds ==
    ASSUME TypeInv, NEW s \in Judged
    PROVE  s \in Seed
  <1>1. s \in 1..Len(records) /\ Len(records) <= NumSeeds /\ Len(records) \in Nat
    BY EvalSuiteAssumption DEF Judged, TypeInv, TypeOK, Counted, Seed
  <1> QED  BY <1>1, EvalSuiteAssumption DEF Seed

(* If ids of tool calls never come back, no judged answer rests on another    *)
(* seed's work, and no subagent reports another's, for any number of seeds.   *)
THEOREM OwnFindingsHold == ASSUME UniqueIds PROVE Spec => []OwnFindings
  <1>1. TypeInv /\ Own => OwnFindings
    <2> SUFFICES ASSUME TypeInv, Own PROVE OwnFindings
      OBVIOUS
    <2>1. ASSUME NEW s \in Judged, NEW c \in Basis(s) PROVE c[1] = s
      <3>1. SpawnCall(s) \in Call /\ SpawnCall(s)[1] = s
        BY JudgedAreSeeds, SpawnCallShape
      <3>2. answer[SpawnCall(s)] = SpawnCall(s)
        BY <2>1, <3>1 DEF Basis, Own
      <3>3. c = SpawnCall(s) \/ \E d \in Call : d[1] = s /\ c = answer[d] /\ c # NoCall
        BY <2>1, <3>1, <3>2 DEF Basis
      <3> QED  BY <3>1, <3>3 DEF Own
    <2>2. ASSUME NEW c \in Call, answer[c] # NoCall PROVE answer[c][2] = c[2]
      BY <2>2 DEF Own
    <2> QED  BY <2>1, <2>2 DEF OwnFindings
  <1>2. TypeInv /\ Own /\ [Next]_vars => Own'
    BY NextOwn
  <1> QED  BY <1>1, <1>2, InitOwn, TypeInvariance, PTL DEF Spec
-----------------------------------------------------------------------------
(* The flag of a record remembers the orphans: a child at work when its       *)
(* fan-out is over can only be one whose fan-out failed, which the lead's     *)
(* flags saw before it answered.                                              *)
InProgress(s) == running[KeyOf(SpawnCall(s))] = SpawnCall(s)
AtWork(x) == pc[x] \notin {"none", "done"}

RunningIsWaitedFor == \A s \in Seed : InProgress(s) => outcome[SpawnCall(s)] = "waiting"

WorkHasACause ==
    \A x \in Child : AtWork(x) => InProgress(x[1]) \/ outcome[SpawnCall(x[1])] = "error"

RunningIsUnsettled == \A k \in Key : running[k] # NoCall => settled[k] = NoCall

NotYetAsked ==
    \A s \in Seed : s > seed \/ (s = seed /\ phase = "ask") => outcome[SpawnCall(s)] = "none"

FlaggedInTime ==
    phase = "judge" => /\ outcome[SpawnCall(seed)] # "waiting"
                       /\ outcome[SpawnCall(seed)] = "error" => forced

FlaggedForGood ==
    \A s \in Judged : /\ outcome[SpawnCall(s)] # "waiting"
                      /\ outcome[SpawnCall(s)] = "error" => records[s].flagged

FlagInv ==
    /\ RunningIsWaitedFor /\ WorkHasACause /\ RunningIsUnsettled
    /\ NotYetAsked /\ FlaggedInTime /\ FlaggedForGood

LEMMA InitFlag == Init => FlagInv
  <1> SUFFICES ASSUME Init PROVE FlagInv
    OBVIOUS
  <1>1. ASSUME NEW s \in Seed PROVE outcome[SpawnCall(s)] = "none" /\ ~InProgress(s)
    <2>1. SpawnCall(s) \in Call /\ KeyOf(SpawnCall(s)) \in Key
      BY SpawnCallShape, KeyShape
    <2> QED  BY <2>1, NoCallAssumption DEF Init, Keys!Init, InProgress
  <1>2. Judged = {}
    BY DEF Init, Judged
  <1> QED
    BY <1>1, <1>2 DEF Init, Keys!Init, FlagInv, RunningIsWaitedFor, WorkHasACause, AtWork,
       RunningIsUnsettled, NotYetAsked, FlaggedInTime, FlaggedForGood

(* What the steps of the harness do to the fan-outs' calls and keys. *)
LEMMA SubmitOther ==
    ASSUME KeyTypes, RunningIsUnsettled, NEW c \in Call, Submit(c), NEW s \in Seed,
           c # SpawnCall(s)
    PROVE  /\ InProgress(s)' = InProgress(s)
           /\ outcome'[SpawnCall(s)] = outcome[SpawnCall(s)]
           /\ RunningIsUnsettled'
  <1> DEFINE d == SpawnCall(s)
  <1>1. KeyOf(c) \in Key /\ KeyOf(d) \in Key /\ d \in Call /\ c # NoCall /\ d # NoCall
    BY KeyShape, SpawnCallShape, NoCallAssumption
  <1>2. outcome'[d] = outcome[d]
    BY <1>1 DEF KeyTypes, Submit, Said
  <1> HIDE DEF d
  <1>3. CASE Keys!Answer(KeyOf(c), c)
    BY <1>2, <1>3 DEF Keys!Answer, InProgress, RunningIsUnsettled, d
  <1>4. CASE Keys!Begin(KeyOf(c), c)
    <2>1. running' = [running EXCEPT ![KeyOf(c)] = c] /\ UNCHANGED settled
          /\ running[KeyOf(c)] = NoCall /\ settled[KeyOf(c)] = NoCall
      BY <1>4 DEF Keys!Begin
    <2>2. (running'[KeyOf(d)] = d) = (running[KeyOf(d)] = d)
      BY <1>1, <2>1 DEF KeyTypes, d
    <2>3. RunningIsUnsettled'
      BY <1>1, <2>1 DEF KeyTypes, RunningIsUnsettled
    <2> QED  BY <1>2, <2>2, <2>3 DEF InProgress, d
  <1>5. CASE UNCHANGED keyVars
    BY <1>2, <1>5 DEF keyVars, InProgress, RunningIsUnsettled, d
  <1> QED  BY <1>2, <1>3, <1>4, <1>5 DEF Submit, d

LEMMA EndOther ==
    ASSUME KeyTypes, RunningIsUnsettled, NEW c \in Call, Succeed(c) \/ Fail(c), Executes(c),
           NEW s \in Seed, c # SpawnCall(s)
    PROVE  /\ InProgress(s)' = InProgress(s)
           /\ InProgress(s) => outcome'[SpawnCall(s)] = outcome[SpawnCall(s)]
           /\ outcome[SpawnCall(s)] # "waiting" =>
                 outcome'[SpawnCall(s)] = outcome[SpawnCall(s)]
           /\ RunningIsUnsettled'
  <1> DEFINE d == SpawnCall(s)
  <1>1. KeyOf(c) \in Key /\ KeyOf(d) \in Key /\ d \in Call /\ c # NoCall /\ d # NoCall
    BY KeyShape, SpawnCallShape, NoCallAssumption
  <1> HIDE DEF d
  <1>2. running' = [running EXCEPT ![KeyOf(c)] = NoCall] /\ running[KeyOf(c)] = c
    BY DEF Succeed, Fail, Keys!Succeed, Keys!Fail, Executes
  <1>3. (running'[KeyOf(d)] = d) = (running[KeyOf(d)] = d)
    BY <1>1, <1>2 DEF KeyTypes, d
  <1>4. RunningIsUnsettled'
    BY <1>1, <1>2 DEF KeyTypes, RunningIsUnsettled, Succeed, Fail, Keys!Succeed, Keys!Fail
  <1>5. /\ running[KeyOf(d)] = d => outcome'[d] = outcome[d]
        /\ outcome[d] # "waiting" => outcome'[d] = outcome[d]
    BY <1>1, <1>2 DEF KeyTypes, Succeed, Fail, d
  <1> QED  BY <1>3, <1>4, <1>5 DEF InProgress, d

(* A step that leaves main, and the fan-outs' calls but for errors of those   *)
(* that wait, as they are, and puts no child to work, keeps all of it.        *)
LEMMA QuietStep ==
    ASSUME TypeInv, FlagInv, UNCHANGED mainVars, RunningIsUnsettled',
           \A x \in Child : AtWork(x)' => AtWork(x),
           \A s \in Seed : InProgress(s)' = InProgress(s),
           \A s \in Seed : InProgress(s) => outcome'[SpawnCall(s)] = outcome[SpawnCall(s)],
           \A s \in Seed : outcome[SpawnCall(s)] # "waiting" =>
                               outcome'[SpawnCall(s)] = outcome[SpawnCall(s)]
    PROVE  FlagInv'
  <1> USE DEF FlagInv
  <1>1. RunningIsWaitedFor'
    BY DEF RunningIsWaitedFor
  <1>2. WorkHasACause'
    <2> SUFFICES ASSUME NEW x \in Child, AtWork(x)'
                 PROVE  (InProgress(x[1]) \/ outcome[SpawnCall(x[1])] = "error")'
      BY DEF WorkHasACause
    <2>1. x[1] \in Seed
      BY DEF Child
    <2> QED  BY <2>1 DEF WorkHasACause
  <1>3. NotYetAsked' /\ FlaggedInTime'
    BY DEF NotYetAsked, FlaggedInTime, mainVars, TypeInv, TypeOK
  <1>4. FlaggedForGood'
    <2> SUFFICES ASSUME NEW s \in Judged
                 PROVE  /\ outcome'[SpawnCall(s)] # "waiting"
                        /\ outcome'[SpawnCall(s)] = "error" => records[s].flagged
      BY DEF FlaggedForGood, Judged, mainVars
    <2>1. s \in Seed
      BY JudgedAreSeeds
    <2> QED  BY <2>1 DEF FlaggedForGood
  <1> QED  BY <1>1, <1>2, <1>3, <1>4

LEMMA NextFlag == TypeInv /\ FlagInv /\ [Next]_vars => FlagInv'
  <1> SUFFICES ASSUME TypeInv, FlagInv, [Next]_vars PROVE FlagInv'
    OBVIOUS
  <1>0. KeyTypes /\ seed \in Seed /\ RunningIsUnsettled
    BY DEF TypeInv, TypeOK, KeyTypes, FlagInv
  <1>1. ASSUME UNCHANGED <<subVars, outcome, keyVars>>
        PROVE  RunningIsWaitedFor' /\ WorkHasACause' /\ RunningIsUnsettled'
    BY <1>1 DEF FlagInv, RunningIsWaitedFor, WorkHasACause, RunningIsUnsettled, InProgress,
       AtWork, subVars, keyVars
  <1>2. ASSUME UNCHANGED <<outcome, records>> PROVE FlaggedForGood'
    BY <1>2 DEF FlagInv, FlaggedForGood, Judged
  <1>3. CASE LeadFansOut
    <2>1. SpawnCall(seed) \in Call /\ outcome[SpawnCall(seed)] = "none"
      BY <1>0, <1>3, SpawnCallShape DEF LeadFansOut, FlagInv, NotYetAsked
    <2>2. \A s \in Seed \ {seed} :
             /\ InProgress(s)' = InProgress(s)
             /\ outcome'[SpawnCall(s)] = outcome[SpawnCall(s)]
      BY <1>0, <1>3, <2>1, SubmitOther DEF LeadFansOut, SpawnCall
    <2>3. /\ UNCHANGED <<seed, records, forced, pc>> /\ phase' = "answer"
      BY <1>3 DEF LeadFansOut, subVars
    <2>4. \A s \in Judged : s \in Seed /\ s # seed
      BY <1>3, JudgedAreSeeds, <1>0, EvalSuiteAssumption
      DEF Judged, TypeInv, TypeOK, Counted, LeadFansOut, Seed
    <2>5. ~InProgress(seed)
      BY <1>0, <2>1 DEF FlagInv, RunningIsWaitedFor
    <2>6. KeyOf(SpawnCall(seed)) \in Key /\ SpawnCall(seed) # NoCall
      BY <2>1, KeyShape, NoCallAssumption
    <2>7. InProgress(seed)' => outcome'[SpawnCall(seed)] = "waiting"
      <3>1. CASE Keys!Answer(KeyOf(SpawnCall(seed)), SpawnCall(seed))
        BY <2>3, <2>5, <3>1 DEF Keys!Answer, InProgress
      <3>2. CASE Said(SpawnCall(seed), "waiting")
        BY <1>0, <2>1, <3>2 DEF Said, KeyTypes
      <3> QED  BY <1>3, <2>3, <3>1, <3>2 DEF LeadFansOut, Submit
    <2>8. RunningIsUnsettled'
      BY <1>0, <1>3, <2>6
      DEF LeadFansOut, Submit, Keys!Begin, Keys!Answer, keyVars, KeyTypes, RunningIsUnsettled
    <2>9. RunningIsWaitedFor'
      BY <2>2, <2>7, <2>3 DEF FlagInv, RunningIsWaitedFor
    <2>10. WorkHasACause'
      <3>1. \A x \in Child : x[1] \in Seed /\ (AtWork(x)' => AtWork(x))
        BY <2>3 DEF Child, AtWork
      <3>2. \A x \in Child : AtWork(x) => x[1] # seed
        BY <2>1, <2>5 DEF FlagInv, WorkHasACause
      <3> QED  BY <2>2, <3>1, <3>2 DEF FlagInv, WorkHasACause
    <2>11. NotYetAsked' /\ FlaggedInTime'
      BY <1>0, <2>2, <2>3 DEF FlagInv, NotYetAsked, FlaggedInTime, Seed
    <2>12. FlaggedForGood'
      BY <2>2, <2>3, <2>4 DEF FlagInv, FlaggedForGood, Judged
    <2> QED  BY <2>8, <2>9, <2>10, <2>11, <2>12 DEF FlagInv
  <1>4. CASE LeadAnswers
    <2>1. outcome[SpawnCall(seed)] # "waiting"
      BY <1>0, <1>4 DEF LeadAnswers, FlagInv, NotYetAsked
    <2>2. FlaggedInTime'
      BY <1>4, <2>1 DEF LeadAnswers, Flagged, FlaggedInTime
    <2>3. NotYetAsked'
      BY <1>4 DEF LeadAnswers, FlagInv, NotYetAsked
    <2> QED  BY <1>1, <1>2, <1>4, <2>2, <2>3 DEF LeadAnswers, FlagInv
  <1>5. CASE LeadRaises \/ JudgeRaises
    <2>1. NotYetAsked' /\ FlaggedInTime'
      BY <1>5 DEF LeadRaises, JudgeRaises, FlagInv, NotYetAsked, FlaggedInTime
    <2> QED  BY <1>1, <1>2, <1>5, <2>1 DEF LeadRaises, JudgeRaises, FlagInv
  <1>6. CASE Judge
    <2>1. PICK flag \in BOOLEAN : records' = Append(records, Verdict(flag))
      BY <1>6 DEF Judge
    <2>2. Verdict(flag) \in [seed : Seed, flagged : BOOLEAN] /\ Verdict(flag).flagged = (flag \/ forced)
      BY <1>0 DEF Verdict, TypeInv, TypeOK
    <2>3. phase = "judge" /\ UNCHANGED <<subVars, outcome, keyVars>>
      BY <1>6 DEF Judge
    <2>4. Len(records) + 1 = seed /\ Len(records) \in Nat
      BY <2>3, <1>0, EvalSuiteAssumption DEF TypeInv, Counted, TypeOK, Seed
    <2>5. /\ Judged' = Judged \cup {seed}
          /\ records'[seed] = Verdict(flag)
          /\ \A s \in Judged : records'[s] = records[s]
      BY <2>1, <2>2, <2>4, AppendProperties DEF Judged, TypeInv, TypeOK
    <2>6. FlaggedForGood'
      BY <2>2, <2>3, <2>5 DEF FlagInv, FlaggedForGood, FlaggedInTime
    <2>7. NotYetAsked' /\ FlaggedInTime'
      BY <1>0, <1>6, <2>3 DEF Judge, FlagInv, NotYetAsked, FlaggedInTime, Seed
    <2> QED  BY <1>1, <2>3, <2>6, <2>7 DEF FlagInv
  <1>7. ASSUME NEW s \in Seed, FanOut(s) \/ Gather(s) PROVE FlagInv'
    <2>1. SpawnCall(s) \in Call /\ KeyOf(SpawnCall(s)) \in Key /\ SpawnCall(s) # NoCall
      BY SpawnCallShape, KeyShape, NoCallAssumption
    <2>2. InProgress(s) /\ outcome[SpawnCall(s)] = "waiting" /\ UNCHANGED mainVars
      BY <1>7 DEF FanOut, Gather, Executes, InProgress, FlagInv, RunningIsWaitedFor
    <2>3. CASE UNCHANGED <<keyVars, outcome>> /\ pc' = [x \in Child |-> IF x[1] = s THEN "run" ELSE pc[x]]
      <3>1. RunningIsWaitedFor' /\ RunningIsUnsettled' /\ NotYetAsked' /\ FlaggedInTime' /\ FlaggedForGood'
        BY <2>2, <2>3 DEF FlagInv, RunningIsWaitedFor, RunningIsUnsettled, NotYetAsked,
           FlaggedInTime, FlaggedForGood, InProgress, keyVars, mainVars, Judged
      <3>2. WorkHasACause'
        BY <2>2, <2>3 DEF FlagInv, WorkHasACause, AtWork, InProgress, keyVars
      <3> QED  BY <3>1, <3>2 DEF FlagInv
    <2>4. CASE Succeed(SpawnCall(s)) \/ Fail(SpawnCall(s))
      <3> DEFINE d == SpawnCall(s)
      <3>1. \A u \in Seed \ {s} :
               /\ InProgress(u)' = InProgress(u)
               /\ InProgress(u) => outcome'[SpawnCall(u)] = outcome[SpawnCall(u)]
               /\ outcome[SpawnCall(u)] # "waiting" =>
                     outcome'[SpawnCall(u)] = outcome[SpawnCall(u)]
        BY <1>0, <2>1, <2>2, <2>4, EndOther DEF Executes, InProgress, SpawnCall
      <3>2. running' = [running EXCEPT ![KeyOf(d)] = NoCall]
        BY <2>4 DEF Succeed, Fail, Keys!Succeed, Keys!Fail
      <3>3. ~InProgress(s)'
        BY <1>0, <2>1, <3>2 DEF InProgress, KeyTypes
      <3>4. RunningIsUnsettled'
        BY <1>0, <2>1, <2>4
        DEF Succeed, Fail, Keys!Succeed, Keys!Fail, KeyTypes, RunningIsUnsettled
      <3>5. RunningIsWaitedFor'
        BY <3>1, <3>3 DEF FlagInv, RunningIsWaitedFor
      <3>6. \A x \in ChildrenOf(s) : ~AtWork(x)' \/ outcome'[d] = "error"
        <4>1. CASE Fail(d)
          BY <1>0, <2>1, <2>2, <4>1 DEF Fail, KeyTypes
        <4>2. CASE Succeed(d)
          <5>1. \A x \in ChildrenOf(s) : ~AtWork(x)
            <6>1. KeyOf(d) \in Key /\ running[KeyOf(d)] = d /\ d \in Call /\ d # NoCall
              BY <2>1, <2>2 DEF InProgress
            <6>2. outcome' = outcome
              BY <4>2 DEF Succeed
            <6>3. ~Fail(d)
              BY <1>0, <2>1, <2>2, <6>2 DEF Fail, KeyTypes
            <6> QED  BY <1>7, <6>1, <6>3, <4>2, <1>0
                     DEF FanOut, Gather, AtWork, Succeed, Keys!Succeed, KeyTypes, keyVars
          <5> QED  BY <1>7, <5>1, <4>2, <2>1, <2>2, <1>0
                   DEF FanOut, Gather, AtWork, subVars, Succeed, Keys!Succeed, keyVars, KeyTypes, InProgress
        <4> QED  BY <2>4, <4>1, <4>2
      <3>7. WorkHasACause'
        <4> SUFFICES ASSUME NEW x \in Child, AtWork(x)'
                     PROVE  (InProgress(x[1]) \/ outcome[SpawnCall(x[1])] = "error")'
          BY DEF WorkHasACause
        <4>1. x[1] \in Seed
          BY DEF Child
        <4>2. CASE x[1] = s
          BY <3>6, <4>2 DEF ChildrenOf
        <4>3. CASE x[1] # s
          <5>1. AtWork(x)
            BY <1>7, <2>4, <3>2, <4>3, <1>0 DEF FanOut, Gather, AtWork, subVars
          <5> QED  BY <3>1, <4>1, <4>3, <5>1 DEF FlagInv, WorkHasACause
        <4> QED  BY <4>2, <4>3
      <3>8. \A u \in Seed : outcome[SpawnCall(u)] # "waiting" =>
                              outcome'[SpawnCall(u)] = outcome[SpawnCall(u)]
        BY <2>2, <3>1
      <3>9. NotYetAsked' /\ FlaggedInTime'
        BY <1>0, <2>2, <3>8 DEF FlagInv, NotYetAsked, FlaggedInTime, mainVars
      <3>10. FlaggedForGood'
        BY <2>2, <3>8, JudgedAreSeeds DEF FlagInv, FlaggedForGood, mainVars, Judged
      <3> QED  BY <3>4, <3>5, <3>7, <3>9, <3>10 DEF FlagInv
    <2> QED  BY <1>7, <2>3, <2>4 DEF FanOut, Gather
  <1>8. ASSUME NEW x \in Child, Subagent(x) \/ SaveCheckpoint(x) PROVE FlagInv'
    <2>1. UNCHANGED mainVars /\ AtWork(x) /\ \A y \in Child : AtWork(y)' => AtWork(y)
      BY <1>8 DEF Subagent, SaveCheckpoint, AtWork, ModelAnswers, EndWith, TypeInv, TypeOK
    <2>2. CASE UNCHANGED <<outcome, keyVars>>
      BY <1>0, <2>1, <2>2, QuietStep DEF InProgress, RunningIsUnsettled, keyVars
    <2>3. CASE step[x] <= Len(Script) /\ Submit(CallOf(x, step[x]))
      <3>1. step[x] \in 1..Len(Script)
        BY <2>3, EvalSuiteAssumption DEF TypeInv, TypeOK
      <3>2. CallOf(x, step[x]) \in Call /\ \A s \in Seed : CallOf(x, step[x]) # SpawnCall(s)
        BY <3>1, ScriptShape, SpawnCallShape
      <3>3. \A s \in Seed : /\ InProgress(s)' = InProgress(s)
                           /\ outcome'[SpawnCall(s)] = outcome[SpawnCall(s)]
        BY <1>0, <2>3, <3>2, SubmitOther
      <3>4. RunningIsUnsettled'
        BY <1>0, <2>3, <3>2, SubmitOther
      <3> QED  BY <2>1, <3>3, <3>4, QuietStep
    <2> QED  BY <1>8, <2>2, <2>3 DEF Subagent, ModelAnswers, EndWith, SaveCheckpoint
  <1>9. ASSUME NEW c \in Call, ToolEnds(c) PROVE FlagInv'
    <2>1. \A s \in Seed : c # SpawnCall(s)
      BY <1>9, SpawnCallShape DEF ToolEnds
    <2>2. /\ \A s \in Seed : InProgress(s)' = InProgress(s)
          /\ \A s \in Seed : InProgress(s) => outcome'[SpawnCall(s)] = outcome[SpawnCall(s)]
          /\ \A s \in Seed : outcome[SpawnCall(s)] # "waiting" =>
                              outcome'[SpawnCall(s)] = outcome[SpawnCall(s)]
      BY <1>0, <1>9, <2>1, EndOther DEF ToolEnds
    <2>3. RunningIsUnsettled'
      BY <1>0, <1>9, <2>1, EndOther DEF ToolEnds
    <2>4. UNCHANGED mainVars /\ \A x \in Child : AtWork(x)' => AtWork(x)
      BY <1>9 DEF ToolEnds, AtWork, subVars
    <2> QED  BY <2>2, <2>3, <2>4, QuietStep
  <1>10. ASSUME NEW c \in Call, Resume(c) PROVE FlagInv'
    <2>1. /\ UNCHANGED <<running, settled>> /\ UNCHANGED mainVars /\ UNCHANGED pc
          /\ outcome[c] = "waiting" /\ outcome' = [outcome EXCEPT ![c] = "ok"]
          /\ settled[KeyOf(c)] # NoCall
      BY <1>10 DEF Resume, Keys!Answer, Said, subVars
    <2>2. running[KeyOf(c)] = NoCall
      BY <1>0, <2>1, KeyShape DEF RunningIsUnsettled
    <2>3. \A s \in Seed : InProgress(s) => c # SpawnCall(s)
      BY <1>0, <2>2, SpawnCallShape, NoCallAssumption DEF InProgress
    <2>4. \A s \in Seed : SpawnCall(s) \in Call
      BY SpawnCallShape
    <2>5. \A s \in Seed : InProgress(s)' = InProgress(s)
      BY <2>1 DEF InProgress
    <2>6. RunningIsUnsettled'
      BY <1>0, <2>1 DEF RunningIsUnsettled
    <2> QED  BY <1>0, <2>1, <2>3, <2>4, <2>5, <2>6, QuietStep DEF KeyTypes, AtWork
  <1>11. CASE UNCHANGED vars
    BY <1>11 DEF vars, mainVars, subVars, keyVars, FlagInv, RunningIsWaitedFor, WorkHasACause,
       RunningIsUnsettled, NotYetAsked, FlaggedInTime, FlaggedForGood, InProgress, AtWork, Judged
  <1> QED  BY <1>3, <1>4, <1>5, <1>6, <1>7, <1>8, <1>9, <1>10, <1>11 DEF Next

(* Nobody is told that a seed needs no review whose subagents are still at    *)
(* work or were lost to the disk, for any number of seeds and subagents and   *)
(* whether or not ids come back.                                              *)
THEOREM OrphansAreFlaggedHolds == Spec => []OrphansAreFlagged
  <1>1. TypeInv /\ FlagInv => OrphansAreFlagged
    <2> SUFFICES ASSUME TypeInv, FlagInv, NEW s \in Judged, ~records[s].flagged,
                        NEW x \in ChildrenOf(s)
                 PROVE  pc[x] \in {"none", "done"}
      BY DEF OrphansAreFlagged
    <2>1. s \in Seed /\ x \in Child /\ x[1] = s
      BY JudgedAreSeeds DEF ChildrenOf
    <2>2. outcome[SpawnCall(s)] \notin {"waiting", "error"}
      BY DEF FlagInv, FlaggedForGood
    <2> QED  BY <2>1, <2>2 DEF FlagInv, WorkHasACause, RunningIsWaitedFor, AtWork
  <1> QED  BY <1>1, InitFlag, NextFlag, TypeInvariance, PTL DEF Spec
-----------------------------------------------------------------------------
(***************************************************************************)
(* The keys of the suite's harness.                                         *)
(***************************************************************************)
LEMMA NextKeys == TypeInv /\ [Next]_vars => [Keys!Next]_keyVars
  <1> SUFFICES ASSUME TypeInv, [Next]_vars PROVE [Keys!Next]_keyVars
    OBVIOUS
  <1>1. ASSUME NEW c \in Call, Submit(c) PROVE Keys!Next \/ UNCHANGED keyVars
    BY <1>1, KeyShape DEF Submit, Keys!Next
  <1>2. ASSUME NEW c \in Call, Keys!Succeed(KeyOf(c)) \/ Keys!Fail(KeyOf(c)) PROVE Keys!Next
    BY <1>2, KeyShape DEF Keys!Next
  <1>3. ASSUME NEW c \in Call, Succeed(c) \/ Fail(c) PROVE Keys!Next
    BY <1>2, <1>3 DEF Succeed, Fail
  <1>4. CASE LeadFansOut
    <2>1. SpawnCall(seed) \in Call
      BY SpawnCallShape DEF TypeInv, TypeOK
    <2> QED  BY <1>1, <1>4, <2>1 DEF LeadFansOut
  <1>5. CASE LeadAnswers \/ LeadRaises \/ Judge \/ JudgeRaises
    BY <1>5 DEF LeadAnswers, LeadRaises, Judge, JudgeRaises
  <1>6. ASSUME NEW s \in Seed, FanOut(s) \/ Gather(s) PROVE Keys!Next \/ UNCHANGED keyVars
    BY <1>3, <1>6, SpawnCallShape DEF FanOut, Gather
  <1>7. ASSUME NEW x \in Child, Subagent(x) \/ SaveCheckpoint(x) PROVE Keys!Next \/ UNCHANGED keyVars
    <2>1. ASSUME step[x] <= Len(Script) PROVE CallOf(x, step[x]) \in Call
      <3>1. step[x] \in 1..Len(Script)
        BY <2>1, EvalSuiteAssumption DEF TypeInv, TypeOK
      <3> QED  BY <3>1, ScriptShape
    <2> QED
      BY <1>1, <1>7, <2>1 DEF Subagent, ModelAnswers, EndWith, SaveCheckpoint
  <1>8. ASSUME NEW c \in Call, Resume(c) \/ ToolEnds(c) PROVE Keys!Next
    <2>1. CASE Resume(c)
      BY <2>1, KeyShape DEF Resume, Keys!Next
    <2>2. CASE ToolEnds(c)
      BY <1>3, <2>2 DEF ToolEnds
    <2> QED  BY <1>8, <2>1, <2>2
  <1>9. CASE UNCHANGED vars
    BY <1>9 DEF vars, keyVars
  <1> QED  BY <1>4, <1>5, <1>6, <1>7, <1>8, <1>9 DEF Next

(* The harness that outlives the seeds keeps its promise to all of them: a    *)
(* key has one execution at a time, none once it has succeeded, and one       *)
(* answer for ever after, whichever seeds it comes back in (run_eval).        *)
THEOREM SuiteKeepsPromise == Spec => Keys!Spec
  <1>1. Init => Keys!Init
    BY DEF Init
  <1>2. TypeInv /\ [Next]_vars => [Keys!Next]_Keys!vars
    BY NextKeys DEF keyVars, Keys!vars
  <1> QED  BY <1>1, <1>2, TypeInvariance, PTL DEF Spec, Keys!Spec
=============================================================================

--------------------------- MODULE HarnessProofs ---------------------------
(***************************************************************************)
(* Theorems about Harness for every set of calls, keys and tools.  The      *)
(* inductive invariant IInv is stated in Harness.                           *)
(***************************************************************************)
EXTENDS Harness, TLAPS

(***************************************************************************)
(* The breaker's functions keep to breaker states.                          *)
(***************************************************************************)
LEMMA BreakerTyping ==
    ASSUME NEW C, NEW b \in BreakerState(C), NEW t \in Nat, NEW c \in C
    PROVE  /\ Closed \in BreakerState(C)
           /\ AfterIsOpen(b, t) \in BreakerState(C)
           /\ AfterSuccess(b) \in BreakerState(C)
           /\ AfterFailure(b, t, c) \in BreakerState(C)
<1>1. Closed \in BreakerState(C)
  BY DEF Closed, BreakerState
<1>2. Recent(b, t) \cup {<<t, c>>} \in SUBSET (Nat \X C)
  BY DEF Recent, BreakerState
<1>3. AfterFailure(b, t, c) \in BreakerState(C)
  BY <1>2 DEF AfterFailure, BreakerState
<1> QED
  BY <1>1, <1>3 DEF AfterIsOpen, AfterSuccess

LEMMA TypeOKInit == Init => TypeOK
  BY HarnessAssumption DEF Init, TypeOK, Closed, BreakerState

(***************************************************************************)
(* The parts the actions share: a return writes statuses, the cache is      *)
(* entered with calls.                                                      *)
(***************************************************************************)
LEMMA ReturnTyping ==
    ASSUME TypeOK, NEW c \in Call, NEW s \in Status, NEW b \in SUBSET Injected,
           Return(c, s, b)
    PROVE  /\ pc' \in [Call -> {"idle", "gate", "await", "done"}]
           /\ outcome' \in [Call -> Status \cup {"none"}]
           /\ audit' \in [Call -> Seq(Status)]
           /\ faults' \in [Call -> SUBSET Injected]
<1>1. Append(audit[c], s) \in Seq(Status)
  BY DEF TypeOK
<1>2. b \cup {"audit_sink"} \in SUBSET Injected
  BY DEF Injected
<1>3. audit' \in [Call -> Seq(Status)] /\ faults' \in [Call -> SUBSET Injected]
  BY <1>1, <1>2 DEF TypeOK, Return, Record
<1> QED
  BY <1>3 DEF TypeOK, Return

(***************************************************************************)
(* A return leaves one entry, or none when the sink raises; and it blames   *)
(* the sanitizer exactly when the outcome does.                             *)
(***************************************************************************)
LEMMA ReturnAudits ==
    ASSUME TypeOK, AuditMissesOnlyFaults, NEW c \in Call, NEW s \in Status,
           NEW b \in SUBSET {"sanitize"}, audit[c] = <<>>, Return(c, s, b),
           UNCHANGED <<task, awaits>>
    PROVE  /\ AuditMissesOnlyFaults'
           /\ "sanitize" \in faults'[c] <=> "sanitize" \in b
           /\ \A d \in Call \ {c} : /\ outcome'[d] = outcome[d] /\ pc'[d] = pc[d]
                                   /\ audit'[d] = audit[d] /\ faults'[d] = faults[d]
           /\ outcome'[c] = s /\ pc'[c] = "done"
<1>1. /\ \A d \in Call \ {c} : /\ outcome'[d] = outcome[d] /\ pc'[d] = pc[d]
                               /\ audit'[d] = audit[d] /\ faults'[d] = faults[d]
      /\ outcome'[c] = s /\ pc'[c] = "done"
  BY DEF Return, Record, TypeOK
<1>2. \/ faults'[c] = b /\ audit'[c] = <<s>>
      \/ faults'[c] = b \cup {"audit_sink"} /\ audit'[c] = <<>>
  BY DEF Return, Record, TypeOK
<1>3. "approvals" \notin b /\ "audit_sink" \notin b
  OBVIOUS
<1>4. /\ "sanitize" \in faults'[c] <=> "sanitize" \in b
      /\ "approvals" \notin faults'[c]
      /\ audit'[c] = IF ~Unrecorded(c)' THEN <<s>> ELSE <<>>
  <2>1. CASE faults'[c] = b /\ audit'[c] = <<s>>
    BY <1>3, <2>1 DEF Unrecorded
  <2>2. CASE faults'[c] = b \cup {"audit_sink"} /\ audit'[c] = <<>>
    BY <1>3, <2>2 DEF Unrecorded
  <2> QED
    BY <1>2, <2>1, <2>2
<1>5. AuditMissesOnlyFaults'
  BY <1>1, <1>4 DEF AuditMissesOnlyFaults, Unrecorded
<1> QED
  BY <1>1, <1>4, <1>5

LEMMA EnterTyping ==
    ASSUME TypeOK, NEW c \in Call, NEW k \in Key, EnterCache(c, k)
    PROVE  /\ pc' \in [Call -> {"idle", "gate", "await", "done"}]
           /\ inFlight' \in [Key -> Call \cup {NoCall}]
           /\ task' \in [Call -> {"none", "running", "ok", "failed"}]
           /\ awaits' \in [Call -> Call \cup {NoCall}]
           /\ UNCHANGED <<outcome, audit, faults>>
  BY DEF TypeOK, EnterCache, Joins

(***************************************************************************)
(* The three ways a call moves on, each by what it does to IInv.            *)
(***************************************************************************)
LEMMA KeyedTool ==
    ASSUME IInv, NEW c \in Call, pc[c] # "idle"
    PROVE  key[c] \in Key /\ ToolOf[key[c]] \in Tool
  BY HarnessAssumption DEF IInv, HasKey

LEMMA CheckedBreakerTyping ==
    ASSUME TypeOK, NEW k \in Key, PassBreaker(k)
    PROVE  breaker' \in [Tool -> BreakerState(Call)]
<1>1. ToolOf[k] \in Tool
  BY HarnessAssumption
<1>2. AfterIsOpen(breaker[ToolOf[k]], now) \in BreakerState(Call)
  BY <1>1 DEF TypeOK, AfterIsOpen, Closed, BreakerState
<1> QED
  BY <1>1, <1>2 DEF PassBreaker, TypeOK

LEMMA EnterStep ==
    ASSUME IInv, TypeOK', NEW c \in Call, NEW k \in Key,
           pc[c] \in {"idle", "gate"}, key' = [key EXCEPT ![c] = k], EnterCache(c, k)
    PROVE  IInv'
<1> USE DEF IInv
<1>1. /\ task[c] = "none" /\ awaits[c] = NoCall /\ outcome[c] = "none"
      /\ audit[c] = <<>> /\ faults[c] = {}
  BY DEF NotYetInCache, NotYetReturned
<1>2. /\ \A d \in Call : awaits[d] # c
      /\ \A j \in Key : inFlight[j] # c
  BY <1>1, HarnessAssumption DEF TypeOK, AwaitsTaskOfItsKey, CachedTaskIsLive
<1>3. pc' = [pc EXCEPT ![c] = "await"] /\ UNCHANGED <<outcome, audit, faults>>
  BY DEF EnterCache
<1>4. \A d \in Call : NotYetReturned(d)' /\ HasKey(d)'
  BY <1>1, <1>3, HarnessAssumption DEF TypeOK, NotYetReturned, HasKey
<1>5. AuditMissesOnlyFaults'
  <2>1. \A d \in Call : task'[d] # task[d] \/ awaits'[d] # awaits[d] => d = c
    BY DEF EnterCache, TypeOK
  <2>2. \A d \in Call \ {c} : task'[d] = task[d] /\ awaits'[d] = awaits[d] /\ pc'[d] = pc[d]
    BY <1>3, <2>1 DEF TypeOK
  <2> QED
    BY <1>1, <1>3, <2>2 DEF TypeOK, AuditMissesOnlyFaults, Unrecorded
<1>6. CASE Joins(k)
  <2> DEFINE o == inFlight[k]
  <2>1. /\ awaits' = [awaits EXCEPT ![c] = o] /\ UNCHANGED <<inFlight, task>>
        /\ o \in Call /\ key[o] = k /\ task[o] # "none" /\ o # c
    BY <1>2, <1>6 DEF EnterCache, Joins, TypeOK, CachedTaskIsLive
  <2>2. \A d \in Call :
           /\ NotYetInCache(d)' /\ (pc[d] = "await" => awaits[d] # NoCall)'
           /\ AwaitsTaskOfItsKey(d)'
    BY <1>1, <1>2, <1>3, <2>1, HarnessAssumption DEF TypeOK, NotYetInCache, AwaitsTaskOfItsKey
  <2>3. \A d \in Call : OwnsItsTask(d)'
    BY <1>1, <1>3, <2>1 DEF TypeOK, OwnsItsTask
  <2>4. \A j \in Key : CachedTaskIsLive(j)'
    BY <1>2, <1>3, <2>1 DEF TypeOK, CachedTaskIsLive
  <2>5. OutcomesAreOfExecutions'
    BY <1>1, <1>2, <1>3, <2>1, HarnessAssumption DEF TypeOK, OutcomesAreOfExecutions
  <2> QED
    BY <1>4, <1>5, <2>2, <2>3, <2>4, <2>5
<1>7. CASE ~Joins(k)
  <2>1. /\ awaits' = [awaits EXCEPT ![c] = c]
        /\ inFlight' = [inFlight EXCEPT ![k] = c]
        /\ task' = [task EXCEPT ![c] = "running"]
        /\ inFlight[k] = NoCall
    BY <1>7 DEF EnterCache, Joins
  <2>2. \A d \in Call :
           /\ NotYetInCache(d)' /\ (pc[d] = "await" => awaits[d] # NoCall)'
           /\ AwaitsTaskOfItsKey(d)'
    BY <1>1, <1>2, <1>3, <2>1, HarnessAssumption DEF TypeOK, NotYetInCache, AwaitsTaskOfItsKey
  <2>3. \A d \in Call : OwnsItsTask(d)'
    <3> SUFFICES ASSUME NEW d \in Call PROVE OwnsItsTask(d)'
      OBVIOUS
    <3>1. CASE d = c
      BY <1>3, <2>1, <3>1 DEF TypeOK, OwnsItsTask
    <3>2. CASE d # c
      BY <1>1, <1>3, <2>1, <3>2, HarnessAssumption DEF TypeOK, OwnsItsTask, HasKey
    <3> QED
      BY <3>1, <3>2
  <2>4. \A j \in Key : CachedTaskIsLive(j)'
    BY <1>2, <1>3, <2>1 DEF TypeOK, CachedTaskIsLive
  <2>5. OutcomesAreOfExecutions'
    BY <1>1, <1>2, <1>3, <2>1, HarnessAssumption DEF TypeOK, OutcomesAreOfExecutions
  <2> QED
    BY <1>4, <1>5, <2>2, <2>3, <2>4, <2>5
<1> QED
  BY <1>6, <1>7

LEMMA SubmitStep ==
    ASSUME IInv, NEW c \in Call, NEW k \in Key, Submit(c, k)
    PROVE  IInv'
<1> USE DEF IInv
<1>1. /\ pc[c] = "idle" /\ now' = now
      /\ key' = [key EXCEPT ![c] = k] /\ key' \in [Call -> Key \cup {NoKey}]
  BY DEF Submit, TypeOK
<1>2. /\ task[c] = "none" /\ awaits[c] = NoCall /\ outcome[c] = "none"
      /\ audit[c] = <<>> /\ faults[c] = {}
  BY <1>1 DEF NotYetInCache, NotYetReturned
<1>3. \A d \in Call : awaits[d] # c
  BY <1>2, HarnessAssumption DEF TypeOK, AwaitsTaskOfItsKey
<1>4. \A j \in Key : inFlight[j] # c
  BY <1>2, HarnessAssumption DEF TypeOK, CachedTaskIsLive
<1>5. CASE Refuse(c, k)
  <2>1. TypeOK'
    BY <1>1, <1>5, ReturnTyping DEF Refuse, TypeOK, Status
  <2>2. UNCHANGED <<inFlight, task, awaits>>
    BY <1>5 DEF Refuse
  <2>3. /\ AuditMissesOnlyFaults'
        /\ "sanitize" \notin faults'[c]
        /\ \A d \in Call \ {c} : /\ outcome'[d] = outcome[d] /\ pc'[d] = pc[d]
                                /\ audit'[d] = audit[d] /\ faults'[d] = faults[d]
        /\ outcome'[c] = "rejected" /\ pc'[c] = "done"
    BY <1>2, <1>5, <2>2, ReturnAudits DEF Refuse, Status
  <2>4. \A d \in Call :
           /\ NotYetInCache(d)' /\ NotYetReturned(d)' /\ HasKey(d)'
           /\ (pc[d] = "await" => awaits[d] # NoCall)'
    BY <1>1, <1>2, <2>2, <2>3, HarnessAssumption
    DEF TypeOK, NotYetInCache, NotYetReturned, HasKey
  <2>5. \A d \in Call : AwaitsTaskOfItsKey(d)' /\ OwnsItsTask(d)'
    BY <1>1, <1>2, <1>3, <2>2, <2>3 DEF TypeOK, AwaitsTaskOfItsKey, OwnsItsTask
  <2>6. \A j \in Key : CachedTaskIsLive(j)'
    BY <1>1, <1>4, <2>2, <2>3 DEF TypeOK, CachedTaskIsLive
  <2>7. OutcomesAreOfExecutions'
    BY <1>1, <1>2, <1>3, <2>2, <2>3 DEF TypeOK, OutcomesAreOfExecutions
  <2> QED
    BY <2>1, <2>3, <2>4, <2>5, <2>6, <2>7
<1>6. CASE AskApproval(c, k)
  <2>1. TypeOK'
    BY <1>1, <1>6, CheckedBreakerTyping DEF AskApproval, TypeOK
  <2> QED
    BY <1>1, <1>2, <1>3, <1>4, <1>6, <2>1, HarnessAssumption
    DEF AskApproval, TypeOK, NotYetInCache, NotYetReturned, HasKey,
        AwaitsTaskOfItsKey, OwnsItsTask, CachedTaskIsLive, OutcomesAreOfExecutions,
        AuditMissesOnlyFaults, Unrecorded
<1>7. CASE Run(c, k)
  <2>1. TypeOK'
    BY <1>1, <1>7, CheckedBreakerTyping, EnterTyping DEF Run, TypeOK
  <2> QED
    BY <1>1, <1>7, <2>1, EnterStep DEF Run
<1> QED
  BY <1>5, <1>6, <1>7 DEF Submit

LEMMA DecideStep ==
    ASSUME IInv, NEW c \in Call, Decide(c)
    PROVE  IInv'
<1> USE DEF IInv
<1>1. /\ pc[c] = "gate" /\ UNCHANGED <<now, breaker, key>> /\ key[c] \in Key
  BY KeyedTool DEF Decide, Approve, Deny, DecisionRaises
<1>2. /\ task[c] = "none" /\ awaits[c] = NoCall /\ outcome[c] = "none"
      /\ audit[c] = <<>> /\ faults[c] = {}
  BY <1>1 DEF NotYetInCache, NotYetReturned
<1>3. CASE Approve(c)
  <2>1. TypeOK'
    BY <1>1, <1>3, EnterTyping DEF Approve, TypeOK
  <2>2. key' = [key EXCEPT ![c] = key[c]]
    BY <1>1 DEF TypeOK
  <2> QED
    BY <1>1, <1>3, <2>1, <2>2, EnterStep DEF Approve
<1>4. CASE Deny(c)
  <2>1. TypeOK'
    BY <1>1, <1>4, ReturnTyping DEF Deny, TypeOK, Status
  <2>2. UNCHANGED <<inFlight, task, awaits>>
    BY <1>4 DEF Deny
  <2>3. /\ AuditMissesOnlyFaults'
        /\ "sanitize" \notin faults'[c]
        /\ \A d \in Call \ {c} : /\ outcome'[d] = outcome[d] /\ pc'[d] = pc[d]
                                /\ audit'[d] = audit[d] /\ faults'[d] = faults[d]
        /\ outcome'[c] = "rejected" /\ pc'[c] = "done"
    BY <1>2, <1>4, <2>2, ReturnAudits DEF Deny, Status
  <2> QED
    BY <1>1, <1>2, <2>1, <2>2, <2>3, HarnessAssumption
    DEF TypeOK, NotYetInCache, NotYetReturned, HasKey, AwaitsTaskOfItsKey, OwnsItsTask,
        CachedTaskIsLive, OutcomesAreOfExecutions
<1>5. CASE DecisionRaises(c)
  <2>1. /\ "approvals" \in MayRaise /\ pc' = [pc EXCEPT ![c] = "done"]
        /\ faults' = [faults EXCEPT ![c] = {"approvals"}]
        /\ UNCHANGED <<inFlight, task, awaits, outcome, audit>>
    BY <1>5 DEF DecisionRaises
  <2>2. {"approvals"} \in SUBSET Injected
    BY DEF Injected
  <2>3. TypeOK'
    BY <1>1, <2>1, <2>2 DEF TypeOK
  <2>4. AuditMissesOnlyFaults'
    BY <1>2, <2>1 DEF TypeOK, AuditMissesOnlyFaults, Unrecorded
  <2>5. OutcomesAreOfExecutions'
    BY <1>1, <1>2, <2>1 DEF TypeOK, OutcomesAreOfExecutions
  <2>6. \A d \in Call :
           /\ NotYetInCache(d)' /\ NotYetReturned(d)' /\ HasKey(d)'
           /\ (pc[d] = "await" => awaits[d] # NoCall)' /\ AwaitsTaskOfItsKey(d)'
    BY <1>1, <1>2, <2>1 DEF TypeOK, NotYetInCache, NotYetReturned, HasKey, AwaitsTaskOfItsKey
  <2>7. (\A d \in Call : OwnsItsTask(d)') /\ (\A k \in Key : CachedTaskIsLive(k)')
    BY <1>1, <1>2, <2>1, HarnessAssumption DEF TypeOK, OwnsItsTask, CachedTaskIsLive
  <2> QED
    BY <1>1, <1>2, <2>3, <2>4, <2>5, <2>6, <2>7
<1> QED
  BY <1>3, <1>4, <1>5 DEF Decide

LEMMA TaskEndsStep ==
    ASSUME IInv, NEW c \in Call, TaskEnds(c)
    PROVE  IInv'
<1>1. PICK end \in {"ok", "failed"} : task' = [task EXCEPT ![c] = end]
  BY DEF TaskEnds
<1>2. /\ task[c] = "running"
      /\ UNCHANGED <<now, breaker, pc, key, inFlight, awaits, outcome, audit, faults>>
  BY DEF TaskEnds
<1>3. TypeOK'
  BY <1>1, <1>2 DEF IInv, TypeOK
<1>4. /\ \A d \in Call : outcome[d] \in {"ok", "error"} => awaits[d] # c
      /\ \A d \in Call : outcome[d] = "rejected" => d # c
  BY <1>2 DEF IInv, TypeOK, OutcomesAreOfExecutions
<1>5. OutcomesAreOfExecutions'
  BY <1>1, <1>2, <1>4, HarnessAssumption DEF IInv, TypeOK, OutcomesAreOfExecutions
<1> QED
  BY <1>1, <1>2, <1>3, <1>5, HarnessAssumption
  DEF IInv, TypeOK, NotYetInCache, NotYetReturned, HasKey, AwaitsTaskOfItsKey,
      OwnsItsTask, CachedTaskIsLive, AuditMissesOnlyFaults, Unrecorded

LEMMA ResumeStep ==
    ASSUME IInv, NEW c \in Call, Resume(c)
    PROVE  IInv'
<1> USE DEF IInv
<1>1. /\ pc[c] = "await" /\ UNCHANGED <<now, key, task, awaits>>
      /\ key[c] \in Key /\ ToolOf[key[c]] \in Tool
  BY KeyedTool DEF Resume
<1>2. /\ awaits[c] \in Call /\ key[awaits[c]] = key[c]
      /\ outcome[c] = "none" /\ audit[c] = <<>> /\ faults[c] = {}
  BY <1>1 DEF TypeOK, NotYetReturned, AwaitsTaskOfItsKey
<1>3. CASE ResumeOk(c)
  <2>1. /\ task[awaits[c]] = "ok" /\ UNCHANGED inFlight
        /\ Return(c, "ok", {}) \/ Return(c, "error", {"sanitize"})
    BY <1>3 DEF ResumeOk
  <2>2. breaker' \in [Tool -> BreakerState(Call)]
    <3> DEFINE t == ToolOf[key[c]]
    <3>1. /\ breaker[t] \in BreakerState(Call) /\ now \in Nat
          /\ AfterSuccess(breaker[t]) \in BreakerState(Call)
      BY <1>1, BreakerTyping DEF TypeOK
    <3>2. AfterFailure(AfterSuccess(breaker[t]), now, c) \in BreakerState(Call)
      BY <3>1, BreakerTyping
    <3> QED
      BY <1>1, <1>3, <3>1, <3>2 DEF ResumeOk, TypeOK
  <2>3. TypeOK'
    <3>1. {} \in SUBSET Injected /\ {"sanitize"} \in SUBSET Injected
      BY DEF Injected
    <3> QED
      BY <1>1, <2>1, <2>2, <3>1, ReturnTyping DEF TypeOK, Status
  <2>4. OutcomesAreOfExecutions' /\ AuditMissesOnlyFaults'
    <3>1. CASE Return(c, "ok", {})
      <4>1. /\ AuditMissesOnlyFaults' /\ "sanitize" \notin faults'[c] /\ outcome'[c] = "ok"
            /\ \A d \in Call \ {c} : outcome'[d] = outcome[d] /\ faults'[d] = faults[d]
        BY <1>1, <1>2, <3>1, ReturnAudits DEF Status
      <4> QED
        BY <1>1, <1>2, <2>1, <4>1, HarnessAssumption DEF TypeOK, OutcomesAreOfExecutions
    <3>2. CASE Return(c, "error", {"sanitize"})
      <4>1. /\ AuditMissesOnlyFaults' /\ "sanitize" \in faults'[c] /\ outcome'[c] = "error"
            /\ \A d \in Call \ {c} : outcome'[d] = outcome[d] /\ faults'[d] = faults[d]
        BY <1>1, <1>2, <3>2, ReturnAudits DEF Status
      <4> QED
        BY <1>1, <1>2, <2>1, <4>1, HarnessAssumption DEF TypeOK, OutcomesAreOfExecutions
    <3> QED
      BY <2>1, <3>1, <3>2
  <2>5. \A d \in Call :
           /\ NotYetInCache(d)' /\ NotYetReturned(d)' /\ HasKey(d)'
           /\ (pc[d] = "await" => awaits[d] # NoCall)' /\ AwaitsTaskOfItsKey(d)'
    BY <1>1, <1>2, <2>1, HarnessAssumption
    DEF Return, Record, TypeOK, NotYetInCache, NotYetReturned, HasKey, AwaitsTaskOfItsKey
  <2>6. \A d \in Call : OwnsItsTask(d)'
    BY <1>1, <2>1 DEF Return, TypeOK, OwnsItsTask
  <2>7. \A k \in Key : CachedTaskIsLive(k)'
    BY <1>1, <2>1, HarnessAssumption DEF Return, TypeOK, CachedTaskIsLive, OwnsItsTask
  <2> QED
    BY <2>3, <2>4, <2>5, <2>6, <2>7
<1>4. CASE ResumeFailed(c)
  <2>1. task[awaits[c]] = "failed" /\ Return(c, "error", {})
    BY <1>4 DEF ResumeFailed
  <2>2. breaker' \in [Tool -> BreakerState(Call)]
    BY <1>1, <1>4, BreakerTyping DEF ResumeFailed, TypeOK
  <2>3. inFlight' \in [Key -> Call \cup {NoCall}]
    BY <1>4 DEF ResumeFailed, TypeOK
  <2>4. TypeOK'
    BY <1>1, <2>1, <2>2, <2>3, ReturnTyping DEF TypeOK, Status
  <2>5. OutcomesAreOfExecutions' /\ AuditMissesOnlyFaults'
    <3>1. /\ AuditMissesOnlyFaults' /\ "sanitize" \notin faults'[c] /\ outcome'[c] = "error"
          /\ \A d \in Call \ {c} : outcome'[d] = outcome[d] /\ faults'[d] = faults[d]
      BY <1>1, <1>2, <2>1, ReturnAudits DEF Status
    <3> QED
      BY <1>1, <1>2, <2>1, <3>1, HarnessAssumption DEF TypeOK, OutcomesAreOfExecutions
  <2>6. \A d \in Call :
           /\ NotYetInCache(d)' /\ NotYetReturned(d)' /\ HasKey(d)'
           /\ (pc[d] = "await" => awaits[d] # NoCall)' /\ AwaitsTaskOfItsKey(d)'
    BY <1>1, <1>2, <2>1, HarnessAssumption
    DEF Return, Record, TypeOK, NotYetInCache, NotYetReturned, HasKey, AwaitsTaskOfItsKey
  <2>7. CASE awaits[c] = c
    <3>1. inFlight[key[c]] = c /\ inFlight' = [inFlight EXCEPT ![key[c]] = NoCall]
      BY <1>1, <1>4, <2>1, <2>7, HarnessAssumption DEF ResumeFailed, PopsKey, OwnsItsTask
    <3>2. \A d \in Call : OwnsItsTask(d)'
      BY <1>1, <2>1, <2>7, <3>1, HarnessAssumption DEF Return, TypeOK, OwnsItsTask, HasKey
    <3>3. \A k \in Key : CachedTaskIsLive(k)'
      BY <1>1, <2>1, <2>7, <3>1, HarnessAssumption
      DEF Return, TypeOK, CachedTaskIsLive
    <3> QED
      BY <2>4, <2>5, <2>6, <3>2, <3>3
  <2>8. CASE awaits[c] # c
    <3>1. task[c] = "none" /\ UNCHANGED inFlight
      BY <1>1, <1>4, <2>8 DEF ResumeFailed, PopsKey, OwnsItsTask
    <3>2. \A d \in Call : OwnsItsTask(d)'
      BY <1>1, <2>1, <3>1 DEF Return, TypeOK, OwnsItsTask
    <3>3. \A k \in Key : CachedTaskIsLive(k)'
      BY <1>1, <2>1, <3>1, HarnessAssumption DEF Return, TypeOK, CachedTaskIsLive
    <3> QED
      BY <2>4, <2>5, <2>6, <3>2, <3>3
  <2> QED
    BY <2>7, <2>8
<1> QED
  BY <1>3, <1>4 DEF Resume

LEMMA InitIInv == Init => IInv
<1> SUFFICES ASSUME Init PROVE IInv
  OBVIOUS
<1>1. TypeOK
  BY TypeOKInit
<1> QED
  BY <1>1, HarnessAssumption
  DEF Init, IInv, NotYetInCache, NotYetReturned, HasKey, AwaitsTaskOfItsKey,
      OwnsItsTask, CachedTaskIsLive, OutcomesAreOfExecutions, AuditMissesOnlyFaults, Unrecorded

LEMMA NextIInv == IInv /\ [Next]_vars => IInv'
<1> SUFFICES ASSUME IInv, [Next]_vars PROVE IInv'
  OBVIOUS
<1>1. CASE Tick
  BY <1>1, HarnessAssumption
  DEF Tick, IInv, TypeOK, NotYetInCache, NotYetReturned, HasKey, AwaitsTaskOfItsKey,
      OwnsItsTask, CachedTaskIsLive, OutcomesAreOfExecutions, AuditMissesOnlyFaults, Unrecorded
<1>2. CASE UNCHANGED vars
  BY <1>2
  DEF vars, IInv, TypeOK, NotYetInCache, NotYetReturned, HasKey, AwaitsTaskOfItsKey,
      OwnsItsTask, CachedTaskIsLive, OutcomesAreOfExecutions, AuditMissesOnlyFaults, Unrecorded
<1> QED
  BY <1>1, <1>2, SubmitStep, DecideStep, TaskEndsStep, ResumeStep DEF Next
-----------------------------------------------------------------------------
(* IInv holds of every reachable state, whatever the calls, keys and tools.   *)
THEOREM Invariance == Spec => []IInv
<1> QED
  BY InitIInv, NextIInv, PTL DEF Spec

(* Type correctness of the harness's state.                                   *)
THEOREM TypeCorrect == Spec => []TypeOK
<1>1. IInv => TypeOK
  BY DEF IInv
<1> QED
  BY <1>1, Invariance, PTL

(* However calls of one key overlap, wait, fail and are tried again, no two   *)
(* executions of the key run at once and none follows a success.              *)
THEOREM SingleExecution == Spec => []OneExecutionPerKey
<1>1. IInv => OneExecutionPerKey
  BY DEF IInv, OneExecutionPerKey, OwnsItsTask
<1> QED
  BY <1>1, Invariance, PTL

(* A failure leaves the cache with its owner.                                 *)
THEOREM FailuresLeaveTheCache == Spec => []NoFailureStaysCached
<1>1. IInv => NoFailureStaysCached
  BY DEF IInv, TypeOK, NoFailureStaysCached, CachedTaskIsLive, OwnsItsTask
<1> QED
  BY <1>1, Invariance, PTL

(* ok is of a success of the call's own key, error of a failure of it unless  *)
(* the call's sanitizer raised, and a rejected call has no execution.         *)
THEOREM OutcomesFollowExecutions == Spec => []OutcomesAreOfExecutions
<1>1. IInv => OutcomesAreOfExecutions
  BY DEF IInv
<1> QED
  BY <1>1, Invariance, PTL

(* One audit entry per ended call, with its status, and none for exactly the  *)
(* calls whose sink or approval provider raised.                              *)
THEOREM AuditGapsAreFaults == Spec => []AuditMissesOnlyFaults
<1>1. IInv => AuditMissesOnlyFaults
  BY DEF IInv
<1> QED
  BY <1>1, Invariance, PTL

-----------------------------------------------------------------------------
(***************************************************************************)
(* The harness keeps the promise of idempotency keys: every step of it is a *)
(* step of IdempotentKeys or leaves its variables alone.                    *)
(***************************************************************************)
Answered(c) == IF outcome[c] = "ok" THEN awaits[c] ELSE NoCall

LEMMA SameKeys ==
    ASSUME \A k \in Key : /\ CachedTask(k, "running")' = CachedTask(k, "running")
                          /\ CachedTask(k, "ok")' = CachedTask(k, "ok"),
           \A c \in Call : Answered(c)' = Answered(c)
    PROVE  UNCHANGED Keys!vars
  BY DEF Keys!vars, Answered

LEMMA EnterRefines ==
    ASSUME IInv, NEW c \in Call, NEW k \in Key, pc[c] \in {"idle", "gate"}, EnterCache(c, k)
    PROVE  [Keys!Next]_(Keys!vars)
<1>1. /\ task[c] = "none" /\ outcome[c] = "none" /\ outcome' = outcome
  BY DEF IInv, NotYetInCache, NotYetReturned, EnterCache
<1>2. \A j \in Key : inFlight[j] # c
  BY <1>1, HarnessAssumption DEF IInv, CachedTaskIsLive
<1>3. \A d \in Call : Answered(d)' = Answered(d)
  BY <1>1 DEF EnterCache, IInv, TypeOK, Answered
<1>4. CASE Joins(k)
  <2>1. UNCHANGED <<inFlight, task>>
    BY <1>4 DEF EnterCache
  <2> QED
    BY <1>3, <2>1, SameKeys DEF CachedTask
<1>5. CASE ~Joins(k)
  <2>1. /\ inFlight' = [inFlight EXCEPT ![k] = c] /\ inFlight[k] = NoCall
        /\ task' = [task EXCEPT ![c] = "running"]
    BY <1>5 DEF EnterCache, Joins
  <2>2. /\ CachedTask(k, "running") = NoCall /\ CachedTask(k, "ok") = NoCall
        /\ CachedTask(k, "running")' = c /\ CachedTask(k, "ok")' = NoCall
    BY <2>1, HarnessAssumption DEF CachedTask, IInv, TypeOK
  <2>3. \A j \in Key \ {k} : /\ CachedTask(j, "running")' = CachedTask(j, "running")
                             /\ CachedTask(j, "ok")' = CachedTask(j, "ok")
    BY <1>2, <2>1 DEF CachedTask, IInv, TypeOK
  <2>4. Keys!Begin(k, c)
    BY <1>3, <2>2, <2>3 DEF Keys!Begin, Answered
  <2> QED
    BY <2>4 DEF Keys!Next
<1> QED
  BY <1>4, <1>5

LEMMA TaskEndsRefines ==
    ASSUME IInv, NEW c \in Call, TaskEnds(c)
    PROVE  [Keys!Next]_(Keys!vars)
<1>0. PICK k \in Key : k = key[c]
  BY HarnessAssumption DEF TaskEnds, IInv, HasKey, OwnsItsTask
<1>1. k \in Key /\ inFlight[k] = c /\ task[c] = "running" /\ c # NoCall
  BY <1>0, HarnessAssumption DEF TaskEnds, IInv, OwnsItsTask
<1>2. PICK end \in {"ok", "failed"} : task' = [task EXCEPT ![c] = end]
  BY DEF TaskEnds
<1>3. UNCHANGED <<key, inFlight, outcome, awaits>>
  BY DEF TaskEnds
<1>4. \A d \in Call : Answered(d)' = Answered(d)
  BY <1>3 DEF Answered
<1>5. /\ CachedTask(k, "running") = c /\ CachedTask(k, "running")' = NoCall
      /\ CachedTask(k, "ok") = NoCall
      /\ CachedTask(k, "ok")' = IF end = "ok" THEN c ELSE NoCall
  BY <1>1, <1>2, <1>3 DEF CachedTask, IInv, TypeOK
<1>6. \A j \in Key \ {k} : inFlight[j] # c
  BY <1>1 DEF IInv, CachedTaskIsLive
<1>7. \A j \in Key \ {k} : /\ CachedTask(j, "running")' = CachedTask(j, "running")
                           /\ CachedTask(j, "ok")' = CachedTask(j, "ok")
  BY <1>2, <1>3, <1>6 DEF CachedTask, IInv, TypeOK
<1>8. CASE end = "ok"
  <2>1. Keys!Succeed(k)
    BY <1>1, <1>4, <1>5, <1>7, <1>8 DEF Keys!Succeed, Answered
  <2> QED
    BY <1>1, <2>1 DEF Keys!Next
<1>9. CASE end = "failed"
  <2>1. Keys!Fail(k)
    BY <1>1, <1>4, <1>5, <1>7, <1>9 DEF Keys!Fail, Answered
  <2> QED
    BY <1>1, <2>1 DEF Keys!Next
<1> QED
  BY <1>8, <1>9

LEMMA ResumeRefines ==
    ASSUME IInv, NEW c \in Call, Resume(c)
    PROVE  [Keys!Next]_(Keys!vars)
<1> DEFINE k == key[c]
<1>1. /\ pc[c] = "await" /\ k \in Key /\ outcome[c] = "none"
      /\ awaits[c] \in Call /\ key[awaits[c]] = k
      /\ task' = task /\ awaits' = awaits
  BY KeyedTool DEF Resume, IInv, TypeOK, NotYetReturned, AwaitsTaskOfItsKey
<1>2. ASSUME NEW s \in Status \ {"ok"}, NEW b, Return(c, s, b)
      PROVE  \A d \in Call : Answered(d)' = Answered(d)
  BY <1>1, <1>2 DEF Return, Answered, IInv, TypeOK, Status
<1>3. CASE ResumeOk(c)
  <2>1. inFlight' = inFlight /\ inFlight[k] = awaits[c] /\ task[awaits[c]] = "ok"
    BY <1>1, <1>3 DEF ResumeOk, IInv, OwnsItsTask
  <2>2. \A j \in Key : /\ CachedTask(j, "running")' = CachedTask(j, "running")
                       /\ CachedTask(j, "ok")' = CachedTask(j, "ok")
    BY <1>1, <2>1 DEF CachedTask
  <2>3. CASE Return(c, "ok", {})
    <3>1. CachedTask(k, "ok") = awaits[c] /\ awaits[c] # NoCall
      BY <1>1, <2>1, HarnessAssumption DEF CachedTask
    <3>2. /\ Answered(c) = NoCall /\ Answered(c)' = awaits[c]
          /\ \A d \in Call \ {c} : Answered(d)' = Answered(d)
      BY <1>1, <2>3 DEF Return, Answered, IInv, TypeOK
    <3>3. Keys!Answer(k, c)
      BY <1>1, <2>2, <3>1, <3>2 DEF Keys!Answer, Answered
    <3> QED
      BY <1>1, <3>3 DEF Keys!Next
  <2>4. CASE Return(c, "error", {"sanitize"})
    BY <1>2, <2>2, <2>4, SameKeys DEF Status
  <2> QED
    BY <1>3, <2>3, <2>4 DEF ResumeOk
<1>4. CASE ResumeFailed(c)
  <2>1. /\ task[awaits[c]] = "failed" /\ Return(c, "error", {})
        /\ inFlight' = inFlight \/ (awaits[c] = c /\ inFlight' = [inFlight EXCEPT ![k] = NoCall])
    BY <1>4 DEF ResumeFailed, PopsKey
  <2>2. awaits[c] = c => inFlight[k] = c
    BY <1>1, <2>1 DEF IInv, OwnsItsTask
  <2>3. \A j \in Key : /\ CachedTask(j, "running")' = CachedTask(j, "running")
                       /\ CachedTask(j, "ok")' = CachedTask(j, "ok")
    BY <1>1, <2>1, <2>2 DEF CachedTask, IInv, TypeOK
  <2> QED
    BY <1>2, <2>1, <2>3, SameKeys DEF Status
<1> QED
  BY <1>3, <1>4 DEF Resume

LEMMA NextRefines == IInv /\ [Next]_vars => [Keys!Next]_(Keys!vars)
<1> SUFFICES ASSUME IInv, [Next]_vars PROVE [Keys!Next]_(Keys!vars)
  OBVIOUS
<1>1. CASE Tick \/ UNCHANGED vars
  BY <1>1, SameKeys DEF Tick, vars, CachedTask, Answered
<1>2. ASSUME NEW c \in Call, Return(c, "rejected", {}), pc[c] # "done",
             UNCHANGED <<inFlight, task, awaits>>
      PROVE  UNCHANGED Keys!vars
  <2>1. \A d \in Call : Answered(d)' = Answered(d)
    BY <1>2 DEF Return, Answered, IInv, TypeOK, NotYetReturned
  <2> QED
    BY <1>2, <2>1, SameKeys DEF CachedTask
<1>3. ASSUME NEW c \in Call, NEW k \in Key, Submit(c, k)
      PROVE  [Keys!Next]_(Keys!vars)
  <2>1. CASE Refuse(c, k)
    BY <1>2, <1>3, <2>1 DEF Submit, Refuse
  <2>2. CASE AskApproval(c, k)
    BY <2>2, SameKeys DEF AskApproval, CachedTask, Answered
  <2>3. CASE Run(c, k)
    BY <1>3, <2>3, EnterRefines DEF Submit, Run
  <2> QED
    BY <1>3, <2>1, <2>2, <2>3 DEF Submit
<1>4. ASSUME NEW c \in Call, Decide(c)
      PROVE  [Keys!Next]_(Keys!vars)
  <2>1. CASE Approve(c)
    BY <2>1, EnterRefines, KeyedTool DEF Approve
  <2>2. CASE Deny(c)
    BY <1>2, <2>2 DEF Deny
  <2>3. CASE DecisionRaises(c)
    BY <2>3, SameKeys DEF DecisionRaises, CachedTask, Answered
  <2> QED
    BY <1>4, <2>1, <2>2, <2>3 DEF Decide
<1> QED
  BY <1>1, <1>3, <1>4, TaskEndsRefines, ResumeRefines DEF Next

(* Concurrent and repeated calls of a key resolve to its single first result. *)
THEOREM IdempotencyPromise == Spec => KeepsIdempotencyPromise
<1>1. Init => Keys!Init
  BY HarnessAssumption DEF Init, Keys!Init, CachedTask
<1> QED
  BY <1>1, NextRefines, Invariance, PTL DEF Spec, Keys!Spec, KeepsIdempotencyPromise
=============================================================================

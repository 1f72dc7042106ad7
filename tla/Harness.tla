------------------------------ MODULE Harness ------------------------------
(***************************************************************************)
(* Harness.execute under concurrent tool calls.  Every agent of a run (and, *)
(* in the A2A server, every request) shares one harness: one idempotency    *)
(* cache, one breaker per tool, one audit sink, one approval provider.      *)
(*                                                                          *)
(* execute is a coroutine of one event loop.  It gives way only where it    *)
(* awaits something unfinished: the approval decision, and the task of the  *)
(* idempotency key, its own (owner) or an earlier call's (waiter).  What    *)
(* lies between two awaits is one action; so a call is at most three:       *)
(* Submit, Decide when its tool is gated, and Resume when the task it       *)
(* awaits has ended.                                                        *)
(***************************************************************************)
EXTENDS CircuitBreaker, Sequences

CONSTANTS
    Call,               \* the invocations of execute
    Key,                \* idempotency keys
    Tool,               \* tool names
    ToolOf,             \* the tool that calls with a given key are for
    Scope,              \* Scope[c]: the allowed_tools of the role behind call c
    Registered,         \* the tools the harness was built with
    Gated,              \* the tools that require approval
    MayRaise,           \* the injected parts that can raise
    NoCall, NoKey,
    MaxTime             \* bound: the clock stops here

\* What HarnessOptions injects: an approval provider, a sanitizer, an audit sink.
Injected == {"approvals", "sanitize", "audit_sink"}

ASSUME HarnessAssumption ==
    /\ ToolOf \in [Key -> Tool]
    /\ Scope \in [Call -> SUBSET Tool]
    /\ Registered \subseteq Tool
    /\ Gated \subseteq Tool
    /\ MayRaise \subseteq Injected
    /\ NoCall \notin Call
    /\ NoKey \notin Key
    /\ MaxTime \in Nat

VARIABLES
    now,            \* the clock that _now() reads
    breaker,        \* breaker[t]: the breaker's state for tool t
    pc,             \* where call c is: idle, gate, await, done
    key,            \* the idempotency_key of call c
    inFlight,       \* IdempotencyCache._in_flight: the owner of each key's task
    task,           \* task[c]: the task that c created as an owner
    awaits,         \* awaits[c]: the owner of the task that c awaits
    outcome,        \* the status of c's ToolOutcome
    audit,          \* audit[c]: the result_status of each entry recorded for c
    faults          \* faults[c]: the injected parts that raised in call c

vars == <<now, breaker, pc, key, inFlight, task, awaits, outcome, audit, faults>>

Status == {"ok", "error", "rejected"}

TypeOK ==
    /\ now \in Nat
    /\ breaker \in [Tool -> BreakerState(Call)]
    /\ pc \in [Call -> {"idle", "gate", "await", "done"}]
    /\ key \in [Call -> Key \cup {NoKey}]
    /\ inFlight \in [Key -> Call \cup {NoCall}]
    /\ task \in [Call -> {"none", "running", "ok", "failed"}]
    /\ awaits \in [Call -> Call \cup {NoCall}]
    /\ outcome \in [Call -> Status \cup {"none"}]
    /\ audit \in [Call -> Seq(Status)]
    /\ faults \in [Call -> SUBSET Injected]

Init ==
    /\ now = 0
    /\ breaker = [t \in Tool |-> Closed]
    /\ pc = [c \in Call |-> "idle"]
    /\ key = [c \in Call |-> NoKey]
    /\ inFlight = [k \in Key |-> NoCall]
    /\ task = [c \in Call |-> "none"]
    /\ awaits = [c \in Call |-> NoCall]
    /\ outcome = [c \in Call |-> "none"]
    /\ audit = [c \in Call |-> <<>>]
    /\ faults = [c \in Call |-> {}]
-----------------------------------------------------------------------------
(***************************************************************************)
(* The end of execute: _run has an outcome, and the sink is given its       *)
(* entry.  A sink that raises takes the outcome with it.                    *)
(***************************************************************************)
Record(c, status, blamed) ==
    \/ /\ audit' = [audit EXCEPT ![c] = Append(@, status)]
       /\ faults' = [faults EXCEPT ![c] = blamed]
    \/ /\ "audit_sink" \in MayRaise
       /\ faults' = [faults EXCEPT ![c] = blamed \cup {"audit_sink"}]
       /\ UNCHANGED audit

\* Mutant of Return: the early returns leave before the audit record.
ReturnUnaudited(c, status, blamed) ==
    /\ pc' = [pc EXCEPT ![c] = "done"]
    /\ outcome' = [outcome EXCEPT ![c] = status]
    /\ IF status = "rejected" THEN UNCHANGED <<audit, faults>> ELSE Record(c, status, blamed)

Return(c, status, blamed) ==
    /\ pc' = [pc EXCEPT ![c] = "done"]
    /\ outcome' = [outcome EXCEPT ![c] = status]
    /\ Record(c, status, blamed)

(***************************************************************************)
(* IdempotencyCache.run up to its await: join the key's task, or create it. *)
(***************************************************************************)
Joins(k) == inFlight[k] # NoCall

\* Mutant of EnterCache: results are looked up by tool, not by key.
EnterCacheByTool(c, k) ==
    LET same == {j \in Key : ToolOf[j] = ToolOf[k] /\ Joins(j)}
    IN  /\ pc' = [pc EXCEPT ![c] = "await"]
        /\ IF same # {}
           THEN /\ \E j \in same : awaits' = [awaits EXCEPT ![c] = inFlight[j]]
                /\ UNCHANGED <<inFlight, task>>
           ELSE /\ awaits' = [awaits EXCEPT ![c] = c]
                /\ inFlight' = [inFlight EXCEPT ![k] = c]
                /\ task' = [task EXCEPT ![c] = "running"]
        /\ UNCHANGED <<outcome, audit, faults>>

EnterCache(c, k) ==
    /\ pc' = [pc EXCEPT ![c] = "await"]
    /\ IF Joins(k)
       THEN /\ awaits' = [awaits EXCEPT ![c] = inFlight[k]]
            /\ UNCHANGED <<inFlight, task>>
       ELSE /\ awaits' = [awaits EXCEPT ![c] = c]
            /\ inFlight' = [inFlight EXCEPT ![k] = c]
            /\ task' = [task EXCEPT ![c] = "running"]
    /\ UNCHANGED <<outcome, audit, faults>>

(***************************************************************************)
(* The start of execute, in the order of _run: scope, registry, breaker,    *)
(* approval.                                                                *)
(***************************************************************************)
\* assert_tool_allowed passes and the tool is known.
Callable(c, k) == ToolOf[k] \in Scope[c] /\ ToolOf[k] \in Registered

ShortCircuited(k) == IsOpen(breaker[ToolOf[k]], now)

Refuse(c, k) ==
    /\ \/ ~Callable(c, k)
       \/ ShortCircuited(k)
    /\ Return(c, "rejected", {})
    /\ UNCHANGED <<breaker, inFlight, task, awaits>>

PassBreaker(k) ==
    breaker' = [breaker EXCEPT ![ToolOf[k]] = AfterIsOpen(@, now)]

AskApproval(c, k) ==
    /\ Callable(c, k) /\ ~ShortCircuited(k)
    /\ ToolOf[k] \in Gated
    /\ PassBreaker(k)
    /\ pc' = [pc EXCEPT ![c] = "gate"]
    /\ UNCHANGED <<inFlight, task, awaits, outcome, audit, faults>>

Run(c, k) ==
    /\ Callable(c, k) /\ ~ShortCircuited(k)
    /\ ToolOf[k] \notin Gated
    /\ PassBreaker(k)
    /\ EnterCache(c, k)

Submit(c, k) ==
    /\ pc[c] = "idle"
    /\ key' = [key EXCEPT ![c] = k]
    /\ Refuse(c, k) \/ AskApproval(c, k) \/ Run(c, k)
    /\ UNCHANGED now

(***************************************************************************)
(* The approval provider answers, or raises.  Nothing read before the await *)
(* is read again: an approved call goes straight to the cache.  No try is   *)
(* around the await, so that what decide raises goes out of execute, past   *)
(* the audit record.                                                        *)
(***************************************************************************)
Approve(c) ==
    /\ pc[c] = "gate"
    /\ EnterCache(c, key[c])
    /\ UNCHANGED <<now, breaker, key>>

Deny(c) ==
    /\ pc[c] = "gate"
    /\ Return(c, "rejected", {})
    /\ UNCHANGED <<now, breaker, key, inFlight, task, awaits>>

DecisionRaises(c) ==
    /\ pc[c] = "gate" /\ "approvals" \in MayRaise
    /\ pc' = [pc EXCEPT ![c] = "done"]
    /\ faults' = [faults EXCEPT ![c] = {"approvals"}]
    /\ UNCHANGED <<now, breaker, key, inFlight, task, awaits, outcome, audit>>

Decide(c) == Approve(c) \/ Deny(c) \/ DecisionRaises(c)

(***************************************************************************)
(* The tool itself: tool.execute returns or raises.                         *)
(***************************************************************************)
TaskEnds(c) ==
    /\ task[c] = "running"
    /\ \E end \in {"ok", "failed"} : task' = [task EXCEPT ![c] = end]
    /\ UNCHANGED <<now, breaker, pc, key, inFlight, awaits, outcome, audit, faults>>

(***************************************************************************)
(* A call that awaits an ended task goes on.  When it failed, the owner (the *)
(* call inside the try of IdempotencyCache.run) pops the key; a waiter is    *)
(* outside it.  Both report the failure to the breaker.                     *)
(***************************************************************************)
\* Mutant of PopsKey: nobody pops the key.
NobodyPopsKey(c) == FALSE

PopsKey(c) == awaits[c] = c

\* Mutant of ResumeOk: a finished key is evicted, as a failed one is.
ResumeOkEvicting(c) ==
    /\ task[awaits[c]] = "ok"
    /\ breaker' = [breaker EXCEPT ![ToolOf[key[c]]] = AfterSuccess(@)]
    /\ Return(c, "ok", {})
    /\ inFlight' = [inFlight EXCEPT ![key[c]] = NoCall]

ResumeOk(c) ==
    LET t == ToolOf[key[c]]
    IN  /\ task[awaits[c]] = "ok"
        /\ \/ /\ breaker' = [breaker EXCEPT ![t] = AfterSuccess(@)]
              /\ Return(c, "ok", {})
           \/ /\ "sanitize" \in MayRaise  \* record_success, then record_failure
              /\ breaker' = [breaker EXCEPT ![t] = AfterFailure(AfterSuccess(@), now, c)]
              /\ Return(c, "error", {"sanitize"})
        /\ UNCHANGED inFlight

\* Mutant of ResumeFailed: the exception reaches the owner only.
ResumeFailedOwner(c) ==
    /\ task[awaits[c]] = "failed" /\ awaits[c] = c
    /\ inFlight' = [inFlight EXCEPT ![key[c]] = NoCall]
    /\ breaker' = [breaker EXCEPT ![ToolOf[key[c]]] = AfterFailure(@, now, c)]
    /\ Return(c, "error", {})

ResumeFailed(c) ==
    /\ task[awaits[c]] = "failed"
    /\ inFlight' = IF PopsKey(c) THEN [inFlight EXCEPT ![key[c]] = NoCall] ELSE inFlight
    /\ breaker' = [breaker EXCEPT ![ToolOf[key[c]]] = AfterFailure(@, now, c)]
    /\ Return(c, "error", {})

Resume(c) ==
    /\ pc[c] = "await"
    /\ ResumeOk(c) \/ ResumeFailed(c)
    /\ UNCHANGED <<now, key, task, awaits>>

Tick ==
    /\ now < MaxTime
    /\ now' = now + 1
    /\ UNCHANGED <<breaker, pc, key, inFlight, task, awaits, outcome, audit, faults>>

Next ==
    \/ \E c \in Call : Decide(c) \/ TaskEnds(c) \/ Resume(c)
    \/ \E c \in Call, k \in Key : Submit(c, k)
    \/ Tick

Spec == Init /\ [][Next]_vars

(***************************************************************************)
(* The event loop runs every coroutine that can go on.  That a decision is  *)
(* made and a tool ends is not the harness's doing: it sets no time limit   *)
(* on either, so this is an assumption on approval providers and tools.     *)
(***************************************************************************)
Fairness == \A c \in Call : WF_vars(Resume(c)) /\ WF_vars(Decide(c)) /\ WF_vars(TaskEnds(c))

FairSpec == Spec /\ Fairness
-----------------------------------------------------------------------------
(* Two executions of one key never overlap, and none is ever started for a    *)
(* key that has already had one succeed: concurrent and repeated calls share  *)
(* the first result, and a retry after a failure starts one execution, not    *)
(* one per waiter (IdempotencyCache.run).                                     *)
OneExecutionPerKey ==
    \A c, d \in Call :
        /\ c # d
        /\ key[c] = key[d]
        /\ task[c] \in {"running", "ok"}
        => task[d] \notin {"running", "ok"}

(* Once the owner of a failed task has returned, the failure is out of the    *)
(* cache; what stays under a key is a task still running, a success, or a     *)
(* failure whose owner is about to remove it.                                 *)
NoFailureStaysCached ==
    \A k \in Key :
        inFlight[k] # NoCall /\ pc[inFlight[k]] = "done" => task[inFlight[k]] = "ok"

(* What an outcome says of the execution (ToolOutcome in harness/errors.py):  *)
(* ok is the success of a task of the call's own key, error the failure of    *)
(* one that was run, and a rejected call neither ran nor awaited anything.    *)
(* errors.py:27, "`error` means the tool ran and failed", is not true of a    *)
(* call whose sanitizer raised, and exactly of that one: its error stands on  *)
(* an execution that succeeded and stays in the cache.                        *)
OutcomesAreOfExecutions ==
    \A c \in Call :
        /\ outcome[c] \in {"ok", "error"} =>
              /\ awaits[c] # NoCall /\ key[awaits[c]] = key[c]
              /\ task[awaits[c]] = IF outcome[c] = "ok" \/ "sanitize" \in faults[c]
                                   THEN "ok" ELSE "failed"
        /\ outcome[c] = "ok" => "sanitize" \notin faults[c]
        /\ outcome[c] = "rejected" => awaits[c] = NoCall /\ task[c] = "none"

\* What the audit record of a call does not survive.
Unrecorded(c) == faults[c] \cap {"approvals", "audit_sink"} # {}

(* The audit log, of every call: one entry with the call's status once it is  *)
(* over, and none before.  docs/tracing.md:63-65 has no exception, the code   *)
(* has two: a call has no entry when the sink raised, and when the approval   *)
(* provider did, and then no execution goes with it (harness/audit.py).       *)
AuditMissesOnlyFaults ==
    \A c \in Call :
        /\ audit[c] = IF pc[c] = "done" /\ ~Unrecorded(c) THEN <<outcome[c]>> ELSE <<>>
        /\ "approvals" \in faults[c] => task[c] = "none" /\ awaits[c] = NoCall

(* Every call submitted returns, given that the approvals and the tools do.   *)
EveryCallReturns == \A c \in Call : pc[c] \in {"gate", "await"} ~> pc[c] = "done"

(* The executions and their results keep the promise of idempotency keys.     *)
CachedTask(k, status) ==
    IF inFlight[k] # NoCall /\ task[inFlight[k]] = status THEN inFlight[k] ELSE NoCall

Keys == INSTANCE IdempotentKeys WITH
            running <- [k \in Key |-> CachedTask(k, "running")],
            settled <- [k \in Key |-> CachedTask(k, "ok")],
            answer <- [c \in Call |-> IF outcome[c] = "ok" THEN awaits[c] ELSE NoCall]

KeepsIdempotencyPromise == Keys!Spec
-----------------------------------------------------------------------------
(* The inductive invariant behind the safety properties above: how far a call *)
(* has come decides what it has written, and the cache holds exactly the      *)
(* tasks whose owner has not taken them out.                                  *)
NotYetInCache(c) ==
    /\ pc[c] \in {"idle", "gate"} => task[c] = "none" /\ awaits[c] = NoCall
    /\ pc[c] = "gate" => ToolOf[key[c]] \in Gated

NotYetReturned(c) ==
    pc[c] # "done" => outcome[c] = "none" /\ audit[c] = <<>> /\ faults[c] = {}

HasKey(c) == pc[c] # "idle" <=> key[c] \in Key

AwaitsTaskOfItsKey(c) ==
    awaits[c] # NoCall => key[awaits[c]] = key[c] /\ task[awaits[c]] # "none"

OwnsItsTask(c) ==
    task[c] # "none" =>
        /\ awaits[c] = c
        /\ task[c] = "running" => pc[c] = "await"
        /\ task[c] \in {"running", "ok"} \/ pc[c] = "await" => inFlight[key[c]] = c

CachedTaskIsLive(k) ==
    inFlight[k] # NoCall =>
        /\ key[inFlight[k]] = k
        /\ task[inFlight[k]] # "none"
        /\ task[inFlight[k]] = "failed" => pc[inFlight[k]] = "await"

IInv ==
    /\ TypeOK
    /\ \A c \in Call :
          /\ NotYetInCache(c) /\ NotYetReturned(c) /\ HasKey(c)
          /\ pc[c] = "await" => awaits[c] # NoCall
          /\ AwaitsTaskOfItsKey(c) /\ OwnsItsTask(c)
    /\ \A k \in Key : CachedTaskIsLive(k)
    /\ OutcomesAreOfExecutions
    /\ AuditMissesOnlyFaults
=============================================================================

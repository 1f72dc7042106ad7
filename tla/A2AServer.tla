------------------------------ MODULE A2AServer ------------------------------
(***************************************************************************)
(* The A2A server's handler of POST /tasks, with the limiter in it, for the *)
(* requests of one caller key (with a token there is only one).  The agent  *)
(* that runs a task may delegate in turn, to this server or to another of   *)
(* the same cap, and waits for the answer unless it gives up first.         *)
(*                                                                          *)
(* In TypeScript a handler gives way while the body arrives and while the   *)
(* agent runs; the steps before the body are one in the code, and separate  *)
(* here as the limiter's are.  In Python every handler is a thread; where   *)
(* Atomic holds, one whose call of the limiter no other one cuts in two.    *)
(***************************************************************************)
EXTENDS RateLimiter

CONSTANTS
    MaxDelegationDepth,     \* the cap of every server
    StatedDepths,           \* depths that callers outside state; what is no number is 0
    Outside                 \* the caller of requests that no agent here made

ASSUME A2AServerAssumption ==
    /\ MaxDelegationDepth \in Nat
    /\ StatedDepths \subseteq Int
    /\ Outside \notin Request

VARIABLES
    runtime,    \* of the servers: Python or TypeScript
    stage,      \* where the handler of request r is
    status,     \* the status of its response
    inbound,    \* delegationDepth in its body
    caller,     \* the request whose agent made it, or Outside
    given       \* requests that their callers have given up

serverVars == <<runtime, stage, status, inbound, caller, given>>
limiterVars == vars
allVars == <<limiterVars, serverVars>>

Stages == {"none", "received", "reading", "running", "answered", "dropped"}
Statuses == {"none", "200", "400", "401", "429"}

ServerTypeOK ==
    /\ TypeOK
    /\ runtime \in {"Python", "TypeScript"}
    /\ stage \in [Request -> Stages]
    /\ status \in [Request -> Statuses]
    /\ inbound \in [Request -> Int]
    /\ caller \in [Request -> Request \cup {Outside}]
    /\ given \in SUBSET Request

ServerInit ==
    /\ Init
    /\ runtime \in {"Python", "TypeScript"}
    /\ stage = [r \in Request |-> "none"]
    /\ status = [r \in Request |-> "none"]
    /\ inbound = [r \in Request |-> 0]
    /\ caller = [r \in Request |-> Outside]
    /\ given = {}
-----------------------------------------------------------------------------
(***************************************************************************)
(* Clients: somebody outside, who states any depth, a negative one too, or  *)
(* the agent of a request, with a tool that delegates as docs/a2a.md shows: *)
(* at the depth that the agent runs at.                                     *)
(***************************************************************************)
\* Mutant: the depth of an agent is that of its caller.
DepthNotAdded(r) == inbound[r]

Depth(r) == inbound[r] + 1

Awaits(p, r) == caller[r] = p /\ stage[r] \notin {"none", "answered", "dropped"} /\ r \notin given

AtWork(p) == stage[p] = "running" /\ \A r \in Request : ~Awaits(p, r)

Arrive(r, p, d) ==
    /\ stage[r] = "none"
    /\ stage' = [stage EXCEPT ![r] = "received"]
    /\ caller' = [caller EXCEPT ![r] = p]
    /\ inbound' = [inbound EXCEPT ![r] = d]
    /\ UNCHANGED <<limiterVars, runtime, status, given>>

Post(r) == \E d \in StatedDepths : Arrive(r, Outside, d)

Delegate(p, r) == AtWork(p) /\ Arrive(r, p, Depth(p))

\* The connection is lost, or the client's own time limit ends the wait.
GiveUp(p, r) ==
    /\ stage[p] = "running" /\ Awaits(p, r)
    /\ given' = given \cup {r}
    /\ UNCHANGED <<limiterVars, runtime, stage, status, inbound, caller>>

(***************************************************************************)
(* The handler: token, limiter, body, depth, task, agent.                   *)
(***************************************************************************)
Respond(r, s) ==
    /\ stage' = [stage EXCEPT ![r] = "answered"]
    /\ status' = [status EXCEPT ![r] = s]
    /\ UNCHANGED <<runtime, inbound, caller, given>>

GoTo(r, s) ==
    /\ stage' = [stage EXCEPT ![r] = s]
    /\ UNCHANGED <<runtime, status, inbound, caller, given>>

Unauthorized(r) ==
    /\ stage[r] = "received" /\ pc[r] = "new"
    /\ Respond(r, "401")
    /\ UNCHANGED limiterVars

TryAcquire(r) ==
    /\ stage[r] = "received"
    /\ Read(r)
    /\ UNCHANGED serverVars

\* Mutant: the response does not end the handler.
LimitedAndGoesOn(r) ==
    /\ stage[r] = "received"
    /\ Decide(r)
    /\ GoTo(r, "reading")

Limited(r) ==
    /\ stage[r] = "received"
    /\ Decide(r)
    /\ \/ pc'[r] = "rejected" /\ Respond(r, "429")
       \/ pc'[r] = "allowed" /\ GoTo(r, "reading")

TooDeep(r) == Depth(r) > MaxDelegationDepth

\* Python looks the depth up in what the body parses to, outside of any try: a
\* body that is no object, which no agent sends, ends the handler with nothing said.
NoObject(r) == runtime = "Python" /\ caller[r] = Outside /\ GoTo(r, "dropped")

\* Mutant: a task that is too deep gets no answer.
ReadBodyQuietly(r) ==
    /\ stage[r] = "reading" /\ ~TooDeep(r)
    /\ Respond(r, "400") \/ NoObject(r) \/ GoTo(r, "running")
    /\ UNCHANGED limiterVars

\* What does not parse, or is no AgentTask; too deep; or a task for an agent.
ReadBody(r) ==
    /\ stage[r] = "reading"
    /\ \/ Respond(r, "400")
       \/ NoObject(r)
       \/ TooDeep(r) /\ Respond(r, "429")
       \/ ~TooDeep(r) /\ GoTo(r, "running")
    /\ UNCHANGED limiterVars

\* run_subagent returns or raises.
AgentEnds(r) ==
    /\ AtWork(r)
    /\ \E s \in {"200", "400"} : Respond(r, s)
    /\ UNCHANGED limiterVars

ClockTicks == Tick /\ UNCHANGED serverVars

Handle(r) ==
    \/ Unauthorized(r) \/ TryAcquire(r) \/ Limited(r)
    \/ ReadBody(r) \/ AgentEnds(r)

ServerNext ==
    \/ \E r \in Request : Post(r) \/ Handle(r)
    \/ \E p, r \in Request : Delegate(p, r) \/ GiveUp(p, r)
    \/ ClockTicks

ServerSpec == ServerInit /\ [][ServerNext]_allVars

(***************************************************************************)
(* Handlers go on, bodies arrive and agents end, as AgentLoop shows, once   *)
(* they have the answers that they wait for.                                *)
(***************************************************************************)
FairSpec == ServerSpec /\ \A r \in Request : WF_allVars(Handle(r))
-----------------------------------------------------------------------------
HasRun(r) == stage[r] = "running" \/ status[r] = "200"

ServedWithin(t) == {r \in Request : HasRun(r) /\ t - WindowMs < stamp[r] /\ stamp[r] <= t}

(* "Auth and rate limiting happen before the model runs": of the requests     *)
(* that came to the limiter within any window, no more than max_requests get  *)
(* an agent, whatever order handlers go on in once they are past it.          *)
ServedWithinLimit ==
    \A t \in 0..MaxTime : Cardinality(ServedWithin(t)) <= MaxRequests

(* Depth accumulates over servers: the n-th agent in a chain of delegations   *)
(* runs only while n and the depth stated to the first make no more than the  *)
(* cap, so a chain that states no negative depth is no longer than the cap;    *)
(* and callers that give up, or end before their delegates, do not change it.  *)
Chain(q, n) == \A i \in 1..(n - 1) : caller[q[i + 1]] = q[i]

ChainsAreBounded ==
    \A n \in 1..Cardinality(Request) : \A q \in [1..n -> Request] :
        Chain(q, n) /\ HasRun(q[n]) => inbound[q[1]] + n <= MaxDelegationDepth

(* Every request is answered, also those that wait for others in turn; all    *)
(* but those whose handler Python has dropped (NoObject), which keep nobody   *)
(* waiting.                                                                   *)
RequestsAreAnswered ==
    \A r \in Request :
        stage[r] = "received" ~>
            \/ stage[r] = "answered"
            \/ runtime = "Python" /\ caller[r] = Outside /\ stage[r] = "dropped"
=============================================================================

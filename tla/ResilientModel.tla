--------------------------- MODULE ResilientModel ---------------------------
(***************************************************************************)
(* ResilientChatModel.complete: a request is put to the models of a chain,  *)
(* each tried up to MaxRetries times more after a transient failure, with a *)
(* timeout on every try.  Requests share nothing here, but several run side *)
(* by side where this model is the base of another (ReplayModel).           *)
(*                                                                          *)
(* A try is a call of a model, which the model's provider ends when it      *)
(* likes.  When the timeout ends the wait first, Python cancels the call    *)
(* (asyncio.wait_for) and TypeScript leaves it running (Promise.race).      *)
(***************************************************************************)
EXTENDS Integers, FiniteSets

CONSTANTS
    Request,        \* invocations of complete
    Chain,          \* the number of models: the primary and its fallbacks
    MaxRetries,     \* ResilienceOptions.max_retries
    HasTimeout,     \* is timeout_ms positive?
    Python          \* of the two runtimes: here a timeout cancels the call

ASSUME ResilientAssumption ==
    /\ Chain \in Nat \ {0} /\ MaxRetries \in Nat
    /\ HasTimeout \in BOOLEAN /\ Python \in BOOLEAN

VARIABLES
    stage,          \* where request r is: idle, calling, backoff, answered, raised
    try,            \* the current try of r: the loop variables of complete
    call,           \* the state of the model call of each try
    timedOut        \* the tries whose timeout has rung

modelVars == <<stage, try, call, timedOut>>

Try == (1..Chain) \X (0..MaxRetries)
Calls == Request \X Try
Stages == {"idle", "calling", "backoff", "answered", "raised"}
CallStates == {"none", "running", "ok", "transient", "fatal", "cancelled"}

ModelTypeOK ==
    /\ stage \in [Request -> Stages]
    /\ try \in [Request -> Try]
    /\ call \in [Calls -> CallStates]
    /\ timedOut \in SUBSET Calls

ModelInit ==
    /\ stage = [r \in Request |-> "idle"]
    /\ try = [r \in Request |-> <<1, 0>>]
    /\ call = [x \in Calls |-> "none"]
    /\ timedOut = {}
-----------------------------------------------------------------------------
Current(r) == <<r, try[r]>>

\* Request r goes on with the model call of try t; what is left of the
\* calls before it is in calls.
StartCall(r, t, calls) ==
    /\ stage' = [stage EXCEPT ![r] = "calling"]
    /\ try' = [try EXCEPT ![r] = t]
    /\ call' = [calls EXCEPT ![<<r, t>>] = "running"]

Begin(r) ==
    /\ stage[r] = "idle"
    /\ StartCall(r, <<1, 0>>, call)
    /\ UNCHANGED timedOut

(***************************************************************************)
(* After a transient failure: another try of this model after a pause,      *)
(* without a pause the first try of the next model, or the last error.      *)
(***************************************************************************)

HasRetry(r) == try[r][2] < MaxRetries

NextTry(r, calls) ==
    \/ /\ HasRetry(r)
       /\ stage' = [stage EXCEPT ![r] = "backoff"]
       /\ call' = calls
       /\ UNCHANGED try
    \/ /\ ~HasRetry(r) /\ try[r][1] < Chain
       /\ StartCall(r, <<try[r][1] + 1, 0>>, calls)
    \/ /\ ~HasRetry(r) /\ try[r][1] = Chain
       /\ stage' = [stage EXCEPT ![r] = "raised"]
       /\ call' = calls
       /\ UNCHANGED try

\* Mutant: the next try does not wait for the one before it.
WakeUpEarly(r) ==
    /\ stage[r] = "backoff" \/ (stage[r] = "calling" /\ HasRetry(r))
    /\ StartCall(r, <<try[r][1], try[r][2] + 1>>, call)
    /\ UNCHANGED timedOut

WakeUp(r) ==
    /\ stage[r] = "backoff"
    /\ StartCall(r, <<try[r][1], try[r][2] + 1>>, call)
    /\ UNCHANGED timedOut

FailsTransiently(r) ==
    /\ stage[r] = "calling" /\ call[Current(r)] = "transient"
    /\ NextTry(r, call)
    /\ UNCHANGED timedOut

\* Mutant: a permanent error of the primary is put to the next model.
FailsForGoodOver(r) ==
    /\ stage[r] = "calling" /\ call[Current(r)] = "fatal"
    /\ NextTry(r, call)
    /\ UNCHANGED timedOut

\* Errors that are not transient are raised at once.
FailsForGood(r) ==
    /\ stage[r] = "calling" /\ call[Current(r)] = "fatal"
    /\ stage' = [stage EXCEPT ![r] = "raised"]
    /\ UNCHANGED <<try, call, timedOut>>

\* Mutant: the timer rings and nobody has subscribed to it.
TimesOutUnheard(r) ==
    /\ HasTimeout
    /\ stage[r] = "calling" /\ call[Current(r)] = "running"
    /\ timedOut' = timedOut \cup {Current(r)}
    /\ UNCHANGED <<stage, try, call>>

\* The timeout rings before the call has ended, and is a transient failure.
TimesOut(r) ==
    /\ HasTimeout
    /\ stage[r] = "calling" /\ call[Current(r)] = "running"
    /\ timedOut' = timedOut \cup {Current(r)}
    /\ NextTry(r, IF Python THEN [call EXCEPT ![Current(r)] = "cancelled"] ELSE call)

\* Mutant: the answer of any try of the request will do.
HasAnswerOfAnyTry(r) == stage[r] = "calling" /\ \E t \in Try : call[<<r, t>>] = "ok"

HasAnswer(r) == stage[r] = "calling" /\ call[Current(r)] = "ok"

Answers(r) ==
    /\ HasAnswer(r)
    /\ stage' = [stage EXCEPT ![r] = "answered"]
    /\ UNCHANGED <<try, call, timedOut>>

(***************************************************************************)
(* The provider ends a call, also one that nobody waits for any more.       *)
(***************************************************************************)
ProviderEnds(x) ==
    /\ call[x] = "running"
    /\ \E end \in {"ok", "transient", "fatal"} : call' = [call EXCEPT ![x] = end]
    /\ UNCHANGED <<stage, try, timedOut>>

GoesOn(r) == FailsTransiently(r) \/ FailsForGood(r) \/ TimesOut(r) \/ WakeUp(r)

ModelNext ==
    \/ \E r \in Request : Begin(r) \/ GoesOn(r) \/ Answers(r)
    \/ \E x \in Calls : ProviderEnds(x)

ModelSpec == ModelInit /\ [][ModelNext]_modelVars
-----------------------------------------------------------------------------
Before(s, t) == s[1] < t[1] \/ (s[1] = t[1] /\ s[2] < t[2])

(* A model is tried again, and the next model called, only after every        *)
(* earlier try failed with a transient error or ran into its timeout; no try  *)
(* is left out, and none is made beyond the current one.                      *)
TriesInOrder ==
    \A r \in Request, t \in Try :
        /\ Before(try[r], t) => call[<<r, t>>] = "none"
        /\ Before(t, try[r]) => call[<<r, t>>] = "transient" \/ <<r, t>> \in timedOut

(* The result of complete is that of its last try: a call that timed out does *)
(* not answer late, and what is raised is raised for good or after the whole  *)
(* chain.                                                                     *)
ResultIsOfTheLastTry ==
    \A r \in Request :
        /\ stage[r] = "answered" =>
              call[Current(r)] = "ok" /\ Current(r) \notin timedOut
        /\ stage[r] = "raised" /\ try[r] # <<Chain, MaxRetries>> =>
              call[Current(r)] = "fatal" /\ Current(r) \notin timedOut

(* A request has one model call at a time, and none once it has ended, where  *)
(* timeouts cancel; elsewhere only calls that timed out run on.               *)
OnlyTimedOutCallsRunOn ==
    \A r \in Request, t \in Try :
        call[<<r, t>>] = "running" =>
            \/ t = try[r] /\ stage[r] = "calling"
            \/ ~Python /\ <<r, t>> \in timedOut
=============================================================================

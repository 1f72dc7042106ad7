--------------------------- MODULE ResilientProofs ---------------------------
(***************************************************************************)
(* The order of tries, the result and the calls left behind, for any number *)
(* of requests, models and retries, in both runtimes, by themselves and      *)
(* under a replaying model whose process stops; and that model's cassette.   *)
(***************************************************************************)
EXTENDS ReplayModel, TLAPS

USE ResilientAssumption

\* What is true of a try that was given up.
HasFailed(x) == call[x] = "transient" \/ x \in timedOut

Past(r) == \A t \in Try : Before(t, try[r]) => HasFailed(<<r, t>>)

Future(r) ==
    \A t \in Try : Before(try[r], t) => call[<<r, t>>] = "none" /\ <<r, t>> \notin timedOut

\* Where a request is, told by the current try.
Present(r) ==
    /\ stage[r] = "idle" => try[r] = <<1, 0>> /\ call[Current(r)] = "none"
    /\ stage[r] \in {"idle", "calling", "answered"} => Current(r) \notin timedOut
    /\ stage[r] = "backoff" => HasRetry(r) /\ HasFailed(Current(r))
    /\ stage[r] = "answered" => call[Current(r)] = "ok"
    /\ stage[r] = "raised" =>
          \/ try[r] = <<Chain, MaxRetries>> /\ HasFailed(Current(r))
          \/ call[Current(r)] = "fatal" /\ Current(r) \notin timedOut

\* What still runs is the current call, or timed out.
Runs(r) ==
    \A t \in Try : call[<<r, t>>] = "running" =>
        (t = try[r] /\ stage[r] = "calling") \/ (~Python /\ <<r, t>> \in timedOut)

RequestInv(r) == Past(r) /\ Future(r) /\ Present(r) /\ Runs(r)

ModelInv == ModelTypeOK /\ \A r \in Request : RequestInv(r)
-----------------------------------------------------------------------------
(* Steps of a request leave the invariant of every other one alone.           *)
LEMMA OthersUntouched ==
    ASSUME ModelInv, NEW q \in Request,
           stage'[q] = stage[q], try'[q] = try[q],
           \A t \in Try : /\ call'[<<q, t>>] = call[<<q, t>>]
                          /\ <<q, t>> \in timedOut' <=> <<q, t>> \in timedOut
    PROVE  RequestInv(q)'
<1>1. try[q] \in Try /\ RequestInv(q)
    BY DEF ModelInv, ModelTypeOK
<1>2. Past(q)'
    BY <1>1 DEF RequestInv, Past, HasFailed
<1>3. Future(q)'
    BY <1>1 DEF RequestInv, Future
<1>4. Present(q)'
    BY <1>1 DEF RequestInv, Present, Current, HasFailed, HasRetry
<1>5. Runs(q)'
    BY <1>1 DEF RequestInv, Runs
<1> QED
    BY <1>2, <1>3, <1>4, <1>5 DEF RequestInv

\* Try t is the one that follows the current try of r.
Follows(t, r) ==
    Before(try[r], t) /\ \A u \in Try : Before(u, t) => u = try[r] \/ Before(u, try[r])

\* A step in which r gives its current try up, which leaves calls.
GivenUp(r, calls) ==
    /\ calls \in [Calls -> CallStates] /\ timedOut' \in SUBSET Calls
    /\ \A u \in Try : u # try[r] =>
          /\ calls[<<r, u>>] = call[<<r, u>>]
          /\ <<r, u>> \in timedOut' <=> <<r, u>> \in timedOut
    /\ calls[Current(r)] = "transient" \/ Current(r) \in timedOut'
    /\ calls[Current(r)] = "running" => ~Python /\ Current(r) \in timedOut'

(* A request that goes on from a try it gave up to the one that follows.      *)
LEMMA NextTryStarts ==
    ASSUME ModelInv, NEW r \in Request, NEW t \in Try, NEW calls,
           Follows(t, r), GivenUp(r, calls), StartCall(r, t, calls)
    PROVE  RequestInv(r)'
<1>1. /\ try[r] \in Try /\ RequestInv(r)
      /\ stage'[r] = "calling" /\ try'[r] = t /\ t # try[r]
    <2>1. try[r] \in Try /\ RequestInv(r)
        BY DEF ModelInv, ModelTypeOK
    <2>2. stage'[r] = "calling" /\ try'[r] = t
        BY DEF ModelInv, ModelTypeOK, StartCall
    <2>3. t # try[r]
        BY <2>1 DEF Follows, Before, Try
    <2> QED
        BY <2>1, <2>2, <2>3
<1>2. /\ call'[<<r, t>>] = "running"
      /\ \A u \in Try : u # t => call'[<<r, u>>] = calls[<<r, u>>]
    <2>1. calls \in [Calls -> CallStates] /\ \A u \in Try : <<r, u>> \in Calls
        BY DEF GivenUp, Calls
    <2>2. call' = [calls EXCEPT ![<<r, t>>] = "running"]
        BY DEF StartCall
    <2> HIDE DEF Calls
    <2> QED
        BY <2>1, <2>2
<1>3. Past(r)'
    <2> SUFFICES ASSUME NEW u \in Try, Before(u, t) PROVE HasFailed(<<r, u>>)'
        BY <1>1 DEF Past
    <2>1. u # t
        BY DEF Before, Try
    <2>2. CASE u = try[r]
        BY <1>2, <2>1, <2>2 DEF GivenUp, HasFailed, Current
    <2>3. CASE u # try[r]
        BY <1>1, <1>2, <2>1, <2>3 DEF Follows, GivenUp, HasFailed, RequestInv, Past
    <2> QED
        BY <2>2, <2>3
<1>4. Future(r)'
    <2> SUFFICES ASSUME NEW u \in Try, Before(t, u)
                 PROVE  call'[<<r, u>>] = "none" /\ <<r, u>> \notin timedOut'
        BY <1>1 DEF Future
    <2>1. u # t /\ u # try[r] /\ Before(try[r], u)
        BY <1>1 DEF Before, Try, Follows
    <2> QED
        BY <1>1, <1>2, <2>1 DEF GivenUp, RequestInv, Future
<1>5. Present(r)'
    BY <1>1, <1>2 DEF Present, Current, GivenUp, RequestInv, Future, Follows
<1>6. Runs(r)'
    BY <1>1, <1>2 DEF Runs, GivenUp, RequestInv, Current
<1> QED
    BY <1>3, <1>4, <1>5, <1>6 DEF RequestInv

(* Where the current try stays, its past and its future do.                   *)
LEMMA SameTry ==
    ASSUME ModelInv, NEW r \in Request, try'[r] = try[r],
           \A u \in Try : u # try[r] =>
              /\ call'[<<r, u>>] = call[<<r, u>>]
              /\ <<r, u>> \in timedOut' <=> <<r, u>> \in timedOut,
           Present(r)',
           call'[Current(r)] = "running" =>
              stage'[r] = "calling" \/ (~Python /\ Current(r) \in timedOut')
    PROVE  RequestInv(r)'
<1>1. try[r] \in Try /\ RequestInv(r)
    BY DEF ModelInv, ModelTypeOK
<1>2. ~Before(try[r], try[r])
    BY <1>1 DEF Before, Try
<1>3. Past(r)' /\ Future(r)'
    BY <1>1, <1>2 DEF RequestInv, Past, Future, HasFailed
<1>4. Runs(r)'
    BY <1>1 DEF RequestInv, Runs, Current
<1> QED
    BY <1>3, <1>4 DEF RequestInv

(* What follows a try that was given up: a pause, another model or the error. *)
LEMMA NextTryKeepsInv ==
    ASSUME ModelInv, NEW r \in Request, NEW calls, GivenUp(r, calls), NextTry(r, calls)
    PROVE  RequestInv(r)'
<1>1. try[r] \in Try /\ try[r] = <<try[r][1], try[r][2]>>
    BY DEF ModelInv, ModelTypeOK, Try
<1>2. CASE HasRetry(r) /\ stage' = [stage EXCEPT ![r] = "backoff"] /\ call' = calls /\ try' = try
    <2>1. stage'[r] = "backoff"
        BY <1>2 DEF ModelInv, ModelTypeOK
    <2>2. Present(r)'
        BY <1>2, <2>1 DEF Present, HasRetry, HasFailed, GivenUp, Current
    <2> QED
        BY <1>2, <2>2, SameTry DEF GivenUp
<1>3. CASE /\ ~HasRetry(r) /\ try[r][1] < Chain
           /\ StartCall(r, <<try[r][1] + 1, 0>>, calls)
    <2>1. <<try[r][1] + 1, 0>> \in Try
        BY <1>1, <1>3 DEF Try
    <2>2. Follows(<<try[r][1] + 1, 0>>, r)
        BY <1>1, <1>3 DEF Try, Follows, Before, HasRetry
    <2> QED
        BY <1>3, <2>1, <2>2, NextTryStarts
<1>4. CASE /\ ~HasRetry(r) /\ try[r][1] = Chain
           /\ stage' = [stage EXCEPT ![r] = "raised"] /\ call' = calls /\ try' = try
    <2>1. stage'[r] = "raised"
        BY <1>4 DEF ModelInv, ModelTypeOK
    <2>2. try[r] = <<Chain, MaxRetries>>
        BY <1>1, <1>4 DEF Try, HasRetry
    <2>3. Present(r)'
        BY <1>4, <2>1, <2>2 DEF Present, HasFailed, GivenUp, Current
    <2> QED
        BY <1>4, <2>3, SameTry DEF GivenUp
<1> QED
    BY <1>2, <1>3, <1>4 DEF NextTry
-----------------------------------------------------------------------------
LEMMA InitModelInv == ModelInit => ModelInv
<1> SUFFICES ASSUME ModelInit PROVE ModelInv
    OBVIOUS
<1>1. <<1, 0>> \in Try /\ \A u \in Try : ~Before(u, <<1, 0>>)
    BY DEF Try, Before
<1>2. ModelTypeOK
    BY <1>1 DEF ModelInit, ModelTypeOK, Stages, CallStates
<1>3. ASSUME NEW r \in Request PROVE RequestInv(r)
    <2>1. \A u \in Try : <<r, u>> \in Calls
        BY DEF Calls
    <2> QED
        BY <1>1, <2>1 DEF ModelInit, RequestInv, Past, Future, Present, Runs, Current
<1> QED
    BY <1>2, <1>3 DEF ModelInv

LEMMA StepKeepsType == ModelInv /\ [ModelNext]_modelVars => ModelTypeOK'
<1> SUFFICES ASSUME ModelInv, [ModelNext]_modelVars PROVE ModelTypeOK'
    OBVIOUS
<1> USE DEF ModelTypeOK, Stages, CallStates
<1>1. ModelTypeOK
    BY DEF ModelInv
<1>2. ASSUME NEW r \in Request, NEW t \in Try, NEW calls \in [Calls -> CallStates],
             StartCall(r, t, calls)
      PROVE  /\ stage' \in [Request -> Stages] /\ try' \in [Request -> Try]
             /\ call' \in [Calls -> CallStates]
    BY <1>1, <1>2 DEF StartCall
<1>3. <<1, 0>> \in Try
    BY DEF Try
<1>4. ASSUME NEW r \in Request, NEW calls \in [Calls -> CallStates], NextTry(r, calls)
      PROVE  /\ stage' \in [Request -> Stages] /\ try' \in [Request -> Try]
             /\ call' \in [Calls -> CallStates]
    <2>1. try[r][1] < Chain => <<try[r][1] + 1, 0>> \in Try
        BY <1>1 DEF Try
    <2> QED
        BY <1>1, <1>2, <1>4, <2>1 DEF NextTry
<1>5. ASSUME NEW r \in Request, Begin(r) PROVE ModelTypeOK'
    BY <1>1, <1>2, <1>3, <1>5 DEF Begin
<1>6. ASSUME NEW r \in Request, WakeUp(r) PROVE ModelTypeOK'
    <2>1. <<try[r][1], try[r][2] + 1>> \in Try
        BY <1>1, <1>6 DEF Try, WakeUp, ModelInv, RequestInv, Present, HasRetry
    <2> QED
        BY <1>1, <1>2, <1>6, <2>1 DEF WakeUp
<1>7. ASSUME NEW r \in Request, FailsTransiently(r) PROVE ModelTypeOK'
    BY <1>1, <1>4, <1>7 DEF FailsTransiently
<1>8. ASSUME NEW r \in Request, TimesOut(r) PROVE ModelTypeOK'
    <2>1. Current(r) \in Calls
        BY <1>1 DEF Current, Calls
    <2>2. [call EXCEPT ![Current(r)] = "cancelled"] \in [Calls -> CallStates]
        BY <1>1
    <2> QED
        BY <1>1, <1>4, <1>8, <2>1, <2>2 DEF TimesOut
<1>9. ASSUME NEW r \in Request, FailsForGood(r) \/ Answers(r) PROVE ModelTypeOK'
    BY <1>1, <1>9 DEF FailsForGood, Answers
<1>10. ASSUME NEW x \in Calls, ProviderEnds(x) PROVE ModelTypeOK'
    BY <1>1, <1>10 DEF ProviderEnds
<1>11. CASE UNCHANGED modelVars
    BY <1>1, <1>11 DEF modelVars
<1> QED
    BY <1>5, <1>6, <1>7, <1>8, <1>9, <1>10, <1>11 DEF ModelNext, GoesOn

\* A step of request r does not touch the tries of another.
OnlyTouches(r) ==
    /\ \A q \in Request : q # r => stage'[q] = stage[q] /\ try'[q] = try[q]
    /\ \A q \in Request, t \in Try : q # r =>
          /\ call'[<<q, t>>] = call[<<q, t>>]
          /\ <<q, t>> \in timedOut' <=> <<q, t>> \in timedOut

LEMMA TouchesOneRequest ==
    ASSUME ModelInv, NEW r \in Request, Begin(r) \/ GoesOn(r) \/ Answers(r)
    PROVE  OnlyTouches(r)
<1> USE DEF ModelInv, ModelTypeOK, OnlyTouches, Current
<1>1. \A q \in Request, t \in Try : <<q, t>> \in Calls
    BY DEF Calls
<1>2. ASSUME NEW t, NEW calls \in [Calls -> CallStates],
             \A q \in Request, u \in Try : q # r => calls[<<q, u>>] = call[<<q, u>>]
      PROVE  StartCall(r, t, calls) \/ NextTry(r, calls) =>
                 /\ \A q \in Request : q # r => stage'[q] = stage[q] /\ try'[q] = try[q]
                 /\ \A q \in Request, u \in Try : q # r => call'[<<q, u>>] = call[<<q, u>>]
    BY <1>1, <1>2 DEF StartCall, NextTry
<1>3. CASE Begin(r) \/ WakeUp(r)
    BY <1>2, <1>3 DEF Begin, WakeUp
<1>4. CASE FailsTransiently(r)
    BY <1>2, <1>4 DEF FailsTransiently
<1>5. CASE TimesOut(r)
    BY <1>1, <1>2, <1>5 DEF TimesOut, CallStates
<1>6. CASE FailsForGood(r) \/ Answers(r)
    BY <1>6 DEF FailsForGood, Answers
<1> QED
    BY <1>3, <1>4, <1>5, <1>6 DEF GoesOn

(* The steps of a request keep its own invariant.                             *)
LEMMA RequestGoesOn ==
    ASSUME ModelInv, NEW r \in Request, Begin(r) \/ GoesOn(r) \/ Answers(r)
    PROVE  RequestInv(r)'
<1>1. /\ try[r] \in Try /\ try[r] = <<try[r][1], try[r][2]>> /\ RequestInv(r)
      /\ Current(r) \in Calls /\ call \in [Calls -> CallStates]
      /\ timedOut \in SUBSET Calls /\ stage \in [Request -> Stages]
    BY DEF ModelInv, ModelTypeOK, Current, Calls, Try
<1>2. CASE Begin(r)
    <2>1. /\ stage'[r] = "calling" /\ try' = try /\ try'[r] = try[r]
          /\ call' = [call EXCEPT ![Current(r)] = "running"] /\ timedOut' = timedOut
        BY <1>1, <1>2 DEF Begin, StartCall, RequestInv, Present, Current, ModelInv, ModelTypeOK
    <2>2. \A u \in Try : u # try[r] => call'[<<r, u>>] = call[<<r, u>>]
        BY <1>1, <2>1 DEF Current, Calls
    <2>3. Present(r)'
        BY <1>1, <1>2, <2>1 DEF Begin, RequestInv, Present, Current
    <2> QED
        BY <2>1, <2>2, <2>3, SameTry
<1>3. CASE WakeUp(r)
    <2> DEFINE t == <<try[r][1], try[r][2] + 1>>
    <2>1. HasRetry(r) /\ HasFailed(Current(r)) /\ stage[r] = "backoff"
        BY <1>1, <1>3 DEF WakeUp, RequestInv, Present
    <2>2. t \in Try /\ Follows(t, r)
        BY <1>1, <2>1 DEF Follows, Before, Try, HasRetry
    <2>3. GivenUp(r, call)
        BY <1>1, <1>3, <2>1 DEF WakeUp, GivenUp, HasFailed, RequestInv, Runs, Current
    <2> QED
        BY <1>3, <2>2, <2>3, NextTryStarts DEF WakeUp
<1>4. CASE FailsTransiently(r)
    <2>1. GivenUp(r, call)
        BY <1>1, <1>4 DEF FailsTransiently, GivenUp
    <2> QED
        BY <1>4, <2>1, NextTryKeepsInv DEF FailsTransiently
<1>5. CASE TimesOut(r)
    <2> DEFINE calls == IF Python THEN [call EXCEPT ![Current(r)] = "cancelled"] ELSE call
    <2>1. calls \in [Calls -> CallStates] /\ (calls[Current(r)] = "running" => ~Python)
        BY <1>1 DEF CallStates
    <2>2. \A u \in Try : u # try[r] => <<r, u>> # Current(r) /\ calls[<<r, u>>] = call[<<r, u>>]
        BY <1>1 DEF Current, Calls
    <2>3. timedOut' = timedOut \cup {Current(r)}
        BY <1>5 DEF TimesOut
    <2>4. GivenUp(r, calls)
        BY <1>1, <2>1, <2>2, <2>3 DEF GivenUp
    <2> QED
        BY <1>5, <2>4, NextTryKeepsInv DEF TimesOut
<1>6. CASE FailsForGood(r)
    <2>1. stage'[r] = "raised" /\ stage[r] = "calling" /\ try' = try /\ call' = call
        BY <1>1, <1>6 DEF FailsForGood
    <2>2. Present(r)'
        BY <1>1, <1>6, <2>1 DEF FailsForGood, RequestInv, Present, Current
    <2> QED
        BY <1>6, <2>1, <2>2, SameTry DEF FailsForGood
<1>7. CASE Answers(r)
    <2>1. stage'[r] = "answered" /\ stage[r] = "calling" /\ try' = try /\ call' = call
        BY <1>1, <1>7 DEF Answers, HasAnswer
    <2>2. Present(r)'
        BY <1>1, <1>7, <2>1 DEF Answers, HasAnswer, RequestInv, Present, Current
    <2> QED
        BY <1>7, <2>1, <2>2, SameTry DEF Answers, HasAnswer
<1> QED
    BY <1>2, <1>3, <1>4, <1>5, <1>6, <1>7 DEF GoesOn

LEMMA NextKeepsModelInv == ModelInv /\ [ModelNext]_modelVars => ModelInv'
<1> SUFFICES ASSUME ModelInv, [ModelNext]_modelVars PROVE ModelInv'
    OBVIOUS
<1>1. ModelTypeOK'
    BY StepKeepsType
<1>2. ASSUME NEW r \in Request, Begin(r) \/ GoesOn(r) \/ Answers(r), NEW q \in Request
      PROVE  RequestInv(q)'
    <2>1. CASE q = r
        BY <1>2, <2>1, RequestGoesOn
    <2>2. CASE q # r
        BY <1>2, <2>2, TouchesOneRequest, OthersUntouched DEF OnlyTouches
    <2> QED
        BY <2>1, <2>2
<1>3. ASSUME NEW x \in Calls, ProviderEnds(x), NEW q \in Request
      PROVE  RequestInv(q)'
    <2>1. /\ try[q] \in Try /\ RequestInv(q) /\ Current(q) \in Calls
          /\ \A u \in Try : <<q, u>> \in Calls
          /\ call \in [Calls -> CallStates]
        BY DEF ModelInv, ModelTypeOK, Current, Calls
    <2>2. stage' = stage /\ try' = try /\ timedOut' = timedOut
        BY <1>3 DEF ProviderEnds
    <2>3. PICK end \in {"ok", "transient", "fatal"} : call' = [call EXCEPT ![x] = end]
        BY <1>3 DEF ProviderEnds
    <2>4. call[x] = "running"
        BY <1>3 DEF ProviderEnds
    <2>5. \A u \in Try : \/ call'[<<q, u>>] = call[<<q, u>>]
                         \/ call[<<q, u>>] = "running" /\ call'[<<q, u>>] = end
        BY <2>1, <2>3, <2>4
    <2>6. Past(q)'
        BY <2>1, <2>2, <2>5 DEF RequestInv, Past, HasFailed
    <2>7. Future(q)'
        BY <2>1, <2>2, <2>5 DEF RequestInv, Future
    <2>8. Runs(q)'
        BY <2>1, <2>2, <2>5 DEF RequestInv, Runs
    <2>9. Present(q)'
        BY <2>1, <2>2, <2>5 DEF RequestInv, Present, HasRetry, HasFailed, Current
    <2> QED
        BY <2>6, <2>7, <2>8, <2>9 DEF RequestInv
<1>4. ASSUME UNCHANGED modelVars, NEW q \in Request PROVE RequestInv(q)'
    BY <1>4, OthersUntouched DEF modelVars
<1> QED
    BY <1>1, <1>2, <1>3, <1>4 DEF ModelInv, ModelNext
-----------------------------------------------------------------------------
(* The invariant of requests and of the calls they leave behind.              *)
THEOREM RequestInvariance == ModelSpec => []ModelInv
BY InitModelInv, NextKeepsModelInv, PTL DEF ModelSpec
-----------------------------------------------------------------------------
(***************************************************************************)
(* Under ReplayModel the base model's steps are its own; only the end of    *)
(* the process takes it back to where it began.                             *)
(***************************************************************************)
LEMMA BaseStepsOrRestarts == Next => [ModelNext]_modelVars \/ ModelInit'
<1>1. ASSUME NEW r \in Request, BaseGoesOn(r) \/ Record(r) PROVE ModelNext
    BY <1>1 DEF BaseGoesOn, Record, ModelNext
<1>2. ASSUME NEW r \in Request, NEW k \in Key, Complete(r, k) PROVE [ModelNext]_modelVars
    BY <1>2 DEF Complete, Hit, Miss, ModelNext
<1>3. ASSUME NEW x \in Calls, CallEnds(x) PROVE ModelNext
    BY <1>3 DEF CallEnds, ModelNext
<1>4. ASSUME Stop PROVE ModelInit'
    BY <1>4 DEF Stop, ModelInit
<1>5. Start \/ (\E r \in Request : Replay(r)) => UNCHANGED modelVars
    BY DEF Start, Replay
<1> QED
    BY <1>1, <1>2, <1>3, <1>4, <1>5 DEF Next, StopBetweenWrites, StopInWrite

(* A request under way, and one that was answered, has its hash.              *)
HashesKnown ==
    \A r \in Request : stage[r] # "idle" \/ served[r] # NoAnswer => key[r] \in Key

(* Requests are under way only where there is a process, and so are the keys   *)
(* that only its memory has.                                                  *)
RunsInAProcess == mode = "none" => unsaved = {} /\ \A r \in Request : stage[r] = "idle"

(* What a cassette or file c has for a key was answered to a request of it.   *)
OfItsKey(c) == \A k \in Key : c[k] # NoAnswer => key[c[k]] = k /\ latest[k] # NoAnswer

(* Whoever was answered, its key has a last answer.                           *)
ServedIsKnown == \A r \in Request : served[r] # NoAnswer => latest[key[r]] # NoAnswer

CassetteInv ==
    /\ ServedIsKnown
    /\ OfItsKey(cassette)
    /\ file # Torn => OfItsKey(file)
    /\ mode # "none" => \A k \in Key \ lost : cassette[k] = latest[k]
    /\ \A k \in Key \ (lost \cup unsaved) : file # Torn /\ file[k] = latest[k]

ReplayInv == TypeOK /\ ModelInv /\ HashesKnown /\ RunsInAProcess /\ CassetteInv

LEMMA TornIsNoEntry == ASSUME NEW k \in Key, NEW c \in Entries PROVE c # Torn
BY DEF Entries, Torn

LEMMA InitReplayInv == Init => ReplayInv
<1> SUFFICES ASSUME Init PROVE ReplayInv
    OBVIOUS
<1>1. ModelInv /\ ModelTypeOK
    BY InitModelInv DEF Init, ModelInv
<1>2. TypeOK
    BY <1>1, ReplayAssumption DEF Init, TypeOK, Empty, Entries
<1>3. HashesKnown /\ RunsInAProcess
    BY DEF Init, ModelInit, HashesKnown, RunsInAProcess
<1>4. Empty \in Entries /\ \A k \in Key : Empty[k] = NoAnswer
    BY DEF Empty, Entries
<1>5. CassetteInv
    BY <1>4, TornIsNoEntry DEF Init, CassetteInv, OfItsKey, ServedIsKnown
<1> QED
    BY <1>1, <1>2, <1>3, <1>5 DEF ReplayInv

(* A recorded answer is the last of its key, in the cassette, and in the file *)
(* unless the save raised.                                                    *)
LEMMA RecordKeepsCassetteInv ==
    ASSUME ReplayInv, NEW r \in Request, Record(r)
    PROVE  CassetteInv'
<1> USE DEF ReplayInv
<1>1. key[r] \in Key /\ mode # "none"
    BY DEF Record, Answers, HasAnswer, HashesKnown, RunsInAProcess
<1>2. /\ cassette' = [cassette EXCEPT ![key[r]] = r] /\ latest' = [latest EXCEPT ![key[r]] = r]
      /\ lost' = lost \ {key[r]} /\ key' = key /\ mode' = mode
    BY DEF Record, WithAnswer
<1>3. cassette \in Entries /\ latest \in Entries /\ cassette' \in Entries
    BY <1>1, <1>2 DEF TypeOK, Entries
<1>4. /\ cassette'[key[r]] = r /\ latest'[key[r]] = r
      /\ \A k \in Key \ {key[r]} : cassette'[k] = cassette[k] /\ latest'[k] = latest[k]
    BY <1>1, <1>2, <1>3 DEF Entries
<1>5. OfItsKey(cassette)' /\ ServedIsKnown'
    <2>1. \A q \in Request : served'[q] # NoAnswer => q = r \/ served[q] # NoAnswer
        BY DEF Record, Saves, SaveRaises, TypeOK
    <2>2. r # NoAnswer
        BY ReplayAssumption
    <2>3. \A q \in Request : served[q] # NoAnswer => key[q] \in Key
        BY DEF HashesKnown
    <2>4. ServedIsKnown'
        BY <1>1, <1>2, <1>4, <2>1, <2>2, <2>3 DEF ServedIsKnown, CassetteInv
    <2> QED
        BY <1>1, <1>2, <1>4, <2>2, <2>4 DEF OfItsKey, CassetteInv
<1>6. \A k \in Key \ lost' : cassette'[k] = latest'[k]
    BY <1>1, <1>2, <1>4 DEF CassetteInv
<1>7. CASE Saves(r)
    <2>1. file' = cassette' /\ unsaved' = {}
        BY <1>7 DEF Saves
    <2>2. \A k \in Key : file' # Torn
        BY <1>3, <2>1, TornIsNoEntry
    <2> QED
        BY <1>5, <1>6, <2>1, <2>2 DEF CassetteInv, OfItsKey
<1>8. CASE SaveRaises(r)
    <2>1. \/ file' = file /\ unsaved' = unsaved \cup {key[r]}
          \/ file' = Torn /\ unsaved' = Key
        BY <1>8 DEF SaveRaises
    <2>2. file' # Torn => OfItsKey(file)'
        BY <1>1, <1>2, <1>4, <2>1, ReplayAssumption DEF CassetteInv, OfItsKey
    <2>3. \A k \in Key \ (lost' \cup unsaved') : file' # Torn /\ file'[k] = latest'[k]
        BY <1>2, <1>4, <2>1 DEF CassetteInv
    <2> QED
        BY <1>5, <1>6, <2>2, <2>3 DEF CassetteInv
<1> QED
    BY <1>7, <1>8 DEF Record

LEMMA NextKeepsReplayInv == ReplayInv /\ [Next]_vars => ReplayInv'
<1> SUFFICES ASSUME ReplayInv, [Next]_vars PROVE ReplayInv'
    OBVIOUS
<1> USE DEF ReplayInv
<1>1. ModelInv' /\ ModelTypeOK'
    <2>1. ModelInit' => ModelInv'
        BY InitModelInv, PTL
    <2>2. [ModelNext]_modelVars => ModelInv'
        BY NextKeepsModelInv
    <2> QED
        BY <2>1, <2>2, BaseStepsOrRestarts DEF vars, ModelInv
<1>2. ASSUME NEW r \in Request, BaseGoesOn(r) PROVE ReplayInv'
    <2>1. /\ stage[r] # "idle" /\ UNCHANGED <<mode, key, served, unsaved>>
          /\ \A q \in Request : q # r => stage'[q] = stage[q]
        BY <1>2, TouchesOneRequest
        DEF BaseGoesOn, cassetteVars, GoesOn, FailsTransiently, FailsForGood, TimesOut, WakeUp,
            OnlyTouches
    <2>2. HashesKnown' /\ RunsInAProcess'
        BY <2>1 DEF HashesKnown, RunsInAProcess
    <2> QED
        BY <1>1, <1>2, <2>2 DEF BaseGoesOn, cassetteVars, TypeOK, CassetteInv, OfItsKey, ServedIsKnown
<1>3. ASSUME NEW x \in Calls, CallEnds(x) PROVE ReplayInv'
    BY <1>1, <1>3 DEF CallEnds, ProviderEnds, cassetteVars, TypeOK, CassetteInv, OfItsKey, ServedIsKnown,
           HashesKnown, RunsInAProcess
<1>4. ASSUME NEW r \in Request, NEW k \in Key, Complete(r, k) PROVE ReplayInv'
    <2>1. /\ key[r] = NoKey /\ key' = [key EXCEPT ![r] = k] /\ NoKey \notin Key
          /\ UNCHANGED <<mode, cassette, file, replayed, latest, unsaved, lost, stops>>
        BY <1>4, ReplayAssumption DEF Complete
    <2>2. /\ key'[r] = k /\ \A q \in Request \ {r} : key'[q] = key[q]
        BY <2>1 DEF TypeOK
    <2>3. \/ served' = served
          \/ /\ mode = "auto" /\ cassette[k] # NoAnswer
             /\ served' = [served EXCEPT ![r] = cassette[k]]
        BY <1>4 DEF Complete, Hit, Miss
    <2>4. \A q \in Request : q # r => served'[q] = served[q]
        BY <2>3 DEF TypeOK
    <2>5. TypeOK'
        BY <1>1, <2>1, <2>3 DEF TypeOK, Entries
    <2>7. CassetteInv'
        <3>1. cassette \in Entries /\ (file # Torn => file \in Entries)
            BY DEF TypeOK
        <3>2. OfItsKey(cassette)' /\ (file' # Torn => OfItsKey(file)')
            BY <2>1, <2>2, <3>1, ReplayAssumption DEF OfItsKey, CassetteInv, Entries
        <3>3. ServedIsKnown'
            <4>1. served[r] = NoAnswer
                BY <2>1 DEF HashesKnown
            <4>2. served'[r] # NoAnswer => latest[k] # NoAnswer
                BY <2>3, <4>1 DEF CassetteInv, OfItsKey
            <4> QED
                BY <2>1, <2>2, <2>4, <4>2 DEF ServedIsKnown, CassetteInv
        <3> QED
            BY <2>1, <3>2, <3>3 DEF CassetteInv
    <2>8. HashesKnown'
        <3>1. ASSUME NEW q \in Request, q # r PROVE stage'[q] = stage[q]
            BY <1>4, <3>1 DEF Complete, Hit, Miss, Begin, StartCall, modelVars, TypeOK, ModelTypeOK
        <3> QED
            BY <2>2, <2>4, <3>1 DEF HashesKnown
    <2>9. RunsInAProcess'
        BY <1>4, <2>1 DEF Complete, Hit, Miss, RunsInAProcess, modelVars
    <2> QED
        BY <1>1, <2>5, <2>7, <2>8, <2>9
<1>5. ASSUME NEW r \in Request, Record(r) PROVE ReplayInv'
    <2>1. key[r] \in Key /\ mode # "none"
        BY <1>5 DEF Record, Answers, HasAnswer, HashesKnown, RunsInAProcess
    <2>2. /\ cassette' \in Entries /\ latest' \in Entries /\ lost' \subseteq Key
          /\ UNCHANGED <<mode, key, replayed, stops>>
        BY <1>5, <2>1 DEF Record, WithAnswer, TypeOK, Entries
    <2>3. /\ file' \in Entries \cup {Torn} /\ unsaved' \subseteq Key
          /\ served' = served \/ served' = [served EXCEPT ![r] = r]
        BY <1>5, <2>1, <2>2 DEF Record, Saves, SaveRaises, TypeOK
    <2>4. TypeOK'
        BY <1>1, <2>2, <2>3 DEF TypeOK
    <2>5. HashesKnown'
        <3>1. \A q \in Request : q # r => stage'[q] = stage[q] /\ served'[q] = served[q]
            BY <1>5, <2>3 DEF Record, Answers, TypeOK, ModelTypeOK
        <3> QED
            BY <2>1, <2>2, <3>1 DEF HashesKnown
    <2>6. RunsInAProcess'
        BY <2>1, <2>2 DEF RunsInAProcess
    <2> QED
        BY <1>1, <1>5, <2>4, <2>5, <2>6, RecordKeepsCassetteInv
<1>6. ASSUME Stop, \/ file' = file /\ lost' = lost \cup unsaved
                   \/ file' = Torn /\ lost' = Key
      PROVE  ReplayInv'
    <2>1. /\ UNCHANGED <<key, served, replayed, latest>> /\ cassette' = Empty /\ mode' = "none"
          /\ stops < MaxStops /\ stops' = stops + 1 /\ unsaved' = {}
          /\ \A r \in Request : stage'[r] = "idle"
        BY <1>6 DEF Stop
    <2>2. TypeOK'
        BY <1>1, <1>6, <2>1, ReplayAssumption DEF TypeOK, Empty, Entries
    <2>3. HashesKnown' /\ RunsInAProcess'
        BY <2>1 DEF HashesKnown, RunsInAProcess
    <2>4. CassetteInv'
        BY <1>6, <2>1 DEF CassetteInv, OfItsKey, ServedIsKnown, Empty
    <2> QED
        BY <1>1, <2>2, <2>3, <2>4
<1>7. CASE Start
    <2>1. /\ UNCHANGED <<modelVars, key, file, served, replayed, latest, unsaved, lost, stops>>
          /\ cassette' = Loaded /\ mode' \in {Mode, "replay"} /\ mode' # "none" /\ mode = "none"
        BY <1>7, ReplayAssumption DEF Start
    <2>2. TypeOK'
        BY <1>1, <2>1, ReplayAssumption DEF TypeOK, Loaded, Empty, Entries
    <2>3. CassetteInv'
        BY <2>1 DEF CassetteInv, OfItsKey, ServedIsKnown, Loaded, Empty, RunsInAProcess
    <2>4. HashesKnown' /\ RunsInAProcess'
        BY <2>1 DEF HashesKnown, RunsInAProcess, modelVars
    <2> QED
        BY <1>1, <2>2, <2>3, <2>4
<1>8. ASSUME NEW r \in Request, Replay(r) PROVE ReplayInv'
    <2>1. /\ replayed' = [replayed EXCEPT ![r] = InCassette(key[r])] /\ key[r] \in Key
          /\ UNCHANGED <<modelVars, mode, key, cassette, file, served, latest, unsaved, lost, stops>>
        BY <1>8 DEF Replay, HashesKnown
    <2>2. TypeOK'
        BY <1>1, <2>1 DEF TypeOK, InCassette, Entries
    <2>3. HashesKnown' /\ RunsInAProcess'
        BY <2>1 DEF HashesKnown, RunsInAProcess, modelVars
    <2>4. CassetteInv'
        BY <2>1 DEF CassetteInv, OfItsKey, ServedIsKnown
    <2> QED
        BY <1>1, <2>2, <2>3, <2>4
<1>9. CASE UNCHANGED vars
    BY <1>1, <1>9 DEF vars, cassetteVars, modelVars, TypeOK, CassetteInv, OfItsKey, ServedIsKnown,
           HashesKnown, RunsInAProcess
<1> QED
    BY <1>2, <1>3, <1>4, <1>5, <1>6, <1>7, <1>8, <1>9 DEF Next, StopBetweenWrites, StopInWrite

THEOREM ReplayInvariance == Spec => []ReplayInv
BY InitReplayInv, NextKeepsReplayInv, PTL DEF Spec
-----------------------------------------------------------------------------
(* The next try is made after every earlier one failed, and none is left out, *)
(* also when the process stops and starts over.                               *)
THEOREM OrderOfTries == (ModelSpec => []TriesInOrder) /\ (Spec => []TriesInOrder)
<1>1. ModelInv => TriesInOrder
    BY DEF ModelInv, RequestInv, Past, Future, HasFailed, TriesInOrder
<1>2. ReplayInv => ModelInv
    BY DEF ReplayInv
<1> QED
    BY <1>1, <1>2, RequestInvariance, ReplayInvariance, PTL

(* What complete returns or raises is what became of its last try.            *)
THEOREM ResultOfTheLastTry ==
    (ModelSpec => []ResultIsOfTheLastTry) /\ (Spec => []ResultIsOfTheLastTry)
<1>1. ModelInv => ResultIsOfTheLastTry
    BY DEF ModelInv, RequestInv, Present, ResultIsOfTheLastTry
<1>2. ReplayInv => ModelInv
    BY DEF ReplayInv
<1> QED
    BY <1>1, <1>2, RequestInvariance, ReplayInvariance, PTL

(* Besides the current one, only calls run that timed out without a cancel.   *)
THEOREM StrayCallsTimedOut ==
    (ModelSpec => []OnlyTimedOutCallsRunOn) /\ (Spec => []OnlyTimedOutCallsRunOn)
<1>1. ModelInv => OnlyTimedOutCallsRunOn
    BY DEF ModelInv, RequestInv, Runs, OnlyTimedOutCallsRunOn
<1>2. ReplayInv => ModelInv
    BY DEF ReplayInv
<1> QED
    BY <1>1, <1>2, RequestInvariance, ReplayInvariance, PTL

(* The state of a replaying model has the types that TypeOK gives it.         *)
THEOREM ReplayTypeCorrect == Spec => []TypeOK
<1>1. ReplayInv => TypeOK
    BY DEF ReplayInv
<1> QED
    BY <1>1, ReplayInvariance, PTL

(* The cassette has the last answer recorded for every key, and so has the    *)
(* file, but where a save failed or the process ended within one; for any      *)
(* number of requests, keys, failed saves and ends of the process.             *)
THEOREM CassetteSaved == Spec => []CassetteIsSaved
<1>1. ReplayInv => CassetteIsSaved
    BY DEF ReplayInv, CassetteInv, OfItsKey, CassetteIsSaved
<1> QED
    BY <1>1, ReplayInvariance, PTL

(* Whoever is answered, while recording or in replay mode, gets the last      *)
(* answer recorded for its key, unless that was lost.                          *)
THEOREM AnswersReplayed == Spec => AnswersReproduce
<1>1. ReplayInv /\ [Next]_vars => [
          \A r \in Request : key'[r] \notin lost' =>
              /\ served'[r] # served[r] => served'[r] = latest'[key'[r]]
              /\ replayed'[r] # replayed[r] => replayed'[r] = latest'[key'[r]]]_vars
    <2> SUFFICES ASSUME ReplayInv, [Next]_vars, NEW r \in Request, key'[r] \notin lost'
                 PROVE  /\ served'[r] # served[r] => served'[r] = latest'[key'[r]]
                        /\ replayed'[r] # replayed[r] => replayed'[r] = latest'[key'[r]]
        OBVIOUS
    <2> USE DEF ReplayInv
    <2>1. ASSUME NEW q \in Request, NEW k \in Key, Complete(q, k)
          PROVE  served'[r] # served[r] => served'[r] = latest'[key'[r]]
        <3>1. /\ key' = [key EXCEPT ![q] = k] /\ UNCHANGED <<latest, lost>>
              /\ \/ served' = served
                 \/ mode = "auto" /\ served' = [served EXCEPT ![q] = cassette[k]]
            BY <2>1 DEF Complete, Hit, Miss
        <3>2. CASE r = q
            BY <3>1, <3>2 DEF TypeOK, CassetteInv
        <3>3. CASE r # q
            BY <3>1, <3>3 DEF TypeOK
        <3> QED
            BY <3>2, <3>3
    <2>2. ASSUME NEW q \in Request, Record(q)
          PROVE  served'[r] # served[r] => served'[r] = latest'[key'[r]]
        <3>1. /\ key' = key /\ latest' = [latest EXCEPT ![key[q]] = q] /\ key[q] \in Key
              /\ served' = served \/ served' = [served EXCEPT ![q] = q]
            BY <2>2 DEF Record, Saves, SaveRaises, Answers, HasAnswer, HashesKnown
        <3>2. latest'[key[q]] = q
            BY <3>1 DEF TypeOK, Entries
        <3> QED
            BY <3>1, <3>2 DEF TypeOK
    <2>3. ASSUME NEW q \in Request, Replay(q)
          PROVE  replayed'[r] # replayed[r] => replayed'[r] = latest'[key'[r]]
        <3>1. /\ mode = "replay" /\ key[q] \in Key /\ served[q] # NoAnswer
              /\ UNCHANGED <<key, latest, lost>>
              /\ replayed' = [replayed EXCEPT ![q] = InCassette(key[q])]
            BY <2>3 DEF Replay, HashesKnown
        <3> QED
            BY <3>1 DEF TypeOK, CassetteInv, ServedIsKnown, InCassette
    <2>4. ASSUME NEW q \in Request, BaseGoesOn(q) \/ StopInWrite(q)
          PROVE  UNCHANGED <<served, replayed>>
        BY <2>4 DEF BaseGoesOn, cassetteVars, StopInWrite, Stop
    <2>5. ASSUME NEW x \in Calls, CallEnds(x) PROVE UNCHANGED <<served, replayed>>
        BY <2>5 DEF CallEnds, cassetteVars
    <2>6. StopBetweenWrites \/ Start \/ UNCHANGED vars => UNCHANGED <<served, replayed>>
        BY DEF StopBetweenWrites, Stop, Start, vars, cassetteVars
    <2>7. ASSUME NEW q \in Request, NEW k \in Key, Complete(q, k) PROVE replayed' = replayed
        BY <2>7 DEF Complete
    <2>8. ASSUME NEW q \in Request, Record(q) PROVE replayed' = replayed
        BY <2>8 DEF Record
    <2>9. ASSUME NEW q \in Request, Replay(q) PROVE served' = served
        BY <2>9 DEF Replay
    <2> HIDE DEF ReplayInv
    <2> QED
        BY <2>1, <2>2, <2>3, <2>4, <2>5, <2>6, <2>7, <2>8, <2>9 DEF Next
<1> QED
    BY <1>1, ReplayInvariance, PTL DEF Spec, AnswersReproduce
=============================================================================

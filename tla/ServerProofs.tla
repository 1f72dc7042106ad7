---------------------------- MODULE ServerProofs ----------------------------
(***************************************************************************)
(* The two HTTP servers.                                                    *)
(*                                                                          *)
(* The limiter, for every number of requests, every limit, window and       *)
(* clock: one whose calls run alone keeps its limit.  Then the A2A server,  *)
(* for every cap too: each step of the server is a step of RateLimiter or   *)
(* none of its business, so what is proved of the limiter holds within the  *)
(* server; and agents run for admitted requests only.                       *)
(*                                                                          *)
(* Then the dashboard server, for every set of spans and of browsers and    *)
(* every number of lost connections: what a browser is told is in order and *)
(* complete.  The two servers share no state.                               *)
(***************************************************************************)
EXTENDS A2AServer, LiveTrace, FiniteSetTheorems, NaturalsInduction, WellFoundedInduction,
        SequenceTheorems, TLAPS

USE RateLimiterAssumption

(* Sets of requests are finite, and smaller sets have fewer members.          *)
LEMMA RequestsAreFinite ==
    ASSUME NEW S \in SUBSET Request, NEW R \in SUBSET S
    PROVE  /\ IsFiniteSet(S) /\ Cardinality(S) \in Nat
           /\ IsFiniteSet(R) /\ Cardinality(R) \in Nat
           /\ Cardinality(R) <= Cardinality(S)
BY FS_Subset, FS_CardinalityType

LEMMA WindowIsASetOfRequests ==
    \A t : AllowedWithin(t) \in SUBSET Request
BY DEF AllowedWithin

(* What nobody's decision touches: a step that allows nobody and moves no     *)
(* stamp of an allowed request leaves every window as it was.                 *)
LEMMA WindowUnchanged ==
    ASSUME \A q \in Request :
               /\ pc'[q] = "allowed" <=> pc[q] = "allowed"
               /\ pc[q] = "allowed" => stamp'[q] = stamp[q]
    PROVE  \A t : AllowedWithin(t)' = AllowedWithin(t)
BY DEF AllowedWithin

LEMMA InitIInv == Init => IInv
<1> SUFFICES ASSUME Init PROVE IInv
    OBVIOUS
<1>1. \A t : AllowedWithin(t) = {}
    BY DEF Init, AllowedWithin
<1>2. Cardinality({}) = 0
    BY FS_EmptySet
<1> QED
    BY <1>1, <1>2 DEF Init, IInv, TypeOK, OneAtATime, ReadIsCurrent, HitsAreTheWindow, NeverOverLimit,
                      RejectedOnlyAtTheLimit

(* A request that starts, alone, reads all of its window.                     *)
LEMMA ReadKeepsIInv ==
    ASSUME Atomic, IInv, NEW r \in Request, Read(r)
    PROVE  IInv'
<1> USE DEF IInv, TypeOK
<1>1. TypeOK'
    BY DEF Read, StillInWindow
<1>2. \A t : AllowedWithin(t)' = AllowedWithin(t)
    <2> SUFFICES ASSUME NEW q \in Request
                 PROVE  /\ pc'[q] = "allowed" <=> pc[q] = "allowed"
                        /\ pc[q] = "allowed" => stamp'[q] = stamp[q]
        BY WindowUnchanged
    <2> QED
        BY DEF Read
<1>3. OneAtATime'
    <2> SUFFICES ASSUME NEW q \in Request, pc'[q] = "deciding"
                 PROVE  ReadIsCurrent(q)'
        BY DEF OneAtATime
    <2>1. q = r /\ stamp'[r] = now /\ recent'[r] = StillInWindow(now) /\ hits' = hits /\ now' = now
        BY DEF Read
    <2>2. recent'[r] \subseteq AllowedWithin(now)
        BY <2>1 DEF HitsAreTheWindow, StillInWindow, AllowedWithin
    <2>3. ASSUME NEW p \in Request, pc'[p] = "allowed"
          PROVE  stamp'[p] = stamp[p] /\ stamp[p] <= now /\ (stamp[p] > now - WindowMs => p \in recent'[r])
        BY <2>1, <2>3 DEF Read, HitsAreTheWindow, StillInWindow
    <2> QED
        BY <1>2, <2>1, <2>2, <2>3 DEF Read, StillInWindow, ReadIsCurrent
<1>4. HitsAreTheWindow'
    BY DEF Read, HitsAreTheWindow
<1>5. NeverOverLimit'
    BY <1>2 DEF NeverOverLimit
<1>6. RejectedOnlyAtTheLimit'
    BY <1>2 DEF RejectedOnlyAtTheLimit, Read
<1>7. \A q \in Request : pc'[q] = "allowed" => stamp'[q] <= now'
    BY DEF Read
<1> QED
    BY <1>1, <1>3, <1>4, <1>5, <1>6, <1>7

(* Who is allowed: every window that he is in holds, besides him, only what   *)
(* he had read, and that was less than the limit.                             *)
LEMMA AllowKeepsIInv ==
    ASSUME IInv, NEW r \in Request, Decide(r), Allow(r)
    PROVE  IInv'
<1> USE DEF IInv, TypeOK
<1>1. /\ pc[r] = "deciding" /\ Cardinality(recent[r]) < MaxRequests
      /\ hits' = recent[r] \cup {r} /\ pc' = [pc EXCEPT ![r] = "allowed"]
      /\ UNCHANGED <<now, stamp, recent>>
    <2>1. recent[r] \in SUBSET Request
        OBVIOUS
    <2>2. Cardinality(recent[r]) \in Nat
        BY <2>1, RequestsAreFinite
    <2> QED
        BY <2>2 DEF Decide, Allow, OverLimit
<1>2. TypeOK'
    BY <1>1
<1>3. \A q \in Request : pc'[q] # "deciding"
    BY <1>1 DEF OneAtATime, ReadIsCurrent
<1>4. \A q \in Request : pc[q] = "allowed" =>
          stamp[q] <= stamp[r] /\ (stamp[q] > stamp[r] - WindowMs => q \in recent[r])
    BY <1>1 DEF OneAtATime, ReadIsCurrent
<1>5. stamp[r] <= now /\ recent[r] \subseteq AllowedWithin(stamp[r])
    BY <1>1 DEF OneAtATime, ReadIsCurrent
<1>6. /\ recent[r] \cup {r} \in SUBSET Request
      /\ Cardinality(recent[r] \cup {r}) <= MaxRequests
    <2>1. recent[r] \in SUBSET Request
        OBVIOUS
    <2>2. IsFiniteSet(recent[r]) /\ Cardinality(recent[r]) \in Nat
        BY <2>1, RequestsAreFinite
    <2>3. Cardinality(recent[r] \cup {r}) <= Cardinality(recent[r]) + 1
        <3>1. Cardinality(recent[r] \cup {r}) =
                  IF r \in recent[r] THEN Cardinality(recent[r]) ELSE Cardinality(recent[r]) + 1
            BY <2>2, FS_AddElement, Zenon
        <3> QED
            BY <2>2, <3>1
    <2>4. Cardinality(recent[r] \cup {r}) \in Nat
        BY <2>1, RequestsAreFinite
    <2> QED
        BY <1>1, <2>1, <2>2, <2>3, <2>4
<1>7. HitsAreTheWindow'
    <2>1. \A q \in Request : pc'[q] = "allowed" /\ stamp[q] > now - WindowMs => q \in hits'
        BY <1>1, <1>4, <1>5
    <2>2. \A q \in hits' : pc'[q] = "allowed"
        BY <1>1, <1>5 DEF AllowedWithin
    <2> QED
        BY <1>1, <1>6, <2>1, <2>2 DEF HitsAreTheWindow
<1>8. NeverOverLimit'
    <2> SUFFICES ASSUME NEW t \in 0..MaxTime
                 PROVE  Cardinality(AllowedWithin(t)') <= MaxRequests
        BY DEF NeverOverLimit
    <2>1. CASE r \in AllowedWithin(t)'
        <3>1. AllowedWithin(t)' \subseteq recent[r] \cup {r}
            BY <1>1, <1>4, <2>1 DEF AllowedWithin
        <3>2. Cardinality(AllowedWithin(t)') <= Cardinality(recent[r] \cup {r})
            BY <1>6, <3>1, RequestsAreFinite
        <3>3. Cardinality(AllowedWithin(t)') \in Nat /\ Cardinality(recent[r] \cup {r}) \in Nat
            BY <1>6, <3>1, RequestsAreFinite
        <3> QED
            BY <1>6, <3>2, <3>3
    <2>2. CASE r \notin AllowedWithin(t)'
        <3>1. AllowedWithin(t)' = AllowedWithin(t)
            BY <1>1, <2>2 DEF AllowedWithin
        <3> QED
            BY <3>1 DEF NeverOverLimit
    <2> QED
        BY <2>1, <2>2
<1>9. RejectedOnlyAtTheLimit'
    <2> SUFFICES ASSUME NEW q \in Request, pc'[q] = "rejected"
                 PROVE  Cardinality(AllowedWithin(stamp[q])') >= MaxRequests
        BY <1>1 DEF RejectedOnlyAtTheLimit
    <2>1. pc[q] = "rejected" /\ Cardinality(AllowedWithin(stamp[q])) >= MaxRequests
        BY <1>1 DEF RejectedOnlyAtTheLimit
    <2>2. AllowedWithin(stamp[q]) \subseteq AllowedWithin(stamp[q])'
        BY <1>1 DEF AllowedWithin
    <2>3. AllowedWithin(stamp[q])' \in SUBSET Request
        BY DEF AllowedWithin
    <2>4. /\ Cardinality(AllowedWithin(stamp[q])) <= Cardinality(AllowedWithin(stamp[q])')
          /\ Cardinality(AllowedWithin(stamp[q])) \in Nat /\ Cardinality(AllowedWithin(stamp[q])') \in Nat
        BY <2>2, <2>3, RequestsAreFinite
    <2> QED
        BY <2>1, <2>4
<1> QED
    BY <1>1, <1>2, <1>3, <1>5, <1>7, <1>8, <1>9 DEF OneAtATime, ReadIsCurrent

(* Who is rejected had read max_requests allowed requests of his window.      *)
LEMMA RejectKeepsIInv ==
    ASSUME IInv, NEW r \in Request, Decide(r), Reject(r)
    PROVE  IInv'
<1> USE DEF IInv, TypeOK
<1>1. /\ pc[r] = "deciding" /\ Cardinality(recent[r]) >= MaxRequests
      /\ hits' = recent[r] /\ pc' = [pc EXCEPT ![r] = "rejected"]
      /\ UNCHANGED <<now, stamp, recent>>
    BY DEF Decide, Reject, OverLimit
<1>2. TypeOK'
    BY <1>1
<1>3. \A t : AllowedWithin(t)' = AllowedWithin(t)
    BY <1>1, WindowUnchanged
<1>4. \A q \in Request : pc'[q] # "deciding"
    BY <1>1 DEF OneAtATime, ReadIsCurrent
<1>5. /\ stamp[r] <= now /\ recent[r] \subseteq hits /\ recent[r] \subseteq AllowedWithin(stamp[r])
      /\ \A q \in Request : pc[q] = "allowed" /\ stamp[q] > stamp[r] - WindowMs => q \in recent[r]
    BY <1>1 DEF OneAtATime, ReadIsCurrent
<1>6. HitsAreTheWindow'
    <2>1. Cardinality(hits') <= MaxRequests
        <3>1. hits' \in SUBSET hits /\ hits \in SUBSET Request
            BY <1>1, <1>5
        <3>2. Cardinality(hits') <= Cardinality(hits) /\ Cardinality(hits') \in Nat /\ Cardinality(hits) \in Nat
            BY <3>1, RequestsAreFinite
        <3> QED
            BY <3>2 DEF HitsAreTheWindow
    <2>2. \A q \in Request : pc'[q] = "allowed" /\ stamp[q] > now - WindowMs => q \in hits'
        BY <1>1, <1>5
    <2>3. \A q \in hits' : pc'[q] = "allowed"
        BY <1>1, <1>5 DEF AllowedWithin
    <2> QED
        BY <1>1, <2>1, <2>2, <2>3 DEF HitsAreTheWindow
<1>7. NeverOverLimit'
    BY <1>3 DEF NeverOverLimit
<1>8. RejectedOnlyAtTheLimit'
    <2> SUFFICES ASSUME NEW q \in Request, pc'[q] = "rejected"
                 PROVE  Cardinality(AllowedWithin(stamp[q])) >= MaxRequests
        BY <1>1, <1>3 DEF RejectedOnlyAtTheLimit
    <2>1. CASE q = r
        <3>1. AllowedWithin(stamp[r]) \in SUBSET Request
            BY WindowIsASetOfRequests
        <3>2. /\ Cardinality(recent[r]) <= Cardinality(AllowedWithin(stamp[r]))
              /\ Cardinality(recent[r]) \in Nat /\ Cardinality(AllowedWithin(stamp[r])) \in Nat
            BY <1>5, <3>1, RequestsAreFinite
        <3> QED
            BY <1>1, <2>1, <3>2
    <2>2. CASE q # r
        BY <1>1, <2>2 DEF RejectedOnlyAtTheLimit
    <2> QED
        BY <2>1, <2>2
<1> QED
    BY <1>1, <1>2, <1>4, <1>6, <1>7, <1>8 DEF OneAtATime, ReadIsCurrent

LEMMA TickKeepsIInv ==
    ASSUME IInv, Tick
    PROVE  IInv'
<1> USE DEF IInv, TypeOK
<1>1. \A t : AllowedWithin(t)' = AllowedWithin(t)
    BY DEF Tick, AllowedWithin
<1>2. TypeOK'
    BY DEF Tick
<1>3. OneAtATime'
    BY <1>1 DEF Tick, OneAtATime, ReadIsCurrent
<1>4. HitsAreTheWindow'
    BY DEF Tick, HitsAreTheWindow
<1>5. NeverOverLimit' /\ RejectedOnlyAtTheLimit'
    BY <1>1 DEF Tick, NeverOverLimit, RejectedOnlyAtTheLimit
<1> QED
    BY <1>2, <1>3, <1>4, <1>5 DEF Tick

LEMMA StutterKeepsIInv ==
    ASSUME IInv, UNCHANGED vars
    PROVE  IInv'
<1>1. \A t : AllowedWithin(t)' = AllowedWithin(t)
    BY DEF vars, AllowedWithin
<1> QED
    BY <1>1 DEF vars, IInv, TypeOK, OneAtATime, ReadIsCurrent, HitsAreTheWindow, NeverOverLimit,
                RejectedOnlyAtTheLimit

LEMMA NextKeepsIInv == Atomic /\ IInv /\ [Next]_vars => IInv'
<1> SUFFICES ASSUME Atomic, IInv, [Next]_vars PROVE IInv'
    OBVIOUS
<1>1. ASSUME NEW r \in Request, Read(r) PROVE IInv'
    BY <1>1, ReadKeepsIInv
<1>2. ASSUME NEW r \in Request, Decide(r) PROVE IInv'
    BY <1>2, AllowKeepsIInv, RejectKeepsIInv DEF Decide
<1>3. CASE Tick
    BY <1>3, TickKeepsIInv
<1>4. CASE UNCHANGED vars
    BY <1>4, StutterKeepsIInv
<1> QED
    BY <1>1, <1>2, <1>3, <1>4 DEF Next

(* The invariant of the limiter whose calls run alone.                        *)
THEOREM LimiterInvariance == ASSUME Atomic PROVE Spec => []IInv
BY InitIInv, NextKeepsIInv, PTL DEF Spec

(* No window holds more than max_requests allowed requests (try_acquire).     *)
THEOREM LimiterNeverOverLimit == ASSUME Atomic PROVE Spec => []NeverOverLimit
<1>1. IInv => NeverOverLimit
    BY DEF IInv
<1> QED
    BY <1>1, LimiterInvariance, PTL

(* A rejected request ended a window with max_requests allowed ones in it.    *)
THEOREM LimiterRejectsAtTheLimit == ASSUME Atomic PROVE Spec => []RejectedOnlyAtTheLimit
<1>1. IInv => RejectedOnlyAtTheLimit
    BY DEF IInv
<1> QED
    BY <1>1, LimiterInvariance, PTL
-----------------------------------------------------------------------------
USE A2AServerAssumption

(* Nothing of a handler beyond the limiter changes the limiter's state.       *)
LEMMA StepsOfTheLimiter == ServerNext => [Next]_vars
<1> SUFFICES ASSUME ServerNext PROVE [Next]_vars
    OBVIOUS
<1>1. ASSUME NEW r \in Request, Post(r) PROVE UNCHANGED vars
    BY <1>1 DEF Post, Arrive, limiterVars
<1>2. ASSUME NEW r \in Request, NEW p \in Request, Delegate(p, r) \/ GiveUp(p, r)
      PROVE  UNCHANGED vars
    BY <1>2 DEF Delegate, Arrive, GiveUp, limiterVars
<1>3. ASSUME NEW r \in Request, Handle(r) PROVE [Next]_vars
    <2>1. CASE Unauthorized(r) \/ ReadBody(r) \/ AgentEnds(r)
        BY <2>1 DEF Unauthorized, ReadBody, AgentEnds, limiterVars
    <2>2. CASE TryAcquire(r)
        BY <2>2 DEF TryAcquire, Next
    <2>3. CASE Limited(r)
        BY <2>3 DEF Limited, Next
    <2> QED
        BY <1>3, <2>1, <2>2, <2>3 DEF Handle
<1>4. CASE ClockTicks
    BY <1>4 DEF ClockTicks, Next
<1> QED
    BY <1>1, <1>2, <1>3, <1>4 DEF ServerNext

(* The limiter within the server is the limiter of RateLimiter.               *)
THEOREM ServerUsesLimiter == ServerSpec => Spec
<1>1. ServerInit => Init
    BY DEF ServerInit
<1>2. [ServerNext]_allVars => [Next]_vars
    BY StepsOfTheLimiter DEF allVars, limiterVars
<1> QED
    BY <1>1, <1>2, PTL DEF ServerSpec, Spec

(* A client turned away was so at the limit (RateLimiter's promise, kept      *)
(* within the server).                                                        *)
THEOREM ServerRejectsAtTheLimit ==
    ASSUME Atomic PROVE ServerSpec => []RejectedOnlyAtTheLimit
BY ServerUsesLimiter, LimiterRejectsAtTheLimit, PTL
-----------------------------------------------------------------------------
(***************************************************************************)
(* The server's own invariant.  Agents run for requests that the limiter    *)
(* has admitted and that are not too deep; a delegated request is one       *)
(* deeper than the request whose agent made it.                             *)
(***************************************************************************)
Admitted(r) ==
    stage[r] = "reading" \/ HasRun(r) => pc[r] = "allowed"

RunsWithinCap(r) == HasRun(r) => ~TooDeep(r)

AnsweredOnce(r) == stage[r] # "answered" => status[r] = "none"

DeeperThanCaller(r) ==
    caller[r] \in Request => inbound[r] = Depth(caller[r]) /\ stage[caller[r]] # "none"

ServerInv ==
    /\ ServerTypeOK
    /\ \A r \in Request :
          Admitted(r) /\ RunsWithinCap(r) /\ AnsweredOnce(r) /\ DeeperThanCaller(r)

LEMMA InitServerInv == ServerInit => ServerInv
<1> SUFFICES ASSUME ServerInit PROVE ServerInv
    OBVIOUS
<1>1. TypeOK
    BY InitIInv DEF ServerInit, IInv
<1>2. ServerTypeOK
    BY <1>1 DEF ServerInit, ServerTypeOK, Stages, Statuses
<1>3. \A r \in Request :
          Admitted(r) /\ RunsWithinCap(r) /\ AnsweredOnce(r) /\ DeeperThanCaller(r)
    BY DEF ServerInit, Admitted, HasRun, RunsWithinCap, AnsweredOnce, DeeperThanCaller
<1> QED
    BY <1>2, <1>3 DEF ServerInv

(* The limiter never takes an admission back.                                 *)
LEMMA AdmissionsLast ==
    ASSUME TypeOK, [Next]_vars, NEW r \in Request, pc[r] = "allowed"
    PROVE  pc'[r] = "allowed"
<1>1. ASSUME NEW q \in Request, Read(q) PROVE pc'[r] = "allowed"
    BY <1>1 DEF Read, TypeOK
<1>2. ASSUME NEW q \in Request, Decide(q) PROVE pc'[r] = "allowed"
    BY <1>2 DEF Decide, Allow, Reject, TypeOK
<1> QED
    BY <1>1, <1>2 DEF Next, Tick, vars

(* The handler's last step, and the others.                                   *)
LEMMA RespondKeepsInv ==
    ASSUME ServerInv, TypeOK', [Next]_vars,
           NEW r \in Request, NEW s \in Statuses, Respond(r, s),
           s = "200" => stage[r] = "running"
    PROVE  ServerInv'
<1>1. ServerTypeOK'
    BY DEF ServerInv, ServerTypeOK, Respond, Stages
<1>2. ASSUME NEW q \in Request PROVE Admitted(q)' /\ RunsWithinCap(q)'
    <2>1. /\ stage'[q] = "reading" => stage[q] = "reading"
          /\ HasRun(q)' => HasRun(q)
        BY DEF ServerInv, ServerTypeOK, Respond, HasRun
    <2>2. TooDeep(q)' <=> TooDeep(q)
        BY DEF Respond, TooDeep, Depth
    <2> QED
        BY <2>1, <2>2, AdmissionsLast DEF ServerInv, ServerTypeOK, Admitted, RunsWithinCap
<1>3. ASSUME NEW q \in Request PROVE AnsweredOnce(q)' /\ DeeperThanCaller(q)'
    BY DEF ServerInv, ServerTypeOK, Respond, AnsweredOnce, DeeperThanCaller, Depth
<1> QED
    BY <1>1, <1>2, <1>3 DEF ServerInv

LEMMA GoToKeepsInv ==
    ASSUME ServerInv, TypeOK', [Next]_vars,
           NEW r \in Request, stage[r] # "answered",
           NEW s \in {"reading", "running", "dropped"}, GoTo(r, s),
           s = "reading" => pc'[r] = "allowed",
           s = "running" => stage[r] = "reading" /\ ~TooDeep(r)
    PROVE  ServerInv'
<1>1. ServerTypeOK'
    BY DEF ServerInv, ServerTypeOK, GoTo, Stages
<1>2. ASSUME NEW q \in Request PROVE Admitted(q)' /\ RunsWithinCap(q)'
    <2>1. TooDeep(q)' <=> TooDeep(q)
        BY DEF GoTo, TooDeep, Depth
    <2>2. CASE q = r
        BY <2>1, <2>2, AdmissionsLast
        DEF ServerInv, ServerTypeOK, Admitted, RunsWithinCap, HasRun, GoTo
    <2>3. CASE q # r
        BY <2>1, <2>3, AdmissionsLast
        DEF ServerInv, ServerTypeOK, Admitted, RunsWithinCap, HasRun, GoTo
    <2> QED
        BY <2>2, <2>3
<1>3. ASSUME NEW q \in Request PROVE AnsweredOnce(q)' /\ DeeperThanCaller(q)'
    BY DEF ServerInv, ServerTypeOK, GoTo, AnsweredOnce, DeeperThanCaller, Depth
<1> QED
    BY <1>1, <1>2, <1>3 DEF ServerInv

(* A step of the limiter alone, of the clock, or a caller that gives up.      *)
LEMMA ElsewhereKeepsInv ==
    ASSUME ServerInv, TypeOK', [Next]_vars, given' \in SUBSET Request,
           UNCHANGED <<runtime, stage, status, inbound, caller>>
    PROVE  ServerInv'
<1>1. ServerTypeOK'
    BY DEF ServerInv, ServerTypeOK
<1>2. ASSUME NEW q \in Request
      PROVE  Admitted(q)' /\ RunsWithinCap(q)' /\ AnsweredOnce(q)' /\ DeeperThanCaller(q)'
    BY AdmissionsLast DEF ServerInv, ServerTypeOK, Admitted, RunsWithinCap, AnsweredOnce,
                          DeeperThanCaller, HasRun, TooDeep, Depth
<1> QED
    BY <1>1, <1>2 DEF ServerInv

LEMMA ArriveKeepsInv ==
    ASSUME ServerInv, NEW r \in Request, NEW p \in Request \cup {Outside},
           NEW d \in Int, Arrive(r, p, d),
           p \in Request => stage[p] = "running" /\ d = Depth(p)
    PROVE  ServerInv'
<1>1. ServerTypeOK'
    BY DEF ServerInv, ServerTypeOK, TypeOK, Arrive, Stages, limiterVars, vars
<1>2. ASSUME NEW q \in Request PROVE Admitted(q)' /\ RunsWithinCap(q)'
    BY DEF ServerInv, ServerTypeOK, Arrive, limiterVars, vars, Admitted, RunsWithinCap, HasRun,
           AnsweredOnce, TooDeep, Depth
<1>3. ASSUME NEW q \in Request PROVE AnsweredOnce(q)' /\ DeeperThanCaller(q)'
    BY DEF ServerInv, ServerTypeOK, Arrive, AnsweredOnce, DeeperThanCaller, Depth
<1> QED
    BY <1>1, <1>2, <1>3 DEF ServerInv

LEMMA ServerNextKeepsInv ==
    ASSUME ServerInv, TypeOK', [ServerNext]_allVars PROVE ServerInv'
<1>1. [Next]_vars
    BY StepsOfTheLimiter DEF allVars, limiterVars
<1>2. ASSUME NEW r \in Request, Post(r) PROVE ServerInv'
    BY <1>2, ArriveKeepsInv, A2AServerAssumption DEF Post
<1>3. ASSUME NEW p \in Request, NEW r \in Request, Delegate(p, r) PROVE ServerInv'
    <2>1. stage[p] = "running" /\ Arrive(r, p, Depth(p))
        BY <1>3 DEF Delegate, AtWork
    <2>2. Depth(p) \in Int
        BY DEF ServerInv, ServerTypeOK, Depth
    <2> QED
        BY <2>1, <2>2, ArriveKeepsInv
<1>4. ASSUME NEW p \in Request, NEW r \in Request, GiveUp(p, r) PROVE ServerInv'
    BY <1>1, <1>4, ElsewhereKeepsInv DEF GiveUp, ServerInv, ServerTypeOK
<1>5. ASSUME NEW r \in Request, Handle(r) PROVE ServerInv'
    <2>1. CASE Unauthorized(r)
        BY <1>1, <2>1, RespondKeepsInv DEF Unauthorized, Statuses
    <2>2. CASE TryAcquire(r)
        BY <1>1, <2>2, ElsewhereKeepsInv DEF TryAcquire, serverVars, ServerInv, ServerTypeOK
    <2>3. CASE Limited(r)
        BY <1>1, <2>3, RespondKeepsInv, GoToKeepsInv DEF Limited, Statuses, Stages
    <2>4. CASE ReadBody(r)
        BY <1>1, <2>4, RespondKeepsInv, GoToKeepsInv DEF ReadBody, NoObject, Statuses, Stages
    <2>5. CASE AgentEnds(r)
        BY <1>1, <2>5, RespondKeepsInv DEF AgentEnds, AtWork, Statuses
    <2> QED
        BY <1>5, <2>1, <2>2, <2>3, <2>4, <2>5 DEF Handle
<1>6. CASE ClockTicks
    BY <1>1, <1>6, ElsewhereKeepsInv DEF ClockTicks, serverVars, ServerInv, ServerTypeOK
<1>7. CASE UNCHANGED allVars
    BY <1>1, <1>7, ElsewhereKeepsInv DEF allVars, serverVars, ServerInv, ServerTypeOK
<1> QED
    BY <1>2, <1>3, <1>4, <1>5, <1>6, <1>7 DEF ServerNext

(* The invariant of a server whose limiter runs alone.                        *)
THEOREM ServerInvariance == ASSUME Atomic PROVE ServerSpec => [](IInv /\ ServerInv)
<1>1. IInv => TypeOK
    BY DEF IInv
<1> QED
    BY <1>1, InitServerInv, ServerNextKeepsInv, LimiterInvariance, ServerUsesLimiter, PTL
    DEF ServerSpec

(* Type correctness of the server, at whatever depth its callers claim to be. *)
THEOREM ServerTypeCorrect == ASSUME Atomic PROVE ServerSpec => []ServerTypeOK
<1>1. ServerInv => ServerTypeOK
    BY DEF ServerInv
<1> QED
    BY <1>1, ServerInvariance, PTL

(* No window holds more requests that got an agent than the limit: what is    *)
(* admitted is within it, and agents run for what is admitted.                *)
THEOREM ServesWithinLimit == ASSUME Atomic PROVE ServerSpec => []ServedWithinLimit
<1>1. IInv /\ ServerInv => ServedWithinLimit
    <2> SUFFICES ASSUME IInv, ServerInv, NEW t \in 0..MaxTime
                 PROVE  Cardinality(ServedWithin(t)) <= MaxRequests
        BY DEF ServedWithinLimit
    <2>1. ServedWithin(t) \in SUBSET AllowedWithin(t)
        BY DEF ServedWithin, AllowedWithin, ServerInv, Admitted
    <2>2. /\ Cardinality(ServedWithin(t)) \in Nat /\ Cardinality(AllowedWithin(t)) \in Nat
          /\ Cardinality(ServedWithin(t)) <= Cardinality(AllowedWithin(t))
        BY <2>1, WindowIsASetOfRequests, RequestsAreFinite
    <2>3. Cardinality(AllowedWithin(t)) <= MaxRequests
        BY DEF IInv, NeverOverLimit
    <2> QED
        BY <2>2, <2>3, RateLimiterAssumption
<1> QED
    BY <1>1, ServerInvariance, PTL
-----------------------------------------------------------------------------
(* Every set of numbers that has a member has a least one.                    *)
LEMMA LeastNumber ==
    ASSUME NEW S \in SUBSET Nat, S # {}
    PROVE  \E m \in S : \A k \in S : m <= k
<1>1. PICK m \in S : \A k \in S : <<k, m>> \notin OpToRel(<, Nat)
    BY NatLessThanWellFounded, WFMin, Zenon
<1>2. \A k \in S : ~(k < m)
    BY <1>1, Zenon DEF OpToRel
<1> QED
    BY <1>2

(* Along a chain of delegations, each agent is one deeper than the one before. *)
LEMMA ChainsDeepen ==
    ASSUME ServerInv, NEW n \in Nat, NEW q \in [1..n -> Request], Chain(q, n)
    PROVE  \A i \in 1..n : Depth(q[i]) = inbound[q[1]] + i
<1> DEFINE Astray == {i \in 1..n : ~(Depth(q[i]) = inbound[q[1]] + i)}
<1>1. SUFFICES ASSUME Astray # {} PROVE FALSE
    OBVIOUS
<1>2. PICK i \in Astray : \A k \in Astray : i <= k
    <2>1. Astray \in SUBSET Nat
        OBVIOUS
    <2> HIDE DEF Astray
    <2> QED
        BY <1>1, <2>1, LeastNumber
<1>3. i \in 1..n /\ ~(Depth(q[i]) = inbound[q[1]] + i) /\ q[i] \in Request
    OBVIOUS
<1>4. CASE i = 1
    BY <1>3, <1>4 DEF Depth
<1>5. CASE i # 1
    <2>1. i - 1 \in 1..n /\ i - 1 \in 1..(n - 1) /\ q[i - 1] \in Request /\ q[1] \in Request
        BY <1>3, <1>5
    <2>2. i - 1 \notin Astray
        BY <1>2, <1>3
    <2>3. Depth(q[i - 1]) = inbound[q[1]] + (i - 1)
        BY <2>1, <2>2
    <2>4. caller[q[i]] = q[i - 1]
        BY <2>1 DEF Chain
    <2>5. inbound[q[i]] = Depth(q[i - 1])
        BY <1>3, <2>1, <2>4 DEF ServerInv, DeeperThanCaller
    <2>6. inbound[q[1]] \in Int
        BY <2>1 DEF ServerInv, ServerTypeOK
    <2> QED
        BY <1>3, <2>3, <2>5, <2>6 DEF Depth
<1> QED
    BY <1>4, <1>5

(* The n-th agent of a chain runs only if n, with the depth that was stated to *)
(* the first, is within the cap; over however many servers.                    *)
THEOREM BoundedChains == ASSUME Atomic PROVE ServerSpec => []ChainsAreBounded
<1>1. ServerInv => ChainsAreBounded
    <2> SUFFICES ASSUME ServerInv, NEW n \in 1..Cardinality(Request),
                        NEW q \in [1..n -> Request], Chain(q, n), HasRun(q[n])
                 PROVE  inbound[q[1]] + n <= MaxDelegationDepth
        BY DEF ChainsAreBounded
    <2>1. n \in Nat /\ n \in 1..n /\ q[n] \in Request /\ q[1] \in Request
        BY RequestsAreFinite
    <2>2. Depth(q[n]) = inbound[q[1]] + n
        BY <2>1, ChainsDeepen
    <2>3. ~(Depth(q[n]) > MaxDelegationDepth)
        BY <2>1 DEF ServerInv, RunsWithinCap, TooDeep
    <2>4. inbound[q[1]] \in Int
        BY <2>1 DEF ServerInv, ServerTypeOK
    <2> QED
        BY <2>1, <2>2, <2>3, <2>4
<1> QED
    BY <1>1, ServerInvariance, PTL
-----------------------------------------------------------------------------
(***************************************************************************)
(* The inductive invariant.  What is on its way to a browser is in order:   *)
(* no span is announced as open behind its end, and behind done nothing is  *)
(* said of a span.  What the browser is told of has happened, and what has  *)
(* happened it was told, or is in the backlog, or fell in the gap.          *)
(***************************************************************************)
NothingStale(b) ==
    \A s \in Span, i \in DOMAIN stream[b] :
        stream[b][i] = <<s, "open">> =>
            /\ page[b][s] # "ended"
            /\ \A j \in 1..(i - 1) : stream[b][j] # <<s, "ended">>

OnlyTheEndedIsTold(b) == \A s \in Span : Reaches(b, s) => span[s] = "ended"

DoneIsLast(b) ==
    \A i \in DOMAIN stream[b] :
        /\ stream[b][i] \in {Done, End} => conn[b] = "live"
        /\ stream[b][i] = Done =>
              over /\ \A j \in (i + 1)..Len(stream[b]) : stream[b][j] \notin SpanEvents

BacklogHasStarted(b) == \A s \in backlog[b] : span[s] # "none"

Accounted(b, s) ==
    \/ Reaches(b, s) \/ (python /\ s \in gap[b])
    \/ conn[b] = "closed" \/ (conn[b] = "backlog" /\ s \in backlog[b])

NothingIsForgotten(b) ==
    /\ conn[b] = "finished" => over
    /\ \A s \in Span : span[s] = "ended" /\ s # ending => Accounted(b, s)

RunInOrder == ending # NoSpan => span[ending] = "ended" /\ ~over

BrowserInv(b) ==
    /\ NothingStale(b) /\ OnlyTheEndedIsTold(b) /\ DoneIsLast(b)
    /\ BacklogHasStarted(b) /\ NothingIsForgotten(b)

TraceInv == TraceTypeOK /\ RunInOrder /\ \A b \in Browser : BrowserInv(b)

LEMMA EventsDiffer ==
    /\ Done # End /\ Done \notin SpanEvents /\ End \notin SpanEvents
    /\ Done \in Events /\ End \in Events /\ SpanEvents \subseteq Events
    /\ \A s \in Span : <<s, "ended">> \in SpanEvents /\ <<s, "open">> \in SpanEvents
    /\ \A s, t \in Span : <<s, "ended">> # <<t, "open">>
    /\ \A e \in SpanEvents : e = <<e[1], e[2]>> /\ e[1] \in Span /\ e[2] \in {"open", "ended"}
<1>1. Done # End
    BY DEF Done, End
<1>2. Done \notin SpanEvents /\ End \notin SpanEvents
    BY DEF Done, End, SpanEvents
<1> QED
    BY <1>1, <1>2 DEF SpanEvents, Events

(* What a step does not touch, it does not break.                             *)
LEMMA BrowserUntouched ==
    ASSUME NEW b \in Browser, BrowserInv(b),
           UNCHANGED <<python, span, ending>>, over => over',
           conn'[b] = conn[b], backlog'[b] = backlog[b], stream'[b] = stream[b],
           page'[b] = page[b], gap'[b] = gap[b]
    PROVE  BrowserInv(b)'
BY DEF BrowserInv, NothingStale, OnlyTheEndedIsTold, DoneIsLast, BacklogHasStarted,
       NothingIsForgotten, Accounted, Reaches

(* A stream and one event more.                                               *)
LEMMA StreamGrows ==
    ASSUME TraceTypeOK, NEW b \in Browser, NEW e \in Events, stream'[b] = Append(stream[b], e)
    PROVE  /\ stream'[b] \in Seq(Events)
           /\ Len(stream[b]) \in Nat /\ Len(stream'[b]) = Len(stream[b]) + 1
           /\ DOMAIN stream[b] = 1..Len(stream[b]) /\ DOMAIN stream'[b] = 1..(Len(stream[b]) + 1)
           /\ \A i \in 1..Len(stream[b]) : stream'[b][i] = stream[b][i]
           /\ stream'[b][Len(stream[b]) + 1] = e
           /\ Range(stream'[b]) = Range(stream[b]) \cup {e}
<1>1. stream[b] \in Seq(Events)
    BY DEF TraceTypeOK
<1> DEFINE t == stream[b]
           u == Append(t, e)
<1>2. /\ u \in Seq(Events) /\ Len(t) \in Nat /\ Len(u) = Len(t) + 1
      /\ \A i \in 1..Len(t) : u[i] = t[i]
      /\ u[Len(t) + 1] = e
    BY <1>1, AppendProperties, LenProperties
<1>3. DOMAIN t = 1..Len(t) /\ DOMAIN u = 1..Len(u)
    BY <1>1, <1>2, LenProperties
<1> HIDE DEF t, u
<1>4. Range(u) = Range(t) \cup {e}
    BY <1>2, <1>3 DEF Range
<1> QED
    BY <1>2, <1>3, <1>4 DEF t, u

LEMMA SendingKeepsOrder ==
    ASSUME TraceTypeOK, NEW b \in Browser, BrowserInv(b),
           NEW e \in Events, stream'[b] = Append(stream[b], e),
           page'[b] = page[b], conn'[b] = conn[b], over => over',
           e \in {Done, End} => conn[b] = "live", e = Done => over',
           e \in SpanEvents => \A i \in DOMAIN stream[b] : stream[b][i] # Done,
           \A s \in Span : e = <<s, "open">> => ~Reaches(b, s)
    PROVE  /\ NothingStale(b)' /\ DoneIsLast(b)'
           /\ \A s \in Span : Reaches(b, s)' <=> Reaches(b, s) \/ e = <<s, "ended">>
<1> DEFINE L == Len(stream[b])
<1>1. /\ L \in Nat /\ Len(stream'[b]) = L + 1
      /\ DOMAIN stream[b] = 1..L /\ DOMAIN stream'[b] = 1..(L + 1)
      /\ \A i \in 1..L : stream'[b][i] = stream[b][i]
      /\ stream'[b][L + 1] = e
      /\ Range(stream'[b]) = Range(stream[b]) \cup {e}
    BY StreamGrows
<1>2. \A s \in Span : Reaches(b, s)' <=> Reaches(b, s) \/ e = <<s, "ended">>
    BY <1>1 DEF Reaches
<1>3. NothingStale(b)'
    <2> SUFFICES ASSUME NEW s \in Span, NEW i \in 1..(L + 1), stream'[b][i] = <<s, "open">>
                 PROVE  page'[b][s] # "ended" /\ \A j \in 1..(i - 1) : stream'[b][j] # <<s, "ended">>
        BY <1>1 DEF NothingStale
    <2>1. CASE i \in 1..L
        <3>1. stream[b][i] = <<s, "open">>
            BY <1>1, <2>1
        <3>2. page[b][s] # "ended" /\ \A j \in 1..(i - 1) : stream[b][j] # <<s, "ended">>
            BY <1>1, <2>1, <3>1 DEF BrowserInv, NothingStale
        <3>3. 1..(i - 1) \subseteq 1..L
            BY <1>1, <2>1
        <3> HIDE DEF L
        <3> QED
            BY <1>1, <3>2, <3>3
    <2>2. CASE i = L + 1
        <3>1. ~Reaches(b, s)
            BY <1>1, <2>2
        <3>2. \A j \in 1..L : stream[b][j] # <<s, "ended">>
            BY <1>1, <3>1 DEF Reaches, Range
        <3> QED
            BY <1>1, <2>2, <3>1, <3>2 DEF Reaches
    <2> QED
        BY <1>1, <2>1, <2>2
<1>4. DoneIsLast(b)'
    <2> SUFFICES ASSUME NEW i \in 1..(L + 1)
                 PROVE  /\ stream'[b][i] \in {Done, End} => conn'[b] = "live"
                        /\ stream'[b][i] = Done =>
                              over' /\ \A j \in (i + 1)..(L + 1) : stream'[b][j] \notin SpanEvents
        BY <1>1 DEF DoneIsLast
    <2>1. CASE i = L + 1
        BY <1>1, <2>1
    <2>2. CASE i \in 1..L
        <3>1. stream[b][i] = Done => e \notin SpanEvents
            BY <1>1, <2>2
        <3>2. ASSUME stream[b][i] = Done, NEW j \in (i + 1)..(L + 1) PROVE stream'[b][j] \notin SpanEvents
            <4>1. CASE j = L + 1
                BY <1>1, <3>1, <3>2, <4>1
            <4>2. CASE j \in (i + 1)..L
                BY <1>1, <2>2, <3>2, <4>2 DEF BrowserInv, DoneIsLast
            <4> QED
                BY <1>1, <4>1, <4>2
        <3> QED
            BY <1>1, <2>2, <3>2 DEF BrowserInv, DoneIsLast
    <2> QED
        BY <1>1, <2>1, <2>2
<1> QED
    BY <1>2, <1>3, <1>4
-----------------------------------------------------------------------------
LEMMA InitTraceInv == TraceInit => TraceInv
<1> SUFFICES ASSUME TraceInit PROVE TraceInv
    OBVIOUS
<1>1. TraceTypeOK
    <2>1. <<>> \in Seq(Events)
        OBVIOUS
    <2>2. [b \in Browser |-> <<>>] \in [Browser -> Seq(Events)]
        BY <2>1
    <2>3. stream \in [Browser -> Seq(Events)]
        BY <2>2 DEF TraceInit
    <2>4. page \in [Browser -> [Span -> States]]
        BY DEF TraceInit, States
    <2>5. losses \in 0..MaxLosses
        BY LiveTraceAssumption DEF TraceInit
    <2> QED
        BY <2>3, <2>4, <2>5 DEF TraceInit, TraceTypeOK, States, Conns
<1>2. RunInOrder
    BY DEF TraceInit, RunInOrder
<1>3. ASSUME NEW b \in Browser PROVE BrowserInv(b)
    <2>1. stream[b] = <<>> /\ DOMAIN stream[b] = {} /\ Range(stream[b]) = {}
        <3>1. stream[b] = <<>>
            BY DEF TraceInit
        <3>2. DOMAIN <<>> = {}
            OBVIOUS
        <3> QED
            BY <3>1, <3>2 DEF Range
    <2>2. /\ NothingStale(b) /\ OnlyTheEndedIsTold(b) /\ DoneIsLast(b)
        BY <2>1 DEF TraceInit, NothingStale, OnlyTheEndedIsTold, DoneIsLast, Reaches
    <2>3. BacklogHasStarted(b) /\ NothingIsForgotten(b)
        BY DEF TraceInit, BacklogHasStarted, NothingIsForgotten
    <2> QED
        BY <2>2, <2>3 DEF BrowserInv
<1> QED
    BY <1>1, <1>2, <1>3 DEF TraceInv

(* The run.                                                                   *)
LEMMA RunKeeps ==
    ASSUME TraceInv, NEW s \in Span, StartSpan(s) \/ EndSpan(s)
    PROVE  TraceInv'
<1>1. TraceTypeOK'
    BY DEF TraceInv, TraceTypeOK, StartSpan, EndSpan, States
<1>2. RunInOrder'
    BY DEF TraceInv, TraceTypeOK, RunInOrder, StartSpan, EndSpan
<1>3. ASSUME NEW b \in Browser PROVE BrowserInv(b)'
    <2>1. /\ UNCHANGED <<python, over, conn, backlog, stream, page, gap>>
          /\ \A t \in Span : Reaches(b, t)' <=> Reaches(b, t)
        BY DEF StartSpan, EndSpan, Reaches
    <2>2. \A t \in Span :
             /\ span[t] # "none" => span'[t] # "none"
             /\ span[t] = "ended" => span'[t] = "ended"
             /\ span'[t] = "ended" /\ t # ending' => span[t] = "ended" /\ t # ending
        BY LiveTraceAssumption DEF StartSpan, EndSpan, TraceInv, TraceTypeOK
    <2>3. NothingStale(b)' /\ DoneIsLast(b)'
        BY <2>1 DEF TraceInv, BrowserInv, NothingStale, DoneIsLast
    <2>4. OnlyTheEndedIsTold(b)'
        BY <2>1, <2>2 DEF TraceInv, BrowserInv, OnlyTheEndedIsTold
    <2>5. BacklogHasStarted(b)'
        BY <2>1, <2>2 DEF TraceInv, TraceTypeOK, BrowserInv, BacklogHasStarted
    <2>6. NothingIsForgotten(b)'
        BY <2>1, <2>2 DEF TraceInv, BrowserInv, NothingIsForgotten, Accounted
    <2> QED
        BY <2>3, <2>4, <2>5, <2>6 DEF BrowserInv
<1> QED
    BY <1>1, <1>2, <1>3 DEF TraceInv

LEMMA BroadcastTypes ==
    ASSUME TraceTypeOK, NEW e \in Events, Broadcast(e)
    PROVE  /\ stream' \in [Browser -> Seq(Events)]
           /\ \A b \in Browser :
                 stream'[b] = IF conn[b] = "live" THEN Append(stream[b], e) ELSE stream[b]
<1>1. \A b \in Browser : stream[b] \in Seq(Events) /\ Append(stream[b], e) \in Seq(Events)
    BY DEF TraceTypeOK
<1> QED
    BY <1>1 DEF Broadcast, Clients

LEMMA CallListenersKeeps == ASSUME TraceInv, CallListeners PROVE TraceInv'
<1>1. /\ ending \in Span /\ ending' = NoSpan /\ <<ending, "ended">> \in Events /\ span[ending] = "ended"
      /\ ~over /\ UNCHANGED <<python, span, over, closed, conn, backlog, page, losses>>
    BY EventsDiffer DEF CallListeners, TraceInv, TraceTypeOK, RunInOrder
<1>2. /\ stream' \in [Browser -> Seq(Events)]
      /\ \A b \in Browser :
            stream'[b] = IF conn[b] = "live" THEN Append(stream[b], <<ending, "ended">>) ELSE stream[b]
    BY <1>1, BroadcastTypes DEF CallListeners, TraceInv
<1>3. TraceTypeOK'
    BY <1>1, <1>2 DEF CallListeners, TraceInv, TraceTypeOK
<1>4. RunInOrder'
    BY <1>1 DEF RunInOrder
<1>5. ASSUME NEW b \in Browser PROVE BrowserInv(b)'
    <2>1. CASE conn[b] = "live"
        <3>1. \A i \in DOMAIN stream[b] : stream[b][i] # Done
            BY <1>1 DEF TraceInv, BrowserInv, DoneIsLast
        <3>2. /\ <<ending, "ended">> \notin {Done, End}
              /\ \A s \in Span : <<ending, "ended">> # <<s, "open">>
            BY <1>1, EventsDiffer
        <3>3. /\ NothingStale(b)' /\ DoneIsLast(b)'
              /\ \A s \in Span : Reaches(b, s)' <=> Reaches(b, s) \/ <<ending, "ended">> = <<s, "ended">>
            BY <1>1, <1>2, <2>1, <3>1, <3>2, SendingKeepsOrder DEF TraceInv
        <3>4. \A s \in Span : Reaches(b, s)' <=> Reaches(b, s) \/ s = ending
            BY <1>1, <3>3
        <3>5. gap'[b] = gap[b]
            BY <2>1 DEF CallListeners, Handling, TraceInv, TraceTypeOK
        <3>6. OnlyTheEndedIsTold(b)'
            BY <1>1, <3>4 DEF TraceInv, BrowserInv, OnlyTheEndedIsTold
        <3>7. BacklogHasStarted(b)' /\ NothingIsForgotten(b)'
            BY <1>1, <3>4, <3>5
               DEF TraceInv, BrowserInv, BacklogHasStarted, NothingIsForgotten, Accounted
        <3> QED
            BY <3>3, <3>6, <3>7 DEF BrowserInv
    <2>2. CASE conn[b] # "live"
        <3>1. /\ stream'[b] = stream[b] /\ gap[b] \subseteq gap'[b]
              /\ conn[b] = "backlog" => python /\ ending \in gap'[b]
            BY <1>2, <2>2 DEF CallListeners, RunMayAct, Handling
        <3>2. /\ NothingStale(b)' /\ DoneIsLast(b)' /\ OnlyTheEndedIsTold(b)' /\ BacklogHasStarted(b)'
            BY <1>1, <3>1 DEF TraceInv, BrowserInv, NothingStale, DoneIsLast, OnlyTheEndedIsTold,
                              BacklogHasStarted, Reaches
        <3>3. conn[b] \in {"backlog", "closed"}
            BY <1>1, <2>2 DEF TraceInv, TraceTypeOK, Conns, BrowserInv, NothingIsForgotten
        <3>4. NothingIsForgotten(b)'
            BY <1>1, <3>1, <3>3
               DEF TraceInv, BrowserInv, NothingIsForgotten, Accounted, Reaches
        <3> QED
            BY <3>2, <3>4 DEF BrowserInv
    <2> QED
        BY <2>1, <2>2
<1> QED
    BY <1>3, <1>4, <1>5 DEF TraceInv

LEMMA RunEndsKeeps == ASSUME TraceInv, RunIsDone \/ Close PROVE TraceInv'
<1>1. /\ UNCHANGED <<python, span, ending, conn, backlog, page, gap, losses>>
      /\ over => over'
      /\ over' => ending = NoSpan
    BY DEF RunIsDone, Close, TraceInv, TraceTypeOK, RunInOrder
<1>2. PICK e \in {Done, End} : Broadcast(e) /\ (e = Done => over')
    BY EventsDiffer DEF RunIsDone, Close
<1>3. e \in Events /\ e \notin SpanEvents /\ \A s \in Span : e # <<s, "open">> /\ e # <<s, "ended">>
    <2>1. e \in Events /\ e \notin SpanEvents
        BY EventsDiffer
    <2>2. \A s \in Span : <<s, "ended">> \in SpanEvents /\ <<s, "open">> \in SpanEvents
        BY DEF SpanEvents
    <2> QED
        BY <2>1, <2>2
<1>4. /\ stream' \in [Browser -> Seq(Events)]
      /\ \A b \in Browser :
            stream'[b] = IF conn[b] = "live" THEN Append(stream[b], e) ELSE stream[b]
    BY <1>2, <1>3, BroadcastTypes DEF TraceInv
<1>5. TraceTypeOK'
    <2>1. python' \in BOOLEAN /\ over' \in BOOLEAN /\ closed' \in BOOLEAN
        <3>1. python \in BOOLEAN /\ over \in BOOLEAN /\ closed \in BOOLEAN
            BY DEF TraceInv, TraceTypeOK
        <3>2. CASE RunIsDone
            BY <3>1, <3>2 DEF RunIsDone
        <3>3. CASE Close
            BY <3>1, <3>3 DEF Close
        <3> QED
            BY <3>2, <3>3
    <2>2. /\ span' \in [Span -> States] /\ ending' \in Span \cup {NoSpan}
          /\ conn' \in [Browser -> Conns] /\ backlog' \in [Browser -> SUBSET Span]
          /\ page' \in [Browser -> [Span -> States]] /\ gap' \in [Browser -> SUBSET Span]
          /\ losses' \in 0..MaxLosses
        BY <1>1 DEF TraceInv, TraceTypeOK
    <2> QED
        BY <1>4, <2>1, <2>2 DEF TraceTypeOK
<1>6. RunInOrder'
    BY <1>1 DEF TraceInv, RunInOrder
<1>7. ASSUME NEW b \in Browser PROVE BrowserInv(b)'
    <2>1. CASE conn[b] = "live"
        <3>1. /\ NothingStale(b)' /\ DoneIsLast(b)'
              /\ \A s \in Span : Reaches(b, s)' <=> Reaches(b, s)
            BY <1>1, <1>2, <1>3, <1>4, <2>1, SendingKeepsOrder DEF TraceInv
        <3>2. OnlyTheEndedIsTold(b)' /\ BacklogHasStarted(b)' /\ NothingIsForgotten(b)'
            BY <1>1, <3>1 DEF TraceInv, BrowserInv, OnlyTheEndedIsTold, BacklogHasStarted,
                              NothingIsForgotten, Accounted
        <3> QED
            BY <3>1, <3>2 DEF BrowserInv
    <2>2. CASE conn[b] # "live"
        BY <1>1, <1>4, <2>2, BrowserUntouched DEF TraceInv
    <2> QED
        BY <2>1, <2>2
<1> QED
    BY <1>5, <1>6, <1>7 DEF TraceInv

(* One browser's connection: the others do not notice.                        *)
OthersAreLeftAlone(b) ==
    \A c \in Browser \ {b} :
        /\ conn'[c] = conn[c] /\ backlog'[c] = backlog[c] /\ stream'[c] = stream[c]
        /\ page'[c] = page[c] /\ gap'[c] = gap[c]

LEMMA OneBrowserSteps ==
    ASSUME TraceInv, UNCHANGED <<python, span, ending, over>>,
           NEW b \in Browser, OthersAreLeftAlone(b), TraceTypeOK', BrowserInv(b)'
    PROVE  TraceInv'
<1>1. RunInOrder'
    BY DEF TraceInv, RunInOrder
<1>2. ASSUME NEW c \in Browser PROVE BrowserInv(c)'
    <2>1. CASE c = b
        BY <2>1
    <2>2. CASE c # b
        BY <2>2, BrowserUntouched DEF TraceInv, OthersAreLeftAlone
    <2> QED
        BY <2>1, <2>2
<1> QED
    BY <1>1, <1>2 DEF TraceInv

LEMMA ConnectKeeps == ASSUME TraceInv, NEW b \in Browser, Connect(b) PROVE TraceInv'
<1>1. /\ UNCHANGED <<python, span, ending, over, closed, stream, page, losses>>
      /\ conn' = [conn EXCEPT ![b] = "backlog"] /\ conn[b] = "closed"
      /\ backlog' = [backlog EXCEPT ![b] = Known] /\ gap' = [gap EXCEPT ![b] = {}]
    BY DEF Connect
<1>2. TraceTypeOK'
    BY <1>1 DEF TraceInv, TraceTypeOK, Conns, Known
<1>3. OthersAreLeftAlone(b)
    BY <1>1 DEF TraceInv, TraceTypeOK, OthersAreLeftAlone
<1>4. conn'[b] = "backlog" /\ backlog'[b] = Known
    BY <1>1 DEF TraceInv, TraceTypeOK
<1>5. NothingStale(b)' /\ OnlyTheEndedIsTold(b)' /\ DoneIsLast(b)'
    BY <1>1 DEF TraceInv, BrowserInv, NothingStale, OnlyTheEndedIsTold, DoneIsLast, Reaches
<1>6. BacklogHasStarted(b)' /\ NothingIsForgotten(b)'
    BY <1>1, <1>4 DEF BacklogHasStarted, NothingIsForgotten, Accounted, Known
<1> QED
    BY <1>1, <1>2, <1>3, <1>5, <1>6, OneBrowserSteps DEF BrowserInv

LEMMA WriteBacklogKeeps == ASSUME TraceInv, NEW b \in Browser, WriteBacklog(b) PROVE TraceInv'
<1>1. PICK s \in backlog[b] :
         /\ stream' = [stream EXCEPT ![b] = Append(@, <<s, span[s]>>)]
         /\ backlog' = [backlog EXCEPT ![b] = @ \ {s}]
    BY DEF WriteBacklog
<1>2. UNCHANGED <<python, span, ending, over, closed, conn, page, gap, losses>> /\ conn[b] = "backlog"
    BY DEF WriteBacklog
<1> DEFINE e == <<s, span[s]>>
<1>3. s \in Span /\ span[s] \in {"open", "ended"} /\ stream[b] \in Seq(Events)
    BY DEF TraceInv, TraceTypeOK, States, BrowserInv, BacklogHasStarted
<1>4. e \in SpanEvents /\ e \in Events /\ e \notin {Done, End}
    <2>1. e \in SpanEvents
        BY <1>3 DEF SpanEvents
    <2> QED
        BY <2>1, EventsDiffer
<1>5. /\ \A t \in Span : e = <<t, "open">> <=> t = s /\ span[s] = "open"
      /\ \A t \in Span : e = <<t, "ended">> <=> t = s /\ span[s] = "ended"
    BY <1>3
<1> HIDE DEF e
<1>6. stream'[b] = Append(stream[b], e) /\ Append(stream[b], e) \in Seq(Events)
    <2>1. stream'[b] = Append(stream[b], e)
        BY <1>1 DEF TraceInv, TraceTypeOK, e
    <2> QED
        BY <1>3, <1>4, <2>1, AppendProperties
<1>7. TraceTypeOK'
    <2>1. stream' \in [Browser -> Seq(Events)]
        BY <1>1, <1>6 DEF TraceInv, TraceTypeOK
    <2> QED
        BY <1>1, <1>2, <2>1 DEF TraceInv, TraceTypeOK
<1>8. OthersAreLeftAlone(b)
    BY <1>1, <1>2 DEF TraceInv, TraceTypeOK, OthersAreLeftAlone
<1>9. /\ NothingStale(b)' /\ DoneIsLast(b)'
      /\ \A t \in Span : Reaches(b, t)' <=> Reaches(b, t) \/ e = <<t, "ended">>
    <2>1. \A i \in DOMAIN stream[b] : stream[b][i] # Done
        BY <1>2 DEF TraceInv, BrowserInv, DoneIsLast
    <2>2. \A t \in Span : e = <<t, "open">> => ~Reaches(b, t)
        BY <1>5 DEF TraceInv, BrowserInv, OnlyTheEndedIsTold
    <2>3. e # Done
        BY <1>4
    <2> QED
        BY <1>2, <1>4, <1>6, <2>1, <2>2, <2>3, SendingKeepsOrder DEF TraceInv
<1>10. OnlyTheEndedIsTold(b)'
    BY <1>2, <1>5, <1>9 DEF TraceInv, BrowserInv, OnlyTheEndedIsTold
<1>11. backlog'[b] = backlog[b] \ {s}
    BY <1>1 DEF TraceInv, TraceTypeOK
<1>12. BacklogHasStarted(b)' /\ NothingIsForgotten(b)'
    BY <1>2, <1>3, <1>5, <1>9, <1>11
       DEF TraceInv, BrowserInv, BacklogHasStarted, NothingIsForgotten, Accounted
<1> QED
    BY <1>2, <1>7, <1>8, <1>9, <1>10, <1>12, OneBrowserSteps DEF BrowserInv

LEMMA RegisterKeeps == ASSUME TraceInv, NEW b \in Browser, Register(b) PROVE TraceInv'
<1>1. /\ UNCHANGED <<python, span, ending, over, closed, backlog, stream, page, gap, losses>>
      /\ conn' = [conn EXCEPT ![b] = "live"] /\ conn[b] = "backlog" /\ backlog[b] = {}
    BY DEF Register
<1>2. TraceTypeOK' /\ conn'[b] = "live"
    BY <1>1 DEF TraceInv, TraceTypeOK, Conns
<1>3. OthersAreLeftAlone(b)
    BY <1>1 DEF TraceInv, TraceTypeOK, OthersAreLeftAlone
<1>4. BrowserInv(b)'
    BY <1>1, <1>2 DEF TraceInv, BrowserInv, NothingStale, OnlyTheEndedIsTold, DoneIsLast,
                      BacklogHasStarted, NothingIsForgotten, Accounted, Reaches
<1> QED
    BY <1>1, <1>2, <1>3, <1>4, OneBrowserSteps

LEMMA LoseKeeps == ASSUME TraceInv, NEW b \in Browser, Lose(b) PROVE TraceInv'
<1>1. /\ UNCHANGED <<python, span, ending, over, closed, page, gap>>
      /\ conn' = [conn EXCEPT ![b] = "closed"]
      /\ backlog' = [backlog EXCEPT ![b] = {}] /\ stream' = [stream EXCEPT ![b] = <<>>]
      /\ losses < MaxLosses /\ losses' = losses + 1
    BY DEF Lose
<1>2. /\ conn'[b] = "closed" /\ backlog'[b] = {} /\ stream'[b] = <<>>
      /\ DOMAIN stream'[b] = {} /\ Range(stream'[b]) = {}
    <2>1. conn'[b] = "closed" /\ backlog'[b] = {} /\ stream'[b] = <<>>
        BY <1>1 DEF TraceInv, TraceTypeOK
    <2>2. DOMAIN <<>> = {}
        OBVIOUS
    <2> QED
        BY <2>1, <2>2 DEF Range
<1>3. TraceTypeOK'
    <2>1. stream' \in [Browser -> Seq(Events)]
        <3>1. <<>> \in Seq(Events)
            OBVIOUS
        <3> QED
            BY <1>1, <3>1 DEF TraceInv, TraceTypeOK
    <2>2. losses' \in 0..MaxLosses
        BY <1>1, LiveTraceAssumption DEF TraceInv, TraceTypeOK
    <2> QED
        BY <1>1, <2>1, <2>2 DEF TraceInv, TraceTypeOK, Conns
<1>4. OthersAreLeftAlone(b)
    BY <1>1 DEF TraceInv, TraceTypeOK, OthersAreLeftAlone
<1>5. BrowserInv(b)'
    BY <1>1, <1>2 DEF TraceInv, BrowserInv, NothingStale, OnlyTheEndedIsTold, DoneIsLast,
                      BacklogHasStarted, NothingIsForgotten, Accounted, Reaches
<1> QED
    BY <1>1, <1>3, <1>4, <1>5, OneBrowserSteps

(* A page that shows a span as ended is told nothing older of it.             *)
LEMMA ShowKeepsEnds ==
    ASSUME TraceInv, NEW b \in Browser, Receive(b)
    PROVE  /\ page' \in [Browser -> [Span -> States]]
           /\ \A c \in Browser \ {b} : page'[c] = page[c]
           /\ \A s \in Span : page[b][s] = "ended" => page'[b][s] = "ended"
           /\ \A s \in Span : page'[b][s] = "ended" <=>
                 page[b][s] = "ended" \/ Head(stream[b]) = <<s, "ended">>
<1> DEFINE e == Head(stream[b])
<1>1. /\ stream[b] \in Seq(Events) /\ stream[b] # <<>> /\ page \in [Browser -> [Span -> States]]
      /\ Show(b, e)
    BY DEF Receive, TraceInv, TraceTypeOK
<1>2. e \in Events /\ e = stream[b][1] /\ 1 \in DOMAIN stream[b]
    BY <1>1, HeadTailProperties, LenProperties, EmptySeq
<1>3. \A s \in Span : e = <<s, "open">> => page[b][s] # "ended"
    BY <1>2 DEF TraceInv, BrowserInv, NothingStale
<1> HIDE DEF e
<1>4. CASE e \in SpanEvents
    <2>1. e = <<e[1], e[2]>> /\ e[1] \in Span /\ e[2] \in {"open", "ended"}
        BY <1>4, EventsDiffer
    <2>2. page' = [page EXCEPT ![b][e[1]] = e[2]]
        BY <1>1, <1>4 DEF Show, e
    <2> QED
        BY <1>1, <1>3, <2>1, <2>2 DEF States, e
<1>5. CASE e \notin SpanEvents
    <2>1. page' = page /\ \A s \in Span : e # <<s, "ended">>
        BY <1>1, <1>5, EventsDiffer DEF Show, e
    <2> QED
        BY <1>1, <2>1 DEF e
<1> QED
    BY <1>4, <1>5

LEMMA ReceiveKeeps == ASSUME TraceInv, NEW b \in Browser, Receive(b) PROVE TraceInv'
<1> DEFINE e == Head(stream[b])
           rest == Tail(stream[b])
           L == Len(stream[b])
<1>1. /\ stream[b] \in Seq(Events) /\ stream[b] # <<>> /\ conn[b] \in {"backlog", "live"}
      /\ Leaves(b, e)
      /\ stream' = [stream EXCEPT ![b] = IF conn'[b] = conn[b] THEN Tail(@) ELSE <<>>]
      /\ UNCHANGED <<python, span, ending, over, closed, backlog, gap, losses>>
    BY DEF Receive, TraceInv, TraceTypeOK
<1>2. /\ L \in Nat /\ L >= 1 /\ DOMAIN stream[b] = 1..L
      /\ e \in Events /\ e = stream[b][1] /\ 1 \in DOMAIN stream[b]
      /\ rest \in Seq(Events) /\ Len(rest) = L - 1 /\ DOMAIN rest = 1..(L - 1)
      /\ \A i \in 1..(L - 1) : rest[i] = stream[b][i + 1]
    BY <1>1, HeadTailProperties, LenProperties, EmptySeq
<1>3. /\ page' \in [Browser -> [Span -> States]]
      /\ \A c \in Browser \ {b} : page'[c] = page[c]
      /\ \A s \in Span : page'[b][s] = "ended" <=> page[b][s] = "ended" \/ e = <<s, "ended">>
    BY ShowKeepsEnds
<1> HIDE DEF e, rest, L
<1>4. /\ conn' \in [Browser -> Conns]
      /\ conn'[b] = (CASE e = Done -> "finished" [] e = End -> "closed" [] OTHER -> conn[b])
      /\ \A c \in Browser \ {b} : conn'[c] = conn[c]
    BY <1>1, EventsDiffer DEF Leaves, TraceInv, TraceTypeOK, Conns
<1>5. /\ stream'[b] = (IF e \in {Done, End} THEN <<>> ELSE rest)
      /\ stream' \in [Browser -> Seq(Events)]
      /\ \A c \in Browser \ {b} : stream'[c] = stream[c]
    <2>1. conn'[b] = conn[b] <=> e \notin {Done, End}
        BY <1>1, <1>4
    <2>2. <<>> \in Seq(Events)
        OBVIOUS
    <2>3. stream' = [stream EXCEPT ![b] = IF e \in {Done, End} THEN <<>> ELSE rest]
        BY <1>1, <2>1 DEF rest, TraceInv, TraceTypeOK
    <2> QED
        BY <1>2, <2>2, <2>3 DEF TraceInv, TraceTypeOK
<1>6. TraceTypeOK'
    BY <1>1, <1>3, <1>4, <1>5 DEF TraceInv, TraceTypeOK
<1>7. OthersAreLeftAlone(b)
    BY <1>1, <1>3, <1>4, <1>5 DEF OthersAreLeftAlone
<1>8. \A s \in Span : <<s, "ended">> \in Range(stream[b]) <=> e = <<s, "ended">> \/ <<s, "ended">> \in Range(rest)
    <2>1. \A i \in DOMAIN stream[b] : i = 1 \/ (i - 1 \in DOMAIN rest /\ rest[i - 1] = stream[b][i])
        BY <1>2
    <2>2. \A i \in DOMAIN rest : i + 1 \in DOMAIN stream[b] /\ stream[b][i + 1] = rest[i]
        BY <1>2
    <2> TAKE s \in Span
    <2>3. ASSUME <<s, "ended">> \in Range(stream[b])
          PROVE  e = <<s, "ended">> \/ <<s, "ended">> \in Range(rest)
        <3>1. PICK i \in DOMAIN stream[b] : stream[b][i] = <<s, "ended">>
            BY <2>3 DEF Range
        <3> QED
            BY <1>2, <2>1, <3>1 DEF Range
    <2>4. ASSUME <<s, "ended">> \in Range(rest) PROVE <<s, "ended">> \in Range(stream[b])
        <3>1. PICK i \in DOMAIN rest : rest[i] = <<s, "ended">>
            BY <2>4 DEF Range
        <3> QED
            BY <2>2, <3>1 DEF Range
    <2>5. e \in Range(stream[b])
        BY <1>2 DEF Range
    <2> QED
        BY <2>3, <2>4, <2>5
<1>9. CASE e \notin {Done, End}
    <2>1. /\ stream'[b] = rest /\ conn'[b] = conn[b]
          /\ \A s \in Span : Reaches(b, s)' <=> Reaches(b, s)
        BY <1>3, <1>4, <1>5, <1>8, <1>9 DEF Reaches
    <2>2. NothingStale(b)'
        <3> SUFFICES ASSUME NEW s \in Span, NEW i \in 1..(L - 1), rest[i] = <<s, "open">>
                     PROVE  page'[b][s] # "ended" /\ \A j \in 1..(i - 1) : rest[j] # <<s, "ended">>
            BY <1>2, <2>1 DEF NothingStale
        <3>1. i + 1 \in DOMAIN stream[b] /\ stream[b][i + 1] = <<s, "open">> /\ (i + 1) - 1 = i
            <4>1. i + 1 \in 1..L /\ (i + 1) - 1 = i
                BY <1>2
            <4>2. rest[i] = stream[b][i + 1]
                BY <1>2
            <4> QED
                BY <1>2, <4>1, <4>2
        <3>2. page[b][s] # "ended" /\ \A j \in 1..i : stream[b][j] # <<s, "ended">>
            BY <3>1 DEF TraceInv, BrowserInv, NothingStale
        <3>3. page'[b][s] # "ended"
            BY <1>2, <1>3, <3>2
        <3>4. 1..(i - 1) \subseteq 1..(L - 1) /\ \A j \in 1..(i - 1) : j + 1 \in 1..i
            BY <1>2
        <3>5. \A j \in 1..(i - 1) : rest[j] = stream[b][j + 1]
            BY <1>2, <3>4
        <3> QED
            BY <3>2, <3>3, <3>4, <3>5
    <2>3. DoneIsLast(b)'
        <3> SUFFICES ASSUME NEW i \in 1..(L - 1)
                     PROVE  /\ rest[i] \in {Done, End} => conn[b] = "live"
                            /\ rest[i] = Done =>
                                  over /\ \A j \in (i + 1)..(L - 1) : rest[j] \notin SpanEvents
            BY <1>1, <1>2, <2>1 DEF DoneIsLast
        <3>1. i + 1 \in DOMAIN stream[b] /\ rest[i] = stream[b][i + 1]
            BY <1>2
        <3>2. \A j \in (i + 1)..(L - 1) : j + 1 \in ((i + 1) + 1)..L /\ rest[j] = stream[b][j + 1]
            BY <1>2
        <3> QED
            BY <3>1, <3>2 DEF TraceInv, BrowserInv, DoneIsLast, L
    <2>4. OnlyTheEndedIsTold(b)' /\ BacklogHasStarted(b)' /\ NothingIsForgotten(b)'
        BY <1>1, <2>1 DEF TraceInv, BrowserInv, OnlyTheEndedIsTold, BacklogHasStarted,
                          NothingIsForgotten, Accounted
    <2> QED
        BY <1>1, <1>6, <1>7, <2>2, <2>3, <2>4, OneBrowserSteps DEF BrowserInv
<1>10. CASE e \in {Done, End}
    <2>1. stream'[b] = <<>> /\ DOMAIN stream'[b] = {} /\ Range(stream'[b]) = {}
        <3>1. DOMAIN <<>> = {}
            OBVIOUS
        <3> QED
            BY <1>5, <1>10, <3>1 DEF Range
    <2>2. \A s \in Span : e # <<s, "ended">>
        <3>1. e \notin SpanEvents
            BY <1>10, EventsDiffer
        <3> QED
            BY <3>1, EventsDiffer
    <2>3. \A s \in Span : page'[b][s] = "ended" <=> page[b][s] = "ended"
        BY <1>3, <2>2
    <2>4. NothingStale(b)' /\ DoneIsLast(b)' /\ OnlyTheEndedIsTold(b)' /\ BacklogHasStarted(b)'
        BY <1>1, <2>1, <2>3 DEF TraceInv, BrowserInv, NothingStale, DoneIsLast, OnlyTheEndedIsTold,
                                BacklogHasStarted, Reaches
    <2>5. CASE e = End
        BY <1>4, <2>4, <2>5, EventsDiffer, <1>1, <1>6, <1>7, OneBrowserSteps
           DEF BrowserInv, NothingIsForgotten, Accounted
    <2>6. CASE e = Done
        <3>1. /\ conn[b] = "live" /\ over
              /\ \A j \in 2..L : stream[b][j] \notin SpanEvents
            <4>1. DoneIsLast(b) /\ stream[b][1] = Done /\ 1 \in DOMAIN stream[b] /\ 1 + 1 = 2
                BY <1>2, <2>6 DEF TraceInv, BrowserInv
            <4> QED
                BY <4>1 DEF DoneIsLast, L
        <3>2. \A s \in Span : <<s, "ended">> \notin Range(stream[b])
            <4>1. \A j \in DOMAIN stream[b] : stream[b][j] \notin SpanEvents
                <5>1. stream[b][1] \notin SpanEvents
                    BY <1>2, <2>6, EventsDiffer
                <5> QED
                    BY <1>2, <3>1, <5>1
            <4> QED
                BY <4>1, EventsDiffer DEF Range
        <3>3. conn[b] = "live" /\ conn'[b] = "finished"
            BY <1>4, <2>6, <3>1, EventsDiffer
        <3>4. NothingIsForgotten(b)'
            BY <1>1, <2>3, <3>1, <3>2, <3>3
               DEF TraceInv, BrowserInv, NothingIsForgotten, Accounted, Reaches
        <3> QED
            BY <1>1, <1>6, <1>7, <2>4, <3>4, OneBrowserSteps DEF BrowserInv
    <2> QED
        BY <1>10, <2>5, <2>6
<1> QED
    BY <1>9, <1>10

LEMMA NextTraceInv == TraceInv /\ [TraceNext]_traceVars => TraceInv'
<1> SUFFICES ASSUME TraceInv, [TraceNext]_traceVars PROVE TraceInv'
    OBVIOUS
<1>1. CASE \E s \in Span : StartSpan(s) \/ EndSpan(s)
    BY <1>1, RunKeeps
<1>2. CASE CallListeners
    BY <1>2, CallListenersKeeps
<1>3. CASE RunIsDone \/ Close
    BY <1>3, RunEndsKeeps
<1>4. CASE \E b \in Browser : Connect(b) \/ BrowserStep(b) \/ Lose(b)
    BY <1>4, ConnectKeeps, WriteBacklogKeeps, RegisterKeeps, ReceiveKeeps, LoseKeeps DEF BrowserStep
<1>5. CASE UNCHANGED traceVars
    <2>1. UNCHANGED <<python, span, ending, over, closed, conn, backlog, stream, page, gap, losses>>
        BY <1>5 DEF traceVars
    <2>2. TraceTypeOK' /\ RunInOrder'
        BY <2>1 DEF TraceInv, TraceTypeOK, RunInOrder
    <2>3. \A b \in Browser : BrowserInv(b)'
        BY <2>1, BrowserUntouched DEF TraceInv
    <2> QED
        BY <2>2, <2>3 DEF TraceInv
<1> QED
    BY <1>1, <1>2, <1>3, <1>4, <1>5 DEF TraceNext

(* The inductive invariant of the dashboard.                                  *)
THEOREM TraceInvariance == TraceSpec => []TraceInv
BY InitTraceInv, NextTraceInv, PTL DEF TraceSpec

(* The tracer, the connections and the pages are well typed.                  *)
THEOREM TraceTypeCorrect == TraceSpec => []TraceTypeOK
<1>1. TraceInv => TraceTypeOK
    BY DEF TraceInv
<1> QED
    BY <1>1, TraceInvariance, PTL

(* Whoever is connected, or was told that the run is done, has or is about to *)
(* get every end, but for what Python broadcast while his backlog was being   *)
(* written (the handler of /events, and end_span).                            *)
THEOREM BacklogAndStreamMeet == TraceSpec => []NothingIsLeftOut
<1>1. TraceInv => NothingIsLeftOut
    BY DEF TraceInv, BrowserInv, NothingIsForgotten, Accounted, NothingIsLeftOut
<1> QED
    BY <1>1, TraceInvariance, PTL

(* However often it reconnects and is sent the spans anew, a page does not    *)
(* show as running again what it showed as ended.                             *)
THEOREM PagesGoForward == TraceSpec => PageNeverGoesBack
<1>1. TraceInv /\ [TraceNext]_traceVars =>
         [\A b \in Browser, s \in Span : page[b][s] = "ended" => page'[b][s] = "ended"]_traceVars
    <2> SUFFICES ASSUME TraceInv, TraceNext, NEW b \in Browser, NEW s \in Span, page[b][s] = "ended"
                 PROVE  page'[b][s] = "ended"
        OBVIOUS
    <2>1. CASE \E c \in Browser : Receive(c)
        BY <2>1, ShowKeepsEnds
    <2>2. CASE ~\E c \in Browser : Receive(c)
        BY <2>2 DEF TraceNext, BrowserStep, StartSpan, EndSpan, CallListeners, RunIsDone, Close,
                    Connect, WriteBacklog, Register, Lose
    <2> QED
        BY <2>1, <2>2
<1> QED
    BY <1>1, TraceInvariance, PTL DEF TraceSpec, PageNeverGoesBack
=============================================================================

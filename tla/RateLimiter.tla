----------------------------- MODULE RateLimiter -----------------------------
(***************************************************************************)
(* SlidingWindowRateLimiter.try_acquire for one caller key, as the A2A      *)
(* server calls it for each request.  The limiter keeps a list of times;    *)
(* nothing but their number and their age matters, so here it is the set of *)
(* the requests that those times belong to.                                 *)
(*                                                                          *)
(* try_acquire reads the list and writes it back without a lock.  In        *)
(* TypeScript it runs to its end alone (Atomic); in Python the server has a *)
(* thread for each request, and threads may switch in between.              *)
(***************************************************************************)
EXTENDS Integers, FiniteSets

CONSTANTS
    Request,        \* the requests of the caller
    MaxRequests,    \* max_requests
    WindowMs,       \* window_ms
    Atomic,         \* does try_acquire run alone?
    MaxTime         \* bound: the last value of the clock

ASSUME RateLimiterAssumption ==
    /\ IsFiniteSet(Request)
    /\ MaxRequests \in Nat /\ WindowMs \in Nat
    /\ Atomic \in BOOLEAN
    /\ MaxTime \in Nat

VARIABLES
    now,        \* the clock
    pc,         \* pc[r]: new, deciding (has read the list), allowed or rejected
    stamp,      \* stamp[r]: the value of now in r's try_acquire
    recent,     \* recent[r]: its list of hits still in the window
    hits        \* the stored list

vars == <<now, pc, stamp, recent, hits>>

TypeOK ==
    /\ now \in 0..MaxTime
    /\ pc \in [Request -> {"new", "deciding", "allowed", "rejected"}]
    /\ stamp \in [Request -> 0..MaxTime]
    /\ recent \in [Request -> SUBSET Request]
    /\ hits \in SUBSET Request

Init ==
    /\ now = 0
    /\ pc = [r \in Request |-> "new"]
    /\ stamp = [r \in Request |-> 0]
    /\ recent = [r \in Request |-> {}]
    /\ hits = {}

StillInWindow(t) == {r \in hits : stamp[r] > t - WindowMs}

\* Mutant: counts the request before it is allowed.
OverLimitTooSoon(r) == Cardinality(recent[r]) + 1 >= MaxRequests

OverLimit(r) == Cardinality(recent[r]) >= MaxRequests

Read(r) ==
    /\ pc[r] = "new"
    /\ Atomic => \A q \in Request : pc[q] # "deciding"
    /\ pc' = [pc EXCEPT ![r] = "deciding"]
    /\ stamp' = [stamp EXCEPT ![r] = now]
    /\ recent' = [recent EXCEPT ![r] = StillInWindow(now)]
    /\ UNCHANGED <<now, hits>>

Allow(r) ==
    /\ ~OverLimit(r)
    /\ hits' = recent[r] \cup {r}
    /\ pc' = [pc EXCEPT ![r] = "allowed"]

Reject(r) ==
    /\ OverLimit(r)
    /\ hits' = recent[r]
    /\ pc' = [pc EXCEPT ![r] = "rejected"]

Decide(r) ==
    /\ pc[r] = "deciding"
    /\ Allow(r) \/ Reject(r)
    /\ UNCHANGED <<now, stamp, recent>>

Tick ==
    /\ now < MaxTime
    /\ now' = now + 1
    /\ UNCHANGED <<pc, stamp, recent, hits>>

Next ==
    \/ \E r \in Request : Read(r) \/ Decide(r)
    \/ Tick

Spec == Init /\ [][Next]_vars
-----------------------------------------------------------------------------
AllowedWithin(t) ==
    {r \in Request : pc[r] = "allowed" /\ t - WindowMs < stamp[r] /\ stamp[r] <= t}

(* No window of window_ms, wherever it starts, holds more than max_requests   *)
(* allowed requests: try_acquire returns False if the caller is over the      *)
(* limit, even though it forgets each time what it thinks is too old.         *)
NeverOverLimit ==
    \A t \in 0..MaxTime : Cardinality(AllowedWithin(t)) <= MaxRequests

(* Nobody is turned away early: at a rejection the window that ends there     *)
(* held max_requests allowed requests, and rejected ones do not count.        *)
RejectedOnlyAtTheLimit ==
    \A r \in Request :
        pc[r] = "rejected" => Cardinality(AllowedWithin(stamp[r])) >= MaxRequests

(* What the list is for: when no call is in the middle of try_acquire it      *)
(* holds every allowed request that any later window can still reach, and     *)
(* none that was rejected, and never grows past the limit.                    *)
HitsAreTheWindow ==
    /\ \A r \in Request : pc[r] = "allowed" /\ stamp[r] > now - WindowMs => r \in hits
    /\ \A r \in hits : pc[r] = "allowed"
    /\ Cardinality(hits) <= MaxRequests

(* The one call that is in try_acquire: what it has read is still stored, is   *)
(* all that the window at its time holds, and nothing allowed is later.       *)
ReadIsCurrent(r) ==
    /\ \A q \in Request : pc[q] = "deciding" => q = r
    /\ stamp[r] <= now
    /\ recent[r] \subseteq hits
    /\ recent[r] \subseteq AllowedWithin(stamp[r])
    /\ \A q \in Request : pc[q] = "allowed" =>
          /\ stamp[q] <= stamp[r]
          /\ stamp[q] > stamp[r] - WindowMs => q \in recent[r]

OneAtATime == \A r \in Request : pc[r] = "deciding" => ReadIsCurrent(r)

(* The inductive invariant: together these survive every step.                *)
IInv ==
    /\ TypeOK
    /\ OneAtATime
    /\ HitsAreTheWindow
    /\ NeverOverLimit
    /\ RejectedOnlyAtTheLimit
    /\ \A r \in Request : pc[r] = "allowed" => stamp[r] <= now
=============================================================================

--------------------------- MODULE IdempotentKeys ---------------------------
(***************************************************************************)
(* What the idempotency keys of the tool envelope promise: "repeated calls  *)
(* with the same idempotency key resolve to the single first result".  At   *)
(* most one execution runs for a key at a time, the first that succeeds     *)
(* settles the key for good, a failed one leaves it free to be tried again, *)
(* and every ok answer for a key is the output that settled it.             *)
(* An execution is named by the call that started it.                       *)
(***************************************************************************)
CONSTANTS Call, Key, NoCall

VARIABLES
    running,        \* running[k]: the execution in progress for key k
    settled,        \* settled[k]: the execution whose output is k's result
    answer          \* answer[c]: the execution whose output call c returned

vars == <<running, settled, answer>>

Init ==
    /\ running = [k \in Key |-> NoCall]
    /\ settled = [k \in Key |-> NoCall]
    /\ answer = [c \in Call |-> NoCall]

Begin(k, c) ==
    /\ running[k] = NoCall /\ settled[k] = NoCall
    /\ running' = [running EXCEPT ![k] = c]
    /\ UNCHANGED <<settled, answer>>

Succeed(k) ==
    /\ running[k] # NoCall
    /\ settled' = [settled EXCEPT ![k] = running[k]]
    /\ running' = [running EXCEPT ![k] = NoCall]
    /\ UNCHANGED answer

Fail(k) ==
    /\ running[k] # NoCall
    /\ running' = [running EXCEPT ![k] = NoCall]
    /\ UNCHANGED <<settled, answer>>

Answer(k, c) ==
    /\ answer[c] = NoCall /\ settled[k] # NoCall
    /\ answer' = [answer EXCEPT ![c] = settled[k]]
    /\ UNCHANGED <<running, settled>>

Next ==
    \E k \in Key :
        \/ Succeed(k) \/ Fail(k)
        \/ \E c \in Call : Begin(k, c) \/ Answer(k, c)

Spec == Init /\ [][Next]_vars
=============================================================================

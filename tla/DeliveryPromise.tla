-------------------------- MODULE DeliveryPromise --------------------------
EXTENDS Naturals

(***************************************************************************)
(* What a loop that carries things out of the database promises, whatever  *)
(* crashes, failures, takeovers and late answers it meets:                 *)
(*   - the other side gets a thing only as often as Copies allows;         *)
(*   - a thing is recorded as done only after the other side got it;       *)
(*   - what was recorded as done or given up stays so;                     *)
(*   - nothing is given up where giving up is not allowed.                 *)
(* OutboxDispatch (at least once), NotificationDelivery (as often as       *)
(* max_attempts), CloudPrint and PrintBridge (at most once) implement it.  *)
(***************************************************************************)
CONSTANTS
    Things,     \* messages, notifications or tickets
    Copies,     \* how often a thing may reach the other side, a set of numbers
    MayGiveUp   \* whether the loop may end a thing without success

VARIABLES
    reached,    \* how often the other side got a thing
    fate        \* "open", "done" or "given_up"

promiseVars == <<reached, fate>>

PromiseInit ==
    /\ reached = [t \in Things |-> 0]
    /\ fate = [t \in Things |-> "open"]

\* A thing arrives, perhaps although it was ended meanwhile.
Arrive(t) ==
    /\ reached[t] + 1 \in Copies
    /\ reached' = [reached EXCEPT ![t] = @ + 1]
    /\ UNCHANGED fate

Confirm(t) ==
    /\ fate[t] = "open" /\ reached[t] > 0
    /\ fate' = [fate EXCEPT ![t] = "done"]
    /\ UNCHANGED reached

\* One transaction may end several things.
GiveUp(S) ==
    /\ MayGiveUp
    /\ \A t \in S : fate[t] = "open"
    /\ fate' = [t \in Things |-> IF t \in S THEN "given_up" ELSE fate[t]]
    /\ UNCHANGED reached

PromiseNext ==
    \/ \E t \in Things : Arrive(t) \/ Confirm(t)
    \/ \E S \in SUBSET Things : GiveUp(S)

PromiseSpec == PromiseInit /\ [][PromiseNext]_promiseVars
=============================================================================

--------------------------- MODULE RefundPromise ---------------------------
EXTENDS Naturals

(***************************************************************************)
(* What refunding promises to the guest, the house and the books, whatever *)
(* the channel, the till and the workers do:                               *)
(*   - money goes back only on a decision of two employees, at most once   *)
(*     for a decision, however often it is tried, and never after another  *)
(*     refund took the decision over;                                      *)
(*   - of a payment never more goes back than it collected;                *)
(*   - a refund is booked once, and only when its money went back.         *)
(* RefundWorkflow implements this specification.                           *)
(***************************************************************************)
CONSTANTS
    Refunds,
    Payments,
    Staff,
    Captured    \* what a payment collected

VARIABLES
    deciders,   \* who asked for a refund and agreed to it, nobody before the decision
    replaced,   \* refunds whose decision another refund took over
    paid,       \* refunds whose money went back
    returned,   \* how much of a payment went back
    booked      \* refunds in the books

promiseVars == <<deciders, replaced, paid, returned, booked>>

PromiseInit ==
    /\ deciders = [r \in Refunds |-> {}]
    /\ replaced = {} /\ paid = {} /\ booked = {}
    /\ returned = [p \in Payments |-> 0]

Payable(r) == deciders[r] # {} /\ r \notin paid \cup replaced

Grant(r) ==
    /\ deciders[r] = {}
    /\ \E asked \in Staff : \E agreed \in Staff \ {asked} :
          deciders' = [deciders EXCEPT ![r] = {asked, agreed}]
    /\ UNCHANGED <<replaced, paid, returned, booked>>

\* Refund x is a new attempt on the decision of r.
Replace(r, x) ==
    /\ Payable(r) /\ deciders[x] = {}
    /\ deciders' = [deciders EXCEPT ![x] = deciders[r]]
    /\ replaced' = replaced \cup {r}
    /\ UNCHANGED <<paid, returned, booked>>

\* Money goes back; at the till it is booked in the same step.
PayBack(r) ==
    /\ Payable(r)
    /\ paid' = paid \cup {r}
    /\ \E p \in Payments : \E sum \in returned[p] + 1 .. Captured[p] :
          returned' = [returned EXCEPT ![p] = sum]
    /\ booked' \in {booked, booked \cup {r}}
    /\ UNCHANGED <<deciders, replaced>>

Book(r) ==
    /\ r \in paid \ booked
    /\ booked' = booked \cup {r}
    /\ UNCHANGED <<deciders, replaced, paid, returned>>

PromiseNext ==
    \/ \E r \in Refunds : Grant(r) \/ PayBack(r) \/ Book(r)
    \/ \E r, x \in Refunds : Replace(r, x)

PromiseSpec == PromiseInit /\ [][PromiseNext]_promiseVars
=============================================================================

------------------------- MODULE CollectionPromise -------------------------
(***************************************************************************)
(* What collecting money promises to the ledger, the kitchen and the guest *)
(* of an order, whatever the payment channel and the workers do:           *)
(*   - a payment attempt enters the ledger at most once;                   *)
(*   - an order is first served only in the step that books money, and     *)
(*     never after it was withdrawn, nor is it taken back (that its stock  *)
(*     is consumed once is ProductionFollowsFulfilment of the detail);     *)
(*   - a withdrawn order stays withdrawn.                                  *)
(* PaymentCollection implements this specification.                        *)
(***************************************************************************)
CONSTANTS Orders, Payments

VARIABLES
    booked,     \* attempts with a payment entry in the reconciliation ledger
    served,     \* orders whose stock was consumed and production started
    withdrawn   \* orders whose fulfilment was cancelled

promiseVars == <<booked, served, withdrawn>>

PromiseInit == booked = {} /\ served = {} /\ withdrawn = {}

\* One attempt is booked.  With it some orders may be served, and some withdrawn
\* because the money came after their deadline, but no order both.
Collect(p) ==
    /\ p \notin booked
    /\ booked' = booked \cup {p}
    /\ served \subseteq served' /\ served' \subseteq Orders
    /\ withdrawn \subseteq withdrawn' /\ withdrawn' \subseteq Orders
    /\ (served' \ served) \cap withdrawn' = {}

\* An order is cancelled by the guest, by staff or by a worker.
Withdraw(o) ==
    /\ withdrawn' = withdrawn \cup {o}
    /\ UNCHANGED <<booked, served>>

PromiseNext ==
    \/ \E p \in Payments : Collect(p)
    \/ \E o \in Orders : Withdraw(o)

PromiseSpec == PromiseInit /\ [][PromiseNext]_promiseVars
=============================================================================

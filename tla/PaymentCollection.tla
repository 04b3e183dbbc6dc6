------------------------- MODULE PaymentCollection -------------------------
EXTENDS Naturals

(***************************************************************************)
(* Collecting money for the orders of one table session: the payments,     *)
(* their provider actions, the verified provider observations, the         *)
(* reconciliation ledger and the fulfilment state of the orders, as the    *)
(* transactions of payment-command-service, online-payment-service and     *)
(* payment-reservation-expiry-worker change them.                          *)
(*                                                                         *)
(* Every database transaction is one action: it locks the order rows       *)
(* first, so transactions on the same order are serial and an exception    *)
(* rolls all of it back (the action is then not enabled).  What happens    *)
(* between two transactions (a provider call, a crash, a callback that     *)
(* overtakes the answer) is interleaving.                                  *)
(*                                                                         *)
(* Amounts: a payment collects the whole outstanding balance of the        *)
(* orders it covers, as createForOrder does; partial amounts and refunds   *)
(* are not in this module.                                                 *)
(***************************************************************************)
CONSTANTS
    Orders,      \* orders of one open table session
    Immediate,   \* those with settlement_mode = 'immediate_payment'
    GuestQr,     \* immediate orders a guest placed with the table QR code
    Payments,    \* identities of payment attempts
    Methods,     \* online methods: "jsapi" (the guest's own sheet), "qrcode", ...
    None         \* "no payment yet"

ASSUME ImmediateAssumption == Immediate \subseteq Orders
ASSUME GuestQrAssumption == GuestQr \subseteq Immediate
ASSUME MethodsAssumption == {"none", "manual"} \cap Methods = {}
ASSUME NoneAssumption == None \notin Payments

VARIABLES
    order,       \* mbox.orders rows
    pay,         \* mbox.payments rows
    latest,      \* newest single-order payment of an order (ORDER BY created_at DESC)
    action,      \* mbox.payment_provider_actions.state
    window,      \* orders whose reservation deadline caps an action's expires_at
    expired,     \* payments whose provider action passed expires_at
    rail,        \* what the payment channel knows (external)
    obs,         \* unconsumed rows of mbox.verified_provider_observations
    ledger,      \* reconciliation entries of type 'payment' per payment
    production,  \* activations of an order: stock consumption and KDS tasks
    resolved     \* outbox keys payment-fulfillment-<resolution>:<order>

moneyVars == <<order, pay, latest, ledger, production>>
providerVars == <<action, window, expired, rail, obs>>
vars == <<order, pay, latest, action, window, expired, rail, obs, ledger,
          production, resolved>>

PayStatus == {"none", "pending", "succeeded", "failed", "closed"}
ActionState == {"absent", "creating", "ready", "unknown", "failed", "consumed"}
LiveAction == {"creating", "ready", "unknown"}
RailState == {"absent", "sent", "open", "captured", "captured_late", "closed",
              "failed", "rejected"}
RailCaptured == {"captured", "captured_late"}
Observation == {"callback", "succeeded", "failed", "closed"}
Fulfilment == {"awaiting_payment", "active", "released", "cancelled"}
OrderRow == [status : {"submitted", "cancelled"}, fulfilment : Fulfilment,
             lapsed : BOOLEAN, payment_status : {"unpaid", "paid"}]
PaymentRow == [status : PayStatus, kind : {"order", "order_batch"},
               covers : SUBSET Orders, method : Methods \cup {"none", "manual"},
               released : BOOLEAN, after_close : BOOLEAN]

\* One type invariant: the rows of every table stay within their domains.
TypeOK ==
    /\ order \in [Orders -> OrderRow]
    /\ pay \in [Payments -> PaymentRow]
    /\ latest \in [Orders -> Payments \cup {None}]
    /\ action \in [Payments -> ActionState]
    /\ window \in [Payments -> SUBSET Orders]
    /\ expired \in SUBSET Payments
    /\ rail \in [Payments -> RailState]
    /\ obs \in [Payments -> SUBSET Observation]
    /\ ledger \in [Payments -> Nat]
    /\ production \in [Orders -> Nat]
    /\ resolved \in SUBSET ({"released", "activated"} \X Orders)

NoPayment == [status |-> "none", kind |-> "order", covers |-> {},
              method |-> "none", released |-> FALSE,
              after_close |-> FALSE]

\* An order is inserted by checkout; the insert trigger makes an immediate
\* order wait for its payment and lets a table tab start at once.
Init ==
    /\ order = [o \in Orders |->
                  [status |-> "submitted",
                   fulfilment |-> IF o \in Immediate THEN "awaiting_payment"
                                                     ELSE "active",
                   lapsed |-> FALSE, payment_status |-> "unpaid"]]
    /\ pay = [p \in Payments |-> NoPayment]
    /\ latest = [o \in Orders |-> None]
    /\ action = [p \in Payments |-> "absent"]
    /\ window = [p \in Payments |-> {}]
    /\ expired = {}
    /\ rail = [p \in Payments |-> "absent"]
    /\ obs = [p \in Payments |-> {}]
    /\ ledger = [p \in Payments |-> 0]
    /\ production = [o \in Orders |-> 0]
    /\ resolved = {}

----------------------------------------------------------------------------
(* What the transactions compute from the rows.                            *)

\* order_consumption_settled: captured money covers the whole order.
Settled(py, o) ==
    \E p \in Payments : py[p].status = "succeeded" /\ o \in py[p].covers

\* The part of the selected orders that still has a collectible balance.
Outstanding(S) == {o \in S : ~Settled(pay, o)}

\* The attempts that went, or may go, to the channel and have no result yet.
Unresolved(p) == pay[p].method \in Methods /\ pay[p].status = "pending"

\* Slip: an attempt whose provider call is unanswered is not found.
ReusableWhenReady(q, alloc, m) ==
    /\ Unresolved(q) /\ ~pay[q].released /\ action[q] = "ready"
    /\ pay[q].method = m /\ pay[q].covers = alloc

\* findReusableOnlineAttempt: an unresolved attempt of the same method and the
\* same allocation that staff did not release for a replacement.
Reusable(q, alloc, m) ==
    /\ Unresolved(q) /\ ~pay[q].released
    /\ pay[q].method = m /\ pay[q].covers = alloc

\* ensureReservationBeforePayment succeeds for every selected order, and none
\* of them is cancelled.
Collectible(S) ==
    \A o \in S : /\ order[o].status # "cancelled"
                 /\ o \in Immediate => order[o].fulfilment # "cancelled"

\* Slip: the early return for orders that are active already is lost.
RestoredAlways(ord, S) ==
    [o \in Orders |->
        IF o \in S \cap Immediate /\ ord[o].fulfilment # "cancelled"
        THEN [ord[o] EXCEPT !.fulfilment = "awaiting_payment", !.lapsed = FALSE]
        ELSE ord[o]]

\* ensureReservationBeforePayment: a released or lapsed reservation is taken anew.
Restored(ord, S) ==
    [o \in Orders |->
        IF o \in S \cap Immediate /\ ord[o].fulfilment \in {"awaiting_payment", "released"}
        THEN [ord[o] EXCEPT !.fulfilment = "awaiting_payment", !.lapsed = FALSE]
        ELSE ord[o]]

\* Slip: an order without any captured money reads as partially paid.
SyncedPartially(ord, py, S) ==
    [o \in Orders |->
        IF o \in S
        THEN [ord[o] EXCEPT !.payment_status =
                 IF Settled(py, o) THEN "paid" ELSE "partially_paid"]
        ELSE ord[o]]

\* syncOrderPaymentStatus, recomputed from the payments of the order.
Synced(ord, py, S) ==
    [o \in Orders |->
        IF o \in S
        THEN [ord[o] EXCEPT !.payment_status = IF Settled(py, o) THEN "paid" ELSE "unpaid"]
        ELSE ord[o]]

\* Slip: a released order is skipped silently instead of refused.
ActivatableWaiting(ord, S) ==
    {o \in S \cap Immediate : /\ ord[o].status # "cancelled"
                              /\ ord[o].fulfilment = "awaiting_payment"}

\* Slip: a cancelled order is served when its money arrives late.
ActivatableCancelled(ord, S) == {o \in S \cap Immediate : ord[o].fulfilment # "active"}

\* The orders activatePaidOrder acts on: immediate, not cancelled, not yet served.
Activatable(ord, S) ==
    {o \in S \cap Immediate : /\ ord[o].status # "cancelled"
                              /\ ord[o].fulfilment \in {"awaiting_payment", "released"}}

\* Slip: the time at which the channel took the money is ignored.
ActivatedWhenever(ord, S, late) ==
    [o \in Orders |->
        IF o \in Activatable(ord, S)
        THEN [ord[o] EXCEPT !.fulfilment = "active", !.lapsed = FALSE] ELSE ord[o]]

\* activatePaidOrder after full collection; money the channel received after the
\* purchase deadline abandons the checkout instead.
Activated(ord, S, late) ==
    [o \in Orders |->
        IF o \in Activatable(ord, S)
        THEN [ord[o] EXCEPT !.fulfilment = IF late THEN "cancelled" ELSE "active",
                            !.lapsed = FALSE]
        ELSE ord[o]]

\* activatePaidOrder throws OrderNotPayableError ('trusted full payment is
\* required before fulfillment') when an order it must activate was released.
ActivationRefused(ord, S, late) ==
    ~late /\ \E o \in Activatable(ord, S) : ord[o].fulfilment = "released"

\* releaseAfterDefinitiveFailure
ReleasedAfterFailure(ord, S) ==
    [o \in Orders |->
        IF o \in S \cap Immediate /\ ord[o].fulfilment = "awaiting_payment"
        THEN [ord[o] EXCEPT !.fulfilment = "released", !.lapsed = FALSE]
        ELSE ord[o]]

\* An operational cancellation: no fulfilment can follow.
Cancelled(ord, o) ==
    [ord EXCEPT ![o].status = "cancelled", ![o].fulfilment = "cancelled",
                ![o].lapsed = FALSE]

\* Stock is consumed and KDS tasks are created when an order turns active.
Produced(ord) ==
    [o \in Orders |-> production[o] +
        (IF ord[o].fulfilment = "active" /\ order[o].fulfilment # "active" THEN 1 ELSE 0)]

\* The single-order payments of an order: those with payments.order_id set.
Direct(o) == {p \in Payments : /\ pay[p].status # "none" /\ pay[p].kind = "order"
                               /\ o \in pay[p].covers}

----------------------------------------------------------------------------
(* Opening a collection: payment-command-service and payment-repository.   *)

NewPayment(p, S, kind, m, status) ==
    /\ pay[p].status = "none"
    /\ kind = "order" => \E o \in S : S = {o}
    /\ Collectible(S) /\ Outstanding(S) # {}
    /\ pay' = [pay EXCEPT ![p] = [status |-> status, kind |-> kind,
                                 covers |-> Outstanding(S), method |-> m,
                                 released |-> FALSE, after_close |-> FALSE]]
    /\ latest' = [o \in Orders |-> IF kind = "order" /\ o \in S THEN p ELSE latest[o]]

\* initiate: take the reservation anew if needed, insert a pending online
\* payment over the outstanding balance and recompute the orders.
Initiate(p, S, kind, m) ==
    /\ NewPayment(p, S, kind, m, "pending")
    /\ \A q \in Payments : ~Reusable(q, Outstanding(S), m)
    /\ order' = Synced(Restored(order, S), pay', S)
    /\ UNCHANGED <<providerVars, ledger, production, resolved>>

\* initiate that finds a reusable attempt: nothing is inserted, but the
\* reservations it restored on the way are committed with the no-op outcome.
InitiateReuse(S, m) ==
    /\ Collectible(S) /\ \E q \in Payments : Reusable(q, Outstanding(S), m)
    /\ order' = Restored(order, S)
    /\ UNCHANGED <<pay, latest, providerVars, ledger, production, resolved>>

\* recordManual: cash or POS money that staff already holds.
RecordManual(p, S, kind) ==
    /\ NewPayment(p, S, kind, "manual", "succeeded")
    /\ LET paid == pay'[p].covers
           before == Synced(Restored(order, S), pay', paid)
       IN /\ ~ActivationRefused(before, paid, FALSE)
          /\ order' = Activated(before, paid, FALSE)
    /\ ledger' = [ledger EXCEPT ![p] = @ + 1]
    /\ production' = Produced(order')
    /\ UNCHANGED <<providerVars, resolved>>

\* releaseUnresolvedForRetry: staff lets go of an unresolved single-order
\* attempt so that another one may be started; it stays payable.
ReleaseForRetry(p) ==
    /\ pay[p].kind = "order" /\ Unresolved(p) /\ ~pay[p].released
    /\ \A o \in pay[p].covers : order[o].status # "cancelled"
    /\ pay' = [pay EXCEPT ![p].released = TRUE]
    /\ order' = Synced(order, pay', pay[p].covers)
    /\ UNCHANGED <<latest, providerVars, ledger, production, resolved>>

----------------------------------------------------------------------------
(* The provider call of online-payment-service.create: claim and commit,   *)
(* call the channel outside any transaction, write the answer back while   *)
(* the action is still 'creating'.  After a crash no answer is ever        *)
(* written back, which needs no action of its own.                         *)

\* The orders whose reservation still waits for p's money.
Waiting(p) == {o \in pay[p].covers \cap Immediate : order[o].fulfilment = "awaiting_payment"}

\* claim and validateProductPaymentWindow: the action may not outlive the
\* reservations of its orders, and is refused once one of them has lapsed.
Claim(p) ==
    /\ Unresolved(p) /\ action[p] = "absent"
    /\ \A o \in Waiting(p) : ~order[o].lapsed
    /\ action' = [action EXCEPT ![p] = "creating"]
    /\ window' = [window EXCEPT ![p] = Waiting(p)]
    /\ rail' = [rail EXCEPT ![p] = "sent"]
    /\ UNCHANGED <<moneyVars, expired, obs, resolved>>

\* Slip: the answer is written back whatever the state of the action.
WriteBackAnyway(p, state) ==
    /\ action[p] # "absent"
    /\ action' = [action EXCEPT ![p] = state]
    /\ UNCHANGED <<window, expired, rail, obs, resolved>>

\* complete, markFailed and markUnknown update WHERE state = 'creating'; for an
\* action that was consumed or failed meanwhile the answer changes nothing.
WriteBack(p, state) ==
    /\ action[p] = "creating"
    /\ action' = [action EXCEPT ![p] = state]
    /\ UNCHANGED <<window, expired, rail, obs, resolved>>

Complete(p) ==
    /\ rail[p] \notin {"sent", "rejected"}
    /\ WriteBack(p, "ready")
    /\ UNCHANGED moneyVars

\* markFailed: the order row is set to 'unpaid' without being recomputed.
FinishRejected(p) ==
    LET fails == pay[p].status = "pending"
    IN  /\ rail[p] = "rejected"
        /\ WriteBack(p, "failed")
        /\ pay' = IF fails THEN [pay EXCEPT ![p].status = "failed"] ELSE pay
        /\ order' = [o \in Orders |->
                        IF fails /\ pay[p].kind = "order" /\ o \in pay[p].covers
                        THEN [order[o] EXCEPT !.payment_status = "unpaid"] ELSE order[o]]
        /\ UNCHANGED <<latest, ledger, production>>

\* A timeout or an unreadable answer, whatever the channel did with the request.
FinishUnknown(p) == WriteBack(p, "unknown") /\ UNCHANGED moneyVars

\* expires_at passes; it matters only while the channel may still take money.
ActionLapses(p) ==
    /\ rail[p] \in {"sent", "open", "closed"} /\ p \notin expired
    /\ expired' = expired \cup {p}
    /\ UNCHANGED <<moneyVars, action, window, rail, obs, resolved>>

\* fulfillment_expires_at passes, not before that of the actions it caps.
ReservationLapses(o) ==
    /\ order[o].fulfilment = "awaiting_payment" /\ ~order[o].lapsed
    /\ \A p \in Payments :
          o \in window[p] /\ rail[p] \in {"sent", "open", "closed"} => p \in expired
    /\ order' = [order EXCEPT ![o].lapsed = TRUE]
    /\ UNCHANGED <<pay, latest, providerVars, ledger, production, resolved>>

----------------------------------------------------------------------------
(* The payment channel and its verified answers.  The channel is external: *)
(* it accepts or rejects a request, the customer may pay an open one, also *)
(* after it was closed, and the money carries the channel's own time.      *)

Captured(p) == IF p \in expired THEN "captured_late" ELSE "captured"

RailMoves(p, from, to) ==
    /\ rail[p] \in from
    /\ rail' = [rail EXCEPT ![p] = to]
    /\ UNCHANGED <<moneyVars, action, window, expired, obs, resolved>>

RailAnswers(p) == \E to \in {"open", "rejected"} : RailMoves(p, {"sent"}, to)
RailEnds(p) == \E to \in {"closed", "failed"} : RailMoves(p, {"open"}, to)
CustomerPays(p) == RailMoves(p, {"open", "closed"}, Captured(p))

\* recordPayment: a verified observation is committed before it is applied.  A
\* later query records a new one, so only the unconsumed ones are kept.
Recorded(p, k) ==
    /\ k \notin obs[p]
    /\ obs' = [obs EXCEPT ![p] = @ \cup {k}]
    /\ UNCHANGED <<moneyVars, action, window, expired, rail, resolved>>

\* A signed success callback.
RecordCallback(p) == rail[p] \in RailCaptured /\ Recorded(p, "callback")

\* Slip: an attempt still in progress at the channel is taken for paid.
RecordQueryOptimistic(p, s) ==
    /\ pay[p].status \in {"pending", "closed"}
    /\ \/ s = "succeeded" /\ rail[p] \in RailCaptured \cup {"open"}
       \/ s \in {"failed", "closed"} /\ rail[p] = s
    /\ Recorded(p, s)

\* query, querySystem or close, which queries first and then asks the channel to
\* close.  They read the payment before the provider call; for an answer that is
\* recorded after the payment was captured or failed, applying it is a no-op.
RecordQuery(p, s) ==
    /\ pay[p].status \in {"pending", "closed"}
    /\ \/ s = "succeeded" /\ rail[p] \in RailCaptured
       \/ s \in {"failed", "closed"} /\ rail[p] = s
    /\ Recorded(p, s)

Consumed(p, k) ==
    /\ k \in obs[p]
    /\ obs' = [obs EXCEPT ![p] = @ \ {k}]

----------------------------------------------------------------------------
(* Applying an observation.  The whole command is one transaction: when a  *)
(* repository throws, the observation stays unconsumed as well.            *)

\* Slip: a success observed twice is booked twice.
BookableAgain(p) == pay[p].status \in {"pending", "closed", "succeeded"}

\* Slip: a close that was accepted once can never be corrected.
BookableWhilePending(p) == pay[p].status = "pending"

\* WHERE status IN ('created', 'pending', 'closed'): money the books do not have.
Bookable(p) == pay[p].status \in {"pending", "closed"}

Book(p) ==
    LET S == pay[p].covers
        late == rail[p] = "captured_late"
    IN  /\ Bookable(p)
        /\ pay' = [pay EXCEPT ![p].status = "succeeded",
                             ![p].after_close = (pay[p].status = "closed")]
        /\ ledger' = [ledger EXCEPT ![p] = @ + 1]
        /\ ~ActivationRefused(Synced(order, pay', S), S, late)
        /\ order' = Activated(Synced(order, pay', S), S, late)
        /\ production' = Produced(order')
        /\ UNCHANGED latest

ActionConsumed(p) ==
    action' = [action EXCEPT ![p] = IF @ = "absent" THEN @ ELSE "consumed"]

ActionFailed(p) ==
    action' = [action EXCEPT ![p] = IF @ \in LiveAction THEN "failed" ELSE @]

\* recordSucceededCallback; a payment already 'failed' is a transition error.
ApplyCallback(p) ==
    /\ Consumed(p, "callback")
    /\ \/ pay[p].status = "succeeded" /\ UNCHANGED moneyVars
       \/ Book(p)
    /\ ActionConsumed(p)
    /\ UNCHANGED <<window, expired, rail, resolved>>

\* recordProviderQueryResult with a success.
ApplyQuerySuccess(p) ==
    /\ Consumed(p, "succeeded")
    /\ \/ pay[p].status = "succeeded" /\ UNCHANGED <<moneyVars, action>>
       \/ Book(p) /\ ActionConsumed(p)
    /\ UNCHANGED <<window, expired, rail, resolved>>

\* applyProviderQueryResult with a definitive non-success s: it ends a pending
\* attempt, and is a no-op for one already captured or already ended alike.
Ends(p, s) ==
    /\ pay[p].status = "pending"
    /\ pay' = [pay EXCEPT ![p].status = s]
    /\ ActionFailed(p)

\* recordProviderQueryResult with a definitive non-success: the reservations
\* of the covered orders are released, whatever their other attempts do.
ApplyQueryFailure(p, s) ==
    /\ Consumed(p, s)
    /\ \/ pay[p].status \in {"succeeded", s} /\ UNCHANGED <<moneyVars, action>>
       \/ /\ Ends(p, s)
          /\ order' = ReleasedAfterFailure(Synced(order, pay', pay[p].covers), pay[p].covers)
          /\ UNCHANGED <<latest, ledger, production>>
    /\ UNCHANGED <<window, expired, rail, resolved>>

----------------------------------------------------------------------------
(* Giving a reservation up.                                                *)

\* abandonGuestSelfCheckout of guest-commerce-service-api: the guest leaves the
\* payment sheet.  Only the newest single-order payment is looked at.
GuestAbandon(o) ==
    LET q == latest[o]
        live == q # None /\ action[q] \in LiveAction
    IN  /\ o \in GuestQr
        /\ order[o].status = "submitted" /\ order[o].fulfilment # "active"
        /\ q # None => pay[q].method = "jsapi" /\ pay[q].status # "succeeded"
        /\ action' = IF live THEN [action EXCEPT ![q] = "failed"] ELSE action
        /\ expired' = IF live THEN expired \cup {q} ELSE expired
        /\ order' = Cancelled(order, o)
        /\ UNCHANGED <<pay, latest, window, rail, obs, ledger, production, resolved>>

\* assertEligible and assertNoCompetingFinancialWork
Retirable(p, ord, o) ==
    /\ pay[p].kind = "order" /\ pay[p].covers = {o} /\ pay[p].method = "jsapi"
    /\ o \in GuestQr
    /\ ord[o].status = "submitted" /\ ord[o].payment_status = "unpaid"
    /\ ord[o].fulfilment \in {"awaiting_payment", "released"}
    /\ \A q \in Direct(o) \ {p} : pay[q].status \notin {"pending", "succeeded"}

\* commitTerminal of the stale guest checkout worker.  Its replay for an order
\* that is already cancelled changes what ApplyQueryFailure changes.
RetireTerminal(p, s) ==
    /\ Consumed(p, s)
    /\ \/ pay[p].status = s /\ UNCHANGED <<pay, action>>
       \/ Ends(p, s)
    /\ \E o \in pay[p].covers :
          LET before == Synced(order, pay', {o})
          IN Retirable(p, before, o) /\ order' = Cancelled(before, o)
    /\ UNCHANGED <<latest, ledger, production, window, expired, rail, resolved>>

\* abandonUnresolved: the channel stayed silent; the payment remains pending.
RetireUnresolved(p) ==
    /\ pay[p].status = "pending"
    /\ \E o \in pay[p].covers :
          Retirable(p, order, o) /\ order' = Cancelled(order, o)
    /\ UNCHANGED <<pay, latest, providerVars, ledger, production, resolved>>

\* cancel_unpaid_order, a function of the database called by staff.
StaffCancel(o) ==
    /\ order[o].status # "cancelled" /\ order[o].payment_status = "unpaid"
    /\ \A p \in Direct(o) : pay[p].status \in {"failed", "closed"}
    /\ order' = Cancelled(order, o)
    /\ UNCHANGED <<pay, latest, providerVars, ledger, production, resolved>>

----------------------------------------------------------------------------
(* payment-reservation-expiry-worker: one transaction for a whole batch.   *)

Due == {o \in Immediate : order[o].fulfilment = "awaiting_payment" /\ order[o].lapsed}
DirectlyPaid(o) == \E p \in Direct(o) : pay[p].status = "succeeded"
HeldForQuery(o) ==
    \E p \in Direct(o) : pay[p].status = "pending" /\ ~pay[p].released

\* Slip: the deadline alone decides.
GivenUpBlindly == {o \in Due : ~DirectlyPaid(o)}

\* payment_state 'terminal' or 'none'
GivenUp == {o \in Due : ~DirectlyPaid(o) /\ ~HeldForQuery(o)}

\* Captured orders are recovered, unresolved ones left for the provider query,
\* the others released.  recordResolution inserts an outbox row whose key names
\* only the order: when it exists already, the batch is rolled back.
ExpiryBatch ==
    LET recovered == {o \in Due : DirectlyPaid(o)}
        keys == ({"activated"} \X recovered) \cup ({"released"} \X GivenUp)
    IN  /\ keys # {} /\ keys \cap resolved = {}
        /\ resolved' = resolved \cup keys
        /\ order' = ReleasedAfterFailure(
                        Activated(Synced(order, pay, recovered), recovered, FALSE), GivenUp)
        /\ production' = Produced(order')
        /\ UNCHANGED <<pay, latest, providerVars, ledger>>

----------------------------------------------------------------------------
Collecting ==
    \/ \E p \in Payments, S \in SUBSET Orders, kind \in {"order", "order_batch"} :
          RecordManual(p, S, kind) \/ \E m \in Methods : Initiate(p, S, kind, m)
    \/ \E S \in SUBSET Orders, m \in Methods : InitiateReuse(S, m)
    \/ \E p \in Payments : ReleaseForRetry(p)

Calling ==
    \E p \in Payments :
        Claim(p) \/ Complete(p) \/ FinishRejected(p) \/ FinishUnknown(p)

Channel == \E p \in Payments : RailAnswers(p) \/ RailEnds(p) \/ CustomerPays(p)

Applying ==
    \E p \in Payments :
        \/ RecordCallback(p) \/ ApplyCallback(p) \/ ApplyQuerySuccess(p)
        \/ \E s \in {"succeeded", "failed", "closed"} : RecordQuery(p, s)
        \/ \E s \in {"failed", "closed"} : ApplyQueryFailure(p, s)

GivingUp ==
    \/ \E o \in Orders : GuestAbandon(o) \/ StaffCancel(o) \/ ReservationLapses(o)
    \/ \E p \in Payments : RetireUnresolved(p) \/ ActionLapses(p)
    \/ \E p \in Payments, s \in {"failed", "closed"} : RetireTerminal(p, s)
    \/ ExpiryBatch

Next == Collecting \/ Calling \/ Channel \/ Applying \/ GivingUp

Spec == Init /\ [][Next]_vars

\* Callbacks are retried by the channel and queries by the reconciliation worker
\* until they are applied; the expiry worker runs on a timer.
Fairness ==
    /\ \A p \in Payments :
          /\ WF_vars(RecordCallback(p)) /\ WF_vars(ApplyCallback(p))
          /\ WF_vars(RecordQuery(p, "succeeded")) /\ WF_vars(ApplyQuerySuccess(p))
    /\ WF_vars(ExpiryBatch)

FairSpec == Spec /\ Fairness

----------------------------------------------------------------------------
(* Safety.                                                                 *)

\* The reconciliation ledger holds exactly one payment entry for every captured
\* attempt and none for the others, whatever mix of callbacks, queries, late
\* captures and manual receipts arrives and in whatever order
\* (ReconciliationRepository.append next to every status change).
LedgerMatchesCaptures ==
    \A p \in Payments : ledger[p] = IF pay[p].status = "succeeded" THEN 1 ELSE 0

\* An online attempt counts as collected only when the channel really captured
\* the money; an unknown, expired, abandoned or retry-released attempt is never
\* taken for paid (verified observations, consumed with the booking).
CaptureHasEvidence ==
    \A p \in Payments :
        pay[p].status = "succeeded" /\ pay[p].method \in Methods => rail[p] \in RailCaptured

\* Money and service move together: no committed state has an immediate order
\* that is fully collected but still waiting or released (activatePaidOrder runs
\* in the transaction that books the money, or refuses both).
CollectedOrderIsServed ==
    \A o \in Immediate :
        order[o].status = "submitted" /\ Settled(pay, o) =>
            order[o].fulfilment \in {"active", "cancelled"}

\* Stock is consumed and kitchen work created only for money that staff holds or
\* that the channel captured before the purchase deadline, also when several
\* attempts of one order race (the late branch of activatePaidOrder).
ServedForTimelyMoney ==
    \A o \in Orders :
        production[o] > 0 =>
            \E p \in Payments :
                /\ pay[p].status = "succeeded" /\ o \in pay[p].covers
                /\ pay[p].method = "manual" \/ rail[p] = "captured"

\* The same balance is taken twice through one method only after staff released
\* the first attempt or the channel had reported it closed
\* (findReusableOnlineAttempt under the order locks).
DoubleCaptureIsExplained ==
    \A p, q \in Payments :
        (/\ p # q /\ pay[p].status = "succeeded" /\ pay[q].status = "succeeded"
         /\ pay[p].method = pay[q].method /\ pay[p].method \in Methods
         /\ pay[p].covers = pay[q].covers) =>
            \E x \in {p, q} : pay[x].released \/ pay[x].after_close

\* A finished attempt has no provider action that would still be handed to a
\* customer, even when the answer of its create call is written back after the
\* callback or the query (WHERE state = 'creating' in complete and markUnknown).
FinishedAttemptIsNotPayable ==
    \A p \in Payments :
        pay[p].status \in {"succeeded", "failed", "closed"} => action[p] \notin LiveAction

\* Once an order was cancelled or abandoned, no later payment, callback, restore
\* or recovery gives it a reservation, production or a fulfilment state again
\* ("deliberately unable to re-create fulfilment", abandonGuestSelfCheckout).
CancelledIsFinal ==
    [][\A o \in Orders :
         order[o].fulfilment = "cancelled" =>
             order'[o].fulfilment = "cancelled" /\ production'[o] = production[o]]_vars

\* While a single-order attempt is unresolved and not released by staff, its
\* reservation is given up only in a step that ends an attempt of that order;
\* a passed deadline alone is not enough (payment_state 'unknown').
DeadlineAloneReleasesNothing ==
    [][\A o \in Immediate :
         (/\ order[o].fulfilment = "awaiting_payment"
          /\ order'[o].fulfilment = "released"
          /\ HeldForQuery(o)) =>
             \E p \in Payments : /\ o \in pay[p].covers
                                 /\ pay[p].status = "pending"
                                 /\ pay'[p].status \in {"failed", "closed"}]_vars

\* Production never outlives its reason: whatever was produced belongs to an order
\* that is still active or was cancelled afterwards, so no restored reservation, no
\* release and no recovery can have it produced again.
ProductionFollowsFulfilment ==
    \A o \in Orders :
        /\ production[o] <= 1
        /\ production[o] > 0 => order[o].fulfilment \in {"active", "cancelled"}

\* The promise of the whole component: an attempt enters the ledger once, an order
\* is served once, in the step that books money, and never after it was withdrawn.
Promise == INSTANCE CollectionPromise WITH
              booked <- {p \in Payments : ledger[p] > 0},
              served <- {o \in Orders : production[o] > 0},
              withdrawn <- {o \in Orders : order[o].fulfilment = "cancelled"}

ImplementsPromise == Promise!PromiseSpec

----------------------------------------------------------------------------
(* Liveness.                                                               *)

\* Money the channel captured reaches the books, also after a close, a crash, a
\* lost answer or a cancellation of the order.
CaptureIsBooked ==
    \A p \in Payments : rail[p] \in RailCaptured ~> pay[p].status = "succeeded"

----------------------------------------------------------------------------
(* What comments and documents of the repository say and the code does not *)
(* do; each is the one property of a run that refutes it.                  *)

\* payment-repository.ts:1093: a signed late success is a financial fact, "Never
\* throw it away: record it".
VerifiedSuccessIsRecorded ==
    \A p \in Payments :
        obs[p] \cap {"callback", "succeeded"} # {} ~> pay[p].status = "succeeded"

\* payment-reservation-expiry-worker.ts:27: "Created/pending payments remain
\* reserved for provider query", batch payments included.
PendingPaymentKeepsReservation ==
    [][\A o \in Due : ExpiryBatch /\ order'[o].fulfilment = "released" =>
         \A p \in Payments : o \in pay[p].covers /\ Unresolved(p) => pay[p].released]_vars

\* payment-reservation-expiry-worker.ts:26: orders "whose payments are all
\* definitively failed/closed, are safe to release": the worker gets rid of them.
DeadReservation(o) ==
    /\ o \in Due
    /\ \A p \in Payments : o \in pay[p].covers => pay[p].status \in {"failed", "closed"}

DeadReservationEnds == \A o \in Orders : DeadReservation(o) ~> ~DeadReservation(o)

\* The payment status of an order follows all its captured payments, not one
\* failed attempt (syncOrderPaymentStatus).
CollectedOrderReadsPaid ==
    \A o \in Orders : Settled(pay, o) => order[o].payment_status = "paid"

\* 098_unpaid_order_cancellation.sql: "payment must be closed or failed before
\* order cancellation".
CancellationWaitsForPayments ==
    [][\A o \in Orders : StaffCancel(o) =>
         \A p \in Payments :
             o \in pay[p].covers => pay[p].status \in {"failed", "closed"}]_vars
=============================================================================

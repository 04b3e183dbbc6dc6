--------------------------- MODULE RefundWorkflow ---------------------------
EXTENDS Naturals, FiniteSets

(***************************************************************************)
(* Refunds of captured payments: request, decision by a second employee,   *)
(* execution at the till or by the channel, verified results, and the      *)
(* retry of a failed refund of an after-sales case.                        *)
(*                                                                         *)
(* One action is one transaction; it holds the locks of the orders, the    *)
(* payment and the refund.  The channel call lies between two              *)
(* transactions, so its request and its answer have steps of their own.    *)
(* A case is modelled with one refund at a time (one original payment).    *)
(***************************************************************************)
CONSTANTS
    Refunds,    \* rows of mbox.refunds
    Payments,   \* captured payments
    Items,      \* order items
    OrderOf,    \* the order of an item
    Price,      \* total_amount_minor of an item
    Share,      \* Share[p][o]: what payment p collected for order o
    Captured,   \* amount_minor of a payment
    Provider,   \* "postar", or a provider whose result an employee records
    Staff,
    None

Orders == {OrderOf[i] : i \in Items}
ItemsOf(o) == {i \in Items : OrderOf[i] = o}
ManualProviders == {"cash", "physical_pos", "external_manual"}

ASSUME FiniteRefunds == IsFiniteSet(Refunds) /\ IsFiniteSet(Items)
ASSUME PriceAssumption == Price \in [Items -> Nat]
ASSUME ShareAssumption ==
    /\ Share \in [Payments -> [Orders -> Nat]]
    /\ Captured \in [Payments -> Nat \ {0}]
ASSUME ProviderAssumption == Provider \in [Payments -> ManualProviders \cup {"postar"}]
ASSUME NobodyAssumption ==
    None \notin Refunds /\ None \notin Payments /\ None \notin Staff

VARIABLES
    status,      \* refunds.status, "none" before the row exists
    payment,     \* payment_id
    alloc,       \* refund_items: the amount per item
    requester,   \* requested_by_employee_id
    approver,    \* approved_by_employee_id
    linked,      \* refunds of an after-sales case (item_after_sales_case_refunds)
    retryOf,     \* previous_refund_id in item_after_sales_refund_retries
    submitted,   \* refunds whose provider_submission_state is not "not_started"
    channel,     \* external: what became of the refund at the channel
    rejections,  \* refused submissions whose answer is on its way back
    unread,      \* unconsumed verified observations of the refund
    consumed,    \* consumed ones
    ledger,      \* refunds with an entry in reconciliation_entries
    payStatus    \* payments.status

rowVars == <<payment, alloc, requester, linked, retryOf>>
wireVars == <<submitted, channel, rejections, unread, consumed>>
bookVars == <<ledger, payStatus>>
vars == <<status, payment, alloc, requester, approver, linked, retryOf,
          submitted, channel, rejections, unread, consumed, ledger, payStatus>>

RESERVING == {"requested", "approved", "processing", "succeeded"}
Terminal == {"succeeded", "failed"}
Amounts == [Items -> Nat]

TypeOK ==
    /\ status \in [Refunds -> {"none", "requested", "approved", "rejected",
                               "cancelled", "processing", "succeeded", "failed"}]
    /\ payment \in [Refunds -> Payments \cup {None}]
    /\ alloc \in [Refunds -> Amounts]
    /\ requester \in [Refunds -> Staff \cup {None}]
    /\ approver \in [Refunds -> Staff \cup {None}]
    /\ linked \subseteq Refunds
    /\ retryOf \in [Refunds -> Refunds \cup {None}]
    /\ submitted \subseteq Refunds
    /\ channel \in [Refunds -> {"idle", "travelling", "accepted",
                                "refused", "returned", "failed"}]
    /\ rejections \subseteq Refunds
    /\ unread \in [Refunds -> SUBSET Terminal]
    /\ consumed \in [Refunds -> SUBSET Terminal]
    /\ ledger \subseteq Refunds
    /\ payStatus \in [Payments -> {"succeeded", "partially_refunded", "refunded"}]

Init ==
    /\ status = [r \in Refunds |-> "none"]
    /\ payment = [r \in Refunds |-> None]
    /\ alloc = [r \in Refunds |-> [i \in Items |-> 0]]
    /\ requester = [r \in Refunds |-> None]
    /\ approver = [r \in Refunds |-> None]
    /\ linked = {}
    /\ retryOf = [r \in Refunds |-> None]
    /\ submitted = {}
    /\ channel = [r \in Refunds |-> "idle"]
    /\ rejections = {}
    /\ unread = [r \in Refunds |-> {}]
    /\ consumed = [r \in Refunds |-> {}]
    /\ ledger = {}
    /\ payStatus = [p \in Payments |-> "succeeded"]

----------------------------------------------------------------------------
(* What a refund reserves.  An SQL sum over refund_items is the number of  *)
(* minor units of the refunds in S on the items in I, with amounts a.      *)

Coins(a, S, I) == UNION {{c} \X (1 .. a[c[1]][c[2]]) : c \in S \X I}
Amount(a, S, I) == Cardinality(Coins(a, S, I))

Superseded == {retryOf[r] : r \in Refunds} \ {None}

\* refundReservesAmountSql: a failed refund keeps its amount while its case is
\* approved and no other refund has taken its place.
Reserves(r) ==
    \/ status[r] \in RESERVING
    \/ status[r] = "failed" /\ r \in linked \ Superseded

ReservingOf(p) == {r \in Refunds : payment[r] = p /\ Reserves(r)}

\* The sum of a payment's succeeded refunds decides its status.
SyncedStatus(p, S) ==
    LET back == Amount(alloc, {r \in S : payment[r] = p}, Items) IN
    IF back >= Captured[p] THEN "refunded"
    ELSE IF back > 0 THEN "partially_refunded" ELSE "succeeded"

----------------------------------------------------------------------------
(* RefundRepository.request                                                *)

\* Slip: refunds of others that wait for a decision are not counted.
FitsWithoutOpenRequests(p, a, S, r) ==
    Amount(a, {x \in S : status[x] = "succeeded"} \cup {r}, Items) <= Captured[p]

\* validateRefundCapacity and the share of a combined payment: with the refunds S
\* that count, refund r of amounts a[r] must leave the payment, its share of the one
\* order the refund is for, and every item of it within bounds.
Fits(p, a, S, r) ==
    /\ Amount(a, S \cup {r}, Items) <= Captured[p]
    /\ \E o \in Orders :
          /\ \A i \in Items : a[r][i] > 0 => OrderOf[i] = o
          /\ Amount(a, S \cup {r}, ItemsOf(o)) <= Share[p][o]
    /\ \A i \in Items : a[r][i] > 0 => Amount(a, S \cup {r}, {i}) <= Price[i]

\* The inserted row; S are the refunds whose amount counts against the request.
Insert(r, p, f, s, S) ==
    /\ status[r] = "none"
    /\ payStatus[p] \in {"succeeded", "partially_refunded"}
    /\ \E i \in Items : f[i] > 0
    /\ payment' = [payment EXCEPT ![r] = p]
    /\ alloc' = [alloc EXCEPT ![r] = f]
    /\ Fits(p, alloc', S, r)
    /\ requester' = [requester EXCEPT ![r] = s]

Allocations == [Items -> UNION {0 .. Price[i] : i \in Items}]

\* requestRefund, and for one item the refund of a new after-sales case (prepare).
Request(r, p, f, s, inCase) ==
    /\ Insert(r, p, f, s, ReservingOf(p))
    /\ inCase => Cardinality({i \in Items : f[i] > 0}) = 1
    /\ status' = [status EXCEPT ![r] = "requested"]
    /\ linked' = IF inCase THEN linked \cup {r} ELSE linked
    /\ UNCHANGED <<approver, retryOf, wireVars, bookVars>>

----------------------------------------------------------------------------
(* The decision                                                            *)

\* Approval of an online refund begins its execution in the same transaction.
Begun(r) == IF Provider[payment[r]] = "postar" THEN "processing" ELSE "approved"

\* Slip: anybody may approve.
MayDecideAnyone(r, s) == status[r] = "requested"

MayDecide(r, s) == status[r] = "requested" /\ requester[r] # s

\* approveRefund, or the decision of the case the refund belongs to.
Approve(r, s) ==
    /\ MayDecide(r, s)
    /\ status' = [status EXCEPT ![r] = Begun(r)]
    /\ approver' = [approver EXCEPT ![r] = s]
    /\ UNCHANGED <<rowVars, wireVars, bookVars>>

Reject(r, s) ==
    /\ MayDecide(r, s)
    /\ status' = [status EXCEPT ![r] = "rejected"]
    /\ approver' = [approver EXCEPT ![r] = s]
    /\ UNCHANGED <<rowVars, wireVars, bookVars>>

\* The requester withdraws or changes the case; a refund outside a case has no
\* such operation.
Withdraw(r) ==
    /\ r \in linked /\ status[r] = "requested"
    /\ status' = [status EXCEPT ![r] = "cancelled"]
    /\ UNCHANGED <<rowVars, approver, wireVars, bookVars>>

\* beginRefundExecution; of a refund already processing it changes nothing.
BeginExecution(r) ==
    /\ status[r] = "approved" /\ approver[r] # None
    /\ status' = [status EXCEPT ![r] = "processing"]
    /\ UNCHANGED <<rowVars, approver, wireVars, bookVars>>

----------------------------------------------------------------------------
(* Execution by the channel                                                *)

\* Slip: the rest of a partly refunded payment is not executed any more.
ExecutableOnFullPayment(r) ==
    /\ status[r] = "processing" /\ Provider[payment[r]] = "postar"
    /\ payStatus[payment[r]] = "succeeded"

\* refundContext: only a refund under way of a payment with money left.
Executable(r) ==
    /\ status[r] = "processing" /\ Provider[payment[r]] = "postar"
    /\ payStatus[payment[r]] \in {"succeeded", "partially_refunded"}

\* Slip: a submission whose answer is missing is sent again.
ClaimAgain(r) ==
    /\ Executable(r)
    /\ channel[r] \in {"idle", "failed"}
    /\ submitted' = submitted \cup {r}
    /\ channel' = [channel EXCEPT ![r] = "travelling"]
    /\ UNCHANGED <<status, rowVars, approver, rejections, unread, consumed, bookVars>>

\* claimRefundSubmission: one caller wins; the request leaves after the commit.
Claim(r) ==
    /\ Executable(r) /\ r \notin submitted
    /\ submitted' = submitted \cup {r}
    /\ channel' = [channel EXCEPT ![r] = "travelling"]
    /\ UNCHANGED <<status, rowVars, approver, rejections, unread, consumed, bookVars>>

\* The channel takes the request or turns it down; a request that never arrives,
\* because the process died or the line broke, stays "travelling" for ever.
ChannelTakes(r) ==
    /\ channel[r] = "travelling"
    /\ \/ channel' = [channel EXCEPT ![r] = "accepted"] /\ UNCHANGED rejections
       \/ /\ channel' = [channel EXCEPT ![r] = "refused"]
          /\ rejections' = rejections \cup {r}
    /\ UNCHANGED <<status, rowVars, approver, submitted, unread, consumed, bookVars>>

\* The channel pays the money back, or fails for good.
ChannelEnds(r) ==
    /\ channel[r] = "accepted"
    /\ \E c \in {"returned", "failed"} : channel' = [channel EXCEPT ![r] = c]
    /\ UNCHANGED <<status, rowVars, approver, submitted, rejections, unread,
                   consumed, bookVars>>

\* Slip: the channel's word is stored as it came.
ObserveRaw(r, k) == unread' = [unread EXCEPT ![r] = @ \cup {channel[r]}]

\* The result is stored as "succeeded" or "failed".
Observe(r, k) == unread' = [unread EXCEPT ![r] = @ \cup {k}]

\* recordVerifiedSubmitRejection, or the caller dies before it.
RejectionReturns(r) ==
    /\ r \in rejections
    /\ rejections' = rejections \ {r}
    /\ \/ Executable(r) /\ Observe(r, "failed")
       \/ UNCHANGED unread
    /\ UNCHANGED <<status, rowVars, approver, submitted, channel, consumed, bookVars>>

\* refundStatus: the result a query or a callback of an ended refund carries.
Verdict(r) == IF channel[r] = "returned" THEN "succeeded" ELSE "failed"

\* Slip: any answer ends the refund.
EndedAnyway(r) == channel[r] # "idle"

\* "not refunded yet" and errors make no verified observation.
Ended(r) == channel[r] \in {"returned", "failed"}

\* queryRefund: an observation that waits is used first.
Query(r) ==
    /\ Executable(r) /\ r \in submitted /\ unread[r] = {}
    /\ Ended(r)
    /\ Observe(r, Verdict(r))
    /\ UNCHANGED <<status, rowVars, approver, submitted, channel, rejections,
                   consumed, bookVars>>

\* The channel's callback may come at any time after the end, and again.
Callback(r) ==
    /\ Ended(r) /\ Observe(r, Verdict(r))
    /\ UNCHANGED <<status, rowVars, approver, submitted, channel, rejections,
                   consumed, bookVars>>

----------------------------------------------------------------------------
(* Results                                                                 *)

\* completeLocked, the ledger entry and syncPaymentRefundStatus.
Complete(r, k) ==
    /\ status' = [status EXCEPT ![r] = k]
    /\ IF k = "succeeded"
       THEN LET done == {x \in Refunds : status[x] = "succeeded"} \cup {r} IN
            /\ ledger' = ledger \cup {r}
            /\ payStatus' = [payStatus EXCEPT ![payment[r]] =
                               SyncedStatus(payment[r], done)]
       ELSE UNCHANGED bookVars

\* recordProviderRefundResult: the same result again changes nothing, another one
\* is refused.
ApplyResult(r, k) ==
    /\ k \in unread[r]
    /\ unread' = [unread EXCEPT ![r] = @ \ {k}]
    /\ consumed' = [consumed EXCEPT ![r] = @ \cup {k}]
    /\ \/ status[r] = "processing" /\ Complete(r, k)
       \/ status[r] = k /\ UNCHANGED <<status, bookVars>>
    /\ UNCHANGED <<rowVars, approver, submitted, channel, rejections>>

\* Slip: the result of a finished refund is stated again.
ManualResultAgain(r, k) ==
    /\ status[r] \in {"processing"} \cup Terminal
    /\ Provider[payment[r]] \in ManualProviders
    /\ Complete(r, k)
    /\ UNCHANGED <<rowVars, approver, wireVars>>

\* recordManualRefundResult: an employee states what happened at the till.
ManualResult(r, k) ==
    /\ status[r] = "processing" /\ Provider[payment[r]] \in ManualProviders
    /\ Complete(r, k)
    /\ UNCHANGED <<rowVars, approver, wireVars>>

----------------------------------------------------------------------------
(* Retry of a failed refund of a case                                      *)

\* The predicate of quantity_refund_retry_eligible: a failure with evidence and no
\* trace of a success.
RetryEligible(r) ==
    /\ status[r] = "failed" /\ r \notin Superseded /\ r \notin ledger
    /\ "succeeded" \notin unread[r] \cup consumed[r]
    /\ \/ Provider[payment[r]] \in {"cash", "pos", "external"}
       \/ Provider[payment[r]] = "postar" /\ "failed" \in consumed[r]

\* Slip: the refund it replaces is not looked at.
RetryOfAny(r, x) ==
    /\ r \in linked /\ status[r] \in {"processing", "failed"} /\ r \notin Superseded
    /\ Insert(x, payment[r], alloc[r], requester[r], ReservingOf(payment[r]) \ {r})
    /\ status' = [status EXCEPT ![x] = Begun(r)]
    /\ approver' = [approver EXCEPT ![x] = approver[r]]
    /\ linked' = linked \cup {x}
    /\ retryOf' = [retryOf EXCEPT ![x] = r]
    /\ UNCHANGED <<wireVars, bookVars>>

\* ItemQuantityRefundRetryRepository.retry: x takes over the amount, the requester
\* and the decision of r.
Retry(r, x) ==
    /\ r \in linked /\ RetryEligible(r)
    /\ Insert(x, payment[r], alloc[r], requester[r], ReservingOf(payment[r]) \ {r})
    /\ status' = [status EXCEPT ![x] = Begun(r)]
    /\ approver' = [approver EXCEPT ![x] = approver[r]]
    /\ linked' = linked \cup {x}
    /\ retryOf' = [retryOf EXCEPT ![x] = r]
    /\ UNCHANGED <<wireVars, bookVars>>

----------------------------------------------------------------------------
Next ==
    \E r \in Refunds :
       \/ \E p \in Payments, f \in Allocations, s \in Staff, inCase \in BOOLEAN :
             Request(r, p, f, s, inCase)
       \/ \E s \in Staff : Approve(r, s) \/ Reject(r, s)
       \/ Withdraw(r) \/ BeginExecution(r)
       \/ Claim(r) \/ ChannelTakes(r) \/ ChannelEnds(r) \/ RejectionReturns(r)
       \/ Query(r) \/ Callback(r)
       \/ \E k \in Terminal : ApplyResult(r, k) \/ ManualResult(r, k)
       \/ \E x \in Refunds : Retry(r, x)

Spec == Init /\ [][Next]_vars

\* The worker takes up every online refund under way, submits it or queries it,
\* and applies what it learns.
Fairness ==
    \A r \in Refunds :
       /\ WF_vars(Claim(r)) /\ WF_vars(Query(r))
       /\ \A k \in Terminal : WF_vars(ApplyResult(r, k))

FairSpec == Spec /\ Fairness

----------------------------------------------------------------------------
\* What the rows say of each other: an existing refund names its payment, a
\* requester and, once decided for, another employee; a row that is not there is empty.
RowsAgree ==
    \A r \in Refunds :
       /\ status[r] = "none" <=> payment[r] = None
       /\ status[r] = "none" => r \notin linked
       /\ status[r] \in {"none", "requested"} => approver[r] = None
       /\ status[r] \in {"approved", "processing"} \cup Terminal =>
             approver[r] \in Staff /\ approver[r] # requester[r]

\* What refunds reserve of a payment never exceeds what it collected, in all, for
\* each of its orders and for each item, whatever was requested, decided, failed and
\* retried in parallel.
RefundsFitTheirFunds ==
    \A p \in Payments :
       /\ Amount(alloc, ReservingOf(p), Items) <= Captured[p]
       /\ \A o \in Orders : Amount(alloc, ReservingOf(p), ItemsOf(o)) <= Share[p][o]
       /\ \A i \in Items : Amount(alloc, ReservingOf(p), {i}) <= Price[i]

\* Money the channel really paid back was decided by a second employee, is still
\* accounted for, and left once per decision: neither the refund it replaces nor
\* the one that replaces it went out too.
MoneyLeavesOncePerDecision ==
    \A r \in Refunds : channel[r] = "returned" =>
       /\ status[r] \in {"processing", "succeeded"}
       /\ approver[r] \in Staff /\ approver[r] # requester[r]
       /\ r \notin Superseded

\* The books follow the channel and the till: an entry for every succeeded refund
\* and for no other, a payment status that agrees with the sum, and no online refund
\* booked against what the channel did.
BooksMatchTheChannel ==
    /\ ledger = {r \in Refunds : status[r] = "succeeded"}
    /\ \A p \in Payments : payStatus[p] = SyncedStatus(p, ledger)
    /\ \A r \in Refunds :
          status[r] \in Terminal /\ Provider[payment[r]] = "postar" =>
             channel[r] \in (IF status[r] = "succeeded" THEN {"returned"}
                             ELSE {"refused", "failed"})

\* Once decided, a refund keeps payment, amounts, requester and approver, and a
\* final status stays.
DecisionsAreFinal ==
    [][\A r \in Refunds :
          /\ approver[r] # None =>
                /\ <<payment[r], alloc[r], requester[r], approver[r]>>' =
                      <<payment[r], alloc[r], requester[r], approver[r]>>
          /\ status[r] \in Terminal \cup {"rejected", "cancelled"} =>
                status'[r] = status[r]]_vars

\* Money the channel paid back is booked in the end, although answers get lost.
ReturnedMoneyIsBooked ==
    \A r \in Refunds : channel[r] = "returned" ~> r \in ledger

\* An approved refund of an after-sales case that an employee or the channel found
\* failed, with no sign of a success, can be tried again.
FailedCaseRefundCanBeRetried ==
    \A r \in Refunds :
       (/\ r \in linked \ Superseded /\ status[r] = "failed"
        /\ "succeeded" \notin unread[r] \cup consumed[r]) => RetryEligible(r)

----------------------------------------------------------------------------
\* The employees behind a refund, once its execution was decided.
Deciders ==
    [r \in Refunds |-> IF status[r] \in {"approved", "processing"} \cup Terminal
                       THEN {requester[r], approver[r]} ELSE {}]

\* Money went back through the channel, or over the till, where the result says so.
Paid == {r \in Refunds : channel[r] = "returned"} \cup ledger
Returned == [p \in Payments |-> Amount(alloc, {r \in Paid : payment[r] = p}, Items)]

Promise == INSTANCE RefundPromise
    WITH deciders <- Deciders, replaced <- Superseded, paid <- Paid,
         returned <- Returned, booked <- ledger

\* The workflow implements the promise: requests, lost submissions, repeated results
\* and case retries never send money back twice on one decision, without a second
\* employee, beyond what was collected, or past the books.
RefundsKeepPromise == Promise!PromiseSpec
=============================================================================

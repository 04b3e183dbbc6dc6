# Verification of the M-BOX operations platform

M-BOX runs a bar: guests order and pay with their phones, staff work with
tablets, workers in the background talk to payment channels, printers and
notification services. The current server is `server/normalized/` (TypeScript on
Node.js, entry `server/normalized-server.ts`) over PostgreSQL 16; its schema,
constraints and several procedures are the 299 files of
`database/normalized-migrations/`. This directory holds TLA+ modules of the
parts where money, orders and messages can get out of step, the TLC runs that
check them, and proofs for TLAPS.

Everything below is about the normalized runtime. The legacy runtime
(`server/*.ts`) is being deleted (`docs/architecture/normalized-deletion-matrix-v1.md`).

## 1. Inventory

Every write goes through a database transaction of
`transaction-runner.ts` (scoped to tenant and store, READ COMMITTED unless a
command asks for more). Concurrency is therefore between transactions; within
one, row locks (`FOR UPDATE`) and conditional updates decide. What happens
outside transactions (provider calls, deliveries, crashes, clocks) is where the
hard behaviour is.

| Component | State | Operations | Hard behaviour | What makes it correct |
|---|---|---|---|---|
| Command executor (`command-executor`, `transaction-runner`, `idempotency-cleanup-worker`) | `idempotency_records`, `outbox_messages`, `audit_events` | `execute`, cleanup batch | repeated and parallel calls of one key, lost COMMIT answers, cleanup between two statements | one effect per receipt, true answers, no blocked key |
| Payment collection (`payment-command-service`, `payment-repository`, `online-payment-service`, `payment-provider-action-repository`, `provider-verification-observation`, `payment-api`) | `payments`, `payment_provider_actions`, `verified_provider_observations`, reconciliation ledger, `orders.payment_status` | initiate, record manual, release for retry, create, callback, query, close | answers in any order, twice, late or never; several attempts per order; batches over orders | money booked exactly once and only with evidence |
| Payment fulfilment (`payment-fulfillment-repository`, `payment-reservation-expiry-worker`, `product-payment-window`) | `orders.fulfillment_state`, reservations, KDS tasks | reserve, activate, release, restore, recover | deadline against late money, batch transaction of the worker | money and service change together, nothing is produced twice |
| Guest withdrawal (`guest-commerce-service-api`, `guest-immediate-checkout-reconciliation-*`, `cancel_unpaid_order`) | orders, provider actions | abandon, retire, cancel | withdrawal against a callback under way | a withdrawn order stays withdrawn, its money is still booked |
| Outbox dispatcher (`outbox-dispatcher`, `normalized-worker-runtime`) | lock, due time and completion of `outbox_messages` | claim, deliver, mark, release | crashes, slow workers, takeovers | at least once, never silently lost, completion final |
| Refunds and recollection (`refund-repository`, `refund-api`, `online-refund-*`, `recollection-authorization-repository`) | `refunds`, `refund_items`, channel observations, case retries, authorizations | request, approve, reject, withdraw, execute by hand or by the channel, query, callback, retry of a case | capacity under parallel requests, lost submissions and answers, a retry of what did go out | refunds never exceed captures, money leaves once per decision, the books follow the channel |
| Orders and settlement (`order-repository`, `order-settlement-exception-repository`) | orders, items | submit, change, deliver, cancel, settle exceptions | delivery against failure, remake and refund | what is served came out of stock; balances agree with the ledger |
| Inventory (`inventory-repository`, `payment-fulfillment-repository`, `refund-fulfillment-repository`) | balances, movements, counts, order and remake reservations | reserve, restore, consume, release, return, receive, waste, count | a count among sales, refund of a line under production, return after a part refund | reserved equals the reservations in force; no unit lost, invented or used twice |
| Kitchen (`kds-repository`, `kitchen-production-api`, `commerce-kds-api`) | KDS tasks, events | start, finish, fail, remake, manager's cancellation | a refund or a turnover while a task is at work | a task uses its material once; a stopped one gives it back only if it was not used |
| Reservations and waitlist (`reservation-repository`, `reservation-command-service`, `public-reservation-api`, `reservation-hold-expiry*`, `waitlist-repository`) | reservations, table locks, deadlines, waitlist entries | register, book tables, confirm, arrive, seat, complete, cancel, amend, expire | deadlines between two commands, capacity counted in one place and believed in others | seats are promised once; locks follow the status; deadlines are acted on |
| Table and guest sessions (`table-session-repository`, `guest-session-repository`, `customer_left_table_turnover`) | sessions, credentials | open, move, close, turn over, rescan | turnover with work and money under way | commands act for the live session; a turnover leaves no reservation behind |
| Shared cart (`guest-shared-cart-repository`) | cart, version, generation | edit, check out | stale versions of several phones | no edit after the hand-over is lost or applied twice |
| Service tasks and SLA (`service-task-repository`, `service-task-sla-worker`) | tasks, due time | acknowledge, finish, escalate | worker against staff | escalation only of open tasks |
| Notifications, printing (`notification-worker`, `print-worker`, `print-bridge-repository`, `deploy/windows-print-bridge/bridge.mjs`) | leases, attempts, the journal of the bridge | claim, send, print, give up, retry, reprint | unknown results, late results, a stop between paper and record | notifications at least once up to a limit, tickets at most once, records true |
| Benefits, coupons, loyalty | balances and holds | reserve, redeem, release, reverse | refund after redemption | no value used twice |
| Background worker coordinator | timers, one cycle per process | run due workers | a worker that never returns | batches of one worker do not overlap |

How they interact: an HTTP handler builds a command and calls `execute`; the
handler runs the repositories of several components in the same transaction and
returns the audit events and outbox messages that the executor appends. Workers
call repositories directly in their own transactions. Components share rows
(orders are locked by payments, fulfilment, withdrawal and the expiry worker) and
messages (the outbox). `PROJECT.json` lists all parts, also those left aside
(clients, content, reports, access control, deployment), with the reason.

## 2. Modules

| Module | Kind | Models |
|---|---|---|
| `PaymentCollection` | component | payment collection, fulfilment, withdrawal and expiry, composed around the shared order rows |
| `CollectionPromise` | abstract | what collecting promises: booked once, served once and only when money is booked, withdrawn for ever |
| `CommandExecution` | component | `execute`, statement by statement, and the cleanup worker |
| `CommandPromise` | abstract | what the executor promises to callers that repeat themselves |
| `RefundWorkflow` | component | refunds from the request to the ledger, with the channel and the retries of cases |
| `RefundPromise` | abstract | what refunding promises: two employees, once per decision, within what was collected, booked once |
| `StockLedger` | component | orders, reservations, kitchen, refunds, returns, turnover and counts around one stock balance |
| `OutboxDispatch` | component | `runBatch` of the outbox in several processes with crashes |
| `NotificationDelivery` | component | `runBatch` of the notifications, with attempts, dead letters and cancellation |
| `CloudPrint` | component | `runBatch` of tickets printed through the cloud adapter |
| `PrintBridge` | component | tickets leased to the Windows bridge, its journal, the requests between them and the paper |
| `DeliveryPromise` | abstract | a loop that carries things out: how often one may arrive, done only after it arrived, what ended stays ended |
| `Deliveries` | composition | the four loops above, one at a time or together |
| `Reservations` | component | reservations, the seats they claim, table locks and the two deadlines |
| `PaymentCollectionProofs`, `CommandExecutionProofs`, `RefundWorkflowProofs`, `StockLedgerProofs`, `MessageProofs` (outbox and notifications), `PrintingProofs` (cloud and bridge), `DeliveriesProofs`, `ReservationsProofs` | proofs | section 6 |
| `MCPaymentCollection`, `MCCommandExecution`, `MCRefundWorkflow`, `MCStockLedger`, `MCDeliveries`, `MCPrintBridge`, `MCReservations` | instances | constants, symmetry, scope and, for the deliveries, fairness for TLC |

Definitions named "Slip" in a comment are not part of any specification. Each is
a plausible programming error next to the definition it could replace; replaced,
the property listed with it in `PROJECT.json` ("mutants") fails, which shows that
the property depends on that line of the code.

The modules share no variables. Where two of them speak of the same rows, each
abstracts what the other details: an order's production is one counter in
`PaymentCollection` (activated, how often) and a life of reservation, tasks and
batches in `StockLedger`, where payment is the one step `Pay`; a captured payment
is a constant of `RefundWorkflow`, and a refund is the steps `PayOut` and
`RecordRefund` in `StockLedger`. The outbox message that `CommandExecution`
appends with an effect is what `OutboxDispatch` delivers.

### PaymentCollection

One action per database transaction. The code locks the orders first, so
transactions on one order are serial; an exception rolls everything back, which
is an action that is not enabled. The interleaving is that of separate
transactions: `create` claims the provider action and commits (`Claim`), calls
the channel (`rail`, external), and writes the answer back in another transaction
(`Complete`, `FinishRejected`, `FinishUnknown`, all `WHERE state = 'creating'`). A
crash between them is the write-back that never comes. Callbacks and queries are
first stored as verified observations (`RecordCallback`, `RecordQuery`) and then
consumed by the transaction that applies them (`ApplyCallback`,
`ApplyQuerySuccess`, `ApplyQueryFailure`), so several can be pending at once and
be applied in any order.

| Variable | Rows |
|---|---|
| `order` | `orders.status`, `fulfillment_state`, "deadline passed", `payment_status` |
| `pay`, `latest` | `payments` with the orders they cover; the newest payment with `order_id` |
| `action`, `window`, `expired` | `payment_provider_actions.state`; which reservations cap `expires_at`; whether it passed |
| `rail` | the channel's own state of the transaction (external) |
| `obs` | unconsumed `verified_provider_observations` |
| `ledger`, `production` | payment entries per attempt; activations per order (stock consumption and KDS tasks) |
| `resolved` | outbox keys the expiry worker has used |

Abstractions: a payment collects the whole outstanding balance of the orders it
covers, as `createForOrder` and `createForOrders` do, so amounts are sets of
orders; time is two flags (deadline passed, money taken before or after it) and
`ReservationLapses` keeps the order of deadlines that `validateProductPaymentWindow`
establishes; audit rows and messages other than the expiry worker's keys are
left out.

### CommandExecution

The claim is modelled per statement because that is where repeated calls meet:
`Insert` waits while another transaction has an uncommitted row of the key;
`Select` waits for the lock of a committed row and does not see an uncommitted
one; `Cleanup` skips locked rows and may delete a row between the two, which is
why the code loops three times (`Retry`). The handler, the outbox message, the
completion of the receipt and COMMIT are one action (`Finish`), because no other
transaction can see a part of them; the caller learns the result or loses the
connection (`kind = "lost"`). `Fail` is any exception or crash. `Lapse` is the
passing of a TTL. A lapse while the row is locked shows only afterwards.

### RefundWorkflow

One action per transaction. Each locks the orders, the payment and the refund it
is about, so capacity is counted and reserved in one step; the call of the channel
lies between two transactions and has steps of its own.

| Variable | Rows |
|---|---|
| `status`, `payment`, `alloc` | `refunds` and the amount per item (`refund_items`) |
| `requester`, `approver` | the two employees |
| `linked`, `retryOf` | refunds of an after-sales case; the failed refund another one replaces |
| `submitted`, `rejections` | the provider action that was sent; rejections on their way back to the caller |
| `channel` | what the channel did with it (external) |
| `unread`, `consumed` | verified observations, before and after they were applied |
| `ledger`, `payStatus` | refund entries; `payments.status` |

`Request`, `Approve`, `Reject`, `Withdraw` are the commands of employees;
`BeginExecution` and `ManualResult` the refund at the till; `Claim` (commits
before the call), `ChannelTakes`, `ChannelEnds`, `RejectionReturns` the
submission; `Query`, `Callback`, `ApplyResult` the verified result; `Retry` the
new attempt of a case. A submission that is never taken, an answer that never
comes back and a crash of the caller are all the same here: the next step does
not happen. Amounts are small numbers of minor units per item. A case has one
refund at a time, because only one original payment per case is modelled.

### StockLedger

One stock item and the lines of one visit; each line is one order made at one
station from `Need` units. Every transaction that writes a movement locks the
balance first. What sums are compared with, the model keeps as history:
`supplied` (what deliveries, counts and waste add up to), `raw` (lines whose
material came back as unused) and `made` (tasks with an event of production).

| Variable | Rows |
|---|---|
| `onHand`, `reserved`, `count` | `inventory_balances`, the open stock count |
| `open` | the table session |
| `settle`, `gate`, `money`, `paidOut` | settlement and `fulfillment_state` of the order; paid and refunded amount; refunds the guest has received but the server has not recorded |
| `lot`, `batch` | `inventory_order_reservations`, `kds_remake_inventory_reservations` |
| `item`, `task`, `made` | `order_items.status`, `kds_tasks.status` and events |
| `back`, `raw` | return movements of the line |

`Submit`, `Release`, `ReserveAgain`, `AbandonCheckout`, `Pay`, `DispatchGift`,
`ResolveGift`, `CancelUnpaid` are the commerce side; `StartTask`, `FinishTask`,
`FailTask`, `Remake`, `CancelTask`, `Deliver` the kitchen and the service;
`RefundPart`, `PayOut`, `RecordRefund`, `ReturnPieces` the after-sales side;
`TurnOver` closes the visit; `ReceivePurchase`, `RecordWaste`, `CreateCount`,
`ApproveCount`, `RejectCount` move the balance. `RecordRefund` is
`synchronize` of `refund-fulfillment-repository.ts` as a whole: what it stops,
releases and gives back in the transaction of the refund's result. Its guard
includes the trigger that refuses changes to the rows of a closed session. That
covers a line whose stock was sold at once, too: giving its stock back adds
movements only, but then `synchronize` cancels the order, whose status a turnover
leaves alone once it is paid (migration 143), and the trigger refuses that change
of `orders.status`. An order has one line here; with another line delivered, the order
would stay as it is and the movements would be accepted.

### OutboxDispatch

A worker claims a batch, and for each message calls the adapter outside any
transaction and records the outcome in one of its own. `Deliver` covers a
consumer that took the message although the call threw. `Crash` is the process
dying in any of these places, or `releaseFailed` throwing and ending the batch;
`LockAges` is the clock. `AtHand` tells whether the owner of an aged lock still
means to deliver, which is when a duplicate can arise. The consumer and the
attempts counter (written, never read) are not modelled.

### NotificationDelivery, CloudPrint, PrintBridge

Three answers to one question: what may be concluded when a call did not answer.

* `NotificationDelivery` repeats: a lease that ran out is taken over as long as
  attempts are left, and the last one ends `dead`. Actions `ClaimNotes`,
  `SenderStep` (eligibility, hand-over, outcome), `SenderStops`, `NoteFallsDue`,
  `NoteLeaseAges`, and by employees `RetryFailed`, `CancelNotification`. The row is
  `note`, `tries`, `holder`, `leaseOut`, `later`; `inbox` and `outcome` are local to
  a process; `handed` counts what the provider took.
* `CloudPrint` does not repeat what might have happened: an aged lease and a
  doubtful answer end a ticket; only a definite refusal is tried again. Actions
  `ClaimTickets`, `PrinterStep`, `PrinterStops`, `LockTurnsOld`, `Replace` (a
  reprint retires a failed ticket); `sheets` counts the paper.
* `PrintBridge` remembers on disk: the journal has an entry before the printer is
  called, and a ticket that is leased again while an entry exists is reported
  from the journal and not printed. Actions `ClaimTicket`, `LeaseAges`, `Work`
  (`Begin`, `PrinterTakes`, `PrinterRefuses`, `PrintFails`, `PrintEnds`, `GiveUp`),
  `HandleResult` (the server, at any later time: `wire` holds requests the bridge
  gave up on), `StaffRetry`, `StaffReprint`, `BridgeStops`; `paper` counts the paper.

`Deliveries` puts these three beside `OutboxDispatch`. A behaviour of `LoopSpec` is
of one of the four loops, so that one run explores all of them with the same
processes and items; `TogetherSpec` lets all four run, as the server does. They
share no row, so what holds of each loop holds of both compositions, which
section 6 proves. Each loop states as `DeliveryPromise` what the other side gets to
see of it; they differ in how often a thing may arrive (`Copies`: any number for
the outbox, up to `max_attempts` for notifications, at most once for paper) and in
whether the loop may end a thing without success (`MayGiveUp`: all but the outbox).

### Reservations

`Register` (on-line by a guest, or at the reception) counts seats under the
advisory lock of the reservation policy; `BookTables` names tables and first
cancels the stale holds in its way; `Confirm`, `Arrive`, `Seat`, `Complete`,
`Cancel` are the transitions of staff or guest, `Amend` the guest's change of
party and period. `HoldLapses` and `GraceEnds` are the clock; `ExpireBatch` is one
transaction of the worker over any set of due reservations, with the outbox keys
(`announced`) that must not conflict. `row` and `lock` are the committed tables
`reservations` and `reservation_table_locks`. Periods are sets of instants, tables
have seats, so overlapping and capacity are explicit.

Accepting (`Confirm`, `Arrive`) is two steps. `Accept` locks the row and compares
the deadlines of the table locks with the clock; `CommitAccept` makes the new status
visible. Between them `accepting` holds the status to come, whoever wants the row
waits (`Unlocked`, the `FOR UPDATE` of every writer), and the clock and the counting
of seats go on: the count reads committed rows without a lock, so it leaves out a
booking whose hold lapses in between. `late` is history: on-line requests whose hold
had lapsed at `Accept`, and all but those of the reception whose hold lapses before
`CommitAccept`.

The other transactions are one step each. Those that count seats hold the advisory
lock of the policy, so no two counts interleave; between such a count and its commit a
deadline or a cancellation only takes guests away, and an acceptance that commits
there could as well have committed after it. The expiry worker and the staff's other
transitions look at a row and write it under its lock.

## 3. Runs

| Run | Configuration | Shows |
|---|---|---|
| `single` | `PaymentCollectionSingle` | two attempts on one guest order: ledger, evidence, service, timeliness, finished attempts, deadlines, refinement (1.3 M states) |
| `batch` | `PaymentCollectionBatch` | single and combined payments over two orders: nothing is produced twice, a second capture has a cause (1.2 M states) |
| `tab` | `PaymentCollectionTab` | liveness: on a table tab captured money reaches the books (0.2 M states) |
| `receipts` | `CommandTtl` | four calls of one expiring key, one with another request, two message contents; refinement |
| `repeats` | `CommandMixed` | retained and provisional keys, a recovery-only call, a shared event; progress of all attempts |
| `refunds` | `RefundWorkflow` | two refunds of two payments: capacity, one payout per decision, books, refinement, liveness of booking (43 k states) |
| `stock` | `StockLedger` | two lines over one stock item: every unit is accounted for, reserved, used or returned once |
| `deliveries` | `Deliveries` | the four loops with two processes and two items each: true records, causes of duplicates, refinement of the delivery promise by each loop, everything ends (0.2 M states) |
| `reservations` | `Reservations` | two reservations over two tables and three periods: seats, locks, deadlines, holds that lapse while they are accepted (1 M states) |
| `late_success`, `refund_turnover`, `remade_line` | one each | disagreements between comments and code, section 5 |

The configurations `BatchReservationLost`, `ExpiryBatchStuck`, `PaidOrderReadsUnpaid`,
`CancelledWithPendingBatch`, `RefundRetryRefused`, `TurnoverLeavesBatch`, `PrintStuck`
and `Overbooked` each check one more property that the code does not keep; section
5 names them. They are for reading beside the findings and are not in the list of
runs.

### Bounds and why they are enough

* Payments: two attempts per run. The rows an attempt shares with others are the
  orders and the outbox keys; every guard speaks of one attempt, or of "another
  attempt", so two attempts give all pairs of roles. The proofs cover any number.
* Orders: one in `single` and `tab`, two in `batch`. One order meets every
  single-order guard; two are needed for batches that overlap singles.
* `BatchScope` restricts the two-order run to channels that accept and answer,
  without retry releases and with batches over both orders or over what is left;
  what it leaves out is explored completely in `single`. It is a `CONSTRAINT` of a
  safety run only.
* One online method: methods matter only where two attempts agree in it
  (`findReusableOnlineAttempt`) and for the guest's own sheet ("jsapi").
* Attempts of a command: four on one key (enough to meet the third try of the
  claim loop, which needs three missing rows), five over two keys. A key's row is
  the only thing attempts share, besides the event.
* Refunds: two, so that each guard about "the other refunds of this payment", "the
  refund this one replaces" and "already succeeded" has somebody to speak of. The
  online payment covers two orders and the order of the food is also paid at the
  till, so the bounds per payment, per order and per item are three different
  numbers. Two employees are needed for a decision by somebody else.
* Stock: two lines with symmetry, two units each, four at first and at most four
  more, two tasks a line (one remake): lines compete for the last unit, a count
  meets sales, and a remake's batch exists beside a reservation. More supply
  changes nothing but the numbers.
* Deliveries: two processes for takeovers, two messages for a batch with a rest.
  `MaxTroubles = 2` allows a crash and a failure of the same message; two tries of
  a notification and of a cloud ticket, three of the bridge (a last attempt, one
  before it, and a retry) reach each limit. Notifications start with any due
  time, the other loops ignore it.
* Reservations: two tables with one seat, parties of one or two and periods that
  meet in an instant or not, so a party fits, fits only alone, or does not fit.
  Capacity is compared per instant and locks per pair of reservations, so two
  reservations show a conflict.
* Symmetry is used in safety runs only, over identities that no constant or
  definition tells apart.
* `CHECK_DEADLOCK FALSE` in all runs: payments, attempts, refunds, tasks, messages
  and reservations are used up, so behaviours that stop are right.

### Fairness and why the code justifies it

* `PaymentCollection`: a signed callback is repeated by the channel until it is
  answered, and the reconciliation worker queries unresolved payments until they
  have a result (`pending-online-payment-reconciliation`), so `RecordCallback`,
  `ApplyCallback`, `RecordQuery` and `ApplyQuerySuccess` are weakly fair. The
  expiry worker runs on a timer. Guests, staff, the channel and the write-back
  of an answer are not fair: they may stop at any time.
* `CommandExecution`: a statement that need not wait for a lock returns, and a
  handler ends. Nothing forces an attempt that waits for a lock to fail.
* `RefundWorkflow`: the refund worker claims approved refunds and queries the
  submitted ones on a timer, and applies what it learned. Callbacks, employees,
  the channel and the answer of a submission are not fair.
* `StockLedger` (only for `refund_turnover`): the result of a refund is reported
  until it is recorded.
* `MCDeliveries`: each worker's timer starts a batch, calls return, backoffs and
  leases run out. Crashes, errors, employees and the arrival of results are not
  forced. A hanging adapter breaks the assumption that a call returns; the
  hazard is recorded.
* `PrintBridge` (only for `PrintStuck.cfg`): the bridge goes on polling and
  working; results need not arrive.
* `Reservations`: the expiry worker runs on a timer and takes what is due,
  skipping rows that are locked; a transaction that accepts a reservation ends
  (`CommitAccept`), so a reservation that stays due is in some batch.

## 4. Properties

The properties are formulated, with the code they are about, at the end of each
module. The important ones:

* Payments: `LedgerMatchesCaptures`, `CaptureHasEvidence`, `CollectedOrderIsServed`,
  `ServedForTimelyMoney`, `ProductionFollowsFulfilment`: money, evidence, service and
  stock agree in every committed state. `DoubleCaptureIsExplained`: the same
  balance is collected twice by one method only after a retry release or a
  close. (Two different methods may both be captured: the code books the
  overpayment on purpose.) `DeadlineAloneReleasesNothing`,
  `FinishedAttemptIsNotPayable`: late and repeated answers take nothing back.
  `CaptureIsBooked`: captured money reaches the books.
* Commands: `AnswersAreTrue`, `EffectIsAnnounced`, `RetainedRunsOnce`, `AttemptsEnd`:
  what callers of the executor rely on.
* Refunds: `RefundsFitTheirFunds` (what is reserved fits payment, order and item),
  `MoneyLeavesOncePerDecision` (what the channel paid back was decided by a second
  employee, and neither its predecessor nor its replacement went out),
  `BooksMatchTheChannel`, `ReturnedMoneyIsBooked`, `RefundsKeepPromise`.
* Stock: `StockIsExplained` (on hand = supplied, less what lines took, plus what
  came back), `ReservedIsBacked` (the reserved quantity is the sum of the
  reservations), `MaterialIsNotBothUsedAndReturned`, `ServedFromStock`,
  `HeldForLiveWorkInVisit`.
* Deliveries: `RecordsAreTrue` (what a loop records as done was done, and a ticket
  that waits to be tried again is not on paper), `DuplicatesAreExplained`,
  `HandoversWithinAttempts`, `OnlyALateSenderHandsOverAnEndedOne`,
  `LoopsKeepTheirPromises`, `LoopsFinish`.
* Reservations: `OverbookingIsExplained` (at no instant are more guests promised
  seats than there are, but for parties whose hold lapsed before their acceptance
  was committed),
  `LocksFollowReservations` (locks say what the status says on every path, and no
  table is locked twice at an instant), `DeadlinesAreActedOn`.
* `ImplementsPromise` (payments and commands), `RefundsKeepPromise`,
  `LoopsKeepTheirPromises`: refinement of the abstract specification. For payments, an attempt is "booked" when it has a ledger
  entry, an order "served" when production started, "withdrawn" when its
  fulfilment is cancelled. For commands, a key "remembers" its live receipt,
  an attempt is "performed" when its effect is committed, and "told" a result.
  For refunds, the "deciders" are requester and approver of a row from its approval
  on, a refund is "paid" when the channel returned the money or, at the till, when
  an employee said so, "returned" is the sum of the paid amounts of a payment, and a
  refund is "replaced" when a retry names it. For deliveries, a thing has "reached"
  the other side as often as the provider, the consumer or the paper says, and its
  "fate" is its status: delivered or printed is "done", dead or cancelled is
  "given_up", everything else "open".

## 5. Where comments and code disagree

Each is one property that states what the repository says, and a counterexample
that follows the code (`findings` in `PROJECT.json` quotes both). The first three
are runs; the others have a configuration beside the runs.

1. `late_success`: a verified success for an order whose reservation was
   released is refused by `activatePaidOrder`, and the refusal rolls back the
   payment with it, although the repository says a late success must never be
   thrown away. Repeating the callback does not help. It needs money taken before
   the deadline of the action and booked after the release.
2. `refund_turnover`: the result of a refund that has to release or give back the
   stock of an unstarted line cannot be recorded once the table was turned over,
   because the trigger on closed sessions refuses the rows it changes.
3. `remade_line`: `markDelivered` wants every task of a line to be ready, and a task
   that was replaced by its remake stays cancelled, so a remade line is never
   delivered.
4. `BatchReservationLost.cfg` (`PendingPaymentKeepsReservation`): the expiry worker
   finds payments of an order by `payment.order_id`, which a batch payment does not
   have, and releases the reservation under a pending batch payment.
5. `ExpiryBatchStuck.cfg` (`DeadReservationEnds`): the outbox key of a release names
   only the order; when an order is restored and lapses again, the insert
   conflicts and the whole expiry batch rolls back, each time.
6. `PaidOrderReadsUnpaid.cfg` (`CollectedOrderReadsPaid`): `markFailed` writes
   `payment_status = 'unpaid'` without recomputing it, also when another attempt was
   captured meanwhile.
7. `CancelledWithPendingBatch.cfg` (`CancellationWaitsForPayments`):
   `cancel_unpaid_order` overlooks pending batch payments.
8. `RefundRetryRefused.cfg` (`FailedCaseRefundCanBeRetried`): the retry of a failed
   case refund compares the provider with names that payments do not use, so
   only cash qualifies among those paid back by hand.
9. `TurnoverLeavesBatch.cfg` (`HeldForLiveWork`): the turnover releases the
   reservations of orders and forgets those of remakes.
10. `PrintStuck.cfg` (`LostTicketIsHandedOver`): a bridge ticket whose last attempt
    lost its answer stays 'printing'; it is neither claimed again nor declared
    doubtful.
11. `Overbooked.cfg` (`AdmissionFitsCapacity`): an on-line request whose hold lapsed is
    not counted any more, but holds no table and so is ended by no worker; staff
    can still confirm it after its seats were given to others. A booking of tables
    whose hold lapses while it is being confirmed can lose its seats in the same
    way, in the short time between the look at the deadline and the commit.

## 6. Proofs

50 theorems in eight modules, from the named assumptions on the constants only
(sets are finite, bounds are numbers, sentinels are distinct from what they stand
beside).

| Theorem | Property | Also checked by |
|---|---|---|
| `PaymentCollectionProofs` | | |
| `TypeCorrect` | `TypeOK` | `single` |
| `LedgerIsExact` | `LedgerMatchesCaptures` | `single` |
| `CollectedIsServed` | `CollectedOrderIsServed` | `single` |
| `ProducedOnce` | `ProductionFollowsFulfilment` | `batch` |
| `CancellationIsFinal` | `CancelledIsFinal` | - |
| `CapturesAreProven` | `CaptureHasEvidence` | `single` |
| `ServedInTime` | `ServedForTimelyMoney` | `single` |
| `FinishedIsNotPayable` | `FinishedAttemptIsNotPayable` | `single` |
| `DoubleCaptureHasACause` | `DoubleCaptureIsExplained` | `batch` |
| `DeadlinesReleaseNothing` | `DeadlineAloneReleasesNothing` | `single` |
| `KeepsPromise` | `ImplementsPromise` | `single` |
| `CommandExecutionProofs` | | |
| `TypeCorrect` | `TypeOK` | `receipts` |
| `NoKeyIsBlocked` | `NoKeyStaysProcessing` | - |
| `AnswersHold` | `AnswersAreTrue` | `receipts` |
| `RetainedOnce` | `RetainedRunsOnce` | `repeats` |
| `EffectsAreAnnounced` | `EffectIsAnnounced` | `receipts` |
| `KeepsPromise` | `ImplementsPromise` | `receipts` |
| `RefundWorkflowProofs` | | |
| `TypeCorrect` | `TypeOK` | `refunds` |
| `FundsSuffice` | `RefundsFitTheirFunds` | `refunds` |
| `MoneyLeavesOnce` | `MoneyLeavesOncePerDecision` | `refunds` |
| `BooksAreTrue` | `BooksMatchTheChannel` | `refunds` |
| `DecisionsStand` | `DecisionsAreFinal` | - |
| `RefundsImplementPromise` | `RefundsKeepPromise` | `refunds` |
| `StockLedgerProofs` | | |
| `StockTypeCorrect` | `StockTypeOK` | `stock` |
| `ReservedIsTheSum` | `ReservedIsBacked` | `stock` |
| `UsedIsNotReturned` | `MaterialIsNotBothUsedAndReturned` | `stock` |
| `ServedIsPaidByStock` | `ServedFromStock` | `stock` |
| `HeldForWork` | `HeldForLiveWorkInVisit` | `stock` |
| `StockIsAccountedFor` | `StockIsExplained` | `stock` |
| `MessageProofs` | | |
| `DuplicatesHaveCauses` | `DuplicatesAreExplained` | `deliveries` |
| `DeliveredHasArrived` | `DeliveredWasAccepted` | in `RecordsAreTrue` |
| `DeliveredStays` | `DeliveredIsFinal` | - |
| `OutboxImplementsPromise` | `OutboxKeepsPromise` | in `LoopsKeepTheirPromises` |
| `HandoversAreCounted` | `HandoversWithinAttempts` | `deliveries` |
| `OnlyLateSenders` | `OnlyALateSenderHandsOverAnEndedOne` | `deliveries` |
| `DeliveredNoteWasHanded` | `DeliveredWasHanded` | in `RecordsAreTrue` |
| `NotesImplementPromise` | `NotesKeepPromise` | in `LoopsKeepTheirPromises` |
| `PrintingProofs` | | |
| `CloudTicketPrintsOnce` | `CloudTicketComesOutOnce` | in `LoopsKeepTheirPromises` |
| `CloudStatusIsTrue` | `CloudStatusTellsPaper` | in `RecordsAreTrue` |
| `CloudImplementsPromise` | `CloudKeepsPromise` | in `LoopsKeepTheirPromises` |
| `TicketPrintsOnce` | `TicketComesOutOnce` | in `LoopsKeepTheirPromises` |
| `StatusIsTrue` | `StatusTellsPaper` | in `RecordsAreTrue` |
| `BridgeImplementsPromise` | `BridgeKeepsPromise` | in `LoopsKeepTheirPromises` |
| `DeliveriesProofs` | | |
| `LoopsRunTogether` | `LoopSpec => TogetherSpec` | - |
| `LoopsAreTyped` | `LoopTypeOK` | `deliveries` |
| `RecordsStayTrue` | `RecordsAreTrue` | `deliveries` |
| `LoopsImplementPromises` | `LoopsKeepTheirPromises` | `deliveries` |
| `ReservationsProofs` | | |
| `ReservationTypeCorrect` | `ReservationTypeOK` | `reservations` |
| `LocksFollow` | `LocksFollowReservations` | `reservations` |
| `SeatsArePromisedOnce` | `OverbookingIsExplained` | `reservations` |

The four properties marked "-" are about one step or one row and follow from
the invariant that the other theorems need anyway; no run repeats them.
`LoopsRunTogether` says that what a run checks of one loop at a time is a case of
all four at once; the theorems about `TogetherSpec` hold of both.

The arguments:

* **Payments.** Type correctness has one lemma per group of actions (`Collecting`,
  `Calling`, `Channel`, `Applying`, `GivingUp`). `CollectedOrderIsServed` is not
  inductive by a look at bookings alone: the expiry worker also activates
  orders, namely those with a captured payment, and only the property itself
  shows that no such order waits. So every step is shown to be `Quiet` (books
  nothing, serves nothing, and keeps, cancels or releases orders) or a `Booking`
  of one attempt (which serves or cancels every immediate order it settles). That
  disjunction gives ledger, service, single production, finality and the
  refinement. What an attempt may do in a step is a second case split (`Turn`:
  it starts, is claimed, rests, is booked or ends, lemma `EveryTurn`); with it,
  `Backing` (an attempt that counts as captured has a channel or an observation
  that says so) gives evidence and timeliness, and `Exclusive` (of two
  online attempts by one method over the same orders, at most one is neither
  let go of nor ended) gives the cause of a double capture.
* **Commands.** The inductive invariant is `TypeOK`, `Locking` (a lock belongs to
  an attempt in its handler, for a receipt that may be run), `Handling` (an
  attempt in its handler holds the lock), `Receipts` (a committed receipt speaks
  of a committed effect of its own request), `Callers` (an unfinished attempt has
  no effect and no answer), `Remembering` (a retained key with final results
  remembers the only effect it had) and `AnswersAreTrue`. Without `Locking` two
  handlers could complete one receipt; without `Receipts` a replay could speak of
  nothing. Each kind of step (acquire, answer, move, finish, fail, lapse, cleanup)
  has a lemma; `FinishAnnounces` says that the effect and its message are one step.
* **Refunds.** `Rows` is the invariant of the single refund: its status agrees with
  its decision (`RowsAgree`), what travels to and from the channel agrees with the
  status (`WireAgrees`), and a replaced refund has failed for good
  (`ReplacementsAgree`; without it a retry could follow a submission that is still
  under way). Capacity is a sum over refunds; it is written as the cardinality of
  a set of coins, so that adding and dropping a refund are facts about finite
  sets and need no induction. The refinement needs rows, books and funds together,
  and that every row was asked for by an employee and is for some money (`Asked`).
  Approval grants, a retry replaces, and the money goes back either in the
  channel's own step, booked later by `ApplyResult`, or in `ManualResult`, booked at
  once. That it goes back only once follows because a paid refund is under way or
  succeeded (`PaidAgrees`), while only a failed one is replaced; that it stays
  within what was collected, because every paid refund still reserves its amount in
  the state after the step.
* **Stock.** The invariant is local: `LineInv(l)` relates reservation, item, tasks,
  batches and returns of one line, and each action touches one line (the
  turnover each one in the same way). The reserved quantity is again a
  cardinality, of the lines and batches that hold stock; every action moves one
  of them in or out together with the balance. So is the quantity on hand: what
  left is `Need` times the lines and the batches that used their stock, what came
  back is the set of units that returns name, and `OneElement` says what a set that
  gains or loses one member does to such a product (`OnHandStep`).
* **Outbox.** `Paid` charges every acceptance of a message but the first, and every
  process that may still hand it over, to one trouble of that message; `Loop` and
  `DeliveredRow` say where a worker stands with the message it has in hand, and
  that a delivered row was accepted and is unlocked.
* **Notifications.** `Counted`: hand-overs done plus processes that may still hand
  over never exceed the attempts counted. `NewestHolds`: the process with the
  newest attempt has the lease, unless the row died of it.
* **Printing.** Cloud: a ticket is in the pile of at most one process (`OnePile`),
  which has its lease or the ticket has ended (`PileIsLeased`), and a ticket in a
  pile that was not sent is not on paper. Bridge: a ticket on paper has an entry
  in the journal (`Remembered`), and what is under way or was said to be printed
  is (`UnderPrint`, `SaidIsDone`); the journal entry before the call is what makes a
  second lease harmless.
* **Delivery promises.** For each loop the steps are sorted by what the other side
  sees: nothing (the fate of every thing is the same, lemmas `Same...Fate`), an
  arrival, a confirmation, or an end without success (`...GivenUp`; a takeover may
  end several at once). An arrival fits `Copies` by the invariant of the state
  after it (`Counted`, or the paper being empty before), and a confirmation finds the
  thing arrived by the record invariants (`DeliveredRow`, `SaidIsDone` and the like).
  The composition needs one lemma, `OneLoopSteps`: a step of one loop is a step of
  that loop and a stutter of the others; the theorems of the components are then
  cited as they stand.
* **Reservations.** `Follows` (locks agree with the status) and `Exclusive` (live locks
  on one table do not overlap) need each other in `BookTables`, which clears stale
  holds and then locks, and `TablesOfNative` tells which rows have locks at all.
  Seats: chairs and guests are sets of pairs, so that "one more party" and "fewer
  parties" are facts about cardinalities. `OverbookingIsExplained` is not inductive:
  it speaks of accepted reservations, and `Accept` counts no seats. `Fits` keeps the
  room for every reservation the policy counts, accepted or pending, other than the
  late ones. `AcceptingCounts` says of a reservation that is being accepted that it
  counts until the commit, or is late: at `Accept`, because a pending request has a
  hold, running or lapsed (`PendingHolds`), a lapsed one of the reception still
  counts, and a lapsed one of the native client does not pass; afterwards, because
  nobody else writes the row and a hold that lapses makes it late. So a step lets nobody new in (`NobodyNewKeepsRoom`), or one
  party whose seats the code looked for in that transaction (`RoomForOneKeepsRoom`).

Only model-checked:

* Liveness (`CaptureIsBooked`, `AttemptsEnd`, `ReturnedMoneyIsBooked`, `LoopsFinish`,
  `DeadlinesAreActedOn`): TLAPS does not prove liveness under fairness here.
* The disagreements of section 5, which are counterexamples.

Every invariant, every action property and every refinement that a run of the list
checks and TLC finds kept is also a theorem.

## 7. Not modelled

* Payments: partial amounts, closed table sessions, historical holds, payments for
  activities and prepayments, quotes inherited from before the price rules, the
  selection and backoff of the reconciliation workers.
* Executor: transaction retries and the repeatable-read and serializable
  commands; 'failed' receipts, which no code writes; codecs and hashing (requests
  are compared by a model value per content).
* Refunds: recollection authorizations, refunds of activities, the reversal of
  points and coupons, cases over several original payments.
* Stock and kitchen: lines whose pieces are managed one by one, orders of several
  lines or stations, recipes and unit conversion, weighted cost, acceptance and
  pick-up by several hands, settlement exceptions, opening and moving of
  tables.
* Outbox: two processes configured with the same worker id; the consumer; order of
  delivery, which the dispatcher does not promise.
* Notifications and printing: texts and recipients, creation and routing of
  tickets, pairing, heartbeats and diagnostic commands of the bridge; whether device
  and route of a ticket are still active (`CloudPrint!Due`, `PrintBridge!Takeable` ask
  for the ticket only, so a job may also wait for its device). The bridge
  takes some errors of the print command as proof that nothing was printed
  (`bridge.mjs:376`); `PrinterRefuses` assumes that it is right about that.
* Reservations: deposits, rate limits, changes of the policy, replays by public id,
  which on-line rows the reception protocol covers (both kinds are allowed), and
  old rows of guests that name tables. The tables and their seats stay what they
  are (in the code a table that is taken out of service takes its seats along). One
  SQL statement reads its rows and the clock at once, and a transaction that
  accepts and is undone is left out, because it changes nothing.
* The components marked `not_modelled` in `PROJECT.json`: the waitlist, the shared
  cart, service tasks and SLA, scripted execution, the worker coordinator,
  benefits and points, minimum spend, activities, piece-wise after-sales, day
  closing, access control, content and reports, and the clients. Most of them are
  large in code and small in shared state; pricing, content and reports have
  none that two actors could disagree about.

## 8. Plan

In this order; each step with its runs, mutants and hazards:

1. `RecollectionAuthorization`, composed with `RefundWorkflow`: issue, prepare,
   consume, expiry. One authorization, one payment, for the balance it was given
   for.
2. `OrderAllocation`: `allocateOrderPayment` as a function, checked against a
   reference definition for small amounts, with the sum lemma proved.
3. `SharedCart` and `GuestSessions`: versions, generations, hand-over, rotation.
4. `RecoverableCommand`: the client that repeats a command under one key
   (`miniprogram/utils/recoverable-command.js`) composed with `CommandExecution`;
   `CommandExecution` composed with `OutboxDispatch`: every effect is announced in
   the end, and nothing is announced that did not happen.
5. Pieces of a line: after-sales cases, redelivery and stock per piece in
   `StockLedger`.
6. `Waitlist`, service tasks and SLA, scripted execution.
7. Benefits, coupons and points next to payment and refund; activities.

## 9. Running

    tlc -workers 2 -config PaymentCollectionSingle.cfg MCPaymentCollection
    tlc -workers 2 -config Deliveries.cfg MCDeliveries
    tlapm PaymentCollectionProofs.tla

Every run finishes within a few minutes on two cores.

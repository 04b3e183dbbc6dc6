----------------------------- MODULE StockLedger -----------------------------
EXTENDS Integers, FiniteSets

(***************************************************************************)
(* One stock item of a store and the order lines of one table visit that   *)
(* are made from it: the balance, the reservations of orders and remakes,  *)
(* the kitchen tasks that use the material up, refunds and physical        *)
(* returns that bring it back, the turnover of the table, deliveries,      *)
(* waste and stock counts.                                                 *)
(*                                                                         *)
(* Every action is one transaction; each locks the balance before it       *)
(* writes a movement.  An order has one line, made at one station from     *)
(* Need units of the item, one per piece.  Lines whose pieces are managed  *)
(* one by one are not modelled, nor is which employee a task belongs to.   *)
(***************************************************************************)
CONSTANTS
    Lines,      \* order lines
    Need,       \* units a line takes
    MaxTasks,   \* bound on the first task of a line and its remakes
    Opening,    \* units on hand at first
    MaxSupply   \* bound on what deliveries and counts add up to

ASSUME LinesAssumption == IsFiniteSet(Lines)
ASSUME NeedAssumption == Need \in Nat \ {0}
ASSUME MaxTasksAssumption == MaxTasks \in Nat \ {0}
ASSUME SupplyAssumption == Opening \in Nat /\ MaxSupply \in Nat

VARIABLES
    onHand, reserved,  \* the row of inventory_balances
    count,     \* the stock count under way: [on, snap, counted, moved]
    supplied,  \* history: deliveries and counted differences, less waste
    open,      \* the table session is open
    settle,    \* how the order of a line is paid: "immediate", "deferred", "gift"
    gate,      \* orders.fulfillment_state
    money,     \* "unpaid", "paid", "part" refunded, or "refunded"
    paidOut,   \* lines whose refund the guest has received, its result not recorded yet
    lot,       \* inventory_order_reservations.status; "sold" for a sale without one
    back,      \* units of the line returned to stock
    raw,       \* history: lines with units returned as unused material
    item,      \* order_items.status
    task,      \* kds_tasks.status; "stopped" is cancelled by a manager at work on it
    batch,     \* kds_remake_inventory_reservations.status
    made       \* tasks with an event that shows production

balance == <<onHand, reserved, count, supplied>>
order == <<settle, gate, money, paidOut>>
material == <<lot, back, raw>>
kitchen == <<item, task, batch, made>>
stockVars == <<balance, open, order, material, kitchen>>

Tasks == 1 .. MaxTasks
Modes == {"immediate", "deferred", "gift"}
AtWork == {"waiting", "preparing"}
Retired == {"cancelled", "stopped"}

StockTypeOK ==
    /\ onHand \in Nat /\ reserved \in 0 .. onHand /\ supplied \in Int
    /\ count \in [on : BOOLEAN, snap : Nat, counted : Nat, moved : BOOLEAN]
    /\ open \in BOOLEAN
    /\ settle \in [Lines -> Modes \cup {"none"}]
    /\ gate \in [Lines -> {"new", "awaiting", "released", "active", "cancelled"}]
    /\ money \in [Lines -> {"unpaid", "paid", "part", "refunded"}]
    /\ paidOut \subseteq Lines /\ raw \subseteq Lines
    /\ lot \in [Lines -> {"none", "reserved", "released", "consumed", "returned", "sold"}]
    /\ back \in [Lines -> Nat] /\ \A l \in Lines : back[l] <= Need
    /\ item \in [Lines -> {"none", "submitted", "delivered", "cancelled"}]
    /\ task \in [Lines -> [Tasks -> {"none", "ready", "failed"} \cup AtWork \cup Retired]]
    /\ batch \in [Lines -> [Tasks -> {"none", "reserved", "consumed", "released"}]]
    /\ made \in [Lines -> SUBSET Tasks]

StockInit ==
    /\ onHand = Opening /\ reserved = 0 /\ supplied = Opening
    /\ count = [on |-> FALSE, snap |-> 0, counted |-> 0, moved |-> FALSE]
    /\ open = TRUE
    /\ settle = [l \in Lines |-> "none"]
    /\ gate = [l \in Lines |-> "new"]
    /\ money = [l \in Lines |-> "unpaid"]
    /\ paidOut = {} /\ raw = {}
    /\ lot = [l \in Lines |-> "none"]
    /\ back = [l \in Lines |-> 0]
    /\ item = [l \in Lines |-> "none"]
    /\ task = [l \in Lines |-> [k \in Tasks |-> "none"]]
    /\ batch = [l \in Lines |-> [k \in Tasks |-> "none"]]
    /\ made = [l \in Lines |-> {}]

----------------------------------------------------------------------------
(* The balance                                                             *)

\* Adds h to what is on hand, with a movement, and r to what is reserved.  The
\* CHECKs of the table undo a transaction that would oversell.
Moves(h, r) ==
    /\ 0 <= reserved + r /\ reserved + r <= onHand + h
    /\ onHand' = onHand + h
    /\ reserved' = reserved + r
    /\ count' = [count EXCEPT !.moved = @ \/ h # 0]

Used(h, r) == Moves(h, r) /\ UNCHANGED supplied

Kept == UNCHANGED balance

Set(f, l, v) == f' = [f EXCEPT ![l] = v]

\* The reservations in force for some lines: of their orders, of their remakes.
LotsHeld(lines) == {l \in lines : lot[l] = "reserved"}
BatchesHeld(lines) == {b \in lines \X Tasks : batch[b[1]][b[2]] = "reserved"}

\* Units a transaction takes from, or frees of, a reservation.
HeldBy(status) == IF status = "reserved" THEN Need ELSE 0

----------------------------------------------------------------------------
(* Orders and payments                                                     *)

\* A deferred order sells at once and goes to the kitchen; the others reserve.
Submit(l, mode) ==
    /\ open /\ settle[l] = "none"
    /\ Set(settle, l, mode)
    /\ Set(item, l, "submitted")
    /\ Set(gate, l, IF mode = "immediate" THEN "awaiting" ELSE "active")
    /\ Set(money, l, IF mode = "gift" THEN "paid" ELSE "unpaid")
    /\ \/ /\ mode = "deferred"
          /\ Used(-Need, 0)
          /\ Set(lot, l, "sold")
          /\ task' = [task EXCEPT ![l][1] = "waiting"]
       \/ /\ mode # "deferred"
          /\ Used(0, Need)
          /\ Set(lot, l, "reserved")
          /\ UNCHANGED task
    /\ UNCHANGED <<open, paidOut, back, raw, batch, made>>

\* releaseImmediatePaymentReservations
LotReleased(l) ==
    \/ lot[l] = "reserved" /\ Used(0, -Need) /\ Set(lot, l, "released")
    \/ lot[l] # "reserved" /\ Kept /\ UNCHANGED lot

\* The payment failed for good, or the time to pay has run out.
Release(l) ==
    /\ gate[l] = "awaiting"
    /\ Set(gate, l, "released")
    /\ LotReleased(l)
    /\ UNCHANGED <<open, settle, money, paidOut, back, raw, kitchen>>

\* Another payment is prepared.
ReserveAgain(l) ==
    /\ gate[l] = "released"
    /\ Set(gate, l, "awaiting")
    /\ Used(0, Need)
    /\ Set(lot, l, "reserved")
    /\ UNCHANGED <<open, settle, money, paidOut, back, raw, kitchen>>

AbandonCheckout(l) ==
    /\ gate[l] \in {"awaiting", "released"}
    /\ Set(gate, l, "cancelled")
    /\ LotReleased(l)
    /\ UNCHANGED <<open, settle, money, paidOut, back, raw, kitchen>>

\* consumeImmediatePaymentReservations
ConsumeLot(l) == Used(-Need, -Need) /\ Set(lot, l, "consumed")

\* activatePaidOrder: stock is used and the kitchen told; a withdrawn or deferred
\* order is only paid.
Pay(l) ==
    /\ money[l] = "unpaid"
    /\ \/ /\ gate[l] = "awaiting"
          /\ Set(gate, l, "active")
          /\ ConsumeLot(l)
          /\ task' = [task EXCEPT ![l][1] = "waiting"]
       \/ /\ \/ settle[l] = "immediate" /\ gate[l] = "cancelled" /\ item[l] = "submitted"
             \/ settle[l] = "deferred" /\ gate[l] = "active"
          /\ Kept /\ UNCHANGED <<gate, lot, task>>
    /\ Set(money, l, "paid")
    /\ UNCHANGED <<open, settle, paidOut, back, raw, item, batch, made>>

\* The worker of complimentary orders dispatches an intent.
DispatchGift(l) ==
    /\ open /\ settle[l] = "gift" /\ gate[l] = "active" /\ item[l] = "submitted"
    /\ task[l][1] = "none"
    /\ task' = [task EXCEPT ![l][1] = "waiting"]
    /\ UNCHANGED <<balance, open, order, material, item, batch, made>>

\* An employee closes a gift whose dispatch has failed for good.
ResolveGift(l) ==
    /\ open /\ settle[l] = "gift" /\ gate[l] = "active" /\ item[l] = "submitted"
    /\ task[l][1] = "none"
    /\ LotReleased(l)
    /\ Set(item, l, "cancelled") /\ Set(gate, l, "cancelled") /\ Set(money, l, "unpaid")
    /\ UNCHANGED <<open, settle, paidOut, back, raw, task, batch, made>>

----------------------------------------------------------------------------
(* The kitchen                                                             *)

\* Slip: the reservation of a gift is left alone when its production starts.
LotAfterStartKept(l) == lot[l]

\* consumeOrderItemReservations
LotAfterStart(l) == IF lot[l] = "reserved" THEN "consumed" ELSE lot[l]

\* Production uses up what is still reserved for the line, and the batch of a remake.
StartTask(l, k) ==
    LET used == HeldBy(lot[l]) + HeldBy(batch[l][k]) IN
    /\ open /\ task[l][k] = "waiting"
    /\ lot[l] \in {"reserved", "consumed", "sold"}
    /\ Used(-used, -used)
    /\ Set(lot, l, LotAfterStart(l))
    /\ batch' = [batch EXCEPT ![l][k] = IF @ = "reserved" THEN "consumed" ELSE @]
    /\ task' = [task EXCEPT ![l][k] = "preparing"]
    /\ made' = [made EXCEPT ![l] = @ \cup {k}]
    /\ UNCHANGED <<open, order, back, raw, item>>

FinishTask(l, k) ==
    /\ open /\ task[l][k] = "preparing"
    /\ task' = [task EXCEPT ![l][k] = "ready"]
    /\ UNCHANGED <<balance, open, order, material, item, batch, made>>

\* releaseRemakeMaterials
BatchReleased(l, k) ==
    /\ Used(0, -HeldBy(batch[l][k]))
    /\ batch' = [batch EXCEPT ![l][k] = IF @ = "reserved" THEN "released" ELSE @]

FailTask(l, k) ==
    /\ open /\ task[l][k] \in AtWork
    /\ task' = [task EXCEPT ![l][k] = "failed"]
    /\ BatchReleased(l, k)
    /\ UNCHANGED <<open, order, material, item, made>>

\* Slip: a second batch although the first waits in its reservation.
SecondBatchAlways(l) == TRUE

\* reserveRemakeMaterials: a line whose lot is used up gets another batch.
SecondBatch(l) == lot[l] = "consumed"

Remake(l, k) ==
    /\ open /\ task[l][k] = "failed" /\ item[l] = "submitted"
    /\ k < MaxTasks /\ task[l][k + 1] = "none"
    /\ lot[l] \in {"reserved", "consumed", "sold"}
    /\ \/ SecondBatch(l) /\ Used(0, Need) /\ batch' = [batch EXCEPT ![l][k + 1] = "reserved"]
       \/ ~SecondBatch(l) /\ Kept /\ UNCHANGED batch
    /\ task' = [task EXCEPT ![l][k] = "cancelled", ![l][k + 1] = "waiting"]
    /\ UNCHANGED <<open, order, material, item, made>>

\* synchronizeRefundedCancelledItem
AllStopped(l, tasks) ==
    /\ money[l] = "refunded" /\ item[l] = "submitted"
    /\ \E k \in Tasks : tasks[k] = "stopped"
    /\ \A k \in Tasks : tasks[k] \in Retired \cup {"none"}

\* A manager ends a task; even after the visit, when the task is all that is left.
CancelTask(l, k) ==
    LET tasks == [task[l] EXCEPT ![k] = IF @ = "failed" THEN "cancelled" ELSE "stopped"] IN
    /\ task[l][k] \in AtWork \cup {"failed"}
    /\ Set(task, l, tasks)
    /\ BatchReleased(l, k)
    /\ \/ AllStopped(l, tasks) /\ Set(item, l, "cancelled") /\ Set(gate, l, "cancelled")
       \/ ~AllStopped(l, tasks) /\ UNCHANGED <<item, gate>>
    /\ UNCHANGED <<open, settle, money, paidOut, material, made>>

\* markDelivered
AllTasksReady(l) == \A k \in Tasks : task[l][k] \in {"none", "ready"}

Deliver(l) ==
    /\ open /\ item[l] = "submitted"
    /\ \E k \in Tasks : task[l][k] = "ready"
    /\ AllTasksReady(l)
    /\ Set(item, l, "delivered")
    /\ UNCHANGED <<balance, open, order, material, task, batch, made>>

----------------------------------------------------------------------------
(* Orders that end early                                                   *)

\* What cancel_unpaid_order and the turnover make of the tasks of a line.
TasksDropped(l) ==
    [k \in Tasks |-> IF task[l][k] \in AtWork \cup {"ready"} THEN "cancelled" ELSE task[l][k]]

CancelUnpaid(l) ==
    /\ open /\ money[l] = "unpaid" /\ settle[l] # "none"
    /\ item[l] = "submitted" \/ gate[l] = "active"
    /\ Set(gate, l, "cancelled")
    /\ \/ /\ item[l] = "submitted"
          /\ Set(item, l, "cancelled") /\ Set(task, l, TasksDropped(l))
          /\ LotReleased(l)
       \/ item[l] # "submitted" /\ Kept /\ UNCHANGED <<item, task, lot>>
    /\ UNCHANGED <<open, settle, money, paidOut, back, raw, batch, made>>

\* close_table_after_customer_left and the automatic cutoff: what was not delivered is
\* retired, whatever was paid.
TurnOver ==
    LET dropped == {l \in Lines : item[l] = "submitted"}
        held == LotsHeld(dropped) IN
    /\ open
    /\ open' = FALSE
    /\ item' = [l \in Lines |-> IF l \in dropped THEN "cancelled" ELSE item[l]]
    /\ task' = [l \in Lines |-> IF l \in dropped THEN TasksDropped(l) ELSE task[l]]
    /\ lot' = [l \in Lines |-> IF l \in held THEN "released" ELSE lot[l]]
    /\ Used(0, -Need * Cardinality(held))
    /\ gate' = [l \in Lines |->
                  IF settle[l] # "none" /\ money[l] = "unpaid" THEN "cancelled" ELSE gate[l]]
    /\ UNCHANGED <<settle, money, paidOut, back, raw, batch, made>>

----------------------------------------------------------------------------
(* Refunds and returns                                                     *)

\* A refund of a part of the price: no line is fully refunded, nothing else changes.
RefundPart(l) ==
    /\ money[l] = "paid" /\ settle[l] # "gift" /\ l \notin paidOut
    /\ Set(money, l, "part")
    /\ UNCHANGED <<balance, open, settle, gate, paidOut, material, kitchen>>

\* The rest of the price is paid back, by the provider or by hand.
PayOut(l) ==
    /\ money[l] \in {"paid", "part"} /\ settle[l] # "gift" /\ l \notin paidOut
    /\ paidOut' = paidOut \cup {l}
    /\ UNCHANGED <<balance, open, settle, gate, money, material, kitchen>>

\* Slip: a look at the tasks instead of their history.
UntouchedNow(l) == item[l] # "delivered" /\ \A k \in Tasks : task[l][k] \notin {"preparing", "ready"}

\* Nothing of the line was produced or served: it can be stopped.
Untouched(l) == item[l] # "delivered" /\ made[l] = {}

StillOut(l) == Need - back[l]

Returnable(l) == lot[l] = "consumed" \/ (lot[l] = "sold" /\ back[l] < Need)

\* Something the refund would have to write on the line, its tasks or its stock.
Unfinished(l) ==
    \/ item[l] = "submitted" \/ lot[l] = "reserved" \/ Returnable(l)
    \/ \E k \in Tasks : task[l][k] \notin Retired \cup {"none"}

\* RefundFulfillmentRepository.synchronize of a line that is stopped; batch rows are
\* released with it.
StopLine(l) ==
    LET freed == HeldBy(lot[l]) + Need * Cardinality(BatchesHeld({l}))
        again == IF Returnable(l) THEN StillOut(l) ELSE 0 IN
    /\ Set(task, l, [k \in Tasks |-> IF task[l][k] \in Retired \cup {"none"} THEN task[l][k] ELSE "cancelled"])
    /\ Set(item, l, "cancelled")
    /\ Set(lot, l, CASE lot[l] = "reserved" -> "released" [] lot[l] = "consumed" -> "returned"
                     [] OTHER -> lot[l])
    /\ Set(batch, l, [k \in Tasks |-> IF batch[l][k] = "reserved" THEN "released" ELSE batch[l][k]])
    /\ Set(back, l, back[l] + again)
    /\ raw' = IF again > 0 THEN raw \cup {l} ELSE raw
    /\ Used(again, -freed)
    /\ Set(gate, l, "cancelled")

\* The result of the refund is recorded.  Rows of a closed visit refuse every change,
\* and the whole transaction with it.  A line sold at once may have no row of its own
\* left to change, only movements to add; but with its stock given back the order is
\* cancelled, and the turnover has left the status of an order that was paid.
RecordRefund(l) ==
    /\ l \in paidOut
    /\ paidOut' = paidOut \ {l}
    /\ Set(money, l, "refunded")
    /\ \/ Untouched(l) /\ Unfinished(l) /\ open /\ StopLine(l)
       \/ /\ ~Untouched(l) \/ ~Unfinished(l)
          /\ Kept /\ UNCHANGED <<gate, material, item, task, batch>>
    /\ UNCHANGED <<open, settle, made>>

\* Slip: earlier returns are not added up.
WithinLineOnce(l, q) == q <= Need

WithinLine(l, q) == back[l] + q <= Need

\* OrderStockReturnRepository.record: some pieces are brought back by hand, as unused
\* material or as unopened goods.
ReturnPieces(l, q, unused) ==
    /\ money[l] \in {"part", "refunded"}
    /\ lot[l] = "consumed"
    /\ WithinLine(l, q)
    /\ \/ /\ unused
          /\ item[l] = "cancelled" /\ made[l] = {}
          /\ \A k \in Tasks : task[l][k] \in Retired \cup {"none", "failed"}
          /\ raw' = raw \cup {l}
       \/ ~unused /\ item[l] \in {"delivered", "cancelled"} /\ UNCHANGED raw
    /\ Set(back, l, back[l] + q)
    /\ Used(q, 0)
    /\ UNCHANGED <<open, order, lot, kitchen>>

----------------------------------------------------------------------------
(* The store room                                                          *)

ReceivePurchase ==
    /\ supplied < MaxSupply
    /\ Moves(1, 0) /\ supplied' = supplied + 1
    /\ UNCHANGED <<open, order, material, kitchen>>

\* Waste leaves what is reserved.
RecordWaste ==
    /\ Moves(-1, 0) /\ supplied' = supplied - 1
    /\ UNCHANGED <<open, order, material, kitchen>>

\* Somebody counts c units; the draft and the submitted count are not told apart.
CreateCount(c) ==
    /\ ~count.on /\ c \in Nat
    /\ count' = [on |-> TRUE, snap |-> onHand, counted |-> c, moved |-> FALSE]
    /\ UNCHANGED <<onHand, reserved, supplied, open, order, material, kitchen>>

\* Slip: the count stands whatever has happened since.
CountStandsAnyway == TRUE

CountStands == ~count.moved /\ onHand = count.snap

NoCount == [on |-> FALSE, snap |-> 0, counted |-> 0, moved |-> FALSE]

\* Another employee approves: the counted difference becomes a movement.
ApproveCount ==
    /\ count.on /\ CountStands
    /\ count.counted >= reserved
    /\ supplied + count.counted - count.snap <= MaxSupply
    /\ onHand' = count.counted
    /\ supplied' = supplied + (count.counted - count.snap)
    /\ count' = NoCount
    /\ UNCHANGED <<reserved, open, order, material, kitchen>>

RejectCount ==
    /\ count.on
    /\ count' = NoCount
    /\ UNCHANGED <<onHand, reserved, supplied, open, order, material, kitchen>>

----------------------------------------------------------------------------
StockNext ==
    \/ \E l \in Lines :
          \/ \E mode \in Modes : Submit(l, mode)
          \/ Release(l) \/ ReserveAgain(l) \/ AbandonCheckout(l) \/ Pay(l)
          \/ DispatchGift(l) \/ ResolveGift(l)
          \/ \E k \in Tasks : \/ StartTask(l, k) \/ FinishTask(l, k) \/ FailTask(l, k)
                              \/ Remake(l, k) \/ CancelTask(l, k)
          \/ Deliver(l) \/ CancelUnpaid(l)
          \/ RefundPart(l) \/ PayOut(l) \/ RecordRefund(l)
          \/ \E q \in 1 .. Need, unused \in BOOLEAN : ReturnPieces(l, q, unused)
    \/ TurnOver
    \/ ReceivePurchase \/ RecordWaste \/ ApproveCount \/ RejectCount
    \/ \E c \in {onHand - 1, onHand, onHand + 1} : CreateCount(c)

StockSpec == StockInit /\ [][StockNext]_stockVars

\* The result of a refund is reported until it is recorded.
StockFairSpec == StockSpec /\ \A l \in Lines : WF_stockVars(RecordRefund(l))

----------------------------------------------------------------------------
\* Lines and remakes that took Need units out of stock, and the units of lines that
\* came back.
Spent == {"consumed", "returned", "sold"}
LotsUsed == {l \in Lines : lot[l] \in Spent}
BatchesUsed == {b \in Lines \X Tasks : batch[b[1]][b[2]] = "consumed"}
UnitsBack == {u \in Lines \X (1 .. Need) : u[2] <= back[u[1]]}

\* What is on hand and what lines took is what was supplied and what came back: a
\* refund after a partial return, a count among sales or a turnover never loses or
\* invents stock.
StockIsExplained ==
    onHand + Need * Cardinality(LotsUsed) + Need * Cardinality(BatchesUsed)
        = supplied + Cardinality(UnitsBack)

\* The reserved quantity is the sum of the reservations in force, so no release or
\* production start finds too little of it.
ReservedIsBacked ==
    reserved = Need * Cardinality(LotsHeld(Lines)) + Need * Cardinality(BatchesHeld(Lines))

\* Material a kitchen has used is never put back as unused, however refund, failure,
\* remake and return follow one another.
MaterialIsNotBothUsedAndReturned == \A l \in raw : made[l] = {}

\* What a guest got was taken out of stock, and is not back there as unused material.
ServedFromStock ==
    \A l \in Lines : item[l] = "delivered" => lot[l] \in {"consumed", "sold"} /\ l \notin raw

\* While the visit lasts, stock is reserved for lines still to be made only, and a
\* second batch only for a remake that waits.
HeldForLiveWorkInVisit ==
    open => \A l \in Lines :
               /\ lot[l] = "reserved" => item[l] = "submitted"
               /\ \A k \in Tasks : batch[l][k] = "reserved" => task[l][k] = "waiting"

\* The same after a turnover, which "retires" the reservations of outstanding work.
HeldForLiveWork ==
    \A l \in Lines :
       /\ lot[l] = "reserved" => item[l] = "submitted"
       /\ \A k \in Tasks : batch[l][k] = "reserved" => task[l][k] = "waiting"

\* A task that was replaced by its remake is no blocker: once the remake is ready the
\* line can be delivered.
ReadyRemakeIsDeliverable ==
    \A l \in Lines, k \in Tasks :
       /\ task[l][k] = "ready" /\ item[l] = "submitted"
       /\ \A j \in Tasks \ {k} : task[l][j] \in {"cancelled", "none"}
       => AllTasksReady(l)

\* A refund the guest has received is recorded in the end, during the visit or after.
RefundIsRecorded == \A l \in Lines : l \in paidOut ~> money[l] = "refunded"
=============================================================================

---------------------- MODULE PaymentCollectionProofs ----------------------
(***************************************************************************)
(* Theorems of PaymentCollection for every set of orders and payments.     *)
(***************************************************************************)
EXTENDS PaymentCollection, TLAPS

\* The rows of all orders.
OrderRows == [Orders -> OrderRow]
\* The rows of all payments.
PaymentRows == [Payments -> PaymentRow]

----------------------------------------------------------------------------
(* What the helpers return.                                                *)

\* Every helper on order rows maps rows of the table to rows of the table.
LEMMA RowHelpersType ==
    ASSUME NEW ord \in OrderRows, NEW py, NEW S, NEW o, NEW late \in BOOLEAN
    PROVE  /\ Restored(ord, S) \in OrderRows
           /\ Synced(ord, py, S) \in OrderRows
           /\ Activated(ord, S, late) \in OrderRows
           /\ ReleasedAfterFailure(ord, S) \in OrderRows
           /\ Cancelled(ord, o) \in OrderRows
<1>1. Restored(ord, S) \in OrderRows
    BY DEF Restored, OrderRows, OrderRow, Fulfilment
<1>2. Synced(ord, py, S) \in OrderRows
    BY DEF Synced, OrderRows, OrderRow
<1>3. Activated(ord, S, late) \in OrderRows
    BY DEF Activated, OrderRows, OrderRow, Fulfilment
<1>4. ReleasedAfterFailure(ord, S) \in OrderRows
    BY DEF ReleasedAfterFailure, OrderRows, OrderRow, Fulfilment
<1>5. Cancelled(ord, o) \in OrderRows
    BY DEF Cancelled, OrderRows, OrderRow, Fulfilment
<1>6. QED BY <1>1, <1>2, <1>3, <1>4, <1>5

\* Counting the activations keeps the counters natural numbers.
LEMMA ProducedType ==
    ASSUME TypeOK, NEW ord PROVE Produced(ord) \in [Orders -> Nat]
<1>1. ASSUME NEW o \in Orders
      PROVE  production[o] + (IF ord[o].fulfilment = "active"
                                 /\ order[o].fulfilment # "active" THEN 1 ELSE 0) \in Nat
    <2>1. production[o] \in Nat
        BY DEF TypeOK
    <2>2. QED BY <2>1
<1>2. QED BY <1>1 DEF Produced

\* One more ledger entry keeps the ledger well typed.
LEMMA LedgerType ==
    ASSUME TypeOK, NEW p \in Payments
    PROVE  [ledger EXCEPT ![p] = @ + 1] \in [Payments -> Nat]
    BY DEF TypeOK

----------------------------------------------------------------------------
(* Typing.                                                                 *)

\* The rows a session starts with are well typed.
LEMMA InitType == Init => TypeOK
    BY DEF Init, TypeOK, NoPayment, PaymentRow, OrderRow, Fulfilment, PayStatus,
           ActionState, RailState

\* Opening a collection writes a well-typed payment row.
LEMMA NewPaymentType ==
    ASSUME TypeOK, NEW p \in Payments, NEW S \in SUBSET Orders,
           NEW kind \in {"order", "order_batch"}, NEW m \in Methods \cup {"manual"},
           NEW status \in {"pending", "succeeded"}, NewPayment(p, S, kind, m, status)
    PROVE  pay' \in PaymentRows /\ latest' \in [Orders -> Payments \cup {None}]
<1>1. pay' \in PaymentRows
    BY DEF TypeOK, NewPayment, PaymentRows, PaymentRow, PayStatus, Outstanding
<1>2. latest' \in [Orders -> Payments \cup {None}]
    BY DEF TypeOK, NewPayment
<1>3. QED BY <1>1, <1>2

\* Opening, reusing or releasing a collection keeps every table well typed.
LEMMA CollectingType == TypeOK /\ Collecting => TypeOK'
<1> SUFFICES ASSUME TypeOK, Collecting PROVE TypeOK'
    OBVIOUS
<1>0. order \in OrderRows /\ pay \in PaymentRows /\ production \in [Orders -> Nat]
    BY DEF TypeOK, OrderRows, PaymentRows
<1>1. CASE \E p \in Payments, S \in SUBSET Orders, kind \in {"order", "order_batch"} :
             RecordManual(p, S, kind)
    <2> PICK p \in Payments, S \in SUBSET Orders, kind \in {"order", "order_batch"} :
             RecordManual(p, S, kind)
        BY <1>1
    <2>1. pay' \in PaymentRows /\ latest' \in [Orders -> Payments \cup {None}]
        BY NewPaymentType DEF RecordManual
    <2>2. order' \in OrderRows
        BY <1>0, RowHelpersType DEF RecordManual
    <2>3. ledger' \in [Payments -> Nat] /\ production' \in [Orders -> Nat]
        BY LedgerType, ProducedType DEF RecordManual
    <2>4. QED BY <2>1, <2>2, <2>3
              DEF RecordManual, TypeOK, OrderRows, PaymentRows, providerVars
<1>2. CASE \E p \in Payments, S \in SUBSET Orders, kind \in {"order", "order_batch"},
              m \in Methods : Initiate(p, S, kind, m)
    <2> PICK p \in Payments, S \in SUBSET Orders, kind \in {"order", "order_batch"},
              m \in Methods : Initiate(p, S, kind, m)
        BY <1>2
    <2>1. pay' \in PaymentRows /\ latest' \in [Orders -> Payments \cup {None}]
        BY NewPaymentType DEF Initiate
    <2>2. order' \in OrderRows
        BY <1>0, RowHelpersType DEF Initiate
    <2>3. QED BY <2>1, <2>2 DEF Initiate, TypeOK, OrderRows, PaymentRows, providerVars
<1>3. CASE \E S \in SUBSET Orders, m \in Methods : InitiateReuse(S, m)
    <2>1. order' \in OrderRows
        BY <1>0, <1>3, RowHelpersType DEF InitiateReuse
    <2>2. QED BY <1>3, <2>1 DEF InitiateReuse, TypeOK, OrderRows, providerVars
<1>4. CASE \E p \in Payments : ReleaseForRetry(p)
    <2> PICK p \in Payments : ReleaseForRetry(p)
        BY <1>4
    <2>1. pay' \in PaymentRows
        BY <1>0 DEF ReleaseForRetry, PaymentRows, PaymentRow
    <2>2. order' \in OrderRows
        BY <1>0, RowHelpersType DEF ReleaseForRetry
    <2>3. QED BY <2>1, <2>2 DEF ReleaseForRetry, TypeOK, OrderRows, PaymentRows, providerVars
<1>5. QED BY <1>1, <1>2, <1>3, <1>4 DEF Collecting

\* Claiming a provider call and writing its answer back keep every table well typed.
LEMMA CallingType == TypeOK /\ Calling => TypeOK'
<1> SUFFICES ASSUME TypeOK, NEW p \in Payments,
                    Claim(p) \/ Complete(p) \/ FinishRejected(p) \/ FinishUnknown(p)
             PROVE  TypeOK'
    BY DEF Calling
<1>1. CASE Claim(p)
    <2>1. Waiting(p) \in SUBSET Orders
        BY DEF Waiting, TypeOK, PaymentRow
    <2>2. QED BY <1>1, <2>1 DEF Claim, TypeOK, moneyVars, ActionState, RailState
<1>2. CASE Complete(p)
    BY <1>2 DEF Complete, WriteBack, TypeOK, moneyVars, ActionState
<1>3. CASE FinishRejected(p)
    <2>1. pay' \in PaymentRows
        <3>1. pay \in PaymentRows
            BY DEF TypeOK, PaymentRows
        <3>2. [pay EXCEPT ![p].status = "failed"] \in PaymentRows
            BY <3>1 DEF PaymentRows, PaymentRow, PayStatus
        <3>3. QED BY <1>3, <3>1, <3>2 DEF FinishRejected
    <2>2. order' \in OrderRows
        BY <1>3 DEF FinishRejected, TypeOK, OrderRows, OrderRow
    <2>3. QED BY <1>3, <2>1, <2>2
              DEF FinishRejected, WriteBack, TypeOK, OrderRows, PaymentRows, ActionState
<1>4. CASE FinishUnknown(p)
    BY <1>4 DEF FinishUnknown, WriteBack, TypeOK, moneyVars, ActionState
<1>5. QED BY <1>1, <1>2, <1>3, <1>4

\* The channel changes only its own well-typed state.
LEMMA ChannelType == TypeOK /\ Channel => TypeOK'
<1> SUFFICES ASSUME TypeOK, NEW p \in Payments,
                    NEW from, NEW to \in RailState, RailMoves(p, from, to)
             PROVE  TypeOK'
    BY DEF Channel, RailAnswers, RailEnds, CustomerPays, Captured, RailState
<1> QED BY DEF RailMoves, TypeOK, moneyVars

\* Booking money keeps the rows of the three tables it writes well typed.
LEMMA BookType ==
    ASSUME TypeOK, NEW p \in Payments, Book(p)
    PROVE  /\ pay' \in PaymentRows /\ order' \in OrderRows
           /\ ledger' \in [Payments -> Nat] /\ production' \in [Orders -> Nat]
           /\ latest' = latest
<1>0. order \in OrderRows /\ pay \in PaymentRows /\ production \in [Orders -> Nat]
    BY DEF TypeOK, OrderRows, PaymentRows
<1>1. pay' \in PaymentRows
    BY <1>0 DEF Book, PaymentRows, PaymentRow, PayStatus
<1>2. order' \in OrderRows
    BY <1>0, RowHelpersType DEF Book
<1>3. ledger' \in [Payments -> Nat] /\ production' \in [Orders -> Nat] /\ latest' = latest
    BY LedgerType, ProducedType DEF Book
<1>4. QED BY <1>1, <1>2, <1>3

\* Ending an attempt keeps the payment rows and the actions well typed.
LEMMA EndsType ==
    ASSUME TypeOK, NEW p \in Payments, NEW s \in {"failed", "closed"}, Ends(p, s)
    PROVE  pay' \in PaymentRows /\ action' \in [Payments -> ActionState]
<1>1. pay' \in PaymentRows
    <2>1. pay \in [Payments -> PaymentRow] /\ pay' = [pay EXCEPT ![p].status = s]
        BY DEF Ends, TypeOK
    <2>2. [pay[p] EXCEPT !.status = s] \in PaymentRow
        BY <2>1 DEF PaymentRow, PayStatus
    <2>3. QED BY <2>1, <2>2 DEF PaymentRows
<1>2. action' \in [Payments -> ActionState]
    BY DEF Ends, ActionFailed, TypeOK, ActionState, LiveAction
<1>3. QED BY <1>1, <1>2

\* Recording and applying a verified result keep every table well typed.
LEMMA ApplyingType == TypeOK /\ Applying => TypeOK'
<1> SUFFICES ASSUME TypeOK, NEW p \in Payments,
                    \/ RecordCallback(p) \/ ApplyCallback(p) \/ ApplyQuerySuccess(p)
                    \/ \E s \in {"succeeded", "failed", "closed"} : RecordQuery(p, s)
                    \/ \E s \in {"failed", "closed"} : ApplyQueryFailure(p, s)
             PROVE  TypeOK'
    BY DEF Applying
<1>1. CASE \/ RecordCallback(p)
           \/ \E s \in {"succeeded", "failed", "closed"} : RecordQuery(p, s)
    BY <1>1 DEF RecordCallback, RecordQuery, Recorded, TypeOK, moneyVars, Observation
<1>2. ActionConsumed(p) => action' \in [Payments -> ActionState]
    BY DEF ActionConsumed, TypeOK, ActionState
<1>3. CASE ApplyCallback(p)
    BY <1>2, <1>3, BookType
       DEF ApplyCallback, Consumed, TypeOK, moneyVars, OrderRows, PaymentRows
<1>4. CASE ApplyQuerySuccess(p)
    BY <1>2, <1>4, BookType
       DEF ApplyQuerySuccess, Consumed, TypeOK, moneyVars, OrderRows, PaymentRows
<1>5. CASE \E s \in {"failed", "closed"} : ApplyQueryFailure(p, s)
    <2> PICK s \in {"failed", "closed"} : ApplyQueryFailure(p, s)
        BY <1>5
    <2>1. CASE UNCHANGED <<moneyVars, action>>
        BY <2>1 DEF ApplyQueryFailure, Consumed, TypeOK, moneyVars
    <2>2. CASE ~UNCHANGED <<moneyVars, action>>
        <3>1. /\ Ends(p, s) /\ UNCHANGED <<latest, ledger, production>>
              /\ order' = ReleasedAfterFailure(Synced(order, pay', pay[p].covers), pay[p].covers)
            BY <2>2 DEF ApplyQueryFailure
        <3>2. order' \in OrderRows
            BY <3>1, RowHelpersType DEF TypeOK, OrderRows
        <3>3. QED BY <3>1, <3>2, EndsType
                  DEF ApplyQueryFailure, Consumed, TypeOK, OrderRows, PaymentRows
    <2>3. QED BY <2>1, <2>2
<1>6. QED BY <1>1, <1>3, <1>4, <1>5

\* Abandoning, cancelling, lapsing and releasing keep every table well typed.
LEMMA GivingUpType == TypeOK /\ GivingUp => TypeOK'
<1> SUFFICES ASSUME TypeOK, GivingUp PROVE TypeOK'
    OBVIOUS
<1>0. order \in OrderRows /\ production \in [Orders -> Nat]
    BY DEF TypeOK, OrderRows
<1>1. CASE \E o \in Orders : GuestAbandon(o)
    <2> PICK o \in Orders : GuestAbandon(o)
        BY <1>1
    <2>1. order' \in OrderRows
        BY <1>0, RowHelpersType DEF GuestAbandon
    <2>2. action' \in [Payments -> ActionState] /\ expired' \in SUBSET Payments
        BY DEF GuestAbandon, TypeOK, ActionState
    <2>3. QED BY <2>1, <2>2 DEF GuestAbandon, TypeOK, OrderRows
<1>2. CASE \E o \in Orders : StaffCancel(o)
    BY <1>0, <1>2, RowHelpersType DEF StaffCancel, TypeOK, OrderRows, providerVars
<1>3. CASE \E o \in Orders : ReservationLapses(o)
    <2> PICK o \in Orders : ReservationLapses(o)
        BY <1>3
    <2>1. order' \in OrderRows
        BY <1>0 DEF ReservationLapses, OrderRows, OrderRow
    <2>2. QED BY <2>1 DEF ReservationLapses, TypeOK, OrderRows, providerVars
<1>4. CASE \E p \in Payments : RetireUnresolved(p)
    <2> PICK p \in Payments : RetireUnresolved(p)
        BY <1>4
    <2>1. order' \in OrderRows
        BY <1>0, RowHelpersType DEF RetireUnresolved
    <2>2. QED BY <2>1 DEF RetireUnresolved, TypeOK, OrderRows, providerVars
<1>5. CASE \E p \in Payments : ActionLapses(p)
    BY <1>5 DEF ActionLapses, TypeOK, moneyVars
<1>6. CASE \E p \in Payments, s \in {"failed", "closed"} : RetireTerminal(p, s)
    <2> PICK p \in Payments, s \in {"failed", "closed"} : RetireTerminal(p, s)
        BY <1>6
    <2>1. order' \in OrderRows
        BY <1>0, RowHelpersType DEF RetireTerminal
    <2>2. pay' \in PaymentRows /\ action' \in [Payments -> ActionState]
        BY EndsType DEF RetireTerminal, TypeOK, PaymentRows
    <2>3. QED BY <2>1, <2>2
              DEF RetireTerminal, Consumed, TypeOK, OrderRows, PaymentRows
<1>7. CASE ExpiryBatch
    <2>1. order' \in OrderRows
        BY <1>0, <1>7, RowHelpersType DEF ExpiryBatch
    <2>2. production' \in [Orders -> Nat]
        BY <1>7, ProducedType DEF ExpiryBatch
    <2>3. resolved' \in SUBSET ({"released", "activated"} \X Orders)
        <3>1. Due \subseteq Orders /\ GivenUp \subseteq Orders
            BY ImmediateAssumption DEF Due, GivenUp
        <3>2. QED BY <1>7, <3>1 DEF ExpiryBatch, TypeOK
    <2>4. QED BY <1>7, <2>1, <2>2, <2>3 DEF ExpiryBatch, TypeOK, OrderRows, providerVars
<1>8. QED BY <1>1, <1>2, <1>3, <1>4, <1>5, <1>6, <1>7 DEF GivingUp

\* A stuttering step keeps every table well typed.
LEMMA StutterType == TypeOK /\ UNCHANGED vars => TypeOK'
    BY DEF TypeOK, vars

\* Every table keeps its domains in every reachable state, for any number of
\* orders, payments and methods.
THEOREM TypeCorrect == Spec => []TypeOK
<1>1. TypeOK /\ [Next]_vars => TypeOK'
    BY CollectingType, CallingType, ChannelType, ApplyingType, GivingUpType,
       StutterType DEF Next
<1>2. QED BY <1>1, InitType, PTL DEF Spec

----------------------------------------------------------------------------
(* Every step is quiet or books one attempt.                               *)

\* A reservation that is not served and not given up for good.
Held == {"awaiting_payment", "released"}

\* The order is neither served nor cancelled by the change from ord to new.
Kept(ord, new, o) ==
    /\ new[o].status = ord[o].status
    /\ \/ new[o].fulfilment = ord[o].fulfilment
       \/ ord[o].fulfilment \in Held /\ new[o].fulfilment \in Held

\* The same attempts are booked before and after the step.
SameCaptures ==
    \A q \in Payments :
        /\ (pay'[q].status = "succeeded") <=> (pay[q].status = "succeeded")
        /\ pay[q].status = "succeeded" => pay'[q].covers = pay[q].covers

\* Nothing is booked or served, and only the orders of W are cancelled.
Quiet(W) ==
    /\ \A o \in Orders : IF o \in W THEN /\ order'[o].status = "cancelled"
                                         /\ order'[o].fulfilment = "cancelled"
                                    ELSE Kept(order, order', o)
    /\ SameCaptures
    /\ UNCHANGED <<ledger, production>>

\* Attempt p is booked; the orders it covers are served or withdrawn with it.
Booking(p) ==
    /\ pay[p].status # "succeeded" /\ pay'[p].status = "succeeded"
    /\ \A q \in Payments \ {p} : pay'[q] = pay[q]
    /\ ledger' = [ledger EXCEPT ![p] = @ + 1]
    /\ \A o \in Orders :
          \/ Kept(order, order', o)
          \/ /\ order'[o].status = order[o].status
             /\ order[o].fulfilment \in Held
             /\ order'[o].fulfilment \in {"active", "cancelled"}
    /\ \A o \in pay'[p].covers \cap Immediate :
          order'[o].status = "submitted" => order'[o].fulfilment \in {"active", "cancelled"}
    /\ production' = Produced(order')

\* Rows kept twice in a row are kept.
LEMMA KeptTransitive ==
    ASSUME NEW a, NEW b, NEW c, NEW o, Kept(a, b, o), Kept(b, c, o)
    PROVE  Kept(a, c, o)
    BY DEF Kept

\* Taking a reservation anew, releasing it and recomputing the payment status
\* neither serve nor cancel an order.
LEMMA HelpersKeep ==
    ASSUME NEW ord \in OrderRows, NEW py, NEW S, NEW o \in Orders
    PROVE  /\ Kept(ord, Synced(ord, py, S), o)
           /\ Kept(ord, Restored(ord, S), o)
           /\ Kept(ord, ReleasedAfterFailure(ord, S), o)
<1>1. Kept(ord, Synced(ord, py, S), o)
    BY DEF Kept, Synced, OrderRows, OrderRow
<1>2. Kept(ord, Restored(ord, S), o)
    BY DEF Kept, Restored, OrderRows, OrderRow, Held
<1>3. Kept(ord, ReleasedAfterFailure(ord, S), o)
    BY DEF Kept, ReleasedAfterFailure, OrderRows, OrderRow, Held
<1>4. QED BY <1>1, <1>2, <1>3

\* Activation serves or withdraws exactly the activatable orders.
LEMMA ActivatedRows ==
    ASSUME NEW ord \in OrderRows, NEW S, NEW late \in BOOLEAN, NEW o \in Orders
    PROVE  /\ Activated(ord, S, late)[o].status = ord[o].status
           /\ o \in Activatable(ord, S) =>
                 /\ ord[o].fulfilment \in Held
                 /\ Activated(ord, S, late)[o].fulfilment \in {"active", "cancelled"}
           /\ o \notin Activatable(ord, S) =>
                 Activated(ord, S, late)[o].fulfilment = ord[o].fulfilment
    BY DEF Activated, Activatable, OrderRows, OrderRow, Held

\* Cancelling one order leaves the rows of the others alone.
LEMMA CancelledRows ==
    ASSUME NEW ord \in OrderRows, NEW c \in Orders, NEW o \in Orders
    PROVE  IF o = c THEN /\ Cancelled(ord, c)[o].status = "cancelled"
                         /\ Cancelled(ord, c)[o].fulfilment = "cancelled"
                    ELSE Cancelled(ord, c)[o] = ord[o]
    BY DEF Cancelled, OrderRows, OrderRow

\* Orders that are kept are not produced.
LEMMA KeptIsNotProduced ==
    ASSUME TypeOK, \A o \in Orders : Kept(order, order', o)
    PROVE  Produced(order') = production
<1>1. ASSUME NEW o \in Orders
      PROVE  production[o] + (IF order'[o].fulfilment = "active"
                                 /\ order[o].fulfilment # "active" THEN 1 ELSE 0)
             = production[o]
    <2>1. production[o] \in Nat
        BY DEF TypeOK
    <2>2. ~(order'[o].fulfilment = "active" /\ order[o].fulfilment # "active")
        BY DEF Kept, Held
    <2>3. QED BY <2>1, <2>2
<1>2. Produced(order') = [o \in Orders |-> production[o]]
    BY <1>1 DEF Produced
<1>3. QED BY <1>2 DEF TypeOK

\* A step that keeps every order, the captures and the ledger is quiet.
LEMMA KeepingIsQuiet ==
    ASSUME TypeOK, \A o \in Orders : Kept(order, order', o), SameCaptures,
           ledger' = ledger, production' = production \/ production' = Produced(order')
    PROVE  Quiet({})
    BY KeptIsNotProduced DEF Quiet

\* Cancelling the rows of one order is quiet.
LEMMA CancellingIsQuiet ==
    ASSUME NEW before \in OrderRows, \A o \in Orders : Kept(order, before, o),
           NEW c \in Orders, order' = Cancelled(before, c), SameCaptures,
           UNCHANGED <<ledger, production>>
    PROVE  Quiet({c})
<1>1. ASSUME NEW o \in Orders
      PROVE  IF o = c THEN /\ order'[o].status = "cancelled"
                           /\ order'[o].fulfilment = "cancelled"
                      ELSE Kept(order, order', o)
    BY <1>1, CancelledRows DEF Kept
<1>2. QED BY <1>1 DEF Quiet

\* The order rows of a booking: whatever it covers ends served or withdrawn.
LEMMA BookedOrders ==
    ASSUME NEW before \in OrderRows, \A o \in Orders : Kept(order, before, o),
           NEW S, NEW late \in BOOLEAN, order' = Activated(before, S, late)
    PROVE  /\ \A o \in Orders :
                 \/ Kept(order, order', o)
                 \/ /\ order'[o].status = order[o].status
                    /\ order[o].fulfilment \in Held
                    /\ order'[o].fulfilment \in {"active", "cancelled"}
           /\ \A o \in S \cap Immediate :
                 order'[o].status = "submitted" =>
                    order'[o].fulfilment \in {"active", "cancelled"}
<1>1. ASSUME NEW o \in Orders
      PROVE  \/ Kept(order, order', o)
             \/ /\ order'[o].status = order[o].status
                /\ order[o].fulfilment \in Held
                /\ order'[o].fulfilment \in {"active", "cancelled"}
    <2>1. CASE o \in Activatable(before, S)
        BY <2>1, ActivatedRows DEF Kept, Held
    <2>2. CASE o \notin Activatable(before, S)
        BY <2>2, ActivatedRows DEF Kept
    <2>3. QED BY <2>1, <2>2
<1>2. ASSUME NEW o \in S \cap Immediate, order'[o].status = "submitted"
      PROVE  order'[o].fulfilment \in {"active", "cancelled"}
    <2>1. o \in Orders /\ before[o] \in OrderRow
        BY ImmediateAssumption DEF OrderRows
    <2>2. CASE o \in Activatable(before, S)
        BY <2>1, <2>2, ActivatedRows
    <2>3. CASE o \notin Activatable(before, S)
        <3>1. /\ before[o].status = "submitted"
              /\ order'[o].fulfilment = before[o].fulfilment
            BY <1>2, <2>1, <2>3, ActivatedRows
        <3>2. before[o].fulfilment \notin Held
            BY <2>3, <3>1 DEF Activatable, Held
        <3>3. QED BY <2>1, <3>1, <3>2 DEF OrderRow, Fulfilment, Held
    <2>4. QED BY <2>2, <2>3
<1>3. QED BY <1>1, <1>2

\* recordManual books what staff holds.
LEMMA ManualBooks ==
    ASSUME TypeOK, NEW p \in Payments, NEW S \in SUBSET Orders,
           NEW kind \in {"order", "order_batch"}, RecordManual(p, S, kind)
    PROVE  Booking(p)
<1> DEFINE paid == pay'[p].covers
           before == Synced(Restored(order, S), pay', paid)
<1>1. order \in OrderRows /\ pay \in PaymentRows
    BY DEF TypeOK, OrderRows, PaymentRows
<1>2. /\ Restored(order, S) \in OrderRows /\ before \in OrderRows
      /\ order' = Activated(before, paid, FALSE)
    BY <1>1, RowHelpersType DEF RecordManual
<1>3. \A o \in Orders : Kept(order, before, o)
    <2> TAKE o \in Orders
    <2>1. Kept(order, Restored(order, S), o)
        BY <1>1, HelpersKeep
    <2>2. Kept(Restored(order, S), before, o)
        BY <1>2, HelpersKeep
    <2>3. QED BY <2>1, <2>2, KeptTransitive
<1>4. /\ pay[p].status # "succeeded" /\ pay'[p].status = "succeeded"
      /\ \A q \in Payments \ {p} : pay'[q] = pay[q]
    BY <1>1 DEF RecordManual, NewPayment, PaymentRows
<1>5. ledger' = [ledger EXCEPT ![p] = @ + 1] /\ production' = Produced(order')
    BY DEF RecordManual
<1> HIDE DEF before, paid
<1>6. QED BY <1>2, <1>3, <1>4, <1>5, BookedOrders DEF Booking, paid

\* The shared booking of callbacks and queries.
LEMMA BookBooks ==
    ASSUME TypeOK, NEW p \in Payments, Book(p)
    PROVE  Booking(p)
<1> DEFINE S == pay[p].covers
           before == Synced(order, pay', S)
<1>1. order \in OrderRows /\ pay \in PaymentRows
    BY DEF TypeOK, OrderRows, PaymentRows
<1>2. before \in OrderRows /\ order' = Activated(before, S, rail[p] = "captured_late")
    BY <1>1, RowHelpersType DEF Book
<1>3. \A o \in Orders : Kept(order, before, o)
    BY <1>1, HelpersKeep
<1>4. /\ pay[p].status # "succeeded" /\ pay'[p].status = "succeeded"
      /\ pay'[p].covers = S
      /\ \A q \in Payments \ {p} : pay'[q] = pay[q]
    BY <1>1 DEF Book, Bookable, PaymentRows, PaymentRow
<1>5. ledger' = [ledger EXCEPT ![p] = @ + 1] /\ production' = Produced(order')
    BY DEF Book
<1> HIDE DEF before, S
<1>6. QED BY <1>2, <1>3, <1>4, <1>5, BookedOrders DEF Booking

\* Every step is one of these.
QuietOrBooking ==
    \/ Quiet({})
    \/ \E o \in Orders : Quiet({o})
    \/ \E p \in Payments : Booking(p)

\* Opening a collection is quiet, except that a manual receipt books its payment.
LEMMA CollectingStep == TypeOK /\ Collecting => QuietOrBooking
<1> SUFFICES ASSUME TypeOK, Collecting PROVE QuietOrBooking
    OBVIOUS
<1>0. order \in OrderRows /\ pay \in PaymentRows
    BY DEF TypeOK, OrderRows, PaymentRows
<1>1. CASE \E p \in Payments, S \in SUBSET Orders, kind \in {"order", "order_batch"} :
             RecordManual(p, S, kind)
    BY <1>1, ManualBooks DEF QuietOrBooking
<1>2. CASE \E p \in Payments, S \in SUBSET Orders, kind \in {"order", "order_batch"},
              m \in Methods : Initiate(p, S, kind, m)
    <2> PICK p \in Payments, S \in SUBSET Orders, kind \in {"order", "order_batch"},
              m \in Methods : Initiate(p, S, kind, m)
        BY <1>2
    <2>1. order' = Synced(Restored(order, S), pay', S) /\ Restored(order, S) \in OrderRows
        BY <1>0, RowHelpersType DEF Initiate
    <2>2. ASSUME NEW o \in Orders PROVE Kept(order, order', o)
        BY <1>0, <2>1, HelpersKeep, KeptTransitive
    <2>3. SameCaptures
        BY <1>0 DEF Initiate, NewPayment, SameCaptures, PaymentRows
    <2>4. UNCHANGED <<ledger, production>>
        BY DEF Initiate
    <2>5. Quiet({})
        BY <2>2, <2>3, <2>4, KeepingIsQuiet
    <2>6. QED BY <2>5 DEF QuietOrBooking
<1>3. CASE \E S \in SUBSET Orders, m \in Methods : InitiateReuse(S, m)
    <2>1. \A o \in Orders : Kept(order, order', o)
        BY <1>0, <1>3, HelpersKeep DEF InitiateReuse
    <2>2. SameCaptures /\ UNCHANGED <<ledger, production>>
        BY <1>3 DEF InitiateReuse, SameCaptures
    <2>3. QED BY <2>1, <2>2, KeepingIsQuiet DEF QuietOrBooking
<1>4. CASE \E p \in Payments : ReleaseForRetry(p)
    <2> PICK p \in Payments : ReleaseForRetry(p)
        BY <1>4
    <2>1. \A o \in Orders : Kept(order, order', o)
        BY <1>0, HelpersKeep DEF ReleaseForRetry
    <2>2. SameCaptures /\ UNCHANGED <<ledger, production>>
        BY <1>0 DEF ReleaseForRetry, SameCaptures, PaymentRows, PaymentRow
    <2>3. QED BY <2>1, <2>2, KeepingIsQuiet DEF QuietOrBooking
<1>5. QED BY <1>1, <1>2, <1>3, <1>4 DEF Collecting

\* A step that touches no row of the money tables is quiet.
LEMMA MoneyUnchanged == UNCHANGED moneyVars => Quiet({})
    BY DEF moneyVars, Quiet, Kept, SameCaptures

\* The provider call and its answer neither serve nor cancel an order.
LEMMA CallingStep == TypeOK /\ Calling => QuietOrBooking
<1> SUFFICES ASSUME TypeOK, NEW p \in Payments,
                    Claim(p) \/ Complete(p) \/ FinishRejected(p) \/ FinishUnknown(p)
             PROVE  Quiet({})
    BY DEF Calling, QuietOrBooking
<1>1. CASE Claim(p) \/ Complete(p) \/ FinishUnknown(p)
    BY <1>1, MoneyUnchanged DEF Claim, Complete, FinishUnknown
<1>2. CASE FinishRejected(p)
    <2>1. order \in OrderRows /\ pay \in PaymentRows
        BY DEF TypeOK, OrderRows, PaymentRows
    <2>2. \A o \in Orders : Kept(order, order', o)
        BY <1>2, <2>1 DEF FinishRejected, Kept, OrderRows, OrderRow
    <2>3. SameCaptures
        BY <1>2, <2>1 DEF FinishRejected, SameCaptures, PaymentRows, PaymentRow
    <2>4. UNCHANGED <<ledger, production>>
        BY <1>2 DEF FinishRejected
    <2>5. QED BY <2>2, <2>3, <2>4, KeepingIsQuiet
<1>3. QED BY <1>1, <1>2

\* What the channel does touches no table of the program.
LEMMA ChannelStep == Channel => QuietOrBooking
    BY MoneyUnchanged DEF Channel, RailAnswers, RailEnds, CustomerPays, RailMoves,
                          QuietOrBooking

\* A verified result either books its payment or is quiet.
LEMMA ApplyingStep == TypeOK /\ Applying => QuietOrBooking
<1> SUFFICES ASSUME TypeOK, NEW p \in Payments,
                    \/ RecordCallback(p) \/ ApplyCallback(p) \/ ApplyQuerySuccess(p)
                    \/ \E s \in {"succeeded", "failed", "closed"} : RecordQuery(p, s)
                    \/ \E s \in {"failed", "closed"} : ApplyQueryFailure(p, s)
             PROVE  Quiet({}) \/ Booking(p)
    BY DEF Applying, QuietOrBooking
<1>1. CASE \/ RecordCallback(p)
           \/ \E s \in {"succeeded", "failed", "closed"} : RecordQuery(p, s)
    BY <1>1, MoneyUnchanged DEF RecordCallback, RecordQuery, Recorded
<1>2. CASE ApplyCallback(p) \/ ApplyQuerySuccess(p)
    BY <1>2, MoneyUnchanged, BookBooks DEF ApplyCallback, ApplyQuerySuccess
<1>3. CASE \E s \in {"failed", "closed"} : ApplyQueryFailure(p, s)
    <2> PICK s \in {"failed", "closed"} : ApplyQueryFailure(p, s)
        BY <1>3
    <2>1. CASE UNCHANGED moneyVars
        BY <2>1, MoneyUnchanged
    <2>2. CASE ~UNCHANGED moneyVars
        <3> DEFINE before == Synced(order, pay', pay[p].covers)
        <3>1. /\ Ends(p, s) /\ UNCHANGED <<ledger, production>>
              /\ order' = ReleasedAfterFailure(before, pay[p].covers)
            BY <2>2 DEF ApplyQueryFailure
        <3>2. order \in OrderRows /\ before \in OrderRows /\ pay \in PaymentRows
            BY RowHelpersType DEF TypeOK, OrderRows, PaymentRows
        <3>3. \A o \in Orders : Kept(order, before, o)
            BY <3>2, HelpersKeep
        <3> HIDE DEF before
        <3>4. ASSUME NEW o \in Orders PROVE Kept(order, order', o)
            BY <3>1, <3>2, <3>3, HelpersKeep, KeptTransitive
        <3>5. SameCaptures
            BY <3>1, <3>2 DEF Ends, SameCaptures, PaymentRows, PaymentRow
        <3>6. QED BY <3>1, <3>4, <3>5, KeepingIsQuiet
    <2>3. QED BY <2>1, <2>2
<1>4. QED BY <1>1, <1>2, <1>3

\* A captured order is never in the worker's batch with anything left to serve.
LEMMA ExpiryIsQuiet ==
    ASSUME TypeOK, CollectedOrderIsServed, ExpiryBatch
    PROVE  Quiet({})
<1> DEFINE recovered == {o \in Due : DirectlyPaid(o)}
           synced == Synced(order, pay, recovered)
           active == Activated(synced, recovered, FALSE)
<1>1. order \in OrderRows /\ synced \in OrderRows /\ active \in OrderRows
    BY RowHelpersType DEF TypeOK, OrderRows
<1>2. order' = ReleasedAfterFailure(active, GivenUp)
    BY DEF ExpiryBatch
<1>3. ASSUME NEW o \in recovered PROVE order[o].status = "cancelled"
    <2>1. o \in Immediate /\ o \in Orders /\ order[o].fulfilment = "awaiting_payment"
        BY <1>3, ImmediateAssumption DEF Due
    <2>2. Settled(pay, o)
        BY <1>3 DEF DirectlyPaid, Direct, Settled
    <2>3. order[o].status # "submitted"
        BY <2>1, <2>2 DEF CollectedOrderIsServed
    <2>4. QED BY <1>1, <2>1, <2>3 DEF OrderRows, OrderRow
<1>4. ASSUME NEW o \in Orders PROVE Kept(order, synced, o)
    BY <1>1, HelpersKeep
<1> HIDE DEF synced
<1>5. ASSUME NEW o \in Orders PROVE o \notin Activatable(synced, recovered)
    BY <1>3, <1>4 DEF Activatable, Kept
<1> HIDE DEF recovered
<1>6. ASSUME NEW o \in Orders PROVE Kept(synced, active, o)
    <2>1. Activated(synced, recovered, FALSE)[o].status = synced[o].status
        BY <1>1, <1>6, ActivatedRows
    <2>2. Activated(synced, recovered, FALSE)[o].fulfilment = synced[o].fulfilment
        BY <1>1, <1>5, <1>6, ActivatedRows
    <2>3. QED BY <2>1, <2>2 DEF Kept
<1> HIDE DEF active
<1>7. ASSUME NEW o \in Orders PROVE Kept(active, order', o)
    BY <1>1, <1>2, HelpersKeep
<1>8. ASSUME NEW o \in Orders PROVE Kept(order, order', o)
    BY <1>4, <1>6, <1>7, KeptTransitive
<1>9. SameCaptures /\ ledger' = ledger /\ production' = Produced(order')
    BY DEF ExpiryBatch, SameCaptures
<1>10. QED BY <1>8, <1>9, KeepingIsQuiet

\* Giving up is quiet when every collected order is served already.
LEMMA GivingUpStep == TypeOK /\ CollectedOrderIsServed /\ GivingUp => QuietOrBooking
<1> SUFFICES ASSUME TypeOK, CollectedOrderIsServed, GivingUp PROVE QuietOrBooking
    OBVIOUS
<1>0. order \in OrderRows /\ pay \in PaymentRows /\ \A o \in Orders : Kept(order, order, o)
    BY DEF TypeOK, OrderRows, PaymentRows, Kept
<1>1. CASE \E o \in Orders : GuestAbandon(o) \/ StaffCancel(o)
    <2> PICK o \in Orders : GuestAbandon(o) \/ StaffCancel(o)
        BY <1>1
    <2>1. order' = Cancelled(order, o) /\ UNCHANGED <<pay, ledger, production>>
        BY DEF GuestAbandon, StaffCancel
    <2>2. SameCaptures
        BY <2>1 DEF SameCaptures
    <2>3. QED BY <1>0, <2>1, <2>2, CancellingIsQuiet DEF QuietOrBooking
<1>2. CASE \E o \in Orders : ReservationLapses(o)
    <2> PICK c \in Orders : ReservationLapses(c)
        BY <1>2
    <2>1. \A o \in Orders : Kept(order, order', o)
        BY <1>0 DEF ReservationLapses, Kept, OrderRows, OrderRow
    <2>2. SameCaptures /\ UNCHANGED <<ledger, production>>
        BY DEF ReservationLapses, SameCaptures
    <2>3. QED BY <2>1, <2>2, KeepingIsQuiet DEF QuietOrBooking
<1>3. CASE \E p \in Payments : RetireUnresolved(p)
    <2> PICK p \in Payments : RetireUnresolved(p)
        BY <1>3
    <2>1. /\ \E o \in Orders : order' = Cancelled(order, o)
          /\ UNCHANGED <<pay, ledger, production>>
        BY <1>0 DEF RetireUnresolved, PaymentRows, PaymentRow
    <2>2. SameCaptures
        BY <2>1 DEF SameCaptures
    <2>3. QED BY <1>0, <2>1, <2>2, CancellingIsQuiet DEF QuietOrBooking
<1>4. CASE \E p \in Payments : ActionLapses(p)
    BY <1>4, MoneyUnchanged DEF ActionLapses, QuietOrBooking
<1>5. CASE \E p \in Payments, s \in {"failed", "closed"} : RetireTerminal(p, s)
    <2> PICK p \in Payments, s \in {"failed", "closed"} : RetireTerminal(p, s)
        BY <1>5
    <2>1. PICK c \in pay[p].covers : order' = Cancelled(Synced(order, pay', {c}), c)
        BY DEF RetireTerminal
    <2>2. c \in Orders
        BY <1>0 DEF PaymentRows, PaymentRow
    <2>3. /\ Synced(order, pay', {c}) \in OrderRows
          /\ \A o \in Orders : Kept(order, Synced(order, pay', {c}), o)
        BY <1>0, RowHelpersType, HelpersKeep
    <2>4. SameCaptures
        BY <1>0 DEF RetireTerminal, Ends, SameCaptures, PaymentRows, PaymentRow
    <2>5. UNCHANGED <<ledger, production>>
        BY DEF RetireTerminal
    <2>6. QED BY <2>1, <2>2, <2>3, <2>4, <2>5, CancellingIsQuiet DEF QuietOrBooking
<1>6. CASE ExpiryBatch
    BY <1>6, ExpiryIsQuiet DEF QuietOrBooking
<1>7. QED BY <1>1, <1>2, <1>3, <1>4, <1>5, <1>6 DEF GivingUp

\* The effect of every step on money and service.
LEMMA EveryStep ==
    TypeOK /\ CollectedOrderIsServed /\ [Next]_vars => QuietOrBooking
<1>1. UNCHANGED vars => QuietOrBooking
    BY MoneyUnchanged DEF vars, moneyVars, QuietOrBooking
<1>2. QED BY <1>1, CollectingStep, CallingStep, ChannelStep, ApplyingStep, GivingUpStep
          DEF Next

----------------------------------------------------------------------------
(* The invariant.  CollectedOrderIsServed is part of it because the expiry *)
(* worker activates captured orders: it books nothing, and only the        *)
(* invariant says that it finds nothing to serve either.                   *)

\* The inductive invariant.
IInv ==
    /\ TypeOK
    /\ LedgerMatchesCaptures
    /\ CollectedOrderIsServed
    /\ ProductionFollowsFulfilment

\* The inductive invariant holds before any payment.
LEMMA InitInvariant == Init => IInv
<1> SUFFICES ASSUME Init PROVE IInv
    OBVIOUS
<1>1. \A p \in Payments : pay[p].status = "none" /\ ledger[p] = 0
    BY DEF Init, NoPayment
<1>2. LedgerMatchesCaptures /\ CollectedOrderIsServed
    BY <1>1 DEF LedgerMatchesCaptures, CollectedOrderIsServed, Settled
<1>3. ProductionFollowsFulfilment
    <2>1. \A o \in Orders : production[o] = 0
        BY DEF Init
    <2>2. ASSUME NEW n, n = 0 PROVE n <= 1 /\ ~(n > 0)
        BY <2>2
    <2>3. QED BY <2>1, <2>2, Zenon DEF ProductionFollowsFulfilment
<1>4. QED BY <1>2, <1>3, InitType DEF IInv

\* A quiet step keeps the inductive invariant: what was served or withdrawn stays.
LEMMA QuietInvariant ==
    ASSUME IInv, NEW W, Quiet(W)
    PROVE  LedgerMatchesCaptures' /\ CollectedOrderIsServed' /\ ProductionFollowsFulfilment'
<1>1. LedgerMatchesCaptures'
    BY DEF IInv, LedgerMatchesCaptures, Quiet, SameCaptures
<1>2. CollectedOrderIsServed'
    <2> SUFFICES ASSUME NEW o \in Immediate, order'[o].status = "submitted", Settled(pay', o)
                 PROVE  order'[o].fulfilment \in {"active", "cancelled"}
        BY DEF CollectedOrderIsServed
    <2>1. o \in Orders
        BY ImmediateAssumption
    <2>2. Settled(pay, o)
        BY DEF Quiet, SameCaptures, Settled
    <2>3. CASE o \in W
        BY <2>1, <2>3 DEF Quiet
    <2>4. CASE o \notin W
        <3>1. Kept(order, order', o)
            BY <2>1, <2>4 DEF Quiet
        <3>2. QED BY <2>2, <3>1 DEF IInv, CollectedOrderIsServed, Kept, Held
    <2>5. QED BY <2>3, <2>4
<1>3. ProductionFollowsFulfilment'
    <2> SUFFICES ASSUME NEW o \in Orders
                 PROVE  /\ production'[o] <= 1
                        /\ production'[o] > 0 => order'[o].fulfilment \in {"active", "cancelled"}
        BY DEF ProductionFollowsFulfilment
    <2>1. /\ production'[o] = production[o] /\ production[o] <= 1
          /\ production[o] > 0 => order[o].fulfilment \in {"active", "cancelled"}
        BY DEF IInv, ProductionFollowsFulfilment, Quiet
    <2>2. order[o].fulfilment \in {"active", "cancelled"} =>
             order'[o].fulfilment \in {"active", "cancelled"}
        BY DEF Quiet, Kept, Held
    <2>3. QED BY <2>1, <2>2
<1>4. QED BY <1>1, <1>2, <1>3

\* Booking a payment keeps the inductive invariant: the money and its service are
\* written together.
LEMMA BookingInvariant ==
    ASSUME IInv, NEW p \in Payments, Booking(p)
    PROVE  LedgerMatchesCaptures' /\ CollectedOrderIsServed' /\ ProductionFollowsFulfilment'
<1>1. LedgerMatchesCaptures'
    <2> SUFFICES ASSUME NEW q \in Payments
                 PROVE  ledger'[q] = IF pay'[q].status = "succeeded" THEN 1 ELSE 0
        BY DEF LedgerMatchesCaptures
    <2>1. ledger'[q] = IF q = p THEN ledger[q] + 1 ELSE ledger[q]
        BY DEF Booking, IInv, TypeOK
    <2>2. ledger[q] = IF pay[q].status = "succeeded" THEN 1 ELSE 0
        BY DEF IInv, LedgerMatchesCaptures
    <2>3. CASE q = p
        BY <2>1, <2>2, <2>3 DEF Booking
    <2>4. CASE q # p
        BY <2>1, <2>2, <2>4 DEF Booking
    <2>5. QED BY <2>3, <2>4
<1>2. CollectedOrderIsServed'
    <2> SUFFICES ASSUME NEW o \in Immediate, order'[o].status = "submitted", Settled(pay', o)
                 PROVE  order'[o].fulfilment \in {"active", "cancelled"}
        BY DEF CollectedOrderIsServed
    <2>1. o \in Orders
        BY ImmediateAssumption
    <2>2. CASE o \in pay'[p].covers
        BY <2>2 DEF Booking
    <2>3. CASE o \notin pay'[p].covers
        <3>1. Settled(pay, o)
            BY <2>3 DEF Booking, Settled
        <3>2. order[o].status = "submitted"
            BY <2>1 DEF Booking, Kept
        <3>3. order[o].fulfilment \in {"active", "cancelled"}
            BY <3>1, <3>2 DEF IInv, CollectedOrderIsServed
        <3>4. QED BY <2>1, <3>3 DEF Booking, Kept, Held
    <2>4. QED BY <2>2, <2>3
<1>3. ProductionFollowsFulfilment'
    <2> SUFFICES ASSUME NEW o \in Orders
                 PROVE  /\ production'[o] <= 1
                        /\ production'[o] > 0 => order'[o].fulfilment \in {"active", "cancelled"}
        BY DEF ProductionFollowsFulfilment
    <2>1. /\ production[o] \in Nat /\ production[o] <= 1
          /\ production[o] > 0 => order[o].fulfilment \in {"active", "cancelled"}
        BY DEF IInv, TypeOK, ProductionFollowsFulfilment
    <2>2. production'[o] = production[o] +
             (IF order'[o].fulfilment = "active" /\ order[o].fulfilment # "active" THEN 1 ELSE 0)
        BY DEF Booking, Produced
    <2>3. CASE Kept(order, order', o)
        BY <2>1, <2>2, <2>3 DEF Kept, Held
    <2>4. CASE ~Kept(order, order', o)
        <3>1. /\ order[o].fulfilment \in Held
              /\ order'[o].fulfilment \in {"active", "cancelled"}
            BY <2>4 DEF Booking
        <3>2. production[o] = 0
            BY <2>1, <3>1 DEF Held
        <3>3. QED BY <2>2, <3>1, <3>2
    <2>5. QED BY <2>3, <2>4
<1>4. QED BY <1>1, <1>2, <1>3

\* Every step keeps the inductive invariant.
LEMMA StepInvariant == IInv /\ [Next]_vars => IInv'
<1> SUFFICES ASSUME IInv, [Next]_vars PROVE IInv'
    OBVIOUS
<1>1. TypeOK'
    BY CollectingType, CallingType, ChannelType, ApplyingType, GivingUpType,
       StutterType DEF Next, IInv
<1>2. QuietOrBooking
    BY EveryStep DEF IInv
<1>3. QED BY <1>1, <1>2, QuietInvariant, BookingInvariant DEF QuietOrBooking, IInv

\* The inductive invariant holds in every reachable state.
LEMMA Invariance == Spec => []IInv
    BY InitInvariant, StepInvariant, PTL DEF Spec

----------------------------------------------------------------------------
(* What follows for every run.                                             *)

\* Every captured attempt has exactly one entry in the ledger, whatever mix of
\* callbacks, queries, late captures and manual receipts arrives, and no other
\* attempt has one (the ledger append next to every status change).
THEOREM LedgerIsExact == Spec => []LedgerMatchesCaptures
<1>1. IInv => LedgerMatchesCaptures
    BY DEF IInv
<1>2. QED BY <1>1, Invariance, PTL

\* No committed state has a fully collected immediate order that still waits for
\* its service or has lost its reservation (activatePaidOrder in the transaction
\* that books the money).
THEOREM CollectedIsServed == Spec => []CollectedOrderIsServed
<1>1. IInv => CollectedOrderIsServed
    BY DEF IInv
<1>2. QED BY <1>1, Invariance, PTL

\* No order is produced twice, and what was produced belongs to an order that is
\* active or was cancelled afterwards.
THEOREM ProducedOnce == Spec => []ProductionFollowsFulfilment
<1>1. IInv => ProductionFollowsFulfilment
    BY DEF IInv
<1>2. QED BY <1>1, Invariance, PTL

\* A cancelled or abandoned order never gets a fulfilment state or production
\* again, whatever is paid, restored or recovered afterwards.
THEOREM CancellationIsFinal == Spec => CancelledIsFinal
<1>1. ASSUME IInv, [Next]_vars, NEW o \in Orders, order[o].fulfilment = "cancelled"
      PROVE  order'[o].fulfilment = "cancelled" /\ production'[o] = production[o]
    <2>1. QuietOrBooking
        BY <1>1, EveryStep DEF IInv
    <2>2. CASE \E W : Quiet(W)
        BY <1>1, <2>2 DEF Quiet, Kept, Held
    <2>3. CASE \E p \in Payments : Booking(p)
        <3>1. order'[o].fulfilment = "cancelled"
            BY <1>1, <2>3 DEF Booking, Kept, Held
        <3>2. production'[o] = production[o] + 0 /\ production[o] \in Nat
            BY <1>1, <2>3, <3>1 DEF Booking, Produced, IInv, TypeOK
        <3>3. QED BY <3>1, <3>2
    <2>4. QED BY <2>1, <2>2, <2>3 DEF QuietOrBooking
<1>2. IInv /\ [Next]_vars =>
        [\A o \in Orders : order[o].fulfilment = "cancelled" =>
            order'[o].fulfilment = "cancelled" /\ production'[o] = production[o]]_vars
    BY <1>1
<1>3. QED BY <1>2, Invariance, PTL DEF Spec, CancelledIsFinal

\* The component keeps its promise: an attempt enters the ledger once, an order is
\* served once, in the step that books money, and a withdrawn order is not served
\* any more.
THEOREM KeepsPromise == Spec => ImplementsPromise
<1>1. Init => Promise!PromiseInit
    <2> SUFFICES ASSUME Init PROVE Promise!PromiseInit
        OBVIOUS
    <2>1. ASSUME NEW n, n = 0 PROVE ~(n > 0)
        BY <2>1
    <2>2. /\ \A p \in Payments : ledger[p] = 0
          /\ \A o \in Orders : production[o] = 0 /\ order[o].fulfilment # "cancelled"
        BY DEF Init
    <2>3. /\ {p \in Payments : ledger[p] > 0} = {}
          /\ {o \in Orders : production[o] > 0} = {}
          /\ {o \in Orders : order[o].fulfilment = "cancelled"} = {}
        BY <2>1, <2>2, Zenon
    <2>4. QED BY <2>3 DEF Promise!PromiseInit
<1>2. ASSUME IInv, NEW o \in Orders
      PROVE  production[o] \in Nat /\ (production[o] > 0 =>
                 order[o].fulfilment \in {"active", "cancelled"})
    BY <1>2 DEF IInv, TypeOK, ProductionFollowsFulfilment
<1>3. ASSUME IInv, Quiet({}) PROVE UNCHANGED Promise!promiseVars
    <2>1. \A o \in Orders :
             (order'[o].fulfilment = "cancelled") <=> (order[o].fulfilment = "cancelled")
        BY <1>3 DEF Quiet, Kept, Held
    <2>2. UNCHANGED <<ledger, production>>
        BY <1>3 DEF Quiet
    <2>3. QED BY <2>1, <2>2 DEF Promise!promiseVars
<1>4. ASSUME IInv, NEW c \in Orders, Quiet({c}) PROVE Promise!Withdraw(c)
    <2>1. \A o \in Orders : (order'[o].fulfilment = "cancelled") <=>
                               (o = c \/ order[o].fulfilment = "cancelled")
        BY <1>4 DEF Quiet, Kept, Held
    <2>2. UNCHANGED <<ledger, production>>
        BY <1>4 DEF Quiet
    <2>3. QED BY <2>1, <2>2 DEF Promise!Withdraw
<1>5. ASSUME IInv, NEW p \in Payments, Booking(p) PROVE Promise!Collect(p)
    <2>1. /\ ledger[p] = 0 /\ ledger'[p] = 1
          /\ \A q \in Payments \ {p} : ledger'[q] = ledger[q]
        BY <1>5 DEF IInv, TypeOK, LedgerMatchesCaptures, Booking
    <2>2. ASSUME NEW o \in Orders
          PROVE  /\ production[o] > 0 => production'[o] > 0
                 /\ order[o].fulfilment = "cancelled" => order'[o].fulfilment = "cancelled"
                 /\ production'[o] > 0 /\ ~(production[o] > 0) =>
                       order'[o].fulfilment # "cancelled"
        <3>1. production'[o] = production[o] +
                 (IF order'[o].fulfilment = "active" /\ order[o].fulfilment # "active"
                  THEN 1 ELSE 0)
            BY <1>5 DEF Booking, Produced
        <3>2. order[o].fulfilment = "cancelled" => order'[o].fulfilment = "cancelled"
            BY <1>5 DEF Booking, Kept, Held
        <3>3. QED BY <1>2, <1>5, <3>1, <3>2
    <2>3. /\ {q \in Payments : ledger'[q] > 0} = {q \in Payments : ledger[q] > 0} \cup {p}
          /\ p \notin {q \in Payments : ledger[q] > 0}
        BY <2>1
    <2>4. QED BY <2>2, <2>3 DEF Promise!Collect
<1>6. IInv /\ [Next]_vars => [Promise!PromiseNext]_(Promise!promiseVars)
    <2> SUFFICES ASSUME IInv, [Next]_vars
                 PROVE  Promise!PromiseNext \/ UNCHANGED Promise!promiseVars
        OBVIOUS
    <2>1. QuietOrBooking
        BY EveryStep DEF IInv
    <2>2. QED BY <1>3, <1>4, <1>5, <2>1 DEF QuietOrBooking, Promise!PromiseNext
<1>7. QED BY <1>1, <1>6, Invariance, PTL DEF Spec, ImplementsPromise, Promise!PromiseSpec

----------------------------------------------------------------------------
(* The life of one attempt: its payment row, its provider action, the      *)
(* channel's transaction and the verified observations.                    *)

\* A verified success of p waits to be applied.
Success(p) == "callback" \in obs[p] \/ "succeeded" \in obs[p]

\* The payment row of p stays, except that staff may release it for a retry.
SameAttempt(p) ==
    /\ pay'[p].status = pay[p].status /\ pay'[p].method = pay[p].method
    /\ pay'[p].covers = pay[p].covers /\ pay'[p].after_close = pay[p].after_close
    /\ pay[p].released => pay'[p].released

\* The payment row of p changes its status only.
SameTerms(p) ==
    /\ pay'[p].method = pay[p].method /\ pay'[p].covers = pay[p].covers
    /\ pay'[p].released = pay[p].released

\* The action of p cannot be handed out any more, if there was one.
ActionOver(p) ==
    /\ action'[p] \notin LiveAction
    /\ action'[p] = "absent" <=> action[p] = "absent"
    /\ rail'[p] = rail[p]
    /\ Success(p)' => Success(p)

\* p is inserted, over orders that nothing has settled and, for an online method,
\* while no attempt over the same orders can be reused.
Starts(p) ==
    /\ pay[p].status = "none" /\ ~pay'[p].after_close
    /\ \/ pay'[p].status = "pending"
       \/ pay'[p].status = "succeeded" /\ pay'[p].method = "manual"
    /\ pay'[p].covers # {} /\ \A o \in pay'[p].covers : ~Settled(pay, o)
    /\ \A q \in Payments \ {p} : pay'[q] = pay[q]
    /\ pay'[p].method \in Methods =>
          \A q \in Payments : ~Reusable(q, pay'[p].covers, pay'[p].method)
    /\ action'[p] = action[p] /\ rail'[p] = rail[p] /\ obs'[p] = obs[p]

\* The provider call of p is claimed.
Claims(p) ==
    /\ SameAttempt(p) /\ pay[p].status = "pending"
    /\ action[p] = "absent" /\ action'[p] = "creating"
    /\ rail'[p] = "sent" /\ obs'[p] = obs[p]

\* The row of p stays; its action, its channel or its observations may move.
Rests(p) ==
    /\ SameAttempt(p)
    /\ \/ action'[p] = action[p]
       \/ action[p] = "creating" /\ action'[p] \in {"ready", "unknown"}
       \/ action[p] # "absent" /\ action'[p] \in {"failed", "consumed"}
    /\ \/ rail'[p] = rail[p]
       \/ rail[p] \in {"sent", "open", "closed"} /\ rail'[p] # "absent"
    /\ Success(p)' => Success(p) \/ rail'[p] \in RailCaptured

\* p is booked on a verified success.
IsBooked(p) ==
    /\ Success(p) /\ Bookable(p) /\ pay'[p].status = "succeeded"
    /\ pay'[p].after_close <=> pay[p].status = "closed"
    /\ SameTerms(p) /\ ActionOver(p)

\* p ends without money.
IsEnded(p) ==
    /\ pay[p].status = "pending" /\ pay'[p].status \in {"failed", "closed"}
    /\ pay'[p].after_close = pay[p].after_close
    /\ SameTerms(p) /\ ActionOver(p)

\* What one step does to the attempt p.
Turn(p) == Starts(p) \/ Claims(p) \/ Rests(p) \/ IsBooked(p) \/ IsEnded(p)

\* An attempt that a step does not touch rests.
LEMMA UntouchedRests ==
    ASSUME NEW q, pay'[q] = pay[q], action'[q] = action[q], rail'[q] = rail[q],
           obs'[q] = obs[q]
    PROVE  Turn(q)
    BY DEF Turn, Rests, SameAttempt, Success

\* Opening a collection starts one attempt, or releases one.
LEMMA CollectingTurns ==
    ASSUME TypeOK, Collecting, NEW q \in Payments PROVE Turn(q)
<1>0. pay \in PaymentRows /\ UNCHANGED <<action, rail, obs>>
    BY DEF TypeOK, PaymentRows, Collecting, RecordManual, Initiate, InitiateReuse,
           ReleaseForRetry, providerVars
<1>1. ASSUME NEW p \in Payments, NEW S \in SUBSET Orders, NEW kind, NEW m, NEW status,
             status = "pending" \/ (status = "succeeded" /\ m = "manual"),
             NewPayment(p, S, kind, m, status),
             m \in Methods => \A x \in Payments : ~Reusable(x, Outstanding(S), m)
      PROVE  Turn(q)
    <2>1. /\ pay'[p] = [status |-> status, kind |-> kind, covers |-> Outstanding(S),
                        method |-> m, released |-> FALSE, after_close |-> FALSE]
          /\ \A x \in Payments \ {p} : pay'[x] = pay[x]
          /\ pay[p].status = "none" /\ Outstanding(S) # {}
        BY <1>0, <1>1 DEF NewPayment, PaymentRows
    <2>2. \A o \in Outstanding(S) : ~Settled(pay, o)
        BY DEF Outstanding
    <2>3. Starts(p)
        BY <1>0, <1>1, <2>1, <2>2 DEF Starts
    <2>4. QED BY <1>0, <2>1, <2>3, UntouchedRests DEF Turn
<1>2. ASSUME NEW p \in Payments, NEW S \in SUBSET Orders,
             NEW kind \in {"order", "order_batch"}, RecordManual(p, S, kind)
      PROVE  Turn(q)
    BY <1>1, <1>2, MethodsAssumption DEF RecordManual
<1>3. ASSUME NEW p \in Payments, NEW S \in SUBSET Orders,
             NEW kind \in {"order", "order_batch"}, NEW m \in Methods,
             Initiate(p, S, kind, m)
      PROVE  Turn(q)
    BY <1>1, <1>3 DEF Initiate
<1>4. ASSUME NEW S \in SUBSET Orders, NEW m \in Methods, InitiateReuse(S, m)
      PROVE  Turn(q)
    BY <1>0, <1>4, UntouchedRests DEF InitiateReuse
<1>5. ASSUME NEW p \in Payments, ReleaseForRetry(p) PROVE Turn(q)
    BY <1>0, <1>5 DEF ReleaseForRetry, Turn, Rests, SameAttempt, Success, PaymentRows,
                      PaymentRow
<1>6. QED BY <1>2, <1>3, <1>4, <1>5 DEF Collecting

\* The provider call is claimed, or its answer written back.
LEMMA CallingTurns ==
    ASSUME TypeOK, Calling, NEW q \in Payments PROVE Turn(q)
<1> PICK p \in Payments : Claim(p) \/ Complete(p) \/ FinishRejected(p) \/ FinishUnknown(p)
    BY DEF Calling
<1>1. /\ pay \in [Payments -> PaymentRow] /\ action \in [Payments -> ActionState]
      /\ rail \in [Payments -> RailState] /\ obs' = obs
    BY DEF TypeOK, Claim, Complete, FinishRejected, FinishUnknown, WriteBack
<1>2. CASE Claim(p)
    <2>1. Claims(p)
        BY <1>1, <1>2 DEF Claim, Claims, SameAttempt, Unresolved, moneyVars
    <2>2. q # p => Turn(q)
        BY <1>1, <1>2, UntouchedRests DEF Claim, moneyVars
    <2>3. QED BY <2>1, <2>2 DEF Turn
<1>3. CASE Complete(p) \/ FinishUnknown(p)
    BY <1>1, <1>3 DEF Complete, FinishUnknown, WriteBack, moneyVars, Turn, Rests,
                      SameAttempt, Success
<1>4. CASE FinishRejected(p)
    <2>1. /\ action[p] = "creating" /\ action' = [action EXCEPT ![p] = "failed"]
          /\ rail' = rail
        BY <1>4 DEF FinishRejected, WriteBack
    <2>2. CASE pay[p].status = "pending"
        <3>1. pay' = [pay EXCEPT ![p].status = "failed"]
            BY <1>4, <2>2 DEF FinishRejected
        <3>2. IsEnded(p)
            BY <1>1, <2>1, <2>2, <3>1 DEF IsEnded, SameTerms, ActionOver, LiveAction,
                                          Success, PaymentRow
        <3>3. q # p => Turn(q)
            BY <1>1, <2>1, <3>1, UntouchedRests
        <3>4. QED BY <3>2, <3>3 DEF Turn
    <2>3. CASE pay[p].status # "pending"
        BY <1>1, <1>4, <2>1, <2>3 DEF FinishRejected, Turn, Rests, SameAttempt, Success
    <2>4. QED BY <2>2, <2>3
<1>5. QED BY <1>2, <1>3, <1>4

\* The channel moves one transaction that it has.
LEMMA ChannelTurns ==
    ASSUME TypeOK, Channel, NEW q \in Payments PROVE Turn(q)
<1> PICK p \in Payments, from \in SUBSET {"sent", "open", "closed"},
         to \in RailState \ {"absent"} : RailMoves(p, from, to)
    BY DEF Channel, RailAnswers, RailEnds, CustomerPays, Captured, RailState
<1> QED
    BY DEF RailMoves, moneyVars, TypeOK, Turn, Rests, SameAttempt, Success

\* A definitive non-success ends its attempt and touches no other.
LEMMA EndingTurns ==
    ASSUME TypeOK, NEW p \in Payments, NEW s \in {"failed", "closed"}, Ends(p, s),
           Consumed(p, s), rail' = rail, NEW q \in Payments
    PROVE  Turn(q)
<1>1. /\ pay \in [Payments -> PaymentRow] /\ action \in [Payments -> ActionState]
      /\ obs \in [Payments -> SUBSET Observation]
      /\ pay[p].status = "pending" /\ pay' = [pay EXCEPT ![p].status = s]
    BY DEF TypeOK, Ends
<1>2. pay'[p] = [pay[p] EXCEPT !.status = s] /\ pay'[p].status = s
    BY <1>1 DEF PaymentRow
<1>3. SameTerms(p) /\ pay'[p].after_close = pay[p].after_close
    BY <1>1, <1>2 DEF SameTerms, PaymentRow
<1>4. ActionOver(p)
    BY <1>1 DEF Ends, ActionFailed, Consumed, ActionOver, Success, LiveAction
<1>5. q # p => Turn(q)
    BY <1>1, UntouchedRests DEF Ends, ActionFailed, Consumed
<1>6. QED BY <1>1, <1>2, <1>3, <1>4, <1>5 DEF Turn, IsEnded

\* A verified result is stored, books its attempt or ends it.
LEMMA ApplyingTurns ==
    ASSUME TypeOK, Applying, NEW q \in Payments PROVE Turn(q)
<1> PICK p \in Payments :
            \/ RecordCallback(p) \/ ApplyCallback(p) \/ ApplyQuerySuccess(p)
            \/ \E s \in {"succeeded", "failed", "closed"} : RecordQuery(p, s)
            \/ \E s \in {"failed", "closed"} : ApplyQueryFailure(p, s)
    BY DEF Applying
<1>1. /\ pay \in [Payments -> PaymentRow] /\ action \in [Payments -> ActionState]
      /\ obs \in [Payments -> SUBSET Observation] /\ rail' = rail
    BY DEF TypeOK, RecordCallback, ApplyCallback, ApplyQuerySuccess, RecordQuery,
           ApplyQueryFailure, Recorded
<1>2. CASE RecordCallback(p) \/ \E s \in {"succeeded", "failed", "closed"} : RecordQuery(p, s)
    <2>1. PICK k \in Observation : /\ Recorded(p, k)
                                   /\ k \in {"callback", "succeeded"} => rail[p] \in RailCaptured
        BY <1>2 DEF RecordCallback, RecordQuery, Observation
    <2>2. QED
        BY <1>1, <2>1 DEF Recorded, moneyVars, Turn, Rests, SameAttempt, Success
<1>3. ASSUME NEW k \in {"callback", "succeeded"}, Consumed(p, k), ActionConsumed(p),
             pay[p].status = "succeeded", UNCHANGED moneyVars
      PROVE  Turn(q)
    BY <1>1, <1>3 DEF Consumed, ActionConsumed, moneyVars, Turn, Rests, SameAttempt, Success
<1>4. ASSUME NEW k \in {"callback", "succeeded"}, Consumed(p, k), ActionConsumed(p), Book(p)
      PROVE  Turn(q)
    <2>1. /\ pay' = [pay EXCEPT ![p].status = "succeeded",
                                ![p].after_close = (pay[p].status = "closed")]
          /\ Bookable(p) /\ Success(p)
        BY <1>4 DEF Book, Consumed, Success
    <2>2. SameTerms(p) /\ pay'[p].status = "succeeded"
          /\ (pay'[p].after_close <=> pay[p].status = "closed")
        BY <1>1, <2>1 DEF SameTerms, PaymentRow
    <2>3. ActionOver(p)
        BY <1>1, <1>4 DEF Consumed, ActionConsumed, ActionOver, Success, LiveAction
    <2>4. q # p => Turn(q)
        BY <1>1, <1>4, <2>1, UntouchedRests DEF Consumed, ActionConsumed
    <2>5. QED BY <2>1, <2>2, <2>3, <2>4 DEF Turn, IsBooked
<1>5. CASE ApplyCallback(p)
    BY <1>3, <1>4, <1>5 DEF ApplyCallback
<1>6. CASE ApplyQuerySuccess(p)
    <2>1. CASE UNCHANGED <<moneyVars, action>>
        BY <1>1, <1>6, <2>1 DEF ApplyQuerySuccess, Consumed, moneyVars, Turn, Rests,
                                SameAttempt, Success
    <2>2. QED BY <1>4, <1>6, <2>1 DEF ApplyQuerySuccess
<1>7. CASE \E s \in {"failed", "closed"} : ApplyQueryFailure(p, s)
    <2> PICK s \in {"failed", "closed"} : ApplyQueryFailure(p, s)
        BY <1>7
    <2>1. Consumed(p, s)
        BY DEF ApplyQueryFailure
    <2>2. CASE UNCHANGED <<moneyVars, action>>
        BY <1>1, <2>1, <2>2 DEF Consumed, moneyVars, Turn, Rests, SameAttempt, Success
    <2>3. CASE Ends(p, s)
        BY <1>1, <2>1, <2>3, EndingTurns
    <2>4. QED BY <2>2, <2>3 DEF ApplyQueryFailure
<1>8. QED BY <1>2, <1>5, <1>6, <1>7

\* Giving up a reservation ends at most the attempt whose result it applies.
LEMMA GivingUpTurns ==
    ASSUME TypeOK, GivingUp, NEW q \in Payments PROVE Turn(q)
<1>1. ASSUME UNCHANGED <<pay, action, rail, obs>> PROVE Turn(q)
    BY <1>1, UntouchedRests
<1>2. ASSUME NEW o \in Orders, GuestAbandon(o) PROVE Turn(q)
    <2>1. /\ UNCHANGED <<pay, rail, obs>> /\ action \in [Payments -> ActionState]
          /\ \/ action' = action
             \/ /\ action[latest[o]] \in LiveAction
                /\ action' = [action EXCEPT ![latest[o]] = "failed"]
        BY <1>2 DEF GuestAbandon, TypeOK
    <2>2. QED BY <2>1 DEF Turn, Rests, SameAttempt, Success, LiveAction
<1>3. ASSUME NEW p \in Payments, NEW s \in {"failed", "closed"}, RetireTerminal(p, s)
      PROVE  Turn(q)
    <2>1. Consumed(p, s) /\ rail' = rail
        BY <1>3 DEF RetireTerminal
    <2>2. CASE UNCHANGED <<pay, action>>
        BY <2>1, <2>2 DEF Consumed, TypeOK, Turn, Rests, SameAttempt, Success
    <2>3. CASE Ends(p, s)
        BY <2>1, <2>3, EndingTurns
    <2>4. QED BY <1>3, <2>2, <2>3 DEF RetireTerminal
<1>4. QED
    BY <1>1, <1>2, <1>3 DEF GivingUp, StaffCancel, ReservationLapses, RetireUnresolved,
                            ActionLapses, ExpiryBatch, providerVars, moneyVars

\* Every step turns every attempt.
LEMMA EveryTurn ==
    ASSUME TypeOK, [Next]_vars, NEW q \in Payments PROVE Turn(q)
<1>1. CASE UNCHANGED vars
    BY <1>1, UntouchedRests DEF vars
<1>2. QED BY <1>1, CollectingTurns, CallingTurns, ChannelTurns, ApplyingTurns, GivingUpTurns
          DEF Next

----------------------------------------------------------------------------
(* Evidence: what the books say of an attempt, against what the channel    *)
(* did.                                                                    *)

\* No action without a payment, nothing at the channel without an action, no
\* observation without a capture, no booking without either.
Backed(p) ==
    /\ pay[p].status = "none" => action[p] = "absent"
    /\ action[p] = "absent" => rail[p] = "absent"
    /\ Success(p) => rail[p] \in RailCaptured
    /\ pay[p].status = "succeeded" /\ pay[p].method \in Methods => rail[p] \in RailCaptured
    /\ pay[p].status \in {"succeeded", "failed", "closed"} => action[p] \notin LiveAction
    /\ pay[p].after_close => pay[p].status = "succeeded"

\* The invariant of the attempts.
Backing == \A p \in Payments : Backed(p)

\* No attempt loses its backing.
LEMMA BackingStep ==
    ASSUME TypeOK, Backing, [Next]_vars PROVE Backing'
<1> SUFFICES ASSUME NEW p \in Payments PROVE Backed(p)'
    BY DEF Backing
<1>1. Backed(p) /\ Turn(p) /\ action[p] \in ActionState /\ pay[p] \in PaymentRow
    BY EveryTurn DEF Backing, TypeOK
<1>2. CASE Starts(p)
    BY <1>1, <1>2, MethodsAssumption
       DEF Starts, Backed, Success, LiveAction
<1>3. CASE Claims(p)
    BY <1>1, <1>3 DEF Claims, SameAttempt, Backed, Success, LiveAction, RailCaptured
<1>4. CASE Rests(p)
    BY <1>1, <1>4 DEF Rests, SameAttempt, Backed, Success, LiveAction, RailCaptured
<1>5. CASE IsBooked(p)
    BY <1>1, <1>5 DEF IsBooked, SameTerms, ActionOver, Bookable, Backed, Success
<1>6. CASE IsEnded(p)
    BY <1>1, <1>6 DEF IsEnded, SameTerms, ActionOver, Backed, Success
<1>7. QED BY <1>1, <1>2, <1>3, <1>4, <1>5, <1>6 DEF Turn

\* Every attempt is backed in every reachable state.
LEMMA AttemptsAreBacked == Spec => []Backing
<1>1. Init => Backing
    BY DEF Init, Backing, Backed, Success, NoPayment
<1>2. QED BY <1>1, BackingStep, TypeCorrect, PTL DEF Spec

\* An online attempt is booked only for money the channel took, whatever was
\* abandoned, released, expired or answered late (verified observations are the
\* only way into recordSucceededCallback and recordProviderQueryResult).
THEOREM CapturesAreProven == Spec => []CaptureHasEvidence
<1>1. Backing => CaptureHasEvidence
    BY DEF Backing, Backed, CaptureHasEvidence
<1>2. QED BY <1>1, AttemptsAreBacked, PTL

\* An attempt with a result has no action that a customer could still be sent to,
\* also when the create call answers last (WHERE state = 'creating').
THEOREM FinishedIsNotPayable == Spec => []FinishedAttemptIsNotPayable
<1>1. Backing => FinishedAttemptIsNotPayable
    BY DEF Backing, Backed, FinishedAttemptIsNotPayable
<1>2. QED BY <1>1, AttemptsAreBacked, PTL

----------------------------------------------------------------------------
(* Double captures.                                                        *)

\* Attempts of one online method over the same orders: at most one is neither let
\* go of nor ended.
Alone(p) == \/ pay[p].status \in {"none", "failed", "closed"}
            \/ pay[p].released \/ pay[p].after_close

\* The invariant of pairs of attempts.
Exclusive ==
    \A p, q \in Payments :
        (/\ p # q /\ pay[p].method = pay[q].method /\ pay[p].method \in Methods
         /\ pay[p].covers = pay[q].covers) => Alone(p) \/ Alone(q)

\* An attempt that was let go of or ended stays so, unless it starts.
LEMMA AloneStays ==
    ASSUME NEW p \in Payments, Backed(p), Turn(p), Alone(p), ~Starts(p)
    PROVE  Alone(p)'
<1>1. CASE Claims(p) \/ Rests(p)
    BY <1>1 DEF Claims, Rests, SameAttempt, Alone
<1>2. CASE IsBooked(p)
    BY <1>2 DEF IsBooked, Bookable, SameTerms, Alone, Backed
<1>3. CASE IsEnded(p)
    BY <1>3 DEF IsEnded, Alone
<1>4. QED BY <1>1, <1>2, <1>3 DEF Turn

\* A new online attempt finds the others over its orders let go of or ended.
LEMMA StartsAlone ==
    ASSUME TypeOK, NEW p \in Payments, NEW q \in Payments, p # q, Starts(p),
           pay'[p].method \in Methods, pay'[q].method = pay'[p].method,
           pay'[q].covers = pay'[p].covers
    PROVE  Alone(q)'
<1>1. pay'[q] = pay[q] /\ pay[q].status \in PayStatus
    BY DEF Starts, TypeOK, PaymentRow
<1>2. pay[q].status # "succeeded"
    BY <1>1 DEF Starts, Settled
<1>3. pay[q].status = "pending" => pay[q].released
    BY <1>1 DEF Starts, Reusable, Unresolved
<1>4. QED BY <1>1, <1>2, <1>3 DEF Alone, PayStatus

\* Pairs stay exclusive.
LEMMA ExclusiveStep ==
    ASSUME TypeOK, Backing, Exclusive, [Next]_vars PROVE Exclusive'
<1> SUFFICES ASSUME NEW p \in Payments, NEW q \in Payments, p # q,
                    pay'[p].method = pay'[q].method, pay'[p].method \in Methods,
                    pay'[p].covers = pay'[q].covers
             PROVE  Alone(p)' \/ Alone(q)'
    BY DEF Exclusive
<1>1. Turn(p) /\ Turn(q) /\ Backed(p) /\ Backed(q)
    BY EveryTurn DEF Backing
<1>2. CASE Starts(p)
    BY <1>2, StartsAlone
<1>3. CASE Starts(q)
    BY <1>3, StartsAlone
<1>4. CASE ~Starts(p) /\ ~Starts(q)
    <2>1. \A x \in {p, q} : pay'[x].method = pay[x].method /\ pay'[x].covers = pay[x].covers
        BY <1>1, <1>4 DEF Turn, Claims, Rests, IsBooked, IsEnded, SameAttempt, SameTerms
    <2>2. Alone(p) \/ Alone(q)
        BY <2>1 DEF Exclusive
    <2>3. QED BY <1>1, <1>4, <2>2, AloneStays
<1>5. QED BY <1>2, <1>3, <1>4

\* One balance is captured twice by one online method only after staff let go of an
\* attempt or the channel had closed it (findReusableOnlineAttempt under the locks
\* of the orders), for any number of attempts.
THEOREM DoubleCaptureHasACause == Spec => []DoubleCaptureIsExplained
<1>1. Init => Exclusive
    BY DEF Init, Exclusive, Alone, NoPayment
<1>2. Exclusive => DoubleCaptureIsExplained
    BY DEF Exclusive, Alone, DoubleCaptureIsExplained
<1>3. QED BY <1>1, <1>2, ExclusiveStep, AttemptsAreBacked, TypeCorrect, PTL DEF Spec

----------------------------------------------------------------------------
(* Timely money.                                                           *)

\* Attempt p took money for order o in time.
Timely(p, o) ==
    /\ pay[p].status = "succeeded" /\ o \in pay[p].covers
    /\ pay[p].method = "manual" \/ rail[p] = "captured"

\* Money that was taken in time stays so.
LEMMA TimelyStays ==
    ASSUME TypeOK, Backing, [Next]_vars, NEW p \in Payments, NEW o, Timely(p, o)
    PROVE  Timely(p, o)'
<1>1. Turn(p) /\ Backed(p)
    BY EveryTurn DEF Backing
<1>2. QED
    BY <1>1 DEF Turn, Starts, Claims, Rests, IsBooked, IsEnded, SameAttempt, SameTerms,
                ActionOver, Bookable, Timely

\* An order that a booking turns active is one it covers.
LEMMA ActiveIsActivatable ==
    ASSUME NEW ord \in OrderRows, NEW S, NEW late \in BOOLEAN, NEW o \in Orders,
           Activated(ord, S, late)[o].fulfilment = "active", ord[o].fulfilment # "active"
    PROVE  o \in S /\ ~late
    BY DEF Activated, Activatable, OrderRows, OrderRow

\* An order whose production grows was not active before and is so afterwards.
LEMMA NewProduction ==
    ASSUME TypeOK, NEW o \in Orders, production' = Produced(order'),
           production'[o] # production[o]
    PROVE  order'[o].fulfilment = "active" /\ order[o].fulfilment # "active"
<1>1. production[o] \in Nat
    BY DEF TypeOK
<1>2. production'[o] = production[o] +
         (IF order'[o].fulfilment = "active" /\ order[o].fulfilment # "active" THEN 1 ELSE 0)
    BY DEF Produced
<1>3. QED BY <1>1, <1>2

\* A manual receipt serves only what it collects.
LEMMA ManualIsTimely ==
    ASSUME TypeOK, NEW p \in Payments, NEW S \in SUBSET Orders,
           NEW kind \in {"order", "order_batch"}, RecordManual(p, S, kind),
           NEW o \in Orders, production'[o] # production[o]
    PROVE  Timely(p, o)'
<1> DEFINE before == Synced(Restored(order, S), pay', pay'[p].covers)
<1>1. order \in OrderRows /\ pay \in PaymentRows
    BY DEF TypeOK, OrderRows, PaymentRows
<1>2. Restored(order, S) \in OrderRows /\ before \in OrderRows
    BY <1>1, RowHelpersType
<1>3. Kept(order, before, o)
    BY <1>1, <1>2, HelpersKeep, KeptTransitive
<1>4. order'[o].fulfilment = "active" /\ order[o].fulfilment # "active"
    BY NewProduction DEF RecordManual
<1>5. order' = Activated(before, pay'[p].covers, FALSE)
    BY DEF RecordManual
<1>6. before[o].fulfilment # "active"
    BY <1>3, <1>4 DEF Kept, Held
<1> HIDE DEF before
<1>7. o \in pay'[p].covers
    BY <1>2, <1>4, <1>5, <1>6, ActiveIsActivatable
<1>8. pay'[p].status = "succeeded" /\ pay'[p].method = "manual"
    BY <1>1 DEF RecordManual, NewPayment, PaymentRows
<1>9. QED BY <1>7, <1>8 DEF Timely

\* A verified success serves only what it collects, and only when the channel took
\* the money in time.
LEMMA BookIsTimely ==
    ASSUME TypeOK, NEW p \in Payments, Book(p), rail[p] \in RailCaptured, rail' = rail,
           NEW o \in Orders, production'[o] # production[o]
    PROVE  Timely(p, o)'
<1> DEFINE S == pay[p].covers
           late == rail[p] = "captured_late"
           before == Synced(order, pay', S)
<1>1. order \in OrderRows /\ pay \in PaymentRows
    BY DEF TypeOK, OrderRows, PaymentRows
<1>2. before \in OrderRows /\ Kept(order, before, o)
    BY <1>1, RowHelpersType, HelpersKeep
<1>3. order'[o].fulfilment = "active" /\ order[o].fulfilment # "active"
    BY NewProduction DEF Book
<1>4. order' = Activated(before, S, late)
    BY DEF Book
<1>5. before[o].fulfilment # "active"
    BY <1>2, <1>3 DEF Kept, Held
<1>6. late \in BOOLEAN
    OBVIOUS
<1> HIDE DEF before, S, late
<1>7. o \in S /\ ~late
    BY <1>2, <1>3, <1>4, <1>5, <1>6, ActiveIsActivatable
<1>8. rail'[p] = "captured"
    BY <1>7 DEF late, RailCaptured
<1>9. pay'[p].status = "succeeded" /\ pay'[p].covers = S
    BY <1>1 DEF Book, S, PaymentRows, PaymentRow
<1>10. QED BY <1>7, <1>8, <1>9 DEF Timely

\* Whatever is produced in a step is paid for in time by that step.
LEMMA ProducedForTimelyMoney ==
    ASSUME TypeOK, CollectedOrderIsServed, Backing, Next,
           NEW o \in Orders, production'[o] # production[o]
    PROVE  \E p \in Payments : Timely(p, o)'
<1>1. ~UNCHANGED production
    OBVIOUS
<1>2. CASE Collecting
    BY <1>1, <1>2, ManualIsTimely DEF Collecting, Initiate, InitiateReuse, ReleaseForRetry
<1>3. ~Calling
    BY <1>1 DEF Calling, Claim, Complete, FinishRejected, FinishUnknown, moneyVars
<1>4. ~Channel
    BY <1>1 DEF Channel, RailAnswers, RailEnds, CustomerPays, RailMoves, moneyVars
<1>5. CASE Applying
    <2>1. PICK p \in Payments : ApplyCallback(p) \/ ApplyQuerySuccess(p)
        BY <1>1, <1>5 DEF Applying, RecordCallback, RecordQuery, Recorded,
                          ApplyQueryFailure, moneyVars
    <2>2. Book(p) /\ Success(p) /\ rail' = rail
        BY <1>1, <2>1 DEF ApplyCallback, ApplyQuerySuccess, Consumed, Success, moneyVars
    <2>3. rail[p] \in RailCaptured
        BY <2>2 DEF Backing, Backed
    <2>4. QED BY <2>2, <2>3, BookIsTimely
<1>6. ~GivingUp
    <2>1. ~ExpiryBatch
        BY <1>1, ExpiryIsQuiet DEF Quiet
    <2>2. QED
        BY <1>1, <2>1 DEF GivingUp, GuestAbandon, StaffCancel, ReservationLapses,
                          RetireUnresolved, ActionLapses, RetireTerminal, moneyVars
<1>7. QED BY <1>2, <1>3, <1>4, <1>5, <1>6 DEF Next

\* Nothing is produced without money that staff holds or that the channel took
\* before the purchase deadline, however many attempts of an order race (the late
\* branch of activatePaidOrder).
THEOREM ServedInTime == Spec => []ServedForTimelyMoney
<1> DEFINE Paid == \A o \in Orders :
                      production[o] # 0 => \E p \in Payments : Timely(p, o)
<1>1. Init => Paid
    BY DEF Init
<1>2. ASSUME IInv, Backing, Paid, [Next]_vars PROVE Paid'
    <2> SUFFICES ASSUME NEW o \in Orders, production'[o] # 0
                 PROVE  \E p \in Payments : Timely(p, o)'
        OBVIOUS
    <2>1. CASE production'[o] = production[o]
        BY <1>2, <2>1, TimelyStays DEF IInv
    <2>2. CASE production'[o] # production[o]
        BY <1>2, <2>2, ProducedForTimelyMoney DEF IInv, vars
    <2>3. QED BY <2>1, <2>2
<1>3. IInv /\ Paid => ServedForTimelyMoney
    <2> SUFFICES ASSUME IInv, Paid, NEW o \in Orders, production[o] > 0
                 PROVE  \E p \in Payments : Timely(p, o)
        BY DEF ServedForTimelyMoney, Timely
    <2>1. production[o] \in Nat
        BY DEF IInv, TypeOK
    <2>2. QED BY <2>1
<1> HIDE DEF Paid
<1>4. QED BY <1>1, <1>2, <1>3, Invariance, AttemptsAreBacked, PTL DEF Spec

----------------------------------------------------------------------------
(* Deadlines.                                                              *)

\* The helpers release no reservation that waits.
LEMMA NotReleased ==
    ASSUME NEW ord \in OrderRows, NEW py, NEW S, NEW o \in Orders, NEW late \in BOOLEAN,
           NEW c \in Orders, ord[o].fulfilment = "awaiting_payment"
    PROVE  /\ Synced(ord, py, S)[o].fulfilment = "awaiting_payment"
           /\ Restored(ord, S)[o].fulfilment = "awaiting_payment"
           /\ Activated(ord, S, late)[o].fulfilment # "released"
           /\ Cancelled(ord, c)[o].fulfilment # "released"
<1>1. /\ Synced(ord, py, S)[o].fulfilment = "awaiting_payment"
      /\ Restored(ord, S)[o].fulfilment = "awaiting_payment"
    BY DEF Synced, Restored, OrderRows, OrderRow
<1>2. /\ Activated(ord, S, late)[o].fulfilment # "released"
      /\ Cancelled(ord, c)[o].fulfilment # "released"
    BY DEF Activated, Cancelled, OrderRows, OrderRow
<1>3. QED BY <1>1, <1>2

\* A definitive failure releases only the orders it is about.
LEMMA OnlyThoseReleased ==
    ASSUME NEW ord \in OrderRows, NEW S, NEW o \in Orders, o \notin S
    PROVE  ReleasedAfterFailure(ord, S)[o] = ord[o]
    BY DEF ReleasedAfterFailure

\* A waiting reservation of an unresolved attempt is released only by a step that
\* ends an attempt of that order.
LEMMA ReleaseHasAnEnd ==
    ASSUME TypeOK, Next, NEW o \in Immediate, order[o].fulfilment = "awaiting_payment",
           order'[o].fulfilment = "released", HeldForQuery(o)
    PROVE  \E p \in Payments : /\ o \in pay[p].covers
                               /\ pay[p].status = "pending"
                               /\ pay'[p].status \in {"failed", "closed"}
<1>1. o \in Orders /\ order \in OrderRows /\ pay \in PaymentRows
    BY ImmediateAssumption DEF TypeOK, OrderRows, PaymentRows
<1>2. ASSUME NEW before \in OrderRows, NEW S, NEW late \in BOOLEAN,
             before[o].fulfilment = "awaiting_payment"
      PROVE  Activated(before, S, late)[o].fulfilment # "released"
    BY <1>1, <1>2, NotReleased
<1>3. ASSUME NEW before \in OrderRows, NEW c \in Orders,
             before[o].fulfilment = "awaiting_payment"
      PROVE  Cancelled(before, c)[o].fulfilment # "released"
    BY <1>1, <1>3, NotReleased
<1>4. \A py, S : /\ Synced(order, py, S) \in OrderRows
                 /\ Synced(order, py, S)[o].fulfilment = "awaiting_payment"
                 /\ Restored(order, S) \in OrderRows
                 /\ Restored(order, S)[o].fulfilment = "awaiting_payment"
    BY <1>1, RowHelpersType, NotReleased
<1>5. \A py, S, T : /\ Synced(Restored(order, S), py, T) \in OrderRows
                    /\ Synced(Restored(order, S), py, T)[o].fulfilment = "awaiting_payment"
    BY <1>1, <1>4, RowHelpersType, NotReleased
<1>6. order' # order
    OBVIOUS
<1>7. ~Collecting
    <2>1. ASSUME NEW p \in Payments, NEW S, NEW kind, RecordManual(p, S, kind) PROVE FALSE
        <3> DEFINE paid == pay'[p].covers
                   before == Synced(Restored(order, S), pay', paid)
        <3>1. order' = Activated(before, paid, FALSE)
            BY <2>1 DEF RecordManual
        <3>2. before \in OrderRows /\ before[o].fulfilment = "awaiting_payment"
            BY <1>5
        <3> HIDE DEF before
        <3>3. QED BY <1>2, <3>1, <3>2
    <2>2. ASSUME NEW p \in Payments, NEW S, NEW kind, NEW m, Initiate(p, S, kind, m)
          PROVE  FALSE
        BY <1>5, <2>2 DEF Initiate
    <2>3. ASSUME NEW S, NEW m, InitiateReuse(S, m) PROVE FALSE
        BY <1>4, <2>3 DEF InitiateReuse
    <2>4. ASSUME NEW p \in Payments, ReleaseForRetry(p) PROVE FALSE
        BY <1>4, <2>4 DEF ReleaseForRetry
    <2>5. QED BY <2>1, <2>2, <2>3, <2>4 DEF Collecting
<1>8. ~Calling
    BY <1>1 DEF Calling, Claim, Complete, FinishRejected, FinishUnknown, moneyVars,
                OrderRows, OrderRow
<1>9. ~Channel
    BY DEF Channel, RailAnswers, RailEnds, CustomerPays, RailMoves, moneyVars
<1>10. ASSUME NEW p \in Payments, Book(p) PROVE FALSE
    <2> DEFINE before == Synced(order, pay', pay[p].covers)
    <2>1. /\ order' = Activated(before, pay[p].covers, rail[p] = "captured_late")
          /\ (rail[p] = "captured_late") \in BOOLEAN
        BY <1>10 DEF Book
    <2>2. before \in OrderRows /\ before[o].fulfilment = "awaiting_payment"
        BY <1>4
    <2> HIDE DEF before
    <2>3. QED BY <1>2, <2>1, <2>2
<1>11. CASE Applying
    <2>1. PICK p \in Payments, s \in {"failed", "closed"} : ApplyQueryFailure(p, s)
        BY <1>10, <1>11 DEF Applying, RecordCallback, RecordQuery, Recorded, ApplyCallback,
                            ApplyQuerySuccess, moneyVars
    <2>2. /\ Ends(p, s)
          /\ order' = ReleasedAfterFailure(Synced(order, pay', pay[p].covers), pay[p].covers)
        BY <2>1 DEF ApplyQueryFailure, moneyVars
    <2>3. o \in pay[p].covers
        BY <1>1, <1>4, <2>2, OnlyThoseReleased
    <2>4. pay[p].status = "pending" /\ pay'[p].status = s
        BY <1>1, <2>2 DEF Ends, PaymentRows, PaymentRow
    <2>5. QED BY <2>3, <2>4
<1>12. ~ExpiryBatch
    <2> SUFFICES ASSUME ExpiryBatch PROVE FALSE
        OBVIOUS
    <2> DEFINE recovered == {x \in Due : DirectlyPaid(x)}
               active == Activated(Synced(order, pay, recovered), recovered, FALSE)
    <2>1. active \in OrderRows /\ active[o].fulfilment # "released"
        BY <1>2, <1>4, RowHelpersType
    <2>2. order' = ReleasedAfterFailure(active, GivenUp) /\ o \notin GivenUp
        BY DEF ExpiryBatch, GivenUp
    <2> HIDE DEF active
    <2>3. QED BY <1>1, <2>1, <2>2, OnlyThoseReleased
<1>13. ~GivingUp
    <2>1. ASSUME NEW p \in Payments, NEW s \in {"failed", "closed"}, RetireTerminal(p, s)
          PROVE  FALSE
        <3>1. PICK c \in pay[p].covers : order' = Cancelled(Synced(order, pay', {c}), c)
            BY <2>1 DEF RetireTerminal
        <3>2. c \in Orders
            BY <1>1 DEF PaymentRows, PaymentRow
        <3>3. /\ Synced(order, pay', {c}) \in OrderRows
              /\ Synced(order, pay', {c})[o].fulfilment = "awaiting_payment"
            BY <1>4
        <3>4. QED BY <1>3, <3>1, <3>2, <3>3
    <2>2. ASSUME NEW p \in Payments PROVE ~RetireUnresolved(p)
        BY <1>1, <1>3 DEF RetireUnresolved, PaymentRows, PaymentRow
    <2>3. ASSUME NEW c \in Orders PROVE ~(GuestAbandon(c) \/ StaffCancel(c))
        BY <1>1, <1>3 DEF GuestAbandon, StaffCancel
    <2>4. ASSUME NEW c \in Orders PROVE ~ReservationLapses(c)
        BY <1>1 DEF ReservationLapses, OrderRows, OrderRow
    <2>5. ASSUME NEW p \in Payments PROVE ~ActionLapses(p)
        BY DEF ActionLapses, moneyVars
    <2>6. QED BY <1>12, <2>1, <2>2, <2>3, <2>4, <2>5 DEF GivingUp
<1>14. QED BY <1>7, <1>8, <1>9, <1>11, <1>13 DEF Next

\* The reservation of an unresolved attempt is not given up because a deadline
\* passed, but only with the end of an attempt of that order (payment_state
\* 'unknown' in the expiry worker).
THEOREM DeadlinesReleaseNothing == Spec => DeadlineAloneReleasesNothing
<1>1. TypeOK /\ [Next]_vars =>
        [\A o \in Immediate :
            (/\ order[o].fulfilment = "awaiting_payment"
             /\ order'[o].fulfilment = "released"
             /\ HeldForQuery(o)) =>
                \E p \in Payments : /\ o \in pay[p].covers
                                    /\ pay[p].status = "pending"
                                    /\ pay'[p].status \in {"failed", "closed"}]_vars
    BY ReleaseHasAnEnd
<1>2. QED BY <1>1, TypeCorrect, PTL DEF Spec, DeadlineAloneReleasesNothing

=============================================================================

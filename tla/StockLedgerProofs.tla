-------------------------- MODULE StockLedgerProofs --------------------------
(* What StockLedger promises for any lines, any need, any number of remakes *)
(* and any stock: the types, and three invariants that rest on one          *)
(* inductive invariant over a single line.                                  *)
EXTENDS StockLedger, FiniteSetTheorems, TLAPS

----------------------------------------------------------------------------
(* Types                                                                   *)

\* A part of the lines is finite, and so what it holds is a number.
LEMMA HeldIsNat ==
    ASSUME NEW S \in SUBSET Lines
    PROVE  Need * Cardinality(LotsHeld(S)) \in Nat
<1>1. LotsHeld(S) \in SUBSET Lines
  BY DEF LotsHeld
<1>2. IsFiniteSet(LotsHeld(S))
  BY <1>1, LinesAssumption, FS_Subset
<1>3. Cardinality(LotsHeld(S)) \in Nat
  BY <1>2, FS_CardinalityType
<1> QED BY <1>3, NeedAssumption

\* The pairs of a line and a task are finitely many.
LEMMA PairsAreFinite == IsFiniteSet(Lines \X Tasks)
<1>1. IsFiniteSet(1 .. MaxTasks)
  BY MaxTasksAssumption, FS_Interval
<1> QED BY <1>1, LinesAssumption, FS_Product DEF Tasks

\* The batches held for one line are a number of units.
LEMMA BatchesAreNat ==
    ASSUME NEW S \in SUBSET Lines
    PROVE  Need * Cardinality(BatchesHeld(S)) \in Nat
<1>1. BatchesHeld(S) \in SUBSET (Lines \X Tasks)
  BY DEF BatchesHeld
<1>2. IsFiniteSet(BatchesHeld(S))
  BY <1>1, PairsAreFinite, FS_Subset
<1>3. Cardinality(BatchesHeld(S)) \in Nat
  BY <1>2, FS_CardinalityType
<1> QED BY <1>3, NeedAssumption

\* A movement that the CHECKs of the balance accept leaves a balance of its type.
LEMMA MovesType ==
    ASSUME NEW h \in Int, NEW r \in Int, StockTypeOK, Moves(h, r)
    PROVE  /\ onHand' \in Nat
           /\ reserved' \in 0 .. onHand'
           /\ count' \in [on : BOOLEAN, snap : Nat, counted : Nat, moved : BOOLEAN]
<1>1. onHand \in Nat /\ reserved \in Nat
  BY DEF StockTypeOK
<1>2. onHand' = onHand + h /\ reserved' = reserved + r
  BY DEF Moves
<1>3. onHand' \in Nat /\ reserved' \in 0 .. onHand'
  BY <1>1, <1>2 DEF Moves
<1>4. (count.moved \/ h # 0) \in BOOLEAN
  OBVIOUS
<1>5. count' = [count EXCEPT !.moved = count.moved \/ h # 0]
  BY DEF Moves
<1>6. count \in [on : BOOLEAN, snap : Nat, counted : Nat, moved : BOOLEAN]
  BY DEF StockTypeOK
<1>7. count' \in [on : BOOLEAN, snap : Nat, counted : Nat, moved : BOOLEAN]
  BY <1>5, <1>6
<1> QED BY <1>3, <1>7

\* A balance that is left alone keeps its type.
LEMMA KeptType ==
    ASSUME StockTypeOK, Kept
    PROVE  /\ onHand' \in Nat
           /\ reserved' \in 0 .. onHand'
           /\ count' \in [on : BOOLEAN, snap : Nat, counted : Nat, moved : BOOLEAN]
           /\ supplied' \in Int
BY DEF StockTypeOK, Kept, balance

\* A sale, a reservation or a return leaves a balance of its type.
LEMMA UsedType ==
    ASSUME NEW h \in Int, NEW r \in Int, StockTypeOK, Used(h, r)
    PROVE  /\ onHand' \in Nat
           /\ reserved' \in 0 .. onHand'
           /\ count' \in [on : BOOLEAN, snap : Nat, counted : Nat, moved : BOOLEAN]
           /\ supplied' \in Int
<1>1. Moves(h, r) /\ supplied' = supplied
  BY DEF Used
<1>2. supplied \in Int
  BY DEF StockTypeOK
<1> QED BY <1>1, <1>2, MovesType

\* What a task can be, as one set.
TaskStatuses == {"none", "ready", "failed"} \cup AtWork \cup Retired

\* The statuses by name, and the kitchen typed with them.
LEMMA StatusesOfTasks ==
    /\ {"none", "waiting", "preparing", "ready", "failed", "cancelled", "stopped"} = TaskStatuses
    /\ StockTypeOK => task \in [Lines -> [Tasks -> TaskStatuses]]
BY DEF TaskStatuses, AtWork, Retired, StockTypeOK

\* Every transaction keeps the types.
LEMMA TypeStep == StockTypeOK /\ [StockNext]_stockVars => StockTypeOK'
<1> SUFFICES ASSUME StockTypeOK, [StockNext]_stockVars PROVE StockTypeOK'
  OBVIOUS
<1> USE NeedAssumption, MaxTasksAssumption
<1>N. Need \in Int /\ -Need \in Int /\ 0 \in Int /\ Need \in Nat
  OBVIOUS
<1>H. \A s : HeldBy(s) \in {0, Need} /\ -HeldBy(s) \in Int
  BY DEF HeldBy
<1>T. 1 \in Tasks /\ \A k \in Tasks : k < MaxTasks => k + 1 \in Tasks
  BY DEF Tasks
<1>1. CASE UNCHANGED stockVars
  BY <1>1 DEF StockTypeOK, stockVars, balance, order, material, kitchen
<1>2. ASSUME NEW l \in Lines, NEW mode \in Modes, Submit(l, mode)
      PROVE  StockTypeOK'
  <2>1. /\ onHand' \in Nat /\ reserved' \in 0 .. onHand' /\ supplied' \in Int
        /\ count' \in [on : BOOLEAN, snap : Nat, counted : Nat, moved : BOOLEAN]
    BY <1>2, UsedType, <1>N DEF Submit, Modes
  <2>2. /\ open' \in BOOLEAN
        /\ settle' \in [Lines -> Modes \cup {"none"}]
        /\ gate' \in [Lines -> {"new", "awaiting", "released", "active", "cancelled"}]
        /\ money' \in [Lines -> {"unpaid", "paid", "part", "refunded"}]
        /\ paidOut' \subseteq Lines
    BY <1>2 DEF Submit, Modes, StockTypeOK, Set, order
  <2>3. /\ lot' \in [Lines -> {"none", "reserved", "released", "consumed", "returned", "sold"}]
        /\ back' \in [Lines -> Nat] /\ \A m \in Lines : back'[m] <= Need
        /\ raw' \subseteq Lines
    BY <1>2 DEF Submit, Modes, StockTypeOK, Set, material
  <2>4. item' \in [Lines -> {"none", "submitted", "delivered", "cancelled"}]
    BY <1>2 DEF Submit, Modes, StockTypeOK, Set, kitchen
  <2>S. task \in [Lines -> [Tasks -> TaskStatuses]] /\ "waiting" \in TaskStatuses /\ "cancelled" \in TaskStatuses
    BY StatusesOfTasks
  <2>5. task' \in [Lines -> [Tasks -> TaskStatuses]]
    <3>1. CASE UNCHANGED task
      BY <3>1, <2>S
    <3>2. CASE task' = [task EXCEPT ![l][1] = "waiting"]
      BY <3>2, <2>S, <1>T
    <3> QED BY <1>2, <3>1, <3>2 DEF Submit
  <2>6. /\ batch' \in [Lines -> [Tasks -> {"none", "reserved", "consumed", "released"}]]
        /\ made' \in [Lines -> SUBSET Tasks]
    BY <1>2, <1>T DEF Submit, Modes, StockTypeOK, Set, kitchen
  <2> QED BY <2>1, <2>2, <2>3, <2>4, <2>5, <2>6 DEF StockTypeOK, TaskStatuses
<1>3. ASSUME NEW l \in Lines, Release(l)
      PROVE  StockTypeOK'
  <2>1. /\ onHand' \in Nat /\ reserved' \in 0 .. onHand' /\ supplied' \in Int
        /\ count' \in [on : BOOLEAN, snap : Nat, counted : Nat, moved : BOOLEAN]
    BY <1>3, UsedType, KeptType, <1>N DEF Release, LotReleased
  <2> QED BY <1>3, <2>1 DEF Release, LotReleased, StockTypeOK, Set, order, material, kitchen, Tasks, AtWork, Retired
<1>4. ASSUME NEW l \in Lines, ReserveAgain(l)
      PROVE  StockTypeOK'
  <2>1. /\ onHand' \in Nat /\ reserved' \in 0 .. onHand' /\ supplied' \in Int
        /\ count' \in [on : BOOLEAN, snap : Nat, counted : Nat, moved : BOOLEAN]
    BY <1>4, UsedType, <1>N DEF ReserveAgain
  <2> QED BY <1>4, <2>1 DEF ReserveAgain, StockTypeOK, Set, order, material, kitchen, Tasks, AtWork, Retired
<1>5. ASSUME NEW l \in Lines, AbandonCheckout(l)
      PROVE  StockTypeOK'
  <2>1. /\ onHand' \in Nat /\ reserved' \in 0 .. onHand' /\ supplied' \in Int
        /\ count' \in [on : BOOLEAN, snap : Nat, counted : Nat, moved : BOOLEAN]
    BY <1>5, UsedType, KeptType, <1>N DEF AbandonCheckout, LotReleased
  <2> QED BY <1>5, <2>1 DEF AbandonCheckout, LotReleased, StockTypeOK, Set, order, material, kitchen, Tasks, AtWork, Retired
<1>6. ASSUME NEW l \in Lines, Pay(l)
      PROVE  StockTypeOK'
  <2>1. /\ onHand' \in Nat /\ reserved' \in 0 .. onHand' /\ supplied' \in Int
        /\ count' \in [on : BOOLEAN, snap : Nat, counted : Nat, moved : BOOLEAN]
    BY <1>6, UsedType, KeptType, <1>N DEF Pay, ConsumeLot
  <2>2. /\ open' \in BOOLEAN
        /\ settle' \in [Lines -> Modes \cup {"none"}]
        /\ gate' \in [Lines -> {"new", "awaiting", "released", "active", "cancelled"}]
        /\ money' \in [Lines -> {"unpaid", "paid", "part", "refunded"}]
        /\ paidOut' \subseteq Lines
    BY <1>6 DEF Pay, ConsumeLot, StockTypeOK, Set, order
  <2>3. /\ lot' \in [Lines -> {"none", "reserved", "released", "consumed", "returned", "sold"}]
        /\ back' \in [Lines -> Nat] /\ \A m \in Lines : back'[m] <= Need
        /\ raw' \subseteq Lines
    BY <1>6 DEF Pay, ConsumeLot, StockTypeOK, Set, material
  <2>4. item' \in [Lines -> {"none", "submitted", "delivered", "cancelled"}]
    BY <1>6 DEF Pay, ConsumeLot, StockTypeOK, Set, kitchen
  <2>S. task \in [Lines -> [Tasks -> TaskStatuses]] /\ "waiting" \in TaskStatuses /\ "cancelled" \in TaskStatuses
    BY StatusesOfTasks
  <2>5. task' \in [Lines -> [Tasks -> TaskStatuses]]
    <3>1. CASE UNCHANGED task
      BY <3>1, <2>S
    <3>2. CASE task' = [task EXCEPT ![l][1] = "waiting"]
      BY <3>2, <2>S, <1>T
    <3> QED BY <1>6, <3>1, <3>2 DEF Pay
  <2>6. /\ batch' \in [Lines -> [Tasks -> {"none", "reserved", "consumed", "released"}]]
        /\ made' \in [Lines -> SUBSET Tasks]
    BY <1>6, <1>T DEF Pay, ConsumeLot, StockTypeOK, Set, kitchen
  <2> QED BY <2>1, <2>2, <2>3, <2>4, <2>5, <2>6 DEF StockTypeOK, TaskStatuses
<1>7. ASSUME NEW l \in Lines, DispatchGift(l)
      PROVE  StockTypeOK'
  BY <1>7 DEF DispatchGift, balance, StockTypeOK, Set, balance, order, material, kitchen, Tasks, AtWork, Retired
<1>8. ASSUME NEW l \in Lines, ResolveGift(l)
      PROVE  StockTypeOK'
  <2>1. /\ onHand' \in Nat /\ reserved' \in 0 .. onHand' /\ supplied' \in Int
        /\ count' \in [on : BOOLEAN, snap : Nat, counted : Nat, moved : BOOLEAN]
    BY <1>8, UsedType, KeptType, <1>N DEF ResolveGift, LotReleased
  <2> QED BY <1>8, <2>1 DEF ResolveGift, LotReleased, StockTypeOK, Set, order, material, kitchen, Tasks, AtWork, Retired
<1>9. ASSUME NEW l \in Lines, NEW k \in Tasks, StartTask(l, k)
      PROVE  StockTypeOK'
  <2>0. HeldBy(lot[l]) + HeldBy(batch[l][k]) \in Nat
    BY <1>H
  <2>1. /\ onHand' \in Nat /\ reserved' \in 0 .. onHand' /\ supplied' \in Int
        /\ count' \in [on : BOOLEAN, snap : Nat, counted : Nat, moved : BOOLEAN]
    BY <1>9, <2>0, UsedType DEF StartTask, LotAfterStart
  <2>2. /\ open' \in BOOLEAN
        /\ settle' \in [Lines -> Modes \cup {"none"}]
        /\ gate' \in [Lines -> {"new", "awaiting", "released", "active", "cancelled"}]
        /\ money' \in [Lines -> {"unpaid", "paid", "part", "refunded"}]
        /\ paidOut' \subseteq Lines
    BY <1>9 DEF StartTask, LotAfterStart, StockTypeOK, Set, order
  <2>3. /\ lot' \in [Lines -> {"none", "reserved", "released", "consumed", "returned", "sold"}]
        /\ back' \in [Lines -> Nat] /\ \A m \in Lines : back'[m] <= Need
        /\ raw' \subseteq Lines
    BY <1>9 DEF StartTask, LotAfterStart, StockTypeOK, Set, material
  <2>4. item' \in [Lines -> {"none", "submitted", "delivered", "cancelled"}]
    BY <1>9 DEF StartTask, LotAfterStart, StockTypeOK, Set, kitchen
  <2>5. task' \in [Lines -> [Tasks -> {"none", "ready", "failed"} \cup AtWork \cup Retired]]
    BY <1>9 DEF StartTask, LotAfterStart, StockTypeOK, Set, kitchen, AtWork, Retired, Tasks
  <2>6. /\ batch' \in [Lines -> [Tasks -> {"none", "reserved", "consumed", "released"}]]
        /\ made' \in [Lines -> SUBSET Tasks]
    BY <1>9 DEF StartTask, LotAfterStart, StockTypeOK, Set, kitchen, Tasks
  <2> QED BY <2>1, <2>2, <2>3, <2>4, <2>5, <2>6 DEF StockTypeOK
<1>10. ASSUME NEW l \in Lines, NEW k \in Tasks, FinishTask(l, k)
      PROVE  StockTypeOK'
  BY <1>10 DEF FinishTask, StockTypeOK, Set, balance, order, material, kitchen, Tasks, AtWork, Retired
<1>11. ASSUME NEW l \in Lines, NEW k \in Tasks, FailTask(l, k)
      PROVE  StockTypeOK'
  <2>1. /\ onHand' \in Nat /\ reserved' \in 0 .. onHand' /\ supplied' \in Int
        /\ count' \in [on : BOOLEAN, snap : Nat, counted : Nat, moved : BOOLEAN]
    BY <1>11, UsedType, <1>N, <1>H DEF FailTask, BatchReleased
  <2> QED BY <1>11, <2>1 DEF FailTask, BatchReleased, StockTypeOK, Set, order, material, kitchen, Tasks, AtWork, Retired
<1>12. ASSUME NEW l \in Lines, NEW k \in Tasks, Remake(l, k)
      PROVE  StockTypeOK'
  <2>1. /\ onHand' \in Nat /\ reserved' \in 0 .. onHand' /\ supplied' \in Int
        /\ count' \in [on : BOOLEAN, snap : Nat, counted : Nat, moved : BOOLEAN]
    BY <1>12, UsedType, KeptType, <1>N DEF Remake
  <2>2. /\ open' \in BOOLEAN
        /\ settle' \in [Lines -> Modes \cup {"none"}]
        /\ gate' \in [Lines -> {"new", "awaiting", "released", "active", "cancelled"}]
        /\ money' \in [Lines -> {"unpaid", "paid", "part", "refunded"}]
        /\ paidOut' \subseteq Lines
    BY <1>12 DEF Remake, StockTypeOK, Set, order
  <2>3. /\ lot' \in [Lines -> {"none", "reserved", "released", "consumed", "returned", "sold"}]
        /\ back' \in [Lines -> Nat] /\ \A m \in Lines : back'[m] <= Need
        /\ raw' \subseteq Lines
    BY <1>12 DEF Remake, StockTypeOK, Set, material
  <2>4. item' \in [Lines -> {"none", "submitted", "delivered", "cancelled"}]
    BY <1>12 DEF Remake, StockTypeOK, Set, kitchen
  <2>5. task' \in [Lines -> [Tasks -> {"none", "ready", "failed"} \cup AtWork \cup Retired]]
    BY <1>12, <1>T DEF Remake, StockTypeOK, Set, kitchen, AtWork, Retired
  <2>6. /\ batch' \in [Lines -> [Tasks -> {"none", "reserved", "consumed", "released"}]]
        /\ made' \in [Lines -> SUBSET Tasks]
    BY <1>12, <1>T DEF Remake, StockTypeOK, Set, kitchen
  <2> QED BY <2>1, <2>2, <2>3, <2>4, <2>5, <2>6 DEF StockTypeOK
<1>13. ASSUME NEW l \in Lines, NEW k \in Tasks, CancelTask(l, k)
      PROVE  StockTypeOK'
  <2>1. /\ onHand' \in Nat /\ reserved' \in 0 .. onHand' /\ supplied' \in Int
        /\ count' \in [on : BOOLEAN, snap : Nat, counted : Nat, moved : BOOLEAN]
    BY <1>13, UsedType, <1>N, <1>H DEF CancelTask, BatchReleased
  <2>2. /\ open' \in BOOLEAN
        /\ settle' \in [Lines -> Modes \cup {"none"}]
        /\ gate' \in [Lines -> {"new", "awaiting", "released", "active", "cancelled"}]
        /\ money' \in [Lines -> {"unpaid", "paid", "part", "refunded"}]
        /\ paidOut' \subseteq Lines
    BY <1>13 DEF CancelTask, BatchReleased, StockTypeOK, Set, order
  <2>3. /\ lot' \in [Lines -> {"none", "reserved", "released", "consumed", "returned", "sold"}]
        /\ back' \in [Lines -> Nat] /\ \A m \in Lines : back'[m] <= Need
        /\ raw' \subseteq Lines
    BY <1>13 DEF CancelTask, BatchReleased, StockTypeOK, Set, material
  <2>4. item' \in [Lines -> {"none", "submitted", "delivered", "cancelled"}]
    BY <1>13 DEF CancelTask, BatchReleased, StockTypeOK, Set, kitchen
  <2>5. task' \in [Lines -> [Tasks -> {"none", "ready", "failed"} \cup AtWork \cup Retired]]
    BY <1>13, <1>T DEF CancelTask, BatchReleased, StockTypeOK, Set, kitchen, AtWork, Retired
  <2>6. /\ batch' \in [Lines -> [Tasks -> {"none", "reserved", "consumed", "released"}]]
        /\ made' \in [Lines -> SUBSET Tasks]
    BY <1>13, <1>T DEF CancelTask, BatchReleased, StockTypeOK, Set, kitchen
  <2> QED BY <2>1, <2>2, <2>3, <2>4, <2>5, <2>6 DEF StockTypeOK
<1>14. ASSUME NEW l \in Lines, Deliver(l)
      PROVE  StockTypeOK'
  BY <1>14 DEF Deliver, StockTypeOK, Set, balance, order, material, kitchen, Tasks, AtWork, Retired
<1>15. ASSUME NEW l \in Lines, CancelUnpaid(l)
      PROVE  StockTypeOK'
  <2>1. /\ onHand' \in Nat /\ reserved' \in 0 .. onHand' /\ supplied' \in Int
        /\ count' \in [on : BOOLEAN, snap : Nat, counted : Nat, moved : BOOLEAN]
    BY <1>15, UsedType, KeptType, <1>N DEF CancelUnpaid, LotReleased, TasksDropped
  <2>2. /\ open' \in BOOLEAN
        /\ settle' \in [Lines -> Modes \cup {"none"}]
        /\ gate' \in [Lines -> {"new", "awaiting", "released", "active", "cancelled"}]
        /\ money' \in [Lines -> {"unpaid", "paid", "part", "refunded"}]
        /\ paidOut' \subseteq Lines
    BY <1>15 DEF CancelUnpaid, LotReleased, TasksDropped, StockTypeOK, Set, order
  <2>3. /\ lot' \in [Lines -> {"none", "reserved", "released", "consumed", "returned", "sold"}]
        /\ back' \in [Lines -> Nat] /\ \A m \in Lines : back'[m] <= Need
        /\ raw' \subseteq Lines
    BY <1>15 DEF CancelUnpaid, LotReleased, TasksDropped, StockTypeOK, Set, material
  <2>4. item' \in [Lines -> {"none", "submitted", "delivered", "cancelled"}]
    BY <1>15 DEF CancelUnpaid, LotReleased, TasksDropped, StockTypeOK, Set, kitchen
  <2>S. task \in [Lines -> [Tasks -> TaskStatuses]] /\ "waiting" \in TaskStatuses /\ "cancelled" \in TaskStatuses
    BY StatusesOfTasks
  <2>5. task' \in [Lines -> [Tasks -> TaskStatuses]]
    <3>1. CASE UNCHANGED task
      BY <3>1, <2>S
    <3>2. CASE task' = [task EXCEPT ![l] = TasksDropped(l)]
      BY <3>2, <2>S DEF TasksDropped
    <3> QED BY <1>15, <3>1, <3>2 DEF CancelUnpaid, Set
  <2>6. /\ batch' \in [Lines -> [Tasks -> {"none", "reserved", "consumed", "released"}]]
        /\ made' \in [Lines -> SUBSET Tasks]
    BY <1>15, <1>T DEF CancelUnpaid, LotReleased, TasksDropped, StockTypeOK, Set, kitchen
  <2> QED BY <2>1, <2>2, <2>3, <2>4, <2>5, <2>6 DEF StockTypeOK, TaskStatuses
<1>16. ASSUME NEW l \in Lines, RefundPart(l)
      PROVE  StockTypeOK'
  BY <1>16 DEF RefundPart, StockTypeOK, Set, balance, order, material, kitchen, Tasks, AtWork, Retired
<1>17. ASSUME NEW l \in Lines, PayOut(l)
      PROVE  StockTypeOK'
  BY <1>17 DEF PayOut, StockTypeOK, Set, balance, order, material, kitchen, Tasks, AtWork, Retired
<1>18. ASSUME NEW l \in Lines, RecordRefund(l)
      PROVE  StockTypeOK'
  <2>0. /\ HeldBy(lot[l]) + Need * Cardinality(BatchesHeld({l})) \in Nat
        /\ Need - back[l] \in Nat /\ back[l] \in Nat
    <3>1. {l} \in SUBSET Lines /\ back[l] \in Nat /\ back[l] <= Need
      BY <1>18 DEF StockTypeOK
    <3> QED BY <3>1, <1>H, BatchesAreNat
  <2>1. /\ onHand' \in Nat /\ reserved' \in 0 .. onHand' /\ supplied' \in Int
        /\ count' \in [on : BOOLEAN, snap : Nat, counted : Nat, moved : BOOLEAN]
    BY <1>18, UsedType, KeptType, <2>0 DEF RecordRefund, StopLine, Returnable, StillOut
  <2>2. /\ open' \in BOOLEAN
        /\ settle' \in [Lines -> Modes \cup {"none"}]
        /\ gate' \in [Lines -> {"new", "awaiting", "released", "active", "cancelled"}]
        /\ money' \in [Lines -> {"unpaid", "paid", "part", "refunded"}]
        /\ paidOut' \subseteq Lines
    BY <1>18 DEF RecordRefund, StopLine, Returnable, StillOut, StockTypeOK, Set, order
  <2>3. /\ lot' \in [Lines -> {"none", "reserved", "released", "consumed", "returned", "sold"}]
        /\ back' \in [Lines -> Nat] /\ \A m \in Lines : back'[m] <= Need
        /\ raw' \subseteq Lines
    <3>1. lot' \in [Lines -> {"none", "reserved", "released", "consumed", "returned", "sold"}]
      BY <1>18 DEF RecordRefund, StopLine, StockTypeOK, Set, material
    <3>2. raw' \subseteq Lines
      BY <1>18 DEF RecordRefund, StopLine, StockTypeOK, material
    <3>3. CASE back' = back
      BY <3>1, <3>2, <3>3 DEF StockTypeOK
    <3>4. CASE back' # back
      <4>1. StopLine(l)
        BY <1>18, <3>4 DEF RecordRefund, material
      <4>2. \/ back' = [back EXCEPT ![l] = back[l] + (Need - back[l])]
            \/ back' = [back EXCEPT ![l] = back[l] + 0]
        BY <4>1 DEF StopLine, StillOut, Set
      <4>3. back' = [back EXCEPT ![l] = Need] \/ back' = [back EXCEPT ![l] = back[l]]
        BY <4>2, <2>0
      <4>4. back \in [Lines -> Nat] /\ \A m \in Lines : back[m] <= Need
        BY DEF StockTypeOK
      <4>5. back' \in [Lines -> Nat] /\ \A m \in Lines : back'[m] <= Need
        BY <4>3, <4>4, <1>N
      <4> QED BY <3>1, <3>2, <4>5
    <3> QED BY <3>3, <3>4
  <2>4. item' \in [Lines -> {"none", "submitted", "delivered", "cancelled"}]
    BY <1>18 DEF RecordRefund, StopLine, Returnable, StillOut, StockTypeOK, Set, kitchen
  <2>S. task \in [Lines -> [Tasks -> TaskStatuses]] /\ "waiting" \in TaskStatuses /\ "cancelled" \in TaskStatuses
    BY StatusesOfTasks
  <2>5. task' \in [Lines -> [Tasks -> TaskStatuses]]
    <3>1. CASE UNCHANGED task
      BY <3>1, <2>S
    <3>2. CASE task' = [task EXCEPT ![l] = [k \in Tasks |->
                 IF task[l][k] \in Retired \cup {"none"} THEN task[l][k] ELSE "cancelled"]]
      BY <3>2, <2>S
    <3> QED BY <1>18, <3>1, <3>2 DEF RecordRefund, StopLine, Set, kitchen
  <2>6. /\ batch' \in [Lines -> [Tasks -> {"none", "reserved", "consumed", "released"}]]
        /\ made' \in [Lines -> SUBSET Tasks]
    BY <1>18, <1>T DEF RecordRefund, StopLine, Returnable, StillOut, StockTypeOK, Set, kitchen
  <2> QED BY <2>1, <2>2, <2>3, <2>4, <2>5, <2>6 DEF StockTypeOK, TaskStatuses
<1>19. ASSUME NEW l \in Lines, NEW q \in 1 .. Need, NEW unused \in BOOLEAN, ReturnPieces(l, q, unused)
      PROVE  StockTypeOK'
  <2>1. /\ onHand' \in Nat /\ reserved' \in 0 .. onHand' /\ supplied' \in Int
        /\ count' \in [on : BOOLEAN, snap : Nat, counted : Nat, moved : BOOLEAN]
    BY <1>19, UsedType, <1>N DEF ReturnPieces, WithinLine
  <2>2. /\ open' \in BOOLEAN
        /\ settle' \in [Lines -> Modes \cup {"none"}]
        /\ gate' \in [Lines -> {"new", "awaiting", "released", "active", "cancelled"}]
        /\ money' \in [Lines -> {"unpaid", "paid", "part", "refunded"}]
        /\ paidOut' \subseteq Lines
    BY <1>19 DEF ReturnPieces, WithinLine, StockTypeOK, Set, order
  <2>3. /\ lot' \in [Lines -> {"none", "reserved", "released", "consumed", "returned", "sold"}]
        /\ back' \in [Lines -> Nat] /\ \A m \in Lines : back'[m] <= Need
        /\ raw' \subseteq Lines
    BY <1>19 DEF ReturnPieces, WithinLine, StockTypeOK, Set, material
  <2>4. item' \in [Lines -> {"none", "submitted", "delivered", "cancelled"}]
    BY <1>19 DEF ReturnPieces, WithinLine, StockTypeOK, Set, kitchen
  <2>5. task' \in [Lines -> [Tasks -> {"none", "ready", "failed"} \cup AtWork \cup Retired]]
    BY <1>19 DEF ReturnPieces, WithinLine, StockTypeOK, Set, kitchen, AtWork, Retired, Tasks
  <2>6. /\ batch' \in [Lines -> [Tasks -> {"none", "reserved", "consumed", "released"}]]
        /\ made' \in [Lines -> SUBSET Tasks]
    BY <1>19 DEF ReturnPieces, WithinLine, StockTypeOK, Set, kitchen, Tasks
  <2> QED BY <2>1, <2>2, <2>3, <2>4, <2>5, <2>6 DEF StockTypeOK
<1>20. CASE TurnOver
  <2> DEFINE dropped == {x \in Lines : item[x] = "submitted"}
  <2>0. Need * Cardinality(LotsHeld(dropped)) \in Nat
    BY HeldIsNat
  <2>1. /\ onHand' \in Nat /\ reserved' \in 0 .. onHand' /\ supplied' \in Int
        /\ count' \in [on : BOOLEAN, snap : Nat, counted : Nat, moved : BOOLEAN]
    BY <1>20, <2>0, UsedType DEF TurnOver, TasksDropped
  <2>2. /\ open' \in BOOLEAN
        /\ settle' \in [Lines -> Modes \cup {"none"}]
        /\ gate' \in [Lines -> {"new", "awaiting", "released", "active", "cancelled"}]
        /\ money' \in [Lines -> {"unpaid", "paid", "part", "refunded"}]
        /\ paidOut' \subseteq Lines
    BY <1>20 DEF TurnOver, TasksDropped, StockTypeOK, Set, order
  <2>3. /\ lot' \in [Lines -> {"none", "reserved", "released", "consumed", "returned", "sold"}]
        /\ back' \in [Lines -> Nat] /\ \A m \in Lines : back'[m] <= Need
        /\ raw' \subseteq Lines
    BY <1>20 DEF TurnOver, TasksDropped, StockTypeOK, Set, material
  <2>4. item' \in [Lines -> {"none", "submitted", "delivered", "cancelled"}]
    BY <1>20 DEF TurnOver, TasksDropped, StockTypeOK, Set, kitchen
  <2>5. task' \in [Lines -> [Tasks -> {"none", "ready", "failed"} \cup AtWork \cup Retired]]
    BY <1>20, <1>T DEF TurnOver, TasksDropped, StockTypeOK, Set, kitchen, AtWork, Retired
  <2>6. /\ batch' \in [Lines -> [Tasks -> {"none", "reserved", "consumed", "released"}]]
        /\ made' \in [Lines -> SUBSET Tasks]
    BY <1>20, <1>T DEF TurnOver, TasksDropped, StockTypeOK, Set, kitchen
  <2> QED BY <2>1, <2>2, <2>3, <2>4, <2>5, <2>6 DEF StockTypeOK
<1>21. CASE ReceivePurchase
  <2>1. /\ onHand' \in Nat /\ reserved' \in 0 .. onHand' /\ supplied' \in Int
        /\ count' \in [on : BOOLEAN, snap : Nat, counted : Nat, moved : BOOLEAN]
    BY <1>21, MovesType DEF ReceivePurchase, StockTypeOK
  <2> QED BY <1>21, <2>1 DEF ReceivePurchase, StockTypeOK, order, material, kitchen
<1>22. CASE RecordWaste
  <2>1. /\ onHand' \in Nat /\ reserved' \in 0 .. onHand' /\ supplied' \in Int
        /\ count' \in [on : BOOLEAN, snap : Nat, counted : Nat, moved : BOOLEAN]
    <3>1. Moves(-1, 0) /\ supplied' = supplied - 1
      BY <1>22 DEF RecordWaste
    <3>2. -1 \in Int /\ 0 \in Int
      OBVIOUS
    <3>3. supplied' \in Int
      BY <3>1 DEF StockTypeOK
    <3> QED BY ONLY StockTypeOK, <3>1, <3>2, <3>3, MovesType
  <2> QED BY <1>22, <2>1 DEF RecordWaste, StockTypeOK, order, material, kitchen
<1>23. CASE ApproveCount
  BY <1>23 DEF ApproveCount, StockTypeOK, order, material, kitchen, NoCount
<1>24. CASE RejectCount
  BY <1>24 DEF RejectCount, StockTypeOK, order, material, kitchen, NoCount
<1>25. ASSUME NEW c \in {onHand - 1, onHand, onHand + 1}, CreateCount(c)
      PROVE  StockTypeOK'
  BY <1>25 DEF CreateCount, StockTypeOK, order, material, kitchen
<1> QED BY <1>1, <1>2, <1>3, <1>4, <1>5, <1>6, <1>7, <1>8, <1>9, <1>10, <1>11, <1>12, <1>13, <1>14, <1>15, <1>16, <1>17, <1>18, <1>19, <1>20, <1>21, <1>22, <1>23, <1>24, <1>25 DEF StockNext

\* Every balance, reservation, task and order keeps to its type, whatever the lines do
\* to one another: the CHECKs on the balance are never the only thing in the way.
THEOREM StockTypeCorrect == StockSpec => []StockTypeOK
<1>1. StockInit => StockTypeOK
  BY NeedAssumption, SupplyAssumption
     DEF StockInit, StockTypeOK, AtWork, Retired, Modes
<1> QED BY <1>1, TypeStep, PTL DEF StockSpec

----------------------------------------------------------------------------
(* One line                                                                *)

\* What ties the order of a line, its reservation, its tasks and its remake batches
\* together.
LineInv(l) ==
    /\ settle[l] = "none" => /\ item[l] = "none" /\ lot[l] = "none" /\ gate[l] = "new"
                             /\ money[l] = "unpaid" /\ l \notin raw
                             /\ \A k \in Tasks : task[l][k] = "none" /\ batch[l][k] = "none"
    /\ gate[l] \in {"new", "awaiting", "released"} =>
          /\ l \notin raw /\ money[l] = "unpaid" /\ made[l] = {}
          /\ \A k \in Tasks : task[l][k] = "none" /\ batch[l][k] = "none"
    /\ gate[l] = "awaiting" => lot[l] = "reserved" /\ item[l] = "submitted"
    /\ gate[l] = "released" => lot[l] = "released" /\ item[l] = "submitted"
    /\ lot[l] = "reserved" => /\ item[l] = "submitted"
                              /\ \/ gate[l] = "awaiting"
                                 \/ settle[l] = "gift" /\ money[l] = "paid"
    /\ settle[l] = "gift" => money[l] \in {"paid", "unpaid"}
    /\ l \in paidOut => money[l] \in {"paid", "part"} /\ settle[l] # "gift"
    /\ lot[l] = "consumed" => money[l] # "unpaid" /\ task[l][1] # "none"
    /\ task[l][1] = "none" => \A k \in Tasks : task[l][k] = "none"
    /\ \A k \in Tasks :
          /\ batch[l][k] = "reserved" => money[l] # "unpaid"
          /\ open /\ batch[l][k] = "reserved" => task[l][k] = "waiting"
          /\ task[l][k] = "none" => batch[l][k] = "none"
          /\ task[l][k] \in {"preparing", "ready"} => lot[l] \in {"consumed", "sold"}
    /\ item[l] = "delivered" => lot[l] \in {"consumed", "sold"}
    /\ l \in raw => /\ item[l] = "cancelled" /\ made[l] = {}
                    /\ \A k \in Tasks : task[l][k] \in Retired \cup {"none", "failed"}

\* The inductive invariant.
StockIInv == StockTypeOK /\ \A l \in Lines : LineInv(l)

\* A transaction that leaves a line alone leaves what ties it together.
LEMMA OtherLine ==
    ASSUME NEW m \in Lines, LineInv(m), open' => open,
           m \in raw' => m \in raw, m \in paidOut' => m \in paidOut,
           settle'[m] = settle[m], gate'[m] = gate[m], money'[m] = money[m],
           lot'[m] = lot[m], item'[m] = item[m], task'[m] = task[m],
           batch'[m] = batch[m], made'[m] = made[m]
    PROVE  LineInv(m)'
BY DEF LineInv

\* Every transaction keeps every line together.
LEMMA LineStep ==
    ASSUME StockIInv, [StockNext]_stockVars
    PROVE  \A m \in Lines : LineInv(m)'
<1> USE MaxTasksAssumption
<1>I. StockTypeOK /\ \A m \in Lines : LineInv(m)
  BY DEF StockIInv
<1>T. 1 \in Tasks /\ \A k \in Tasks : k < MaxTasks => k + 1 \in Tasks /\ k + 1 # 1 /\ k + 1 # k
  BY DEF Tasks
<1>1. CASE UNCHANGED stockVars
  BY <1>1, <1>I, OtherLine DEF stockVars, balance, order, material, kitchen
<1>2. ASSUME NEW l \in Lines, NEW mode \in Modes, Submit(l, mode)
      PROVE  \A m \in Lines : LineInv(m)'
  <2>1. ASSUME NEW m \in Lines, m # l
        PROVE  LineInv(m)'
    BY <1>2, <2>1, <1>I, <1>T, OtherLine DEF Submit, StockTypeOK, Set, order, material, kitchen
  <2>2. LineInv(l)'
    <3>1. /\ settle[l] = "none" /\ item'[l] = "submitted" /\ settle'[l] = mode /\ mode # "none"
          /\ gate'[l] = IF mode = "immediate" THEN "awaiting" ELSE "active"
          /\ money'[l] = IF mode = "gift" THEN "paid" ELSE "unpaid"
          /\ raw' = raw /\ batch' = batch /\ made' = made
      BY <1>2, <1>I DEF Submit, StockTypeOK, Set, Modes
    <3>2. \/ mode = "deferred" /\ lot'[l] = "sold" /\ task'[l] = [task[l] EXCEPT ![1] = "waiting"]
          \/ mode # "deferred" /\ lot'[l] = "reserved" /\ task'[l] = task[l]
      BY <1>2, <1>I DEF Submit, StockTypeOK, Set
    <3>3. mode \in {"immediate", "deferred", "gift"}
      BY <1>2 DEF Modes
    <3>4. /\ l \notin raw /\ made[l] = {} /\ l \notin paidOut /\ paidOut' = paidOut
          /\ \A k \in Tasks : task[l][k] = "none" /\ batch[l][k] = "none"
      BY <1>2, <3>1, <1>I DEF LineInv, Submit
    <3>5. task[l] \in [Tasks -> TaskStatuses]
      BY <1>I, StatusesOfTasks
    <3>6. \A k \in Tasks : task'[l][k] \in {"none", "waiting"} /\ (mode = "deferred" => task'[l][1] = "waiting")
                            /\ (mode # "deferred" => task'[l][k] = "none")
      BY <3>2, <3>4, <3>5, <1>T
    <3> QED BY <3>1, <3>2, <3>3, <3>4, <3>6, <1>T DEF LineInv
  <2> QED BY <2>1, <2>2
<1>3. ASSUME NEW l \in Lines, Release(l)
      PROVE  \A m \in Lines : LineInv(m)'
  <2>1. ASSUME NEW m \in Lines, m # l
        PROVE  LineInv(m)'
    BY <1>3, <2>1, <1>I, <1>T, OtherLine DEF Release, LotReleased, StockTypeOK, Set, order, material, kitchen
  <2>2. LineInv(l)'
    BY <1>3, <1>I, <1>T DEF Release, LotReleased, StockTypeOK, LineInv, Set, order, material, kitchen, AtWork, Retired
  <2> QED BY <2>1, <2>2
<1>4. ASSUME NEW l \in Lines, ReserveAgain(l)
      PROVE  \A m \in Lines : LineInv(m)'
  <2>1. ASSUME NEW m \in Lines, m # l
        PROVE  LineInv(m)'
    BY <1>4, <2>1, <1>I, <1>T, OtherLine DEF ReserveAgain, StockTypeOK, Set, order, material, kitchen
  <2>2. LineInv(l)'
    BY <1>4, <1>I, <1>T DEF ReserveAgain, StockTypeOK, LineInv, Set, order, material, kitchen, AtWork, Retired
  <2> QED BY <2>1, <2>2
<1>5. ASSUME NEW l \in Lines, AbandonCheckout(l)
      PROVE  \A m \in Lines : LineInv(m)'
  <2>1. ASSUME NEW m \in Lines, m # l
        PROVE  LineInv(m)'
    BY <1>5, <2>1, <1>I, <1>T, OtherLine DEF AbandonCheckout, LotReleased, StockTypeOK, Set, order, material, kitchen
  <2>2. LineInv(l)'
    BY <1>5, <1>I, <1>T DEF AbandonCheckout, LotReleased, StockTypeOK, LineInv, Set, order, material, kitchen, AtWork, Retired
  <2> QED BY <2>1, <2>2
<1>6. ASSUME NEW l \in Lines, Pay(l)
      PROVE  \A m \in Lines : LineInv(m)'
  <2>1. ASSUME NEW m \in Lines, m # l
        PROVE  LineInv(m)'
    BY <1>6, <2>1, <1>I, <1>T, OtherLine DEF Pay, ConsumeLot, StockTypeOK, Set, order, material, kitchen
  <2>2. LineInv(l)'
    BY <1>6, <1>I, <1>T DEF Pay, ConsumeLot, StockTypeOK, LineInv, Set, order, material, kitchen, AtWork, Retired
  <2> QED BY <2>1, <2>2
<1>7. ASSUME NEW l \in Lines, DispatchGift(l)
      PROVE  \A m \in Lines : LineInv(m)'
  <2>1. ASSUME NEW m \in Lines, m # l
        PROVE  LineInv(m)'
    BY <1>7, <2>1, <1>I, <1>T, OtherLine DEF DispatchGift, StockTypeOK, Set, order, material, kitchen
  <2>2. LineInv(l)'
    BY <1>7, <1>I, <1>T DEF DispatchGift, StockTypeOK, LineInv, Set, order, material, kitchen, AtWork, Retired
  <2> QED BY <2>1, <2>2
<1>8. ASSUME NEW l \in Lines, ResolveGift(l)
      PROVE  \A m \in Lines : LineInv(m)'
  <2>1. ASSUME NEW m \in Lines, m # l
        PROVE  LineInv(m)'
    BY <1>8, <2>1, <1>I, <1>T, OtherLine DEF ResolveGift, LotReleased, StockTypeOK, Set, order, material, kitchen
  <2>2. LineInv(l)'
    BY <1>8, <1>I, <1>T DEF ResolveGift, LotReleased, StockTypeOK, LineInv, Set, order, material, kitchen, AtWork, Retired
  <2> QED BY <2>1, <2>2
<1>9. ASSUME NEW l \in Lines, NEW k \in Tasks, StartTask(l, k)
      PROVE  \A m \in Lines : LineInv(m)'
  <2>1. ASSUME NEW m \in Lines, m # l
        PROVE  LineInv(m)'
    BY <1>9, <2>1, <1>I, <1>T, OtherLine DEF StartTask, LotAfterStart, StockTypeOK, Set, order, material, kitchen
  <2>2. LineInv(l)'
    <3>1. /\ task[l][k] = "waiting" /\ task'[l] = [task[l] EXCEPT ![k] = "preparing"]
          /\ batch'[l] = [batch[l] EXCEPT ![k] = IF batch[l][k] = "reserved" THEN "consumed" ELSE batch[l][k]]
          /\ made'[l] = made[l] \cup {k}
          /\ lot'[l] = IF lot[l] = "reserved" THEN "consumed" ELSE lot[l]
          /\ lot[l] \in {"reserved", "consumed", "sold"}
          /\ UNCHANGED <<open, settle, gate, money, paidOut, raw, item>>
      BY <1>9, <1>I DEF StartTask, LotAfterStart, StockTypeOK, Set, order
    <3>2. task[l] \in [Tasks -> TaskStatuses] /\ DOMAIN batch[l] = Tasks
      BY <1>I, StatusesOfTasks DEF StockTypeOK
    <3>3. l \notin raw /\ settle[l] # "none" /\ gate[l] \notin {"new", "awaiting", "released"}
      BY <3>1, <1>I DEF LineInv, Retired
    <3>4. \A j \in Tasks : /\ task'[l][j] = (IF j = k THEN "preparing" ELSE task[l][j])
                           /\ batch'[l][j] = "reserved" => j # k /\ batch[l][j] = "reserved"
      BY <3>1, <3>2
    <3>5. task[l][1] # "none" /\ task'[l][1] # "none"
      BY <3>1, <3>4, <1>I, <1>T DEF LineInv
    <3>6. lot'[l] \in {"consumed", "sold"} /\ (lot'[l] = "consumed" => money[l] # "unpaid")
      BY <3>1, <3>3, <1>I DEF LineInv
    <3> QED BY <3>1, <3>3, <3>4, <3>5, <3>6, <1>I DEF LineInv
  <2> QED BY <2>1, <2>2
<1>10. ASSUME NEW l \in Lines, NEW k \in Tasks, FinishTask(l, k)
      PROVE  \A m \in Lines : LineInv(m)'
  <2>1. ASSUME NEW m \in Lines, m # l
        PROVE  LineInv(m)'
    BY <1>10, <2>1, <1>I, <1>T, OtherLine DEF FinishTask, StockTypeOK, Set, order, material, kitchen
  <2>2. LineInv(l)'
    BY <1>10, <1>I, <1>T DEF FinishTask, StockTypeOK, LineInv, Set, order, material, kitchen, AtWork, Retired
  <2> QED BY <2>1, <2>2
<1>11. ASSUME NEW l \in Lines, NEW k \in Tasks, FailTask(l, k)
      PROVE  \A m \in Lines : LineInv(m)'
  <2>1. ASSUME NEW m \in Lines, m # l
        PROVE  LineInv(m)'
    BY <1>11, <2>1, <1>I, <1>T, OtherLine DEF FailTask, BatchReleased, StockTypeOK, Set, order, material, kitchen
  <2>2. LineInv(l)'
    BY <1>11, <1>I, <1>T DEF FailTask, BatchReleased, StockTypeOK, LineInv, Set, order, material, kitchen, AtWork, Retired
  <2> QED BY <2>1, <2>2
<1>12. ASSUME NEW l \in Lines, NEW k \in Tasks, Remake(l, k)
      PROVE  \A m \in Lines : LineInv(m)'
  <2>1. ASSUME NEW m \in Lines, m # l
        PROVE  LineInv(m)'
    BY <1>12, <2>1, <1>I, <1>T, OtherLine DEF Remake, StockTypeOK, Set, order, material, kitchen
  <2>2. LineInv(l)'
    BY <1>12, <1>I, <1>T DEF Remake, StockTypeOK, LineInv, Set, order, material, kitchen, AtWork, Retired
  <2> QED BY <2>1, <2>2
<1>13. ASSUME NEW l \in Lines, NEW k \in Tasks, CancelTask(l, k)
      PROVE  \A m \in Lines : LineInv(m)'
  <2>1. ASSUME NEW m \in Lines, m # l
        PROVE  LineInv(m)'
    BY <1>13, <2>1, <1>I, <1>T, OtherLine DEF CancelTask, BatchReleased, StockTypeOK, Set, order, material, kitchen
  <2>2. LineInv(l)'
    <3>1. /\ task[l][k] \in {"waiting", "preparing", "failed"}
          /\ task'[l] = [task[l] EXCEPT ![k] = IF task[l][k] = "failed" THEN "cancelled" ELSE "stopped"]
          /\ batch'[l] = [batch[l] EXCEPT ![k] = IF batch[l][k] = "reserved" THEN "released" ELSE batch[l][k]]
          /\ UNCHANGED <<open, settle, money, paidOut, lot, raw, made>>
      BY <1>13, <1>I DEF CancelTask, BatchReleased, StockTypeOK, Set, material, AtWork
    <3>2. task[l] \in [Tasks -> TaskStatuses] /\ DOMAIN batch[l] = Tasks
      BY <1>I, StatusesOfTasks DEF StockTypeOK
    <3>3. \A j \in Tasks : /\ j # k => task'[l][j] = task[l][j]
                           /\ batch'[l][j] = "reserved" => j # k /\ batch[l][j] = "reserved"
      BY <3>1, <3>2
    <3>4. task'[l][k] \in {"cancelled", "stopped"}
      BY <3>1, <3>2
    <3>5. settle[l] # "none" /\ gate[l] \notin {"new", "awaiting", "released"} /\ task[l][1] # "none"
      BY <3>1, <1>I DEF LineInv
    <3>6. \/ item'[l] = item[l] /\ gate'[l] = gate[l]
          \/ /\ item[l] = "submitted" /\ item'[l] = "cancelled" /\ gate'[l] = "cancelled"
             /\ money[l] = "refunded" /\ \A j \in Tasks : task'[l][j] \in Retired \cup {"none"}
      BY <1>13, <1>I DEF CancelTask, AllStopped, StockTypeOK, Set
    <3>7. lot[l] = "reserved" => item'[l] = item[l] /\ gate'[l] = gate[l]
      BY <3>5, <3>6, <1>I DEF LineInv
    <3>8. l \in raw => item'[l] = "cancelled" /\ \A j \in Tasks : task'[l][j] \in Retired \cup {"none", "failed"}
      BY <3>1, <3>3, <3>4, <3>6, <1>I DEF LineInv, Retired
    <3>9. item'[l] = "delivered" => lot[l] \in {"consumed", "sold"}
      BY <3>6, <1>I DEF LineInv
    <3>10. task'[l][1] # "none"
      BY <3>3, <3>4, <3>5, <1>T
    <3>11. \A j \in Tasks : task'[l][j] \in {"preparing", "ready"} => lot[l] \in {"consumed", "sold"}
      BY <3>3, <3>4, <1>I DEF LineInv
    <3>12. \A j \in Tasks : open /\ batch'[l][j] = "reserved" => task'[l][j] = "waiting"
      BY <3>3, <3>4, <1>I DEF LineInv
    <3> QED BY <3>1, <3>3, <3>4, <3>5, <3>6, <3>7, <3>8, <3>9, <3>10, <3>11, <3>12, <1>I DEF LineInv
  <2> QED BY <2>1, <2>2
<1>14. ASSUME NEW l \in Lines, Deliver(l)
      PROVE  \A m \in Lines : LineInv(m)'
  <2>1. ASSUME NEW m \in Lines, m # l
        PROVE  LineInv(m)'
    BY <1>14, <2>1, <1>I, <1>T, OtherLine DEF Deliver, StockTypeOK, Set, order, material, kitchen
  <2>2. LineInv(l)'
    BY <1>14, <1>I, <1>T DEF Deliver, StockTypeOK, LineInv, Set, order, material, kitchen, AtWork, Retired
  <2> QED BY <2>1, <2>2
<1>15. ASSUME NEW l \in Lines, CancelUnpaid(l)
      PROVE  \A m \in Lines : LineInv(m)'
  <2>1. ASSUME NEW m \in Lines, m # l
        PROVE  LineInv(m)'
    BY <1>15, <2>1, <1>I, <1>T, OtherLine DEF CancelUnpaid, LotReleased, TasksDropped, StockTypeOK, Set, order, material, kitchen
  <2>2. LineInv(l)'
    <3>1. /\ open /\ money[l] = "unpaid" /\ settle[l] # "none" /\ gate'[l] = "cancelled"
          /\ UNCHANGED <<open, settle, money, paidOut, raw, batch, made>>
      BY <1>15, <1>I DEF CancelUnpaid, StockTypeOK, Set
    <3>L. l \notin paidOut
      BY <3>1, <1>I DEF LineInv
    <3>2. \A k \in Tasks : batch[l][k] # "reserved"
      BY <3>1, <1>I DEF LineInv
    <3>3. CASE UNCHANGED <<item, task, lot>> /\ item[l] # "submitted"
      BY <3>1, <3>L, <3>2, <3>3, <1>I DEF LineInv
    <3>4. CASE /\ item[l] = "submitted" /\ Set(item, l, "cancelled") /\ Set(task, l, TasksDropped(l))
               /\ LotReleased(l)
      <4>1. item'[l] = "cancelled" /\ lot'[l] # "reserved" /\ lot'[l] # "consumed"
        BY <3>1, <3>4, <1>I DEF LineInv, LotReleased, Set, StockTypeOK
      <4>2. \A k \in Tasks : /\ task'[l][k] = "none" <=> task[l][k] = "none"
                             /\ task'[l][k] \notin {"preparing", "ready"}
        BY <3>4, <1>I DEF TasksDropped, Set, StockTypeOK, AtWork
      <4>3. l \notin raw
        BY <3>4, <1>I DEF LineInv
      <4>4. task'[l][1] = "none" => \A k \in Tasks : task'[l][k] = "none"
        BY <4>2, <1>I, <1>T DEF LineInv
      <4>5. l \notin raw' /\ l \notin paidOut' /\ \A k \in Tasks : batch'[l][k] # "reserved"
        BY <3>1, <3>L, <3>2, <4>3
      <4>6. settle'[l] # "none" /\ gate'[l] = "cancelled" /\ money'[l] = "unpaid"
        BY <3>1
      <4>7. \A k \in Tasks : task'[l][k] = "none" => batch'[l][k] = "none"
        BY <3>1, <4>2, <1>I DEF LineInv
      <4> QED BY <4>1, <4>2, <4>4, <4>5, <4>6, <4>7 DEF LineInv
    <3> QED BY <1>15, <3>3, <3>4 DEF CancelUnpaid
  <2> QED BY <2>1, <2>2
<1>16. ASSUME NEW l \in Lines, RefundPart(l)
      PROVE  \A m \in Lines : LineInv(m)'
  <2>1. ASSUME NEW m \in Lines, m # l
        PROVE  LineInv(m)'
    BY <1>16, <2>1, <1>I, <1>T, OtherLine DEF RefundPart, StockTypeOK, Set, order, material, kitchen
  <2>2. LineInv(l)'
    BY <1>16, <1>I, <1>T DEF RefundPart, StockTypeOK, LineInv, Set, order, material, kitchen, AtWork, Retired
  <2> QED BY <2>1, <2>2
<1>17. ASSUME NEW l \in Lines, PayOut(l)
      PROVE  \A m \in Lines : LineInv(m)'
  <2>1. ASSUME NEW m \in Lines, m # l
        PROVE  LineInv(m)'
    BY <1>17, <2>1, <1>I, <1>T, OtherLine DEF PayOut, StockTypeOK, Set, order, material, kitchen
  <2>2. LineInv(l)'
    BY <1>17, <1>I, <1>T DEF PayOut, StockTypeOK, LineInv, Set, order, material, kitchen, AtWork, Retired
  <2> QED BY <2>1, <2>2
<1>18. ASSUME NEW l \in Lines, RecordRefund(l)
      PROVE  \A m \in Lines : LineInv(m)'
  <2>1. ASSUME NEW m \in Lines, m # l
        PROVE  LineInv(m)'
    BY <1>18, <2>1, <1>I, <1>T, OtherLine DEF RecordRefund, StopLine, Returnable, StillOut, StockTypeOK, Set, order, material, kitchen
  <2>2. LineInv(l)'
    <3>0. /\ money[l] \in {"paid", "part"} /\ money'[l] = "refunded" /\ settle[l] # "gift"
          /\ l \notin paidOut' /\ UNCHANGED <<open, settle, made>>
      BY <1>18, <1>I DEF RecordRefund, StockTypeOK, LineInv, Set
    <3>1. CASE UNCHANGED <<gate, material, item, task, batch>>
      BY <3>0, <3>1, <1>I DEF LineInv, material
    <3>2. CASE Untouched(l) /\ StopLine(l)
      <4>1. /\ item[l] # "delivered" /\ made'[l] = {} /\ settle' = settle /\ open' = open
            /\ item'[l] = "cancelled" /\ gate'[l] = "cancelled" /\ money'[l] = "refunded"
            /\ lot'[l] \notin {"reserved", "consumed"}
        BY <1>18, <3>2, <1>I DEF RecordRefund, Untouched, StopLine, StockTypeOK, Set
      <4>2. \A k \in Tasks : /\ task'[l][k] \in Retired \cup {"none"}
                             /\ task'[l][k] = "none" <=> task[l][k] = "none"
                             /\ batch'[l][k] # "reserved"
        BY <3>2, <1>I DEF StopLine, StockTypeOK, Set, Retired
      <4>3. settle[l] # "none"
        BY <3>0, <1>I DEF LineInv
      <4>4. task'[l][1] = "none" => \A k \in Tasks : task'[l][k] = "none"
        BY <4>2, <1>I, <1>T DEF LineInv
      <4>5. \A k \in Tasks : task'[l][k] \notin {"preparing", "ready"}
        BY <4>2 DEF Retired
      <4>6. \A k \in Tasks : task'[l][k] = "none" => batch'[l][k] = "none"
        <5>1. \A k \in Tasks : batch[l][k] = "none" => batch'[l][k] = "none"
          BY <3>2, <1>I DEF StopLine, StockTypeOK, Set
        <5> QED BY <4>2, <5>1, <1>I DEF LineInv
      <4> QED BY <3>0, <4>1, <4>2, <4>3, <4>4, <4>5, <4>6 DEF LineInv
    <3> QED BY <1>18, <3>1, <3>2 DEF RecordRefund
  <2> QED BY <2>1, <2>2
<1>19. ASSUME NEW l \in Lines, NEW q \in 1 .. Need, NEW unused \in BOOLEAN, ReturnPieces(l, q, unused)
      PROVE  \A m \in Lines : LineInv(m)'
  <2>1. ASSUME NEW m \in Lines, m # l
        PROVE  LineInv(m)'
    BY <1>19, <2>1, <1>I, <1>T, OtherLine DEF ReturnPieces, WithinLine, StockTypeOK, Set, order, material, kitchen
  <2>2. LineInv(l)'
    BY <1>19, <1>I, <1>T DEF ReturnPieces, WithinLine, StockTypeOK, LineInv, Set, order, material, kitchen, AtWork, Retired
  <2> QED BY <2>1, <2>2
<1>20. CASE TurnOver
  BY <1>20, <1>I, <1>T DEF TurnOver, StockTypeOK, LineInv, LotsHeld, TasksDropped, AtWork, Retired
<1>21. CASE ReceivePurchase
  BY <1>21, <1>I, OtherLine DEF ReceivePurchase, order, material, kitchen
<1>22. CASE RecordWaste
  BY <1>22, <1>I, OtherLine DEF RecordWaste, order, material, kitchen
<1>23. CASE ApproveCount
  BY <1>23, <1>I, OtherLine DEF ApproveCount, order, material, kitchen
<1>24. CASE RejectCount
  BY <1>24, <1>I, OtherLine DEF RejectCount, order, material, kitchen
<1>25. ASSUME NEW c \in {onHand - 1, onHand, onHand + 1}, CreateCount(c)
      PROVE  \A m \in Lines : LineInv(m)'
  BY <1>25, <1>I, OtherLine DEF CreateCount, order, material, kitchen
<1> QED BY <1>1, <1>2, <1>3, <1>4, <1>5, <1>6, <1>7, <1>8, <1>9, <1>10, <1>11, <1>12, <1>13, <1>14, <1>15, <1>16, <1>17, <1>18, <1>19, <1>20, <1>21, <1>22, <1>23, <1>24, <1>25 DEF StockNext

\* The inductive invariant holds in every reachable state.
LEMMA LinesHold == StockSpec => []StockIInv
<1>1. StockInit => StockIInv
  <2> SUFFICES ASSUME StockInit PROVE StockIInv
    OBVIOUS
  <2>1. StockTypeOK
    BY NeedAssumption, SupplyAssumption DEF StockInit, StockTypeOK, AtWork, Retired, Modes
  <2>2. ASSUME NEW l \in Lines PROVE LineInv(l)
    BY MaxTasksAssumption DEF StockInit, LineInv, Tasks
  <2> QED BY <2>1, <2>2 DEF StockIInv
<1>2. StockIInv /\ [StockNext]_stockVars => StockIInv'
  BY TypeStep, LineStep DEF StockIInv
<1> QED BY <1>1, <1>2, PTL DEF StockSpec

\* Material the kitchen has used is never put back as unused, however refund, failure,
\* remake and return follow one another.
THEOREM UsedIsNotReturned == StockSpec => []MaterialIsNotBothUsedAndReturned
<1>1. StockIInv => MaterialIsNotBothUsedAndReturned
  BY DEF StockIInv, LineInv, MaterialIsNotBothUsedAndReturned, StockTypeOK
<1> QED BY <1>1, LinesHold, PTL

\* Whatever a guest got was taken out of stock and has not come back as unused.
THEOREM ServedIsPaidByStock == StockSpec => []ServedFromStock
<1>1. StockIInv => ServedFromStock
  BY DEF StockIInv, LineInv, ServedFromStock
<1> QED BY <1>1, LinesHold, PTL

\* As long as the visit lasts, no reservation outlives the work it was made for.
THEOREM HeldForWork == StockSpec => []HeldForLiveWorkInVisit
<1>1. StockIInv => HeldForLiveWorkInVisit
  BY DEF StockIInv, LineInv, HeldForLiveWorkInVisit
<1> QED BY <1>1, LinesHold, PTL

----------------------------------------------------------------------------
(* The reserved quantity                                                   *)

\* The reservations in force are finite sets.
LEMMA HeldFinite ==
    ASSUME NEW S \in SUBSET Lines
    PROVE  /\ IsFiniteSet(LotsHeld(S)) /\ Cardinality(LotsHeld(S)) \in Nat
           /\ IsFiniteSet(BatchesHeld(S)) /\ Cardinality(BatchesHeld(S)) \in Nat
<1>1. LotsHeld(S) \in SUBSET Lines
  BY DEF LotsHeld
<1>2. BatchesHeld(S) \in SUBSET (Lines \X Tasks)
  BY DEF BatchesHeld
<1>3. IsFiniteSet(LotsHeld(S)) /\ IsFiniteSet(BatchesHeld(S))
  BY <1>1, <1>2, LinesAssumption, PairsAreFinite, FS_Subset
<1> QED BY <1>3, FS_CardinalityType

\* A line whose reservation is made, kept or ended changes the reservations by itself.
LEMMA LotChanges ==
    ASSUME StockTypeOK, NEW l \in Lines, NEW v, lot' = [lot EXCEPT ![l] = v]
    PROVE  Need * Cardinality(LotsHeld(Lines))' =
              Need * Cardinality(LotsHeld(Lines)) - HeldBy(lot[l]) + HeldBy(v)
<1> DEFINE S == LotsHeld(Lines)
<1>1. IsFiniteSet(S) /\ Cardinality(S) \in Nat /\ Need \in Nat
  BY HeldFinite, NeedAssumption
<1>2. \A m \in Lines : lot'[m] = IF m = l THEN v ELSE lot[m]
  BY DEF StockTypeOK
<1>3. CASE v = "reserved" /\ lot[l] = "reserved"
  <2>1. S' = S
    BY <1>2, <1>3 DEF LotsHeld
  <2> QED BY <1>1, <1>3, <2>1 DEF HeldBy
<1>4. CASE v = "reserved" /\ lot[l] # "reserved"
  <2>1. S' = S \cup {l} /\ l \notin S
    BY <1>2, <1>4 DEF LotsHeld
  <2>2. Cardinality(S)' = Cardinality(S) + 1
    BY <1>1, <2>1, FS_AddElement
  <2>3. Need * (Cardinality(S) + 1) = Need * Cardinality(S) + Need
    BY <1>1
  <2> QED BY <1>1, <1>4, <2>2, <2>3 DEF HeldBy
<1>5. CASE v # "reserved" /\ lot[l] = "reserved"
  <2>1. S' = S \ {l} /\ l \in S
    BY <1>2, <1>5 DEF LotsHeld
  <2>2. Cardinality(S)' = Cardinality(S) - 1
    BY <1>1, <2>1, FS_RemoveElement
  <2>3. Need * (Cardinality(S) - 1) = Need * Cardinality(S) - Need
    BY <1>1
  <2> QED BY <1>1, <1>5, <2>2, <2>3 DEF HeldBy
<1>6. CASE v # "reserved" /\ lot[l] # "reserved"
  <2>1. S' = S
    BY <1>2, <1>6 DEF LotsHeld
  <2> QED BY <1>1, <1>6, <2>1 DEF HeldBy
<1> QED BY <1>3, <1>4, <1>5, <1>6

\* The same for the batch of one remake.
LEMMA BatchChanges ==
    ASSUME StockTypeOK, NEW l \in Lines, NEW k \in Tasks, NEW v,
           batch' = [batch EXCEPT ![l][k] = v]
    PROVE  Need * Cardinality(BatchesHeld(Lines))' =
              Need * Cardinality(BatchesHeld(Lines)) - HeldBy(batch[l][k]) + HeldBy(v)
<1> DEFINE S == BatchesHeld(Lines)
<1>1. IsFiniteSet(S) /\ Cardinality(S) \in Nat /\ Need \in Nat
  BY HeldFinite, NeedAssumption
<1>2. \A m \in Lines, j \in Tasks :
         batch'[m][j] = IF m = l /\ j = k THEN v ELSE batch[m][j]
  BY DEF StockTypeOK
<1>3. CASE v = "reserved" /\ batch[l][k] = "reserved"
  <2>1. S' = S
    BY <1>2, <1>3 DEF BatchesHeld
  <2> QED BY <1>1, <1>3, <2>1 DEF HeldBy
<1>4. CASE v = "reserved" /\ batch[l][k] # "reserved"
  <2>1. S' = S \cup {<<l, k>>} /\ <<l, k>> \notin S
    BY <1>2, <1>4 DEF BatchesHeld
  <2>2. Cardinality(S)' = Cardinality(S) + 1
    BY <1>1, <2>1, FS_AddElement
  <2>3. Need * (Cardinality(S) + 1) = Need * Cardinality(S) + Need
    BY <1>1
  <2> QED BY <1>1, <1>4, <2>2, <2>3 DEF HeldBy
<1>5. CASE v # "reserved" /\ batch[l][k] = "reserved"
  <2>1. S' = S \ {<<l, k>>} /\ <<l, k>> \in S
    BY <1>2, <1>5 DEF BatchesHeld
  <2>2. Cardinality(S)' = Cardinality(S) - 1
    BY <1>1, <2>1, FS_RemoveElement
  <2>3. Need * (Cardinality(S) - 1) = Need * Cardinality(S) - Need
    BY <1>1
  <2> QED BY <1>1, <1>5, <2>2, <2>3 DEF HeldBy
<1>6. CASE v # "reserved" /\ batch[l][k] # "reserved"
  <2>1. S' = S
    BY <1>2, <1>6 DEF BatchesHeld
  <2> QED BY <1>1, <1>6, <2>1 DEF HeldBy
<1> QED BY <1>3, <1>4, <1>5, <1>6

\* Reservations that nobody touches stay the same.
LEMMA LotsKept == UNCHANGED lot => LotsHeld(Lines)' = LotsHeld(Lines)
BY DEF LotsHeld

\* The same of the batches.
LEMMA BatchesKept == UNCHANGED batch => BatchesHeld(Lines)' = BatchesHeld(Lines)
BY DEF BatchesHeld

\* What is reserved for lots, in units.
LotUnits == Need * Cardinality(LotsHeld(Lines))
\* What is reserved for batches, in units.
BatchUnits == Need * Cardinality(BatchesHeld(Lines))

\* Both are numbers.
LEMMA UnitsAreNat == LotUnits \in Nat /\ BatchUnits \in Nat
BY HeldIsNat, BatchesAreNat DEF LotUnits, BatchUnits

\* Every transaction moves the reserved quantity by what it reserves and frees.
LEMMA ReservedStep ==
    ASSUME StockIInv, reserved = LotUnits + BatchUnits, [StockNext]_stockVars
    PROVE  reserved' = LotUnits' + BatchUnits'
<1>I. StockTypeOK /\ \A m \in Lines : LineInv(m)
  BY DEF StockIInv
<1>U. LotUnits \in Nat /\ BatchUnits \in Nat /\ Need \in Nat /\ reserved \in Nat
  BY UnitsAreNat, NeedAssumption
<1>H. HeldBy("reserved") = Need /\ \A s : HeldBy(s) \in Nat /\ (s # "reserved" => HeldBy(s) = 0)
  BY <1>U DEF HeldBy
<1>K. UNCHANGED lot => LotUnits' = LotUnits
  BY LotsKept DEF LotUnits
<1>B. UNCHANGED batch => BatchUnits' = BatchUnits
  BY BatchesKept DEF BatchUnits
<1>L. ASSUME NEW l \in Lines, NEW v, lot' = [lot EXCEPT ![l] = v]
      PROVE  LotUnits' = LotUnits - HeldBy(lot[l]) + HeldBy(v)
  BY <1>I, <1>L, LotChanges DEF LotUnits
<1>M. ASSUME NEW l \in Lines, NEW k \in Tasks, NEW v, batch' = [batch EXCEPT ![l][k] = v]
      PROVE  BatchUnits' = BatchUnits - HeldBy(batch[l][k]) + HeldBy(v)
  BY <1>I, <1>M, BatchChanges DEF BatchUnits
<1>R. ASSUME NEW l \in Lines, LotReleased(l), UNCHANGED batch
      PROVE  reserved' = LotUnits' + BatchUnits'
  <2>1. CASE lot[l] = "reserved" /\ Used(0, -Need) /\ Set(lot, l, "released")
    <3>0. lot' = [lot EXCEPT ![l] = "released"]
      BY <2>1 DEF Set
    <3>2. LotUnits' = LotUnits - HeldBy(lot[l]) + HeldBy("released")
      BY <3>0, <1>L
    <3>1. LotUnits' = LotUnits - Need + 0
      BY <2>1, <3>2, <1>H
    <3> QED BY <2>1, <3>1, <1>R, <1>B, <1>U DEF Used, Moves
  <2>2. CASE Kept /\ UNCHANGED lot
    BY <2>2, <1>R, <1>K, <1>B DEF Kept, balance
  <2> QED BY <1>R, <2>1, <2>2 DEF LotReleased
<1>1. CASE UNCHANGED stockVars
  BY <1>1, <1>K, <1>B DEF stockVars, balance, material, kitchen
<1>2. ASSUME NEW l \in Lines, NEW mode \in Modes, Submit(l, mode)
      PROVE  reserved' = LotUnits' + BatchUnits'
  <2>0. lot[l] # "reserved"
    BY <1>2, <1>I DEF Submit, LineInv
  <2>1. CASE mode = "deferred"
    <3>1. LotUnits' = LotUnits - HeldBy(lot[l]) + HeldBy("sold") /\ reserved' = reserved + 0
      BY <1>2, <2>1, <1>L DEF Submit, Set, Used, Moves
    <3> QED BY <1>2, <3>1, <2>0, <1>H, <1>B, <1>U DEF Submit
  <2>2. CASE mode # "deferred"
    <3>1. LotUnits' = LotUnits - HeldBy(lot[l]) + HeldBy("reserved") /\ reserved' = reserved + Need
      BY <1>2, <2>2, <1>L DEF Submit, Set, Used, Moves
    <3> QED BY <1>2, <3>1, <2>0, <1>H, <1>B, <1>U DEF Submit
  <2> QED BY <2>1, <2>2
<1>3. ASSUME NEW l \in Lines, Release(l)
      PROVE  reserved' = LotUnits' + BatchUnits'
  BY <1>3, <1>R DEF Release, kitchen
<1>4. ASSUME NEW l \in Lines, ReserveAgain(l)
      PROVE  reserved' = LotUnits' + BatchUnits'
  <2>1. lot[l] # "reserved"
    BY <1>4, <1>I DEF ReserveAgain, LineInv
  <2>2. LotUnits' = LotUnits - HeldBy(lot[l]) + HeldBy("reserved") /\ reserved' = reserved + Need
    BY <1>4, <1>L DEF ReserveAgain, Set, Used, Moves
  <2> QED BY <1>4, <2>1, <2>2, <1>H, <1>B, <1>U DEF ReserveAgain, kitchen
<1>5. ASSUME NEW l \in Lines, AbandonCheckout(l)
      PROVE  reserved' = LotUnits' + BatchUnits'
  BY <1>5, <1>R DEF AbandonCheckout, kitchen
<1>6. ASSUME NEW l \in Lines, Pay(l)
      PROVE  reserved' = LotUnits' + BatchUnits'
  <2>1. CASE gate[l] = "awaiting" /\ ConsumeLot(l)
    <3>1. lot[l] = "reserved"
      BY <2>1, <1>I DEF LineInv
    <3>2. LotUnits' = LotUnits - HeldBy(lot[l]) + HeldBy("consumed") /\ reserved' = reserved + (-Need)
      BY <2>1, <1>L DEF ConsumeLot, Set, Used, Moves
    <3> QED BY <1>6, <3>1, <3>2, <1>H, <1>B, <1>U DEF Pay
  <2>2. CASE Kept /\ UNCHANGED lot
    BY <1>6, <2>2, <1>K, <1>B DEF Pay, Kept, balance
  <2> QED BY <1>6, <2>1, <2>2 DEF Pay
<1>7. ASSUME NEW l \in Lines, DispatchGift(l)
      PROVE  reserved' = LotUnits' + BatchUnits'
  BY <1>7, <1>K, <1>B DEF DispatchGift, balance, material, kitchen
<1>8. ASSUME NEW l \in Lines, ResolveGift(l)
      PROVE  reserved' = LotUnits' + BatchUnits'
  BY <1>8, <1>R DEF ResolveGift, kitchen
<1>9. ASSUME NEW l \in Lines, NEW k \in Tasks, StartTask(l, k)
      PROVE  reserved' = LotUnits' + BatchUnits'
  <2>1. LotUnits' = LotUnits - HeldBy(lot[l]) + HeldBy(LotAfterStart(l))
    BY <1>9, <1>L DEF StartTask, Set
  <2>2. HeldBy(LotAfterStart(l)) = 0
    BY <1>H DEF LotAfterStart
  <2> DEFINE v == IF batch[l][k] = "reserved" THEN "consumed" ELSE batch[l][k]
  <2>3. batch' = [batch EXCEPT ![l][k] = v] /\ v # "reserved"
    BY <1>9 DEF StartTask
  <2>4. BatchUnits' = BatchUnits - HeldBy(batch[l][k]) + HeldBy(v) /\ HeldBy(v) = 0
    <3> HIDE DEF v
    <3>1. BatchUnits' = BatchUnits - HeldBy(batch[l][k]) + HeldBy(v)
      BY <2>3, <1>M
    <3>2. HeldBy(v) = 0
      BY <2>3, <1>H
    <3> QED BY <3>1, <3>2
  <2>5. reserved' = reserved - (HeldBy(lot[l]) + HeldBy(batch[l][k]))
    BY <1>9, <1>H, <1>U DEF StartTask, Used, Moves
  <2> QED BY <2>1, <2>2, <2>4, <2>5, <1>H, <1>U
<1>10. ASSUME NEW l \in Lines, NEW k \in Tasks, FinishTask(l, k)
      PROVE  reserved' = LotUnits' + BatchUnits'
  BY <1>10, <1>K, <1>B DEF FinishTask, balance, material, kitchen
<1>11. ASSUME NEW l \in Lines, NEW k \in Tasks, FailTask(l, k)
      PROVE  reserved' = LotUnits' + BatchUnits'
  <2> DEFINE v == IF batch[l][k] = "reserved" THEN "released" ELSE batch[l][k]
  <2>1. batch' = [batch EXCEPT ![l][k] = v] /\ v # "reserved"
    BY <1>11 DEF FailTask, BatchReleased
  <2>2. BatchUnits' = BatchUnits - HeldBy(batch[l][k]) + HeldBy(v) /\ HeldBy(v) = 0
    <3> HIDE DEF v
    <3>1. BatchUnits' = BatchUnits - HeldBy(batch[l][k]) + HeldBy(v)
      BY <2>1, <1>M
    <3>2. HeldBy(v) = 0
      BY <2>1, <1>H
    <3> QED BY <3>1, <3>2
  <2>3. reserved' = reserved - HeldBy(batch[l][k])
    BY <1>11, <1>H, <1>U DEF FailTask, BatchReleased, Used, Moves
  <2> QED BY <1>11, <2>2, <2>3, <1>H, <1>K, <1>U DEF FailTask, material
<1>12. ASSUME NEW l \in Lines, NEW k \in Tasks, Remake(l, k)
      PROVE  reserved' = LotUnits' + BatchUnits'
  <2>1. CASE Used(0, Need) /\ batch' = [batch EXCEPT ![l][k + 1] = "reserved"]
    <3>1. k + 1 \in Tasks
      BY <1>12, MaxTasksAssumption DEF Remake, Tasks
    <3>2. batch[l][k + 1] # "reserved"
      BY <1>12, <3>1, <1>I DEF Remake, LineInv
    <3>3. BatchUnits' = BatchUnits - HeldBy(batch[l][k + 1]) + HeldBy("reserved")
      BY <2>1, <3>1, <1>M
    <3>4. reserved' = reserved + Need
      BY <2>1 DEF Used, Moves
    <3> QED BY <1>12, <3>2, <3>3, <3>4, <1>H, <1>K, <1>U DEF Remake, material
  <2>2. CASE Kept /\ UNCHANGED batch
    BY <1>12, <2>2, <1>K, <1>B DEF Remake, Kept, balance, material
  <2> QED BY <1>12, <2>1, <2>2 DEF Remake
<1>13. ASSUME NEW l \in Lines, NEW k \in Tasks, CancelTask(l, k)
      PROVE  reserved' = LotUnits' + BatchUnits'
  <2> DEFINE v == IF batch[l][k] = "reserved" THEN "released" ELSE batch[l][k]
  <2>1. batch' = [batch EXCEPT ![l][k] = v] /\ v # "reserved"
    BY <1>13 DEF CancelTask, BatchReleased
  <2>2. BatchUnits' = BatchUnits - HeldBy(batch[l][k]) + HeldBy(v) /\ HeldBy(v) = 0
    <3> HIDE DEF v
    <3>1. BatchUnits' = BatchUnits - HeldBy(batch[l][k]) + HeldBy(v)
      BY <2>1, <1>M
    <3>2. HeldBy(v) = 0
      BY <2>1, <1>H
    <3> QED BY <3>1, <3>2
  <2>3. reserved' = reserved - HeldBy(batch[l][k])
    BY <1>13, <1>H, <1>U DEF CancelTask, BatchReleased, Used, Moves
  <2> QED BY <1>13, <2>2, <2>3, <1>H, <1>K, <1>U DEF CancelTask, material
<1>14. ASSUME NEW l \in Lines, Deliver(l)
      PROVE  reserved' = LotUnits' + BatchUnits'
  BY <1>14, <1>K, <1>B DEF Deliver, balance, material, kitchen
<1>15. ASSUME NEW l \in Lines, CancelUnpaid(l)
      PROVE  reserved' = LotUnits' + BatchUnits'
  <2>1. CASE LotReleased(l)
    BY <1>15, <2>1, <1>R DEF CancelUnpaid
  <2>2. CASE Kept /\ UNCHANGED lot
    BY <1>15, <2>2, <1>K, <1>B DEF CancelUnpaid, Kept, balance
  <2> QED BY <1>15, <2>1, <2>2 DEF CancelUnpaid
<1>16. ASSUME NEW l \in Lines, RefundPart(l)
      PROVE  reserved' = LotUnits' + BatchUnits'
  BY <1>16, <1>K, <1>B DEF RefundPart, balance, material, kitchen
<1>17. ASSUME NEW l \in Lines, PayOut(l)
      PROVE  reserved' = LotUnits' + BatchUnits'
  BY <1>17, <1>K, <1>B DEF PayOut, balance, material, kitchen
<1>18. ASSUME NEW l \in Lines, RecordRefund(l)
      PROVE  reserved' = LotUnits' + BatchUnits'
  <2>1. CASE Kept /\ UNCHANGED <<gate, material, item, task, batch>>
    BY <2>1, <1>K, <1>B DEF Kept, balance, material
  <2>2. CASE StopLine(l)
    <3> DEFINE v == CASE lot[l] = "reserved" -> "released" [] lot[l] = "consumed" -> "returned"
                      [] OTHER -> lot[l]
               S == BatchesHeld(Lines)
               D == BatchesHeld({l})
    <3>1. lot' = [lot EXCEPT ![l] = v] /\ v # "reserved"
      BY <2>2 DEF StopLine, Set
    <3>2. LotUnits' = LotUnits - HeldBy(lot[l]) + HeldBy(v) /\ HeldBy(v) = 0
      BY <3>1, <1>L, <1>H
    <3>3. \A m \in Lines, k \in Tasks :
             batch'[m][k] = IF m = l /\ batch[m][k] = "reserved" THEN "released" ELSE batch[m][k]
      BY <2>2, <1>I DEF StopLine, Set, StockTypeOK
    <3>4. S' = S \ D /\ S \cap D = D
      BY <3>3 DEF BatchesHeld
    <3>5. IsFiniteSet(S) /\ Cardinality(S) \in Nat /\ Cardinality(D) \in Nat
      BY HeldFinite, {l} \in SUBSET Lines
    <3>6. Cardinality(S)' = Cardinality(S) - Cardinality(D)
      BY <3>4, <3>5, FS_Difference
    <3>7. Need * (Cardinality(S) - Cardinality(D)) = Need * Cardinality(S) - Need * Cardinality(D)
      BY <3>5, <1>U
    <3>8. BatchUnits' = BatchUnits - Need * Cardinality(D) /\ Need * Cardinality(D) \in Nat
      BY <3>5, <3>6, <3>7, <1>U DEF BatchUnits
    <3>9. reserved' = reserved - (HeldBy(lot[l]) + Need * Cardinality(D))
      BY <2>2, <3>8, <1>H, <1>U DEF StopLine, Used, Moves
    <3> QED BY <3>2, <3>8, <3>9, <1>H, <1>U
  <2> QED BY <1>18, <2>1, <2>2 DEF RecordRefund
<1>19. ASSUME NEW l \in Lines, NEW q \in 1 .. Need, NEW unused \in BOOLEAN, ReturnPieces(l, q, unused)
      PROVE  reserved' = LotUnits' + BatchUnits'
  <2>1. reserved' = reserved + 0
    BY <1>19 DEF ReturnPieces, Used, Moves
  <2> QED BY <1>19, <2>1, <1>K, <1>B, <1>U DEF ReturnPieces, kitchen
<1>20. CASE TurnOver
  <2> DEFINE dropped == {l \in Lines : item[l] = "submitted"}
             S == LotsHeld(Lines)
             D == LotsHeld(dropped)
  <2>1. lot' = [l \in Lines |-> IF l \in D THEN "released" ELSE lot[l]] /\ UNCHANGED batch
    BY <1>20 DEF TurnOver
  <2>2. S' = S \ D /\ S \cap D = D
    BY <2>1 DEF LotsHeld
  <2>3. IsFiniteSet(S) /\ Cardinality(S) \in Nat /\ Cardinality(D) \in Nat
    BY HeldFinite, dropped \in SUBSET Lines
  <2>4. Cardinality(S)' = Cardinality(S) - Cardinality(D)
    BY <2>2, <2>3, FS_Difference
  <2>5. Need * (Cardinality(S) - Cardinality(D)) = Need * Cardinality(S) - Need * Cardinality(D)
    BY <2>3, <1>U
  <2>6. LotUnits' = LotUnits - Need * Cardinality(D) /\ Need * Cardinality(D) \in Nat
    BY <2>3, <2>4, <2>5, <1>U DEF LotUnits
  <2>7. reserved' = reserved - Need * Cardinality(D)
    BY <1>20, <2>6, <1>U DEF TurnOver, Used, Moves
  <2> QED BY <2>1, <2>6, <2>7, <1>B, <1>U
<1>21. CASE ReceivePurchase
  <2>1. reserved' = reserved + 0
    BY <1>21 DEF ReceivePurchase, Moves
  <2> QED BY <1>21, <2>1, <1>K, <1>B, <1>U DEF ReceivePurchase, material, kitchen
<1>22. CASE RecordWaste
  <2>1. reserved' = reserved + 0
    BY <1>22 DEF RecordWaste, Moves
  <2> QED BY <1>22, <2>1, <1>K, <1>B, <1>U DEF RecordWaste, material, kitchen
<1>23. CASE ApproveCount
  BY <1>23, <1>K, <1>B DEF ApproveCount, material, kitchen
<1>24. CASE RejectCount
  BY <1>24, <1>K, <1>B DEF RejectCount, material, kitchen
<1>25. ASSUME NEW c \in {onHand - 1, onHand, onHand + 1}, CreateCount(c)
      PROVE  reserved' = LotUnits' + BatchUnits'
  BY <1>25, <1>K, <1>B DEF CreateCount, material, kitchen
<1> QED BY <1>1, <1>2, <1>3, <1>4, <1>5, <1>6, <1>7, <1>8, <1>9, <1>10, <1>11, <1>12, <1>13, <1>14, <1>15, <1>16, <1>17, <1>18, <1>19, <1>20, <1>21, <1>22, <1>23, <1>24, <1>25 DEF StockNext

\* The reserved quantity of the item is, at every moment, the sum of the reservations
\* in force, for any number of orders, remakes, refunds and turnovers.
THEOREM ReservedIsTheSum == StockSpec => []ReservedIsBacked
<1> DEFINE Sum == reserved = LotUnits + BatchUnits
<1>1. StockInit => Sum
  <2> SUFFICES ASSUME StockInit PROVE Sum
    OBVIOUS
  <2>1. LotsHeld(Lines) = {} /\ BatchesHeld(Lines) = {} /\ reserved = 0
    BY DEF StockInit, LotsHeld, BatchesHeld
  <2>2. LotUnits = Need * 0 /\ BatchUnits = Need * 0
    BY <2>1, FS_EmptySet DEF LotUnits, BatchUnits
  <2> QED BY <2>1, <2>2, NeedAssumption
<1>2. StockIInv /\ Sum /\ [StockNext]_stockVars => Sum'
  BY ReservedStep
<1>3. Sum => ReservedIsBacked
  BY DEF ReservedIsBacked, LotUnits, BatchUnits
<1> QED BY <1>1, <1>2, <1>3, LinesHold, PTL DEF StockSpec

----------------------------------------------------------------------------
(* The quantity on hand                                                    *)

\* Units that a sale, a started production or a refund leaves out of stock.
SpentBy(status) == IF status \in Spent THEN Need ELSE 0
\* The same of the batch of a remake.
MadeFrom(status) == IF status = "consumed" THEN Need ELSE 0

\* Units out of stock through lots, and through the batches of remakes.
LotsOut == Need * Cardinality(LotsUsed)
\* Units the batches of remakes took.
BatchesOut == Need * Cardinality(BatchesUsed)
\* Units that came back.
CameBack == Cardinality(UnitsBack)

\* What left and what came back are finite sets.
LEMMA OutFinite ==
    /\ IsFiniteSet(LotsUsed) /\ Cardinality(LotsUsed) \in Nat
    /\ IsFiniteSet(BatchesUsed) /\ Cardinality(BatchesUsed) \in Nat
    /\ IsFiniteSet(UnitsBack) /\ Cardinality(UnitsBack) \in Nat
<1>1. LotsUsed \in SUBSET Lines /\ BatchesUsed \in SUBSET (Lines \X Tasks)
  BY DEF LotsUsed, BatchesUsed
<1>2. UnitsBack \in SUBSET (Lines \X (1 .. Need))
  BY DEF UnitsBack
<1>3. IsFiniteSet(Lines \X (1 .. Need))
  <2>1. IsFiniteSet(1 .. Need)
    BY NeedAssumption, FS_Interval
  <2> QED BY <2>1, LinesAssumption, FS_Product
<1>4. IsFiniteSet(LotsUsed) /\ IsFiniteSet(BatchesUsed) /\ IsFiniteSet(UnitsBack)
  BY <1>1, <1>2, <1>3, LinesAssumption, PairsAreFinite, FS_Subset
<1> QED BY <1>4, FS_CardinalityType

\* So they are numbers of units.
LEMMA OutIsNat == LotsOut \in Nat /\ BatchesOut \in Nat /\ CameBack \in Nat
<1>1. \A n \in Nat : Need * n \in Nat
  BY NeedAssumption
<1> QED BY <1>1, OutFinite DEF LotsOut, BatchesOut, CameBack

\* A set that loses or gains one element x, or none: B holds x or not, as A does.
LEMMA OneElement ==
    ASSUME NEW A, NEW B, NEW x, IsFiniteSet(A), A \ {x} = B \ {x}
    PROVE  Need * Cardinality(B) = Need * Cardinality(A)
              - (IF x \in A THEN Need ELSE 0) + (IF x \in B THEN Need ELSE 0)
<1>1. Cardinality(A) \in Nat /\ Need \in Nat
  BY FS_CardinalityType, NeedAssumption
<1>2. CASE (x \in A) = (x \in B)
  <2>1. A = B
    BY <1>2
  <2> QED BY <1>1, <2>1
<1>3. CASE x \in A /\ x \notin B
  <2>1. B = A \ {x}
    BY <1>3
  <2>2. Cardinality(B) = Cardinality(A) - 1
    BY <1>3, <2>1, FS_RemoveElement
  <2>3. Need * (Cardinality(A) - 1) = Need * Cardinality(A) - Need
    BY <1>1
  <2> QED BY <1>1, <1>3, <2>2, <2>3
<1>4. CASE x \notin A /\ x \in B
  <2>1. B = A \cup {x}
    BY <1>4
  <2>2. Cardinality(B) = Cardinality(A) + 1
    BY <1>4, <2>1, FS_AddElement
  <2>3. Need * (Cardinality(A) + 1) = Need * Cardinality(A) + Need
    BY <1>1
  <2> QED BY <1>1, <1>4, <2>2, <2>3
<1> QED BY <1>2, <1>3, <1>4

\* The lot of one line changes what lots took by its own units.
LEMMA LotOutChanges ==
    ASSUME StockTypeOK, NEW l \in Lines, NEW v, lot' = [lot EXCEPT ![l] = v]
    PROVE  LotsOut' = LotsOut - SpentBy(lot[l]) + SpentBy(v)
<1>1. \A m \in Lines : lot'[m] = IF m = l THEN v ELSE lot[m]
  BY DEF StockTypeOK
<1>2. LotsUsed \ {l} = LotsUsed' \ {l}
  BY <1>1 DEF LotsUsed
<1>3. (l \in LotsUsed <=> lot[l] \in Spent) /\ (l \in LotsUsed' <=> v \in Spent)
  BY <1>1 DEF LotsUsed
<1>4. Need * Cardinality(LotsUsed') = Need * Cardinality(LotsUsed)
         - (IF l \in LotsUsed THEN Need ELSE 0) + (IF l \in LotsUsed' THEN Need ELSE 0)
  BY <1>2, OutFinite, OneElement
<1> QED BY <1>3, <1>4 DEF LotsOut, SpentBy

\* The same for the batch of one remake.
LEMMA BatchOutChanges ==
    ASSUME StockTypeOK, NEW l \in Lines, NEW k \in Tasks, NEW v,
           batch' = [batch EXCEPT ![l][k] = v]
    PROVE  BatchesOut' = BatchesOut - MadeFrom(batch[l][k]) + MadeFrom(v)
<1>1. \A m \in Lines, j \in Tasks :
         batch'[m][j] = IF m = l /\ j = k THEN v ELSE batch[m][j]
  BY DEF StockTypeOK
<1>2. BatchesUsed \ {<<l, k>>} = BatchesUsed' \ {<<l, k>>}
  BY <1>1 DEF BatchesUsed
<1>3. /\ <<l, k>> \in BatchesUsed <=> batch[l][k] = "consumed"
      /\ <<l, k>> \in BatchesUsed' <=> v = "consumed"
  BY <1>1 DEF BatchesUsed
<1>4. Need * Cardinality(BatchesUsed') = Need * Cardinality(BatchesUsed)
         - (IF <<l, k>> \in BatchesUsed THEN Need ELSE 0)
         + (IF <<l, k>> \in BatchesUsed' THEN Need ELSE 0)
  BY <1>2, OutFinite, OneElement
<1> QED BY <1>3, <1>4 DEF BatchesOut, MadeFrom

\* Units that come back of one line are counted one by one.
LEMMA UnitsComeBack ==
    ASSUME StockTypeOK, NEW l \in Lines, NEW q \in Nat, back[l] + q <= Need,
           back' = [back EXCEPT ![l] = back[l] + q]
    PROVE  CameBack' = CameBack + q
<1> DEFINE new == (back[l] + 1) .. (back[l] + q)
           more == {l} \X new
<1>1. back[l] \in Nat /\ Need \in Nat
  BY NeedAssumption DEF StockTypeOK
<1>2. \A m \in Lines : back'[m] = (IF m = l THEN back[l] + q ELSE back[m]) /\ back[m] \in Nat
  BY DEF StockTypeOK
<1>3. IsFiniteSet(new) /\ Cardinality(new) = q
  <2>1. back[l] + 1 \in Int /\ back[l] + q \in Int
    BY <1>1
  <2>2. /\ IsFiniteSet(new)
        /\ Cardinality(new) = IF back[l] + 1 > back[l] + q THEN 0
                              ELSE (back[l] + q) - (back[l] + 1) + 1
    BY <2>1, FS_Interval
  <2> QED BY <1>1, <2>2
<1>4. IsFiniteSet(more) /\ Cardinality(more) = q
  <2> HIDE DEF new
  <2>1. IsFiniteSet({l}) /\ Cardinality({l}) = 1
    BY FS_Singleton
  <2>2. IsFiniteSet(more) /\ Cardinality(more) = Cardinality({l}) * Cardinality(new)
    BY <1>3, <2>1, FS_Product
  <2> QED BY <1>3, <2>1, <2>2
<1>5. UnitsBack' = UnitsBack \cup more /\ UnitsBack \cap more = {}
  <2>1. ASSUME NEW m \in Lines, NEW n \in 1 .. Need
        PROVE  n <= back'[m] <=> n <= back[m] \/ (m = l /\ n \in new)
    BY <1>1, <1>2
  <2>2. \A n \in new : n \in 1 .. Need /\ ~(n <= back[l])
    BY <1>1
  <2> HIDE DEF new
  <2> QED BY <2>1, <2>2 DEF UnitsBack
<1> HIDE DEF more
<1>6. Cardinality(UnitsBack)' = Cardinality(UnitsBack) + Cardinality(more) - Cardinality(UnitsBack \cap more)
  BY <1>4, <1>5, OutFinite, FS_Union
<1>7. Cardinality(UnitsBack \cap more) = 0
  BY <1>5, FS_EmptySet
<1> QED BY <1>4, <1>6, <1>7, OutFinite DEF CameBack

\* On hand and out is what was supplied and what came back.
Balanced == onHand + LotsOut + BatchesOut = supplied + CameBack

\* What nobody touches stays as it was counted.
LEMMA OutKept ==
    /\ UNCHANGED lot => LotsOut' = LotsOut
    /\ UNCHANGED batch => BatchesOut' = BatchesOut
    /\ UNCHANGED back => CameBack' = CameBack
BY DEF LotsOut, LotsUsed, BatchesOut, BatchesUsed, CameBack, UnitsBack

\* Every transaction moves the quantity on hand by what it takes and brings back.
LEMMA OnHandStep ==
    ASSUME StockIInv, Balanced, [StockNext]_stockVars
    PROVE  Balanced'
<1>I. StockTypeOK /\ \A m \in Lines : LineInv(m)
  BY DEF StockIInv
<1>U. /\ LotsOut \in Nat /\ BatchesOut \in Nat /\ CameBack \in Nat /\ Need \in Nat
      /\ onHand \in Nat /\ supplied \in Int
  BY <1>I, OutIsNat, NeedAssumption DEF StockTypeOK
<1>S. /\ SpentBy("consumed") = Need /\ SpentBy("returned") = Need /\ SpentBy("sold") = Need
      /\ SpentBy("none") = 0 /\ SpentBy("reserved") = 0 /\ SpentBy("released") = 0
      /\ MadeFrom("consumed") = Need /\ \A s : s # "consumed" => MadeFrom(s) = 0
      /\ \A s : SpentBy(s) \in Nat /\ MadeFrom(s) \in Nat /\ HeldBy(s) \in Nat
      /\ HeldBy("reserved") = Need /\ \A s : s # "reserved" => HeldBy(s) = 0
  BY <1>U DEF SpentBy, Spent, MadeFrom, HeldBy
<1>L. ASSUME NEW l \in Lines, NEW v, lot' = [lot EXCEPT ![l] = v]
      PROVE  LotsOut' = LotsOut - SpentBy(lot[l]) + SpentBy(v)
  BY <1>I, <1>L, LotOutChanges
<1>M. ASSUME NEW l \in Lines, NEW k \in Tasks, NEW v, batch' = [batch EXCEPT ![l][k] = v]
      PROVE  BatchesOut' = BatchesOut - MadeFrom(batch[l][k]) + MadeFrom(v)
  BY <1>I, <1>M, BatchOutChanges
<1>R. ASSUME NEW l \in Lines, LotReleased(l), UNCHANGED <<back, batch>>
      PROVE  Balanced'
  <2>1. CASE lot[l] = "reserved" /\ Used(0, -Need) /\ Set(lot, l, "released")
    <3>1. LotsOut' = LotsOut - SpentBy(lot[l]) + SpentBy("released")
      BY <2>1, <1>L DEF Set
    <3>2. LotsOut' = LotsOut
      BY <2>1, <3>1, <1>S, <1>U
    <3>3. onHand' = onHand /\ supplied' = supplied
      BY <2>1, <1>U DEF Used, Moves
    <3> QED BY <1>R, <3>2, <3>3, OutKept DEF Balanced
  <2>2. CASE Kept /\ UNCHANGED lot
    BY <2>2, <1>R, OutKept DEF Kept, balance, Balanced
  <2> QED BY <1>R, <2>1, <2>2 DEF LotReleased
<1>E. ASSUME UNCHANGED <<onHand, supplied, lot, batch, back>>
      PROVE  Balanced'
  BY <1>E, OutKept DEF Balanced
<1>B. ASSUME NEW l \in Lines, NEW k \in Tasks, BatchReleased(l, k), UNCHANGED <<lot, back>>
      PROVE  Balanced'
  <2> DEFINE v == IF batch[l][k] = "reserved" THEN "released" ELSE batch[l][k]
  <2>1. batch' = [batch EXCEPT ![l][k] = v]
    BY <1>B DEF BatchReleased
  <2>2. MadeFrom(v) = MadeFrom(batch[l][k])
    BY DEF MadeFrom
  <2> HIDE DEF v
  <2>3. BatchesOut' = BatchesOut - MadeFrom(batch[l][k]) + MadeFrom(v)
    BY <2>1, <1>M
  <2>4. BatchesOut' = BatchesOut
    BY <2>2, <2>3, <1>S, <1>U
  <2>5. onHand' = onHand /\ supplied' = supplied
    BY <1>B, <1>U DEF BatchReleased, Used, Moves
  <2> QED BY <1>B, <2>4, <2>5, OutKept DEF Balanced
<1>1. CASE UNCHANGED stockVars
  BY <1>1, <1>E DEF stockVars, balance, material, kitchen
<1>2. ASSUME NEW l \in Lines, NEW mode \in Modes, Submit(l, mode)
      PROVE  Balanced'
  <2>0. lot[l] = "none"
    BY <1>2, <1>I DEF Submit, LineInv
  <2>1. CASE mode = "deferred"
    <3>1. LotsOut' = LotsOut - SpentBy(lot[l]) + SpentBy("sold")
      BY <1>2, <2>1, <1>L DEF Submit, Set
    <3>2. onHand' = onHand + (-Need) /\ supplied' = supplied
      BY <1>2, <2>1 DEF Submit, Used, Moves
    <3>3. LotsOut' = LotsOut + Need
      BY <2>0, <3>1, <1>S, <1>U
    <3> QED BY <1>2, <3>2, <3>3, OutKept, <1>U DEF Submit, Balanced
  <2>2. CASE mode # "deferred"
    <3>1. LotsOut' = LotsOut - SpentBy(lot[l]) + SpentBy("reserved")
      BY <1>2, <2>2, <1>L DEF Submit, Set
    <3>2. onHand' = onHand + 0 /\ supplied' = supplied
      BY <1>2, <2>2 DEF Submit, Used, Moves
    <3>3. LotsOut' = LotsOut
      BY <2>0, <3>1, <1>S, <1>U
    <3> QED BY <1>2, <3>2, <3>3, OutKept, <1>U DEF Submit, Balanced
  <2> QED BY <2>1, <2>2
<1>3. ASSUME NEW l \in Lines, \/ Release(l) \/ AbandonCheckout(l) \/ ResolveGift(l)
      PROVE  Balanced'
  BY <1>3, <1>R DEF Release, AbandonCheckout, ResolveGift, kitchen
<1>4. ASSUME NEW l \in Lines, ReserveAgain(l)
      PROVE  Balanced'
  <2>1. lot[l] = "released"
    BY <1>4, <1>I DEF ReserveAgain, LineInv
  <2>2. LotsOut' = LotsOut - SpentBy(lot[l]) + SpentBy("reserved")
    BY <1>4, <1>L DEF ReserveAgain, Set
  <2>3. onHand' = onHand + 0 /\ supplied' = supplied
    BY <1>4 DEF ReserveAgain, Used, Moves
  <2>4. LotsOut' = LotsOut
    BY <2>1, <2>2, <1>S, <1>U
  <2> QED BY <1>4, <2>3, <2>4, OutKept, <1>U DEF ReserveAgain, kitchen, Balanced
<1>5. ASSUME NEW l \in Lines, Pay(l)
      PROVE  Balanced'
  <2>1. CASE gate[l] = "awaiting" /\ ConsumeLot(l)
    <3>1. lot[l] = "reserved"
      BY <2>1, <1>I DEF LineInv
    <3>2. LotsOut' = LotsOut - SpentBy(lot[l]) + SpentBy("consumed")
      BY <2>1, <1>L DEF ConsumeLot, Set
    <3>3. onHand' = onHand + (-Need) /\ supplied' = supplied
      BY <2>1 DEF ConsumeLot, Used, Moves
    <3>4. LotsOut' = LotsOut + Need
      BY <3>1, <3>2, <1>S, <1>U
    <3> QED BY <1>5, <3>3, <3>4, OutKept, <1>U DEF Pay, Balanced
  <2>2. CASE Kept /\ UNCHANGED lot
    BY <1>5, <2>2, <1>E DEF Pay, Kept, balance
  <2> QED BY <1>5, <2>1, <2>2 DEF Pay
<1>6. ASSUME NEW l \in Lines, NEW k \in Tasks, StartTask(l, k)
      PROVE  Balanced'
  <2> DEFINE v == IF batch[l][k] = "reserved" THEN "consumed" ELSE batch[l][k]
             used == HeldBy(lot[l]) + HeldBy(batch[l][k])
  <2>1. LotsOut' = LotsOut + HeldBy(lot[l])
    <3>1. LotsOut' = LotsOut - SpentBy(lot[l]) + SpentBy(LotAfterStart(l))
      BY <1>6, <1>L DEF StartTask, Set
    <3>2. SpentBy(LotAfterStart(l)) = SpentBy(lot[l]) + HeldBy(lot[l])
      BY <1>6, <1>S, <1>U DEF StartTask, LotAfterStart
    <3> QED BY <3>1, <3>2, <1>S, <1>U
  <2>2. BatchesOut' = BatchesOut + HeldBy(batch[l][k])
    <3>1. batch' = [batch EXCEPT ![l][k] = v]
      BY <1>6 DEF StartTask
    <3>2. MadeFrom(v) = MadeFrom(batch[l][k]) + HeldBy(batch[l][k])
      BY <1>U DEF MadeFrom, HeldBy
    <3> HIDE DEF v
    <3>3. BatchesOut' = BatchesOut - MadeFrom(batch[l][k]) + MadeFrom(v)
      BY <3>1, <1>M
    <3> QED BY <3>2, <3>3, <1>S, <1>U
  <2>3. onHand' = onHand + (-used) /\ supplied' = supplied
    BY <1>6 DEF StartTask, Used, Moves
  <2>4. onHand' = onHand - HeldBy(lot[l]) - HeldBy(batch[l][k])
    BY <2>3, <1>S, <1>U
  <2>5. CameBack' = CameBack
    BY <1>6, OutKept DEF StartTask
  <2>6. HeldBy(lot[l]) \in Nat /\ HeldBy(batch[l][k]) \in Nat
    BY <1>S
  <2>7. supplied' = supplied
    BY <2>3
  <2> HIDE DEF used, v
  <2> QED BY <2>1, <2>2, <2>4, <2>5, <2>6, <2>7, <1>U DEF Balanced
<1>7. ASSUME NEW l \in Lines, NEW k \in Tasks, FailTask(l, k) \/ CancelTask(l, k)
      PROVE  Balanced'
  BY <1>7, <1>B DEF FailTask, CancelTask, material
<1>8. ASSUME NEW l \in Lines, NEW k \in Tasks, Remake(l, k)
      PROVE  Balanced'
  <2>1. CASE Used(0, Need) /\ batch' = [batch EXCEPT ![l][k + 1] = "reserved"]
    <3>1. k + 1 \in Tasks
      BY <1>8, MaxTasksAssumption DEF Remake, Tasks
    <3>2. batch[l][k + 1] = "none"
      BY <1>8, <3>1, <1>I DEF Remake, LineInv
    <3>3. BatchesOut' = BatchesOut - MadeFrom(batch[l][k + 1]) + MadeFrom("reserved")
      BY <2>1, <3>1, <1>M
    <3>4. onHand' = onHand + 0 /\ supplied' = supplied
      BY <2>1 DEF Used, Moves
    <3>5. BatchesOut' = BatchesOut
      BY <3>2, <3>3, <1>S, <1>U
    <3> QED BY <1>8, <3>4, <3>5, OutKept, <1>U DEF Remake, material, Balanced
  <2>2. CASE Kept /\ UNCHANGED batch
    BY <1>8, <2>2, <1>E DEF Remake, Kept, balance, material
  <2> QED BY <1>8, <2>1, <2>2 DEF Remake
<1>9. ASSUME NEW l \in Lines, CancelUnpaid(l)
      PROVE  Balanced'
  <2>1. CASE LotReleased(l)
    BY <1>9, <2>1, <1>R DEF CancelUnpaid
  <2>2. CASE Kept /\ UNCHANGED lot
    BY <1>9, <2>2, <1>E DEF CancelUnpaid, Kept, balance
  <2> QED BY <1>9, <2>1, <2>2 DEF CancelUnpaid
<1>10. ASSUME NEW l \in Lines, RecordRefund(l)
      PROVE  Balanced'
  <2>1. CASE Kept /\ UNCHANGED <<gate, material, item, task, batch>>
    BY <2>1, <1>E DEF Kept, balance, material
  <2>2. CASE StopLine(l)
    <3> DEFINE v == CASE lot[l] = "reserved" -> "released" [] lot[l] = "consumed" -> "returned"
                      [] OTHER -> lot[l]
               again == IF Returnable(l) THEN StillOut(l) ELSE 0
               freed == HeldBy(lot[l]) + Need * Cardinality(BatchesHeld({l}))
    <3>1. lot' = [lot EXCEPT ![l] = v] /\ SpentBy(v) = SpentBy(lot[l])
      BY <2>2, <1>S DEF StopLine, Set
    <3>2. LotsOut' = LotsOut
      <4> HIDE DEF v
      <4>1. LotsOut' = LotsOut - SpentBy(lot[l]) + SpentBy(v)
        BY <3>1, <1>L
      <4> QED BY <3>1, <4>1, <1>S, <1>U
    <3>3. again \in Nat /\ back[l] + again <= Need
      BY <1>I, <1>U DEF StillOut, StockTypeOK
    <3>4. back' = [back EXCEPT ![l] = back[l] + again]
      BY <2>2 DEF StopLine, Set
    <3>5. onHand' = onHand + again /\ supplied' = supplied
      BY <2>2 DEF StopLine, Used, Moves
    <3> HIDE DEF again, v, freed
    <3>6. CameBack' = CameBack + again
      BY <1>I, <3>3, <3>4, UnitsComeBack
    <3>7. \A m \in Lines, k \in Tasks :
             batch'[m][k] = IF m = l /\ batch[m][k] = "reserved" THEN "released" ELSE batch[m][k]
      BY <2>2, <1>I DEF StopLine, Set, StockTypeOK
    <3>8. BatchesOut' = BatchesOut
      BY <3>7 DEF BatchesOut, BatchesUsed
    <3> QED BY <3>2, <3>3, <3>5, <3>6, <3>8, <1>U DEF Balanced
  <2> QED BY <1>10, <2>1, <2>2 DEF RecordRefund
<1>11. ASSUME NEW l \in Lines, NEW q \in 1 .. Need, NEW unused \in BOOLEAN, ReturnPieces(l, q, unused)
      PROVE  Balanced'
  <2>1. q \in Nat /\ back[l] + q <= Need /\ back' = [back EXCEPT ![l] = back[l] + q]
    BY <1>11, <1>U DEF ReturnPieces, WithinLine, Set
  <2>2. CameBack' = CameBack + q
    BY <1>I, <2>1, UnitsComeBack
  <2>3. onHand' = onHand + q /\ supplied' = supplied
    BY <1>11 DEF ReturnPieces, Used, Moves
  <2> QED BY <1>11, <2>1, <2>2, <2>3, OutKept, <1>U DEF ReturnPieces, kitchen, Balanced
<1>12. CASE TurnOver
  <2>1. \A m \in Lines : lot'[m] = lot[m] \/ (lot[m] = "reserved" /\ lot'[m] = "released")
    BY <1>12 DEF TurnOver, LotsHeld
  <2>2. LotsUsed' = LotsUsed
    BY <2>1 DEF LotsUsed, Spent
  <2>3. onHand' = onHand + 0 /\ supplied' = supplied
    BY <1>12 DEF TurnOver, Used, Moves
  <2> QED BY <1>12, <2>2, <2>3, OutKept, <1>U DEF TurnOver, LotsOut, Balanced
<1>13. CASE ReceivePurchase \/ RecordWaste
  <2>1. \/ onHand' = onHand + 1 /\ supplied' = supplied + 1
        \/ onHand' = onHand + (-1) /\ supplied' = supplied - 1
    BY <1>13 DEF ReceivePurchase, RecordWaste, Moves
  <2>2. UNCHANGED <<lot, batch, back>>
    BY <1>13 DEF ReceivePurchase, RecordWaste, material, kitchen
  <2> QED BY <2>1, <2>2, OutKept, <1>U DEF Balanced
<1>14. CASE ApproveCount
  <2>1. onHand' = count.counted /\ supplied' = supplied + (count.counted - onHand)
    BY <1>14 DEF ApproveCount, CountStands
  <2>2. UNCHANGED <<lot, batch, back>> /\ count.counted \in Nat
    BY <1>14, <1>I DEF ApproveCount, material, kitchen, StockTypeOK
  <2>3. LotsOut' = LotsOut /\ BatchesOut' = BatchesOut /\ CameBack' = CameBack
    BY <2>2, OutKept
  <2>4. \A c \in Nat : onHand' = c /\ supplied' = supplied + (c - onHand) => Balanced'
    BY <2>3, <1>U DEF Balanced
  <2> QED BY <2>1, <2>2, <2>4
<1>15. CASE RejectCount \/ \E c \in {onHand - 1, onHand, onHand + 1} : CreateCount(c)
  BY <1>15, <1>E DEF RejectCount, CreateCount, material, kitchen
<1>16. ASSUME NEW l \in Lines, \/ DispatchGift(l) \/ Deliver(l) \/ RefundPart(l) \/ PayOut(l)
                               \/ \E k \in Tasks : FinishTask(l, k)
      PROVE  Balanced'
  BY <1>16, <1>E DEF DispatchGift, Deliver, RefundPart, PayOut, FinishTask, balance, material, kitchen
<1> QED BY <1>1, <1>2, <1>3, <1>4, <1>5, <1>6, <1>7, <1>8, <1>9, <1>10, <1>11, <1>12, <1>13,
           <1>14, <1>15, <1>16 DEF StockNext

\* Stock is never lost or invented: at every moment, what is on hand and what lines took
\* is what was supplied and what came back, whatever the order of sales, remakes,
\* refunds, returns, turnovers and counts.
THEOREM StockIsAccountedFor == StockSpec => []StockIsExplained
<1>1. StockInit => Balanced
  <2> SUFFICES ASSUME StockInit PROVE Balanced
    OBVIOUS
  <2>1. LotsUsed = {} /\ BatchesUsed = {} /\ UnitsBack = {}
    BY NeedAssumption DEF StockInit, LotsUsed, BatchesUsed, UnitsBack, Spent
  <2>2. LotsOut = Need * 0 /\ BatchesOut = Need * 0 /\ CameBack = 0
    BY <2>1, FS_EmptySet DEF LotsOut, BatchesOut, CameBack
  <2>3. onHand = Opening /\ supplied = Opening
    BY DEF StockInit
  <2> QED BY <2>2, <2>3, NeedAssumption, SupplyAssumption DEF Balanced
<1>2. StockIInv /\ Balanced /\ [StockNext]_stockVars => Balanced'
  BY OnHandStep
<1>3. Balanced => StockIsExplained
  BY DEF Balanced, StockIsExplained, LotsOut, BatchesOut, CameBack
<1> QED BY <1>1, <1>2, <1>3, LinesHold, PTL DEF StockSpec
=============================================================================

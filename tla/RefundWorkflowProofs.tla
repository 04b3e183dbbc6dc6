------------------------ MODULE RefundWorkflowProofs ------------------------
(***************************************************************************)
(* Theorems of RefundWorkflow for every set of refunds, payments, items    *)
(* and employees.                                                          *)
(***************************************************************************)
EXTENDS RefundWorkflow, FiniteSetTheorems, TLAPS

\* The amounts of all refunds.
RefundAmounts == [Refunds -> Amounts]

----------------------------------------------------------------------------
(* Amounts                                                                 *)

\* A refund reserves finitely many minor units.
LEMMA CoinsFinite ==
    ASSUME NEW a \in RefundAmounts, NEW S \in SUBSET Refunds, NEW I \in SUBSET Items
    PROVE  IsFiniteSet(Coins(a, S, I))
<1> DEFINE f == [c \in S \X I |-> {c} \X (1 .. a[c[1]][c[2]])]
           T == {f[c] : c \in S \X I}
<1>1. IsFiniteSet(S) /\ IsFiniteSet(I)
    BY FiniteRefunds, FS_Subset
<1>2. IsFiniteSet(S \X I)
    BY <1>1, FS_Product
<1>3. f \in Surjection(S \X I, T)
    BY DEF Surjection
<1>4. IsFiniteSet(T)
    BY <1>2, <1>3, FS_Surjection
<1>5. ASSUME NEW c \in S \X I PROVE IsFiniteSet(f[c])
    <2>1. c[1] \in Refunds /\ c[2] \in Items
        OBVIOUS
    <2>2. a[c[1]][c[2]] \in Nat
        BY <2>1 DEF RefundAmounts, Amounts
    <2>3. IsFiniteSet(1 .. a[c[1]][c[2]])
        BY <2>2, FS_Interval
    <2>4. IsFiniteSet({c})
        BY FS_Singleton
    <2>5. QED BY <2>3, <2>4, FS_Product
<1>6. IsFiniteSet(UNION T)
    BY <1>4, <1>5, FS_UNION
<1>7. Coins(a, S, I) = UNION T
    BY DEF Coins
<1>8. QED BY <1>6, <1>7

\* Fewer refunds with the same amounts reserve no more, and an amount is a number.
LEMMA AmountShrinks ==
    ASSUME NEW a \in RefundAmounts, NEW b,
           NEW S \in SUBSET Refunds, NEW T \in SUBSET S, NEW I \in SUBSET Items,
           \A r \in T, i \in I : b[r][i] = a[r][i]
    PROVE  /\ Amount(a, S, I) \in Nat /\ Amount(b, T, I) \in Nat
           /\ Amount(b, T, I) <= Amount(a, S, I)
<1>1. IsFiniteSet(Coins(a, S, I))
    BY CoinsFinite
<1>2. Coins(b, T, I) \subseteq Coins(a, S, I)
    BY DEF Coins
<1>3. /\ IsFiniteSet(Coins(b, T, I))
      /\ Cardinality(Coins(b, T, I)) <= Cardinality(Coins(a, S, I))
    BY <1>1, <1>2, FS_Subset
<1>4. QED BY <1>1, <1>3, FS_CardinalityType DEF Amount

\* Refunds that keep their amounts reserve the same.
LEMMA AmountKept ==
    ASSUME NEW a, NEW b, NEW S, NEW I, \A r \in S, i \in I : b[r][i] = a[r][i]
    PROVE  Amount(b, S, I) = Amount(a, S, I)
<1>1. Coins(b, S, I) = Coins(a, S, I)
    BY DEF Coins
<1>2. QED BY <1>1 DEF Amount

\* A refund without an amount on any item of I reserves nothing of I.
LEMMA AmountOfOthers ==
    ASSUME NEW a \in RefundAmounts, NEW S \in SUBSET Refunds, NEW r \in Refunds,
           NEW I \in SUBSET Items, \A i \in I : a[r][i] = 0
    PROVE  Amount(a, S \cup {r}, I) = Amount(a, S \ {r}, I)
<1>1. \A c \in {r} \X I : {c} \X (1 .. a[c[1]][c[2]]) = {}
    <2>1. 1 .. 0 = {}
        OBVIOUS
    <2>2. \A c \in {r} \X I : a[c[1]][c[2]] = 0
        OBVIOUS
    <2>3. QED BY <2>1, <2>2
<1>2. Coins(a, S \cup {r}, I) = Coins(a, S \ {r}, I)
    <2>1. \A c \in (S \cup {r}) \X I : c \in (S \ {r}) \X I \/ c \in {r} \X I
        OBVIOUS
    <2>2. (S \ {r}) \X I \subseteq (S \cup {r}) \X I
        OBVIOUS
    <2>3. QED BY <1>1, <2>1, <2>2 DEF Coins
<1>3. QED BY <1>2 DEF Amount

----------------------------------------------------------------------------
(* The shape of the steps.                                                 *)

\* The amounts a request may name are natural numbers.
LEMMA AllocationsAreAmounts == Allocations \subseteq Amounts
<1>1. \A i \in Items : 0 .. Price[i] \subseteq Nat
    BY PriceAssumption
<1>2. QED BY <1>1 DEF Allocations, Amounts

\* Every step keeps the domains of all tables.
LEMMA TypeStep == TypeOK /\ [Next]_vars => TypeOK'
<1> SUFFICES ASSUME TypeOK, [Next]_vars PROVE TypeOK'
    OBVIOUS
<1>1. CASE UNCHANGED vars
    BY <1>1 DEF TypeOK, vars
<1>2. CASE Next
    <2>1. ASSUME NEW r \in Refunds, NEW p \in Payments, NEW f \in Amounts,
                 NEW s \in Staff, NEW inCase \in BOOLEAN, Request(r, p, f, s, inCase)
          PROVE  TypeOK'
        BY <2>1 DEF Request, Insert, TypeOK, wireVars, bookVars
    <2>2. ASSUME NEW r \in Refunds, NEW s \in Staff, Approve(r, s) \/ Reject(r, s)
          PROVE  TypeOK'
        BY <2>2 DEF Approve, Reject, Begun, TypeOK, rowVars, wireVars, bookVars
    <2>3. ASSUME NEW r \in Refunds, Withdraw(r) \/ BeginExecution(r) PROVE TypeOK'
        BY <2>3 DEF Withdraw, BeginExecution, TypeOK, rowVars, wireVars, bookVars
    <2>4. ASSUME NEW r \in Refunds, Claim(r) \/ ChannelTakes(r) \/ ChannelEnds(r)
          PROVE  TypeOK'
        BY <2>4 DEF Claim, ChannelTakes, ChannelEnds, TypeOK, rowVars, bookVars
    <2>5. ASSUME NEW r \in Refunds, RejectionReturns(r) \/ Query(r) \/ Callback(r)
          PROVE  TypeOK'
        <3>1. Verdict(r) \in Terminal /\ "failed" \in Terminal
            BY DEF Verdict, Terminal
        <3>2. unread' \in [Refunds -> SUBSET Terminal]
            BY <2>5, <3>1 DEF RejectionReturns, Query, Callback, Observe, TypeOK
        <3>3. QED
            BY <2>5, <3>2 DEF RejectionReturns, Query, Callback, TypeOK, rowVars, bookVars
    <2>6. ASSUME NEW r \in Refunds, NEW k \in Terminal,
                 ApplyResult(r, k) \/ ManualResult(r, k)
          PROVE  TypeOK'
        <3>1. \A p, S : SyncedStatus(p, S) \in {"succeeded", "partially_refunded", "refunded"}
            BY DEF SyncedStatus
        <3>2. /\ status' \in [Refunds -> {"none", "requested", "approved", "rejected",
                               "cancelled", "processing", "succeeded", "failed"}]
              /\ ledger' \subseteq Refunds
              /\ payStatus' \in [Payments -> {"succeeded", "partially_refunded", "refunded"}]
            <4>1. CASE Complete(r, k)
                BY <3>1, <4>1 DEF Complete, TypeOK, Terminal, bookVars
            <4>2. CASE UNCHANGED <<status, bookVars>>
                BY <4>2 DEF TypeOK, bookVars
            <4>3. QED BY <2>6, <4>1, <4>2 DEF ApplyResult, ManualResult
        <3>3. /\ unread' \in [Refunds -> SUBSET Terminal]
              /\ consumed' \in [Refunds -> SUBSET Terminal]
            BY <2>6 DEF ApplyResult, ManualResult, TypeOK, wireVars
        <3>4. QED
            BY <2>6, <3>2, <3>3 DEF ApplyResult, ManualResult, TypeOK, rowVars, wireVars
    <2>7. ASSUME NEW r \in Refunds, NEW x \in Refunds, Retry(r, x) PROVE TypeOK'
        <3>1. payment[r] \in Payments \cup {None} /\ alloc[r] \in Amounts
            BY DEF TypeOK
        <3>2. QED
            BY <2>7, <3>1 DEF Retry, Insert, Begun, TypeOK, wireVars, bookVars
    <2>8. QED BY <1>2, <2>1, <2>2, <2>3, <2>4, <2>5, <2>6, <2>7,
                 AllocationsAreAmounts DEF Next
<1>3. QED BY <1>1, <1>2

\* Every table keeps its domains.
THEOREM TypeCorrect == Spec => []TypeOK
<1>1. Init => TypeOK
    BY NobodyAssumption DEF Init, TypeOK, Amounts
<1>2. QED BY <1>1, TypeStep, PTL DEF Spec

----------------------------------------------------------------------------
(* The inductive invariant: what the rows say of each other, what the      *)
(* answers of the channel say of its state, the books, and the funds.      *)

\* What is on its way to or from the channel agrees with the channel's own state.
WireAgrees ==
    \A r \in Refunds :
       /\ r \in submitted <=> channel[r] # "idle"
       /\ r \in submitted =>
             status[r] \in {"processing"} \cup Terminal /\ Provider[payment[r]] = "postar"
       /\ "succeeded" \in unread[r] \cup consumed[r] => channel[r] = "returned"
       /\ "failed" \in unread[r] \cup consumed[r] => channel[r] \in {"refused", "failed"}
       /\ r \in rejections => channel[r] = "refused"

\* A refund replaces only one that failed, and nothing is linked to a row that is not there.
ReplacementsAgree ==
    \A r \in Refunds :
       /\ retryOf[r] # None => status[r] # "none" /\ status[retryOf[r]] = "failed"
       /\ status[r] = "none" => r \notin linked

\* The part of the inductive invariant that needs no sums.
Rows == TypeOK /\ RowsAgree /\ WireAgrees /\ ReplacementsAgree

\* Every step keeps it.
LEMMA RowsStep == Rows /\ [Next]_vars => Rows'
<1> SUFFICES ASSUME Rows, [Next]_vars PROVE Rows'
    OBVIOUS
<1> USE DEF Rows
<1>0. TypeOK'
    BY TypeStep
<1>1. CASE UNCHANGED vars
    BY <1>0, <1>1 DEF RowsAgree, WireAgrees, ReplacementsAgree, vars
<1>2. CASE Next
    <2>1. ASSUME NEW r \in Refunds, NEW p \in Payments, NEW f \in Amounts,
                 NEW s \in Staff, NEW inCase \in BOOLEAN, Request(r, p, f, s, inCase)
          PROVE  (RowsAgree /\ WireAgrees /\ ReplacementsAgree)'
        <3>1. RowsAgree'
            BY <2>1, NobodyAssumption
            DEF Request, Insert, TypeOK, RowsAgree, wireVars, bookVars, Terminal
        <3>2. WireAgrees'
            BY <2>1 DEF Request, Insert, TypeOK, WireAgrees, wireVars, bookVars, Terminal
        <3>3. ReplacementsAgree'
            BY <2>1 DEF Request, Insert, TypeOK, RowsAgree, ReplacementsAgree, wireVars, bookVars
        <3>4. QED BY <3>1, <3>2, <3>3
    <2>2. ASSUME NEW r \in Refunds, NEW s \in Staff, Approve(r, s) \/ Reject(r, s)
          PROVE  (RowsAgree /\ WireAgrees /\ ReplacementsAgree)'
        <3>1. status[r] = "requested" /\ Begun(r) \in {"processing", "approved"}
            BY <2>2 DEF Approve, Reject, MayDecide, Begun
        <3>2. RowsAgree'
            BY <2>2, <3>1, NobodyAssumption
            DEF Approve, Reject, MayDecide, TypeOK, RowsAgree, rowVars, wireVars, Terminal
        <3>3. WireAgrees'
            BY <2>2, <3>1 DEF Approve, Reject, TypeOK, WireAgrees, rowVars, wireVars, Terminal
        <3>4. ReplacementsAgree'
            BY <2>2, <3>1 DEF Approve, Reject, TypeOK, ReplacementsAgree, rowVars
        <3>5. QED BY <3>2, <3>3, <3>4
    <2>3. ASSUME NEW r \in Refunds, Withdraw(r) \/ BeginExecution(r)
          PROVE  (RowsAgree /\ WireAgrees /\ ReplacementsAgree)'
        <3>1. RowsAgree'
            BY <2>3 DEF Withdraw, BeginExecution, TypeOK, RowsAgree, rowVars, Terminal
        <3>2. WireAgrees'
            BY <2>3 DEF Withdraw, BeginExecution, TypeOK, WireAgrees, rowVars, wireVars, Terminal
        <3>3. ReplacementsAgree'
            BY <2>3 DEF Withdraw, BeginExecution, TypeOK, ReplacementsAgree, rowVars
        <3>4. QED BY <3>1, <3>2, <3>3
    <2>4. ASSUME NEW r \in Refunds, Claim(r) \/ ChannelTakes(r) \/ ChannelEnds(r)
          PROVE  (RowsAgree /\ WireAgrees /\ ReplacementsAgree)'
        <3>1. RowsAgree' /\ ReplacementsAgree'
            BY <2>4 DEF Claim, ChannelTakes, ChannelEnds, RowsAgree, ReplacementsAgree, rowVars
        <3>2. WireAgrees'
            BY <2>4
            DEF Claim, Executable, ChannelTakes, ChannelEnds, TypeOK, WireAgrees, rowVars
        <3>3. QED BY <3>1, <3>2
    <2>5. ASSUME NEW r \in Refunds, RejectionReturns(r) \/ Query(r) \/ Callback(r)
          PROVE  (RowsAgree /\ WireAgrees /\ ReplacementsAgree)'
        <3>1. RowsAgree' /\ ReplacementsAgree'
            BY <2>5 DEF RejectionReturns, Query, Callback, RowsAgree, ReplacementsAgree, rowVars
        <3>2. WireAgrees'
            BY <2>5
            DEF RejectionReturns, Query, Callback, Observe, Verdict, Ended, TypeOK,
                WireAgrees, rowVars
        <3>3. QED BY <3>1, <3>2
    <2>6. ASSUME NEW r \in Refunds, NEW k \in Terminal,
                 ApplyResult(r, k) \/ ManualResult(r, k)
          PROVE  (RowsAgree /\ WireAgrees /\ ReplacementsAgree)'
        <3>1. \/ status[r] = "processing" /\ status' = [status EXCEPT ![r] = k]
              \/ status' = status
            BY <2>6 DEF ApplyResult, ManualResult, Complete
        <3>2. UNCHANGED <<rowVars, approver, submitted, channel, rejections>>
            BY <2>6 DEF ApplyResult, ManualResult, wireVars
        <3>3. RowsAgree'
            BY <3>1, <3>2 DEF TypeOK, RowsAgree, rowVars, Terminal
        <3>4. \A x \in Refunds : unread'[x] \cup consumed'[x] \subseteq unread[x] \cup consumed[x]
            BY <2>6 DEF ApplyResult, ManualResult, TypeOK, wireVars
        <3>5. WireAgrees'
            BY <3>1, <3>2, <3>4 DEF TypeOK, WireAgrees, rowVars
        <3>6. ReplacementsAgree'
            BY <3>1, <3>2 DEF TypeOK, ReplacementsAgree, rowVars, Terminal
        <3>7. QED BY <3>3, <3>5, <3>6
    <2>7. ASSUME NEW r \in Refunds, NEW x \in Refunds, Retry(r, x)
          PROVE  (RowsAgree /\ WireAgrees /\ ReplacementsAgree)'
        <3>1. /\ status[r] = "failed" /\ status[x] = "none" /\ x # r
              /\ Begun(r) \in {"processing", "approved"}
            BY <2>7 DEF Retry, RetryEligible, Insert, Begun
        <3>2. /\ payment' = [payment EXCEPT ![x] = payment[r]]
              /\ requester' = [requester EXCEPT ![x] = requester[r]]
              /\ status' = [status EXCEPT ![x] = Begun(r)]
              /\ approver' = [approver EXCEPT ![x] = approver[r]]
              /\ linked' = linked \cup {x}
              /\ retryOf' = [retryOf EXCEPT ![x] = r]
              /\ UNCHANGED wireVars
            BY <2>7 DEF Retry, Insert
        <3>3. RowsAgree'
            BY <3>1, <3>2, NobodyAssumption DEF TypeOK, RowsAgree, Terminal
        <3>4. WireAgrees'
            BY <3>1, <3>2 DEF TypeOK, WireAgrees, wireVars, Terminal
        <3>5. ReplacementsAgree'
            BY <3>1, <3>2 DEF TypeOK, ReplacementsAgree
        <3>6. QED BY <3>3, <3>4, <3>5
    <2>8. QED BY <1>0, <1>2, <2>1, <2>2, <2>3, <2>4, <2>5, <2>6, <2>7,
                 AllocationsAreAmounts DEF Next
<1>3. QED BY <1>1, <1>2

\* It holds before any refund.
LEMMA RowsInit == Init => Rows
<1> SUFFICES ASSUME Init PROVE Rows
    OBVIOUS
<1>1. TypeOK
    BY NobodyAssumption DEF Init, TypeOK, Amounts
<1>2. RowsAgree /\ WireAgrees /\ ReplacementsAgree
    BY DEF Init, RowsAgree, WireAgrees, ReplacementsAgree, Terminal
<1>3. QED BY <1>1, <1>2 DEF Rows

\* So it always holds.
LEMMA RowsHold == Spec => []Rows
<1>1. QED BY RowsInit, RowsStep, PTL DEF Spec

----------------------------------------------------------------------------
(* The books                                                               *)

\* The sum of a payment's refunds S, with amounts a and payments m, and its status.
BackOf(a, m, p, S) == Amount(a, {r \in S : m[r] = p}, Items)
\* The status of a payment of which so much went back.
StatusFor(back, p) ==
    IF back >= Captured[p] THEN "refunded"
    ELSE IF back > 0 THEN "partially_refunded" ELSE "succeeded"

\* syncPaymentRefundStatus sets the status of that sum.
LEMMA SyncedIs ==
    /\ \A p, S : SyncedStatus(p, S) = StatusFor(BackOf(alloc, payment, p, S), p)
    /\ \A p, S : SyncedStatus(p, S)' = StatusFor(BackOf(alloc', payment', p, S'), p)
<1>1. QED BY DEF SyncedStatus, BackOf, StatusFor

\* The sum depends only on the payment's own refunds and their amounts.
LEMMA BackKept ==
    ASSUME NEW a, NEW b, NEW m, NEW n, NEW p, NEW S, NEW T,
           {r \in S : m[r] = p} = {r \in T : n[r] = p},
           \A r \in S : m[r] = p => a[r] = b[r]
    PROVE  BackOf(b, n, p, T) = BackOf(a, m, p, S)
<1> DEFINE R == {r \in S : m[r] = p}
<1>1. Amount(b, R, Items) = Amount(a, R, Items)
    BY AmountKept
<1>2. QED BY <1>1 DEF BackOf

\* The refunds that were paid out.
SucceededRefunds == {r \in Refunds : status[r] = "succeeded"}

\* What one step does to the books: nothing while no refund succeeds, and the entry
\* and the new status of its payment for the one refund that does.
LEMMA BooksFollow ==
    ASSUME BooksMatchTheChannel,
           \A r \in SucceededRefunds : payment'[r] = payment[r] /\ alloc'[r] = alloc[r],
           UNCHANGED bookVars, SucceededRefunds' = SucceededRefunds
    PROVE  /\ ledger' = SucceededRefunds'
           /\ \A p \in Payments : payStatus'[p] = SyncedStatus(p, ledger)'
<1>1. ledger = SucceededRefunds /\ ledger' = ledger /\ payStatus' = payStatus
    BY DEF BooksMatchTheChannel, SucceededRefunds, bookVars
<1>2. ASSUME NEW p \in Payments
      PROVE  BackOf(alloc', payment', p, ledger') = BackOf(alloc, payment, p, ledger)
    <2>1. {r \in ledger : payment[r] = p} = {r \in ledger' : payment'[r] = p}
        BY <1>1
    <2>2. \A r \in ledger : payment[r] = p => alloc[r] = alloc'[r]
        BY <1>1
    <2>3. QED BY <2>1, <2>2, BackKept
<1>3. ASSUME NEW p \in Payments PROVE payStatus'[p] = SyncedStatus(p, ledger)'
    <2>1. payStatus[p] = SyncedStatus(p, ledger)
        BY DEF BooksMatchTheChannel
    <2>2. QED BY <1>1, <1>2, <2>1, SyncedIs
<1>4. QED BY <1>1, <1>3

\* A success adds its entry and sets the status of its payment.
LEMMA BooksComplete ==
    ASSUME TypeOK, BooksMatchTheChannel, NEW r \in Refunds, status[r] = "processing",
           Complete(r, "succeeded"), UNCHANGED <<payment, alloc>>
    PROVE  /\ ledger' = SucceededRefunds'
           /\ \A p \in Payments : payStatus'[p] = SyncedStatus(p, ledger)'
<1> DEFINE done == {x \in Refunds : status[x] = "succeeded"} \cup {r}
<1>1. ledger = {x \in Refunds : status[x] = "succeeded"}
    BY DEF BooksMatchTheChannel
<1>2. /\ ledger' = done
      /\ payStatus' = [payStatus EXCEPT ![payment[r]] = SyncedStatus(payment[r], done)]
      /\ status' = [status EXCEPT ![r] = "succeeded"]
    BY <1>1 DEF Complete
<1>3. ledger' = SucceededRefunds'
    BY <1>2 DEF SucceededRefunds, TypeOK
<1>4. ASSUME NEW p \in Payments PROVE payStatus'[p] = SyncedStatus(p, ledger)'
    <2>1. SyncedStatus(p, ledger)' = StatusFor(BackOf(alloc, payment, p, done), p)
        BY <1>2, SyncedIs
    <2>2. CASE p = payment[r]
        <3>1. payStatus'[p] = SyncedStatus(p, done)
            BY <1>2, <2>2 DEF TypeOK
        <3>2. QED BY <2>1, <3>1, SyncedIs
    <2>3. CASE p # payment[r]
        <3>1. {x \in done : payment[x] = p} = {x \in ledger : payment[x] = p}
            BY <1>1, <2>3
        <3>2. BackOf(alloc, payment, p, done) = BackOf(alloc, payment, p, ledger)
            BY <3>1 DEF BackOf
        <3>3. payStatus'[p] = payStatus[p]
            BY <1>2, <2>3 DEF TypeOK
        <3>4. payStatus[p] = SyncedStatus(p, ledger)
            BY DEF BooksMatchTheChannel
        <3>5. QED BY <2>1, <3>2, <3>3, <3>4, SyncedIs
    <2>4. QED BY <2>2, <2>3
<1>5. QED BY <1>3, <1>4

\* A finished online refund agrees with the channel.
OnlineEnds ==
    \A r \in Refunds :
       status[r] \in Terminal /\ Provider[payment[r]] = "postar" =>
          channel[r] \in (IF status[r] = "succeeded" THEN {"returned"}
                         ELSE {"refused", "failed"})

\* BooksMatchTheChannel in these terms.
LEMMA BooksAre ==
    BooksMatchTheChannel <=>
       /\ ledger = SucceededRefunds
       /\ \A p \in Payments : payStatus[p] = SyncedStatus(p, ledger)
       /\ OnlineEnds
<1>1. QED BY DEF BooksMatchTheChannel, SucceededRefunds, OnlineEnds

\* Every step keeps the books.
LEMMA BooksStep == Rows /\ BooksMatchTheChannel /\ [Next]_vars => BooksMatchTheChannel'
<1> SUFFICES ASSUME Rows, BooksMatchTheChannel, [Next]_vars PROVE BooksMatchTheChannel'
    OBVIOUS
<1> USE DEF Rows
<1>0. Rows' /\ OnlineEnds
    BY RowsStep, BooksAre
<1> DEFINE Entries == /\ ledger' = SucceededRefunds'
                      /\ \A p \in Payments : payStatus'[p] = SyncedStatus(p, ledger)'
<1>1. ASSUME UNCHANGED vars PROVE Entries /\ OnlineEnds'
    <2>1. Entries
        BY <1>1, BooksFollow DEF vars, bookVars, SucceededRefunds
    <2>2. QED BY <1>0, <1>1, <2>1 DEF OnlineEnds, vars
<1>2. ASSUME NEW r \in Refunds, NEW p \in Payments, NEW f \in Amounts,
             NEW s \in Staff, NEW inCase \in BOOLEAN, Request(r, p, f, s, inCase)
      PROVE  Entries /\ OnlineEnds'
    <2>1. SucceededRefunds' = SucceededRefunds /\ r \notin SucceededRefunds
        BY <1>2 DEF Request, Insert, SucceededRefunds, TypeOK
    <2>2. \A x \in SucceededRefunds : payment'[x] = payment[x] /\ alloc'[x] = alloc[x]
        BY <1>2, <2>1 DEF Request, Insert, SucceededRefunds, TypeOK
    <2>3. UNCHANGED bookVars
        BY <1>2 DEF Request
    <2>4. Entries
        BY <2>1, <2>2, <2>3, BooksFollow
    <2>5. OnlineEnds'
        BY <1>0, <1>2 DEF OnlineEnds, Request, Insert, TypeOK, Terminal, wireVars
    <2>6. QED BY <2>4, <2>5
<1>3. ASSUME NEW r \in Refunds,
             \/ \E s \in Staff : Approve(r, s) \/ Reject(r, s)
             \/ Withdraw(r) \/ BeginExecution(r)
      PROVE  Entries /\ OnlineEnds'
    <2>1. /\ status[r] \in {"requested", "approved"}
          /\ \E c \in {"processing", "approved", "rejected", "cancelled"} :
                status' = [status EXCEPT ![r] = c]
          /\ UNCHANGED <<rowVars, wireVars, bookVars>>
        BY <1>3
        DEF Approve, Reject, MayDecide, Begun, Withdraw, BeginExecution
    <2>2. SucceededRefunds' = SucceededRefunds
        BY <2>1 DEF SucceededRefunds, TypeOK
    <2>3. Entries
        BY <2>1, <2>2, BooksFollow DEF rowVars
    <2>4. OnlineEnds'
        BY <1>0, <2>1 DEF OnlineEnds, TypeOK, Terminal, rowVars, wireVars
    <2>5. QED BY <2>3, <2>4
<1>4. ASSUME NEW r \in Refunds,
             \/ Claim(r) \/ ChannelTakes(r) \/ ChannelEnds(r)
             \/ RejectionReturns(r) \/ Query(r) \/ Callback(r)
      PROVE  Entries /\ OnlineEnds'
    <2>1. UNCHANGED <<status, rowVars, bookVars>>
        BY <1>4 DEF Claim, ChannelTakes, ChannelEnds, RejectionReturns, Query, Callback
    <2>2. Entries
        BY <2>1, BooksFollow DEF rowVars, SucceededRefunds
    <2>3. \A x \in Refunds : channel[x] \in {"returned", "refused", "failed"} =>
                channel'[x] = channel[x]
        BY <1>4
        DEF Claim, ChannelTakes, ChannelEnds, RejectionReturns, Query, Callback, TypeOK,
            WireAgrees
    <2>4. OnlineEnds'
        BY <1>0, <2>1, <2>3 DEF OnlineEnds, rowVars
    <2>5. QED BY <2>2, <2>4
<1>5. ASSUME NEW r \in Refunds, NEW k \in Terminal,
             ApplyResult(r, k) \/ ManualResult(r, k)
      PROVE  Entries /\ OnlineEnds'
    <2>1. UNCHANGED <<rowVars, channel>>
        BY <1>5 DEF ApplyResult, ManualResult, wireVars
    <2>2. CASE UNCHANGED <<status, bookVars>>
        <3>1. Entries
            BY <2>1, <2>2, BooksFollow DEF rowVars, SucceededRefunds
        <3>2. QED BY <1>0, <2>1, <2>2, <3>1 DEF OnlineEnds, rowVars
    <2>3. CASE status[r] = "processing" /\ Complete(r, k)
        <3>1. Entries
            <4>1. CASE k = "succeeded"
                BY <2>1, <2>3, <4>1, BooksComplete DEF rowVars
            <4>2. CASE k # "succeeded"
                <5>1. UNCHANGED bookVars /\ status' = [status EXCEPT ![r] = k]
                    BY <2>3, <4>2 DEF Complete
                <5>2. SucceededRefunds' = SucceededRefunds
                    BY <2>3, <4>2, <5>1 DEF SucceededRefunds, TypeOK
                <5>3. QED BY <2>1, <5>1, <5>2, BooksFollow DEF rowVars
            <4>3. QED BY <4>1, <4>2
        <3>2. Provider[payment[r]] = "postar" => k \in unread[r]
            BY <1>5 DEF ApplyResult, ManualResult, ManualProviders
        <3>3. OnlineEnds'
            BY <1>0, <2>1, <2>3, <3>2
            DEF OnlineEnds, Complete, TypeOK, WireAgrees, Terminal, rowVars
        <3>4. QED BY <3>1, <3>3
    <2>4. QED BY <1>5, <2>2, <2>3 DEF ApplyResult, ManualResult
<1>6. ASSUME NEW r \in Refunds, NEW x \in Refunds, Retry(r, x)
      PROVE  Entries /\ OnlineEnds'
    <2>1. /\ status[x] = "none" /\ status' = [status EXCEPT ![x] = Begun(r)]
          /\ Begun(r) \in {"processing", "approved"}
          /\ payment' = [payment EXCEPT ![x] = payment[r]]
          /\ alloc' = [alloc EXCEPT ![x] = alloc[r]]
          /\ UNCHANGED <<wireVars, bookVars>>
        BY <1>6 DEF Retry, Insert, Begun
    <2>2. SucceededRefunds' = SucceededRefunds /\ x \notin SucceededRefunds
        BY <2>1 DEF SucceededRefunds, TypeOK
    <2>3. \A y \in SucceededRefunds : payment'[y] = payment[y] /\ alloc'[y] = alloc[y]
        BY <2>1, <2>2 DEF SucceededRefunds, TypeOK
    <2>4. Entries
        BY <2>1, <2>2, <2>3, BooksFollow
    <2>5. OnlineEnds'
        BY <1>0, <2>1 DEF OnlineEnds, TypeOK, Terminal, wireVars
    <2>6. QED BY <2>4, <2>5
<1>7. Entries /\ OnlineEnds'
    BY <1>1, <1>2, <1>3, <1>4, <1>5, <1>6, AllocationsAreAmounts DEF Next
<1>8. QED BY <1>7 DEF BooksMatchTheChannel, SucceededRefunds, OnlineEnds

\* They are right before any refund.
LEMMA BooksInit == Init => BooksMatchTheChannel
<1> SUFFICES ASSUME Init PROVE BooksMatchTheChannel
    OBVIOUS
<1>1. \A p : {r \in {} : payment[r] = p} = {}
    OBVIOUS
<1>2. Amount(alloc, {}, Items) = 0
    <2>1. Coins(alloc, {}, Items) = {}
        BY DEF Coins
    <2>2. QED BY <2>1, FS_EmptySet DEF Amount
<1>3. ASSUME NEW p \in Payments PROVE SyncedStatus(p, {}) = "succeeded"
    <2>1. Captured[p] \in Nat \ {0}
        BY ShareAssumption
    <2>2. QED BY <1>1, <1>2, <2>1 DEF SyncedStatus
<1>4. QED BY <1>3 DEF Init, BooksMatchTheChannel, Terminal

\* Ledger and payment status follow the refunds that were paid out, and no online
\* refund is booked against the channel's own state.
THEOREM BooksAreTrue == Spec => []BooksMatchTheChannel
<1>1. QED BY RowsInit, RowsStep, BooksInit, BooksStep, PTL DEF Spec

\* Money that went back was decided by two, is accounted for, and left once.
THEOREM MoneyLeavesOnce == Spec => []MoneyLeavesOncePerDecision
<1>1. Rows /\ BooksMatchTheChannel => MoneyLeavesOncePerDecision
    BY DEF Rows, RowsAgree, WireAgrees, ReplacementsAgree, BooksMatchTheChannel,
           MoneyLeavesOncePerDecision, Superseded, Terminal, TypeOK
<1>2. QED BY <1>1, RowsInit, RowsStep, BooksInit, BooksStep, PTL DEF Spec

----------------------------------------------------------------------------
(* The funds                                                               *)

\* The bounds for the refunds S of a payment, with amounts a.
Within(a, p, S) ==
    /\ Amount(a, S, Items) <= Captured[p]
    /\ \A o \in Orders : Amount(a, S, ItemsOf(o)) <= Share[p][o]
    /\ \A i \in Items : Amount(a, S, {i}) <= Price[i]

\* RefundsFitTheirFunds in these terms.
LEMMA FundsAre ==
    /\ RefundsFitTheirFunds <=> \A p \in Payments : Within(alloc, p, ReservingOf(p))
    /\ RefundsFitTheirFunds' <=> \A p \in Payments : Within(alloc', p, ReservingOf(p)')
<1>1. QED BY DEF RefundsFitTheirFunds, Within

\* Fewer refunds of the same amounts stay within the bounds.
LEMMA WithinShrinks ==
    ASSUME NEW a \in RefundAmounts, NEW b, NEW p \in Payments,
           NEW S \in SUBSET Refunds, NEW T \in SUBSET S,
           Within(a, p, S), \A r \in T : b[r] = a[r]
    PROVE  Within(b, p, T)
<1>1. Captured[p] \in Nat /\ Share[p] \in [Orders -> Nat] /\ Price \in [Items -> Nat]
    BY ShareAssumption, PriceAssumption
<1>2. ASSUME NEW I \in SUBSET Items, NEW n \in Nat, Amount(a, S, I) <= n
      PROVE  Amount(b, T, I) <= n
    <2>1. /\ Amount(a, S, I) \in Nat /\ Amount(b, T, I) \in Nat
          /\ Amount(b, T, I) <= Amount(a, S, I)
        BY AmountShrinks
    <2>2. QED BY <1>2, <2>1
<1>3. Amount(b, T, Items) <= Captured[p]
    BY <1>1, <1>2 DEF Within
<1>4. ASSUME NEW o \in Orders PROVE Amount(b, T, ItemsOf(o)) <= Share[p][o]
    <2>1. ItemsOf(o) \in SUBSET Items /\ Share[p][o] \in Nat
        BY <1>1 DEF ItemsOf
    <2>2. QED BY <1>2, <2>1 DEF Within
<1>5. ASSUME NEW i \in Items PROVE Amount(b, T, {i}) <= Price[i]
    <2>1. Price[i] \in Nat /\ {i} \in SUBSET Items
        BY <1>1
    <2>2. QED BY <1>2, <2>1 DEF Within
<1>6. QED BY <1>3, <1>4, <1>5 DEF Within

\* A refund that Fits leaves the payment within its bounds.
LEMMA FittingIsWithin ==
    ASSUME NEW a \in RefundAmounts, NEW p \in Payments, NEW S \in SUBSET Refunds,
           NEW r \in Refunds \ S, Within(a, p, S), Fits(p, a, S, r)
    PROVE  Within(a, p, S \cup {r})
<1>1. S \ {r} = S
    OBVIOUS
<1>2. ASSUME NEW I \in SUBSET Items, \A i \in I : ~(a[r][i] > 0)
      PROVE  Amount(a, S \cup {r}, I) = Amount(a, S, I)
    <2>1. \A i \in I : a[r][i] = 0
        BY <1>2 DEF RefundAmounts, Amounts
    <2>2. Amount(a, S \cup {r}, I) = Amount(a, S \ {r}, I)
        BY <2>1, AmountOfOthers
    <2>3. QED BY <1>1, <2>2
<1>3. PICK o \in Orders : /\ \A i \in Items : a[r][i] > 0 => OrderOf[i] = o
                         /\ Amount(a, S \cup {r}, ItemsOf(o)) <= Share[p][o]
    BY DEF Fits
<1>4. ASSUME NEW q \in Orders PROVE Amount(a, S \cup {r}, ItemsOf(q)) <= Share[p][q]
    <2>1. CASE q = o
        BY <1>3, <2>1
    <2>2. CASE q # o
        <3>1. ItemsOf(q) \in SUBSET Items /\ \A i \in ItemsOf(q) : ~(a[r][i] > 0)
            BY <1>3, <2>2 DEF ItemsOf
        <3>2. QED BY <1>2, <3>1 DEF Within
    <2>3. QED BY <2>1, <2>2
<1>5. ASSUME NEW i \in Items PROVE Amount(a, S \cup {r}, {i}) <= Price[i]
    <2>1. CASE a[r][i] > 0
        BY <2>1 DEF Fits
    <2>2. CASE ~(a[r][i] > 0)
        BY <1>2, <2>2 DEF Within
    <2>3. QED BY <2>1, <2>2
<1>6. QED BY <1>4, <1>5 DEF Within, Fits

\* A step after which no payment has another reserving refund keeps the funds.
LEMMA FundsKept ==
    ASSUME TypeOK, RefundsFitTheirFunds,
           \A p \in Payments : \A r \in ReservingOf(p)' :
              r \in ReservingOf(p) /\ alloc'[r] = alloc[r]
    PROVE  RefundsFitTheirFunds'
<1>1. ASSUME NEW p \in Payments PROVE Within(alloc', p, ReservingOf(p)')
    <2>1. Within(alloc, p, ReservingOf(p))
        BY FundsAre
    <2>2. alloc \in RefundAmounts /\ ReservingOf(p) \in SUBSET Refunds
        BY DEF TypeOK, RefundAmounts, ReservingOf
    <2>3. ReservingOf(p)' \in SUBSET ReservingOf(p)
        OBVIOUS
    <2>4. QED BY <2>1, <2>2, <2>3, WithinShrinks
<1>2. QED BY <1>1, FundsAre

\* A new row whose amounts fit next to the refunds S keeps the funds.
LEMMA FundsInsert ==
    ASSUME TypeOK, TypeOK', RowsAgree, RefundsFitTheirFunds,
           NEW r \in Refunds, NEW p \in Payments, NEW f \in Amounts, NEW s,
           NEW S \in SUBSET Refunds, S \subseteq ReservingOf(p), r \notin S,
           Insert(r, p, f, s, S),
           ReservingOf(p)' \subseteq S \cup {r},
           \A q \in Payments \ {p} : ReservingOf(q)' \subseteq ReservingOf(q) \ {r}
    PROVE  RefundsFitTheirFunds'
<1>1. /\ alloc \in RefundAmounts /\ alloc' \in RefundAmounts
      /\ \A x \in Refunds \ {r} : alloc'[x] = alloc[x]
      /\ Fits(p, alloc', S, r)
    BY DEF TypeOK, RefundAmounts, Insert
<1>2. Within(alloc', p, ReservingOf(p)')
    <2>1. Within(alloc, p, ReservingOf(p)) /\ ReservingOf(p) \in SUBSET Refunds
        BY FundsAre DEF ReservingOf
    <2>2. \A x \in S : alloc'[x] = alloc[x]
        BY <1>1
    <2>3. Within(alloc', p, S)
        BY <1>1, <2>1, <2>2, WithinShrinks
    <2>4. Within(alloc', p, S \cup {r})
        BY <1>1, <2>3, FittingIsWithin
    <2>5. S \cup {r} \in SUBSET Refunds /\ ReservingOf(p)' \in SUBSET (S \cup {r})
        OBVIOUS
    <2>6. QED BY <1>1, <2>4, <2>5, WithinShrinks
<1>3. ASSUME NEW q \in Payments \ {p} PROVE Within(alloc', q, ReservingOf(q)')
    <2>1. Within(alloc, q, ReservingOf(q)) /\ ReservingOf(q) \in SUBSET Refunds
        BY FundsAre DEF ReservingOf
    <2>2. ReservingOf(q)' \in SUBSET ReservingOf(q)
        OBVIOUS
    <2>3. \A x \in ReservingOf(q)' : alloc'[x] = alloc[x]
        BY <1>1, <2>1
    <2>4. QED BY <1>1, <2>1, <2>2, <2>3, WithinShrinks
<1>4. QED BY <1>2, <1>3, FundsAre

\* Every step stays within the funds.
LEMMA FundsStep == Rows /\ RefundsFitTheirFunds /\ [Next]_vars => RefundsFitTheirFunds'
<1> SUFFICES ASSUME Rows, RefundsFitTheirFunds, [Next]_vars PROVE RefundsFitTheirFunds'
    OBVIOUS
<1> USE DEF Rows
<1>0. TypeOK'
    BY TypeStep
<1>1. ASSUME UNCHANGED <<payment, alloc, linked, retryOf>>,
             \A r \in Refunds : \/ status'[r] = status[r]
                               \/ status'[r] \notin RESERVING \cup {"failed"}
                               \/ status[r] \in RESERVING
      PROVE  RefundsFitTheirFunds'
    <2>1. \A p \in Payments : \A r \in ReservingOf(p)' :
                r \in ReservingOf(p) /\ alloc'[r] = alloc[r]
        BY <1>1 DEF ReservingOf, Reserves, Superseded, RESERVING
    <2>2. QED BY <2>1, FundsKept
<1>2. CASE UNCHANGED vars
    BY <1>1, <1>2 DEF vars
<1>3. ASSUME NEW r \in Refunds, NEW p \in Payments, NEW f \in Amounts,
             NEW s \in Staff, NEW inCase \in BOOLEAN, Request(r, p, f, s, inCase)
      PROVE  RefundsFitTheirFunds'
    <2>1. /\ Insert(r, p, f, s, ReservingOf(p)) /\ status[r] = "none"
          /\ payment' = [payment EXCEPT ![r] = p]
          /\ status' = [status EXCEPT ![r] = "requested"]
          /\ linked' \subseteq linked \cup {r} /\ UNCHANGED retryOf
        BY <1>3 DEF Request, Insert
    <2>2. \A q \in Payments : r \notin ReservingOf(q)
        BY <2>1 DEF ReservingOf, Reserves, RESERVING
    <2>3. ReservingOf(p)' \subseteq ReservingOf(p) \cup {r}
        BY <2>1 DEF ReservingOf, Reserves, Superseded, TypeOK
    <2>4. \A q \in Payments \ {p} : ReservingOf(q)' \subseteq ReservingOf(q) \ {r}
        BY <2>1 DEF ReservingOf, Reserves, Superseded, TypeOK
    <2>5. ReservingOf(p) \in SUBSET Refunds
        BY DEF ReservingOf
    <2>6. QED BY <1>0, <2>1, <2>2, <2>3, <2>4, <2>5, FundsInsert
<1>4. ASSUME NEW r \in Refunds,
             \/ \E s \in Staff : Approve(r, s) \/ Reject(r, s)
             \/ Withdraw(r) \/ BeginExecution(r)
      PROVE  RefundsFitTheirFunds'
    <2>1. /\ status[r] \in RESERVING /\ UNCHANGED rowVars
          /\ \A x \in Refunds \ {r} : status'[x] = status[x]
        BY <1>4
        DEF Approve, Reject, MayDecide, Withdraw, BeginExecution, RESERVING, TypeOK
    <2>2. QED BY <1>1, <2>1 DEF rowVars
<1>5. ASSUME NEW r \in Refunds,
             \/ Claim(r) \/ ChannelTakes(r) \/ ChannelEnds(r)
             \/ RejectionReturns(r) \/ Query(r) \/ Callback(r)
      PROVE  RefundsFitTheirFunds'
    <2>1. UNCHANGED <<status, rowVars>>
        BY <1>5 DEF Claim, ChannelTakes, ChannelEnds, RejectionReturns, Query, Callback
    <2>2. QED BY <1>1, <2>1 DEF rowVars
<1>6. ASSUME NEW r \in Refunds, NEW k \in Terminal,
             ApplyResult(r, k) \/ ManualResult(r, k)
      PROVE  RefundsFitTheirFunds'
    <2>1. /\ UNCHANGED rowVars
          /\ \/ status[r] = "processing" /\ status' = [status EXCEPT ![r] = k]
             \/ UNCHANGED status
        BY <1>6 DEF ApplyResult, ManualResult, Complete
    <2>2. QED BY <1>1, <2>1 DEF rowVars, RESERVING, TypeOK
<1>7. ASSUME NEW r \in Refunds, NEW x \in Refunds, Retry(r, x)
      PROVE  RefundsFitTheirFunds'
    <2>0. status[r] = "failed" /\ payment[r] \in Payments /\ alloc[r] \in Amounts
        BY <1>7 DEF Retry, RetryEligible, RowsAgree, TypeOK
    <2> DEFINE p == payment[r]
               S == ReservingOf(p) \ {r}
    <2>1. /\ Insert(x, p, alloc[r], requester[r], S) /\ status[x] = "none"
          /\ payment' = [payment EXCEPT ![x] = p]
          /\ status' = [status EXCEPT ![x] = Begun(r)]
          /\ linked' = linked \cup {x} /\ retryOf' = [retryOf EXCEPT ![x] = r]
        BY <1>7 DEF Retry, Insert
    <2>2. x # r /\ x \notin S /\ retryOf[x] = None
        BY <2>0, <2>1 DEF ReservingOf, Reserves, RESERVING, ReplacementsAgree
    <2>3. Superseded' = Superseded \cup {r}
        <3>1. \A y \in Refunds : retryOf'[y] = IF y = x THEN r ELSE retryOf[y]
            BY <2>1 DEF TypeOK
        <3>2. QED BY <2>2, <3>1, NobodyAssumption DEF Superseded
    <2>4. \A y \in Refunds \ {x} : status'[y] = status[y] /\ payment'[y] = payment[y]
        BY <2>1 DEF TypeOK
    <2>5. ReservingOf(p)' \subseteq S \cup {x}
        BY <2>0, <2>1, <2>3, <2>4 DEF ReservingOf, Reserves, RESERVING
    <2>6. \A q \in Payments \ {p} : ReservingOf(q)' \subseteq ReservingOf(q) \ {x}
        BY <2>1, <2>3, <2>4 DEF ReservingOf, Reserves, TypeOK
    <2>7. S \in SUBSET Refunds /\ S \subseteq ReservingOf(p)
        BY DEF ReservingOf
    <2>8. QED BY <1>0, <2>0, <2>1, <2>2, <2>5, <2>6, <2>7, FundsInsert
<1>8. QED BY <1>2, <1>3, <1>4, <1>5, <1>6, <1>7, AllocationsAreAmounts DEF Next

\* Before any refund nothing is reserved.
LEMMA FundsInit == Init => RefundsFitTheirFunds
<1> SUFFICES ASSUME Init PROVE RefundsFitTheirFunds
    OBVIOUS
<1>1. ASSUME NEW p \in Payments, NEW I PROVE Amount(alloc, ReservingOf(p), I) = 0
    <2>1. ReservingOf(p) = {}
        BY DEF Init, ReservingOf, Reserves, RESERVING
    <2>2. Coins(alloc, {}, I) = {}
        BY DEF Coins
    <2>3. QED BY <2>1, <2>2, FS_EmptySet DEF Amount
<1>2. QED BY <1>1, ShareAssumption, PriceAssumption DEF RefundsFitTheirFunds

\* Refunds requested, failed and retried in any order never reserve more of a payment
\* than it collected, nor more of an order or an item than its part.
THEOREM FundsSuffice == Spec => []RefundsFitTheirFunds
<1>1. QED BY RowsInit, RowsStep, FundsInit, FundsStep, PTL DEF Spec

\* Decided refunds keep their terms, and final statuses stay.
THEOREM DecisionsStand == Spec => DecisionsAreFinal
<1>1. Rows /\ [Next]_vars =>
        [\A r \in Refunds :
          /\ approver[r] # None =>
                /\ <<payment[r], alloc[r], requester[r], approver[r]>>' =
                      <<payment[r], alloc[r], requester[r], approver[r]>>
          /\ status[r] \in Terminal \cup {"rejected", "cancelled"} =>
                status'[r] = status[r]]_vars
    <2> SUFFICES ASSUME Rows, Next, NEW y \in Refunds
                 PROVE  /\ approver[y] # None =>
                             <<payment[y], alloc[y], requester[y], approver[y]>>' =
                                <<payment[y], alloc[y], requester[y], approver[y]>>
                        /\ status[y] \in Terminal \cup {"rejected", "cancelled"} =>
                             status'[y] = status[y]
        OBVIOUS
    <2> DEFINE Stands ==
          /\ approver[y] # None => /\ payment'[y] = payment[y] /\ alloc'[y] = alloc[y]
                                   /\ requester'[y] = requester[y]
                                   /\ approver'[y] = approver[y]
          /\ status[y] \in Terminal \cup {"rejected", "cancelled"} => status'[y] = status[y]
    <2>1. ASSUME NEW r \in Refunds, NEW p \in Payments, NEW f \in Amounts,
                 NEW s \in Staff, NEW inCase \in BOOLEAN, Request(r, p, f, s, inCase)
          PROVE  Stands
        <3>1. status[r] = "none" /\ approver[r] = None
            BY <2>1 DEF Request, Insert, Rows, RowsAgree
        <3>2. QED
            BY <2>1, <3>1 DEF Request, Insert, Rows, TypeOK, Terminal
    <2>2. ASSUME NEW r \in Refunds, NEW s \in Staff, Approve(r, s) \/ Reject(r, s)
          PROVE  Stands
        <3>1. status[r] = "requested" /\ approver[r] = None
            BY <2>2 DEF Approve, Reject, MayDecide, Rows, RowsAgree
        <3>2. QED
            BY <2>2, <3>1 DEF Approve, Reject, Rows, TypeOK, Terminal, rowVars
    <2>3. ASSUME NEW r \in Refunds, Withdraw(r) \/ BeginExecution(r) PROVE Stands
        BY <2>3 DEF Withdraw, BeginExecution, Rows, TypeOK, Terminal, rowVars
    <2>4. ASSUME NEW r \in Refunds,
                 \/ Claim(r) \/ ChannelTakes(r) \/ ChannelEnds(r)
                 \/ RejectionReturns(r) \/ Query(r) \/ Callback(r)
          PROVE  Stands
        BY <2>4
        DEF Claim, ChannelTakes, ChannelEnds, RejectionReturns, Query, Callback, rowVars
    <2>5. ASSUME NEW r \in Refunds, NEW k \in Terminal,
                 ApplyResult(r, k) \/ ManualResult(r, k)
          PROVE  Stands
        <3>1. /\ UNCHANGED <<rowVars, approver>>
              /\ \/ status[r] = "processing" /\ status' = [status EXCEPT ![r] = k]
                 \/ UNCHANGED status
            BY <2>5 DEF ApplyResult, ManualResult, Complete
        <3>2. QED BY <3>1 DEF Rows, TypeOK, Terminal, rowVars
    <2>6. ASSUME NEW r \in Refunds, NEW x \in Refunds, Retry(r, x) PROVE Stands
        <3>1. status[x] = "none" /\ approver[x] = None
            BY <2>6 DEF Retry, Insert, Rows, RowsAgree
        <3>2. QED
            BY <2>6, <3>1 DEF Retry, Insert, Rows, TypeOK, Terminal
    <2>7. Stands
        BY <2>1, <2>2, <2>3, <2>4, <2>5, <2>6, AllocationsAreAmounts DEF Next
    <2>8. QED BY <2>7
<1>2. QED BY <1>1, RowsInit, RowsStep, PTL DEF Spec, DecisionsAreFinal

----------------------------------------------------------------------------
(* The promise.  Its money is what the refunds that went out are for, its  *)
(* decisions are the rows once they are approved.                          *)

\* An existing refund was asked for by an employee and is for some money.
Asked ==
    \A r \in Refunds : status[r] # "none" =>
       requester[r] \in Staff /\ \E i \in Items : alloc[r][i] > 0

\* Every step keeps that.
LEMMA AskedStep == Rows /\ Asked /\ [Next]_vars => Asked'
<1> SUFFICES ASSUME Rows, Asked, [Next]_vars PROVE Asked'
    OBVIOUS
<1> USE DEF Rows
<1>1. CASE UNCHANGED vars
    BY <1>1 DEF Asked, vars
<1>2. ASSUME NEW r \in Refunds, NEW p \in Payments, NEW f \in Amounts,
             NEW s \in Staff, NEW inCase \in BOOLEAN, Request(r, p, f, s, inCase)
      PROVE  Asked'
    BY <1>2 DEF Asked, Request, Insert, TypeOK
<1>3. ASSUME NEW r \in Refunds, NEW c, UNCHANGED rowVars, status[r] # "none",
             status' = [status EXCEPT ![r] = c]
      PROVE  Asked'
    BY <1>3 DEF Asked, TypeOK, rowVars
<1>4. ASSUME UNCHANGED <<status, rowVars>> PROVE Asked'
    BY <1>4 DEF Asked, rowVars
<1>5. ASSUME NEW r \in Refunds,
             \/ \E s \in Staff : Approve(r, s) \/ Reject(r, s)
             \/ Withdraw(r) \/ BeginExecution(r)
      PROVE  Asked'
    <2>1. /\ status[r] # "none" /\ UNCHANGED rowVars
          /\ \E c \in {"processing", "approved", "rejected", "cancelled"} :
                status' = [status EXCEPT ![r] = c]
        BY <1>5 DEF Approve, Reject, MayDecide, Begun, Withdraw, BeginExecution
    <2>2. QED BY <1>3, <2>1
<1>6. ASSUME NEW r \in Refunds,
             \/ Claim(r) \/ ChannelTakes(r) \/ ChannelEnds(r)
             \/ RejectionReturns(r) \/ Query(r) \/ Callback(r)
      PROVE  Asked'
    BY <1>4, <1>6
    DEF Claim, ChannelTakes, ChannelEnds, RejectionReturns, Query, Callback
<1>7. ASSUME NEW r \in Refunds, NEW k \in Terminal,
             ApplyResult(r, k) \/ ManualResult(r, k)
      PROVE  Asked'
    <2>1. /\ UNCHANGED rowVars
          /\ \/ status[r] = "processing" /\ status' = [status EXCEPT ![r] = k]
             \/ UNCHANGED status
        BY <1>7 DEF ApplyResult, ManualResult, Complete
    <2>2. QED BY <1>3, <1>4, <2>1
<1>8. ASSUME NEW r \in Refunds, NEW x \in Refunds, Retry(r, x) PROVE Asked'
    <2>1. status[r] # "none"
        BY <1>8 DEF Retry, RetryEligible
    <2>2. QED BY <1>8, <2>1 DEF Asked, Retry, Insert, TypeOK
<1>9. QED
    BY <1>1, <1>2, <1>5, <1>6, <1>7, <1>8, AllocationsAreAmounts DEF Next

\* A refund whose money went back is under way or succeeded, and nothing replaced it.
PaidAgrees ==
    \A r \in Paid :
       /\ r \in Refunds /\ payment[r] \in Payments
       /\ status[r] \in {"processing", "succeeded"} /\ r \notin Superseded

\* That follows from the rows and the books.
LEMMA PaidRows == Rows /\ BooksMatchTheChannel => PaidAgrees
<1> SUFFICES ASSUME Rows, BooksMatchTheChannel, NEW r \in Paid
             PROVE  /\ r \in Refunds /\ payment[r] \in Payments
                    /\ status[r] \in {"processing", "succeeded"} /\ r \notin Superseded
    BY DEF PaidAgrees
<1>1. r \in Refunds /\ status[r] \in {"processing", "succeeded"}
    BY DEF Paid, Rows, TypeOK, WireAgrees, BooksMatchTheChannel, Terminal
<1>2. payment[r] \in Payments
    BY <1>1 DEF Rows, TypeOK, RowsAgree
<1>3. r \notin Superseded
    BY <1>1 DEF Superseded, Rows, ReplacementsAgree
<1>4. QED BY <1>1, <1>2, <1>3

\* The whole inductive invariant, and what follows from it.
RefundIInv ==
    Rows /\ BooksMatchTheChannel /\ RefundsFitTheirFunds /\ Asked /\ PaidAgrees

\* So it always holds.
LEMMA RefundAlways == Spec => []RefundIInv
<1> DEFINE Core == Rows /\ BooksMatchTheChannel /\ RefundsFitTheirFunds /\ Asked
<1>1. Init => Core
    BY RowsInit, BooksInit, FundsInit DEF Init, Asked
<1>2. Core /\ [Next]_vars => Core'
    BY RowsStep, BooksStep, FundsStep, AskedStep
<1>3. Core => RefundIInv
    BY PaidRows DEF RefundIInv
<1> HIDE DEF Core
<1>4. QED BY <1>1, <1>2, <1>3, PTL DEF Spec

\* The refunds of a payment whose money went back.
PaidOf(p) == {r \in Paid : payment[r] = p}

\* The sums of the promise, before and after a step.
LEMMA ReturnedIs ==
    /\ Returned = [p \in Payments |-> Amount(alloc, PaidOf(p), Items)]
    /\ Returned' = [p \in Payments |-> Amount(alloc', PaidOf(p)', Items)]
<1>1. QED BY DEF Returned, PaidOf

\* They stay while no money goes back.
LEMMA ReturnedKept ==
    ASSUME Paid' = Paid,
           \A r \in Paid : payment'[r] = payment[r] /\ alloc'[r] = alloc[r]
    PROVE  Returned' = Returned
<1>1. ASSUME NEW p \in Payments
      PROVE  Amount(alloc', PaidOf(p)', Items) = Amount(alloc, PaidOf(p), Items)
    <2>1. PaidOf(p)' = PaidOf(p)
        BY DEF PaidOf
    <2>2. \A r \in PaidOf(p), i \in Items : alloc'[r][i] = alloc[r][i]
        BY DEF PaidOf
    <2>3. QED BY <2>1, <2>2, AmountKept
<1>2. QED BY <1>1, ReturnedIs

\* A refund for some money adds to the sum.
LEMMA AmountGrows ==
    ASSUME NEW a \in RefundAmounts, NEW S \in SUBSET Refunds, NEW r \in Refunds \ S,
           \E i \in Items : a[r][i] > 0
    PROVE  /\ Amount(a, S, Items) \in Nat /\ Amount(a, S \cup {r}, Items) \in Nat
           /\ Amount(a, S, Items) + 1 <= Amount(a, S \cup {r}, Items)
<1> DEFINE Old == Coins(a, S, Items)
           New == Coins(a, S \cup {r}, Items)
<1>1. PICK i \in Items : a[r][i] > 0
    OBVIOUS
<1>2. IsFiniteSet(New)
    BY CoinsFinite
<1>3. Old \subseteq New
    BY DEF Coins
<1>4. Old # New
    <2> DEFINE coin == <<<<r, i>>, 1>>
    <2>1. 1 \in 1 .. a[r][i]
        BY <1>1 DEF RefundAmounts, Amounts
    <2>2. coin \in {<<r, i>>} \X (1 .. a[<<r, i>>[1]][<<r, i>>[2]])
        BY <2>1
    <2>3. coin \in New
        BY <2>2 DEF Coins
    <2>4. ASSUME coin \in Old PROVE FALSE
        <3>1. PICK c \in S \X Items : coin \in {c} \X (1 .. a[c[1]][c[2]])
            BY <2>4 DEF Coins
        <3>2. c = <<r, i>>
            BY <3>1
        <3>3. QED BY <3>2
    <2>5. QED BY <2>3, <2>4
<1>5. Cardinality(Old) <= Cardinality(New) /\ Cardinality(Old) # Cardinality(New)
    BY <1>2, <1>3, <1>4, FS_Subset
<1>6. Cardinality(Old) \in Nat /\ Cardinality(New) \in Nat
    BY <1>2, <1>3, FS_Subset, FS_CardinalityType
<1>7. QED BY <1>5, <1>6 DEF Amount

\* Money that goes back for one refund adds to its payment's sum, which stays within
\* what the payment collected.
LEMMA ReturnedAdds ==
    ASSUME RefundIInv, RefundIInv', UNCHANGED <<payment, alloc>>,
           NEW r \in Refunds \ Paid, Paid' = Paid \cup {r}
    PROVE  \E p \in Payments : \E sum \in Returned[p] + 1 .. Captured[p] :
              Returned' = [Returned EXCEPT ![p] = sum]
<1> DEFINE p == payment[r]
           sum == Amount(alloc, PaidOf(p) \cup {r}, Items)
<1>1. p \in Payments /\ \E i \in Items : alloc[r][i] > 0
    <2>1. payment'[r] \in Payments /\ status'[r] \in {"processing", "succeeded"}
        BY DEF RefundIInv, PaidAgrees
    <2>2. QED BY <2>1 DEF RefundIInv, Asked
<1>2. PaidOf(p)' = PaidOf(p) \cup {r} /\ \A q \in Payments \ {p} : PaidOf(q)' = PaidOf(q)
    BY DEF PaidOf
<1>3. Returned' = [Returned EXCEPT ![p] = sum] /\ Returned[p] = Amount(alloc, PaidOf(p), Items)
    BY <1>1, <1>2, ReturnedIs
<1>4. alloc \in RefundAmounts /\ PaidOf(p) \in SUBSET Refunds /\ r \notin PaidOf(p)
    BY DEF RefundIInv, Rows, TypeOK, RefundAmounts, PaidOf, Paid, BooksMatchTheChannel
<1>5. Returned[p] \in Nat /\ sum \in Nat /\ Returned[p] + 1 <= sum
    BY <1>1, <1>3, <1>4, AmountGrows
<1>6. sum <= Captured[p]
    <2>1. PaidOf(p) \cup {r} \subseteq ReservingOf(p)'
        BY <1>2 DEF PaidOf, RefundIInv, PaidAgrees, ReservingOf, Reserves, RESERVING
    <2>2. ReservingOf(p)' \in SUBSET Refunds
        BY DEF ReservingOf
    <2>3. Amount(alloc, ReservingOf(p)', Items) <= Captured[p]
        BY <1>1 DEF RefundIInv, RefundsFitTheirFunds
    <2>4. /\ Amount(alloc, ReservingOf(p)', Items) \in Nat
          /\ sum <= Amount(alloc, ReservingOf(p)', Items)
        BY <1>4, <2>1, <2>2, AmountShrinks
    <2>5. Captured[p] \in Nat
        BY <1>1, ShareAssumption
    <2>6. QED BY <1>5, <2>3, <2>4, <2>5
<1>7. Captured[p] \in Nat
    BY <1>1, ShareAssumption
<1>8. sum \in Returned[p] + 1 .. Captured[p]
    BY <1>5, <1>6, <1>7
<1>9. QED BY <1>1, <1>3, <1>8

\* A step in which the money of r goes back, booked at once or not.
LEMMA PayBackKeepsPromise ==
    ASSUME RefundIInv, RefundIInv', NEW r \in Refunds \ Paid, status[r] = "processing",
           UNCHANGED <<rowVars, approver>>,
           \E c \in {"processing", "succeeded"} : status' = [status EXCEPT ![r] = c],
           Paid' = Paid \cup {r}, ledger' \in {ledger, ledger \cup {r}}
    PROVE  Promise!PayBack(r)
<1>1. Deciders' = Deciders
    BY DEF Deciders, rowVars, Terminal, RefundIInv, Rows, TypeOK
<1>2. Superseded' = Superseded
    BY DEF Superseded, rowVars
<1>3. r \notin Superseded /\ Deciders[r] # {}
    BY DEF Superseded, Deciders, RefundIInv, Rows, ReplacementsAgree
<1>4. \E p \in Payments : \E sum \in Returned[p] + 1 .. Captured[p] :
         Returned' = [Returned EXCEPT ![p] = sum]
    BY ReturnedAdds DEF rowVars
<1>5. QED BY <1>1, <1>2, <1>3, <1>4 DEF Promise!PayBack, Promise!Payable

\* A step that touches neither money nor books and keeps the decisions.
LEMMA RowsKeepPromise ==
    ASSUME Deciders' = Deciders, UNCHANGED <<retryOf, ledger>>, Paid' = Paid,
           \A r \in Paid : payment'[r] = payment[r] /\ alloc'[r] = alloc[r]
    PROVE  UNCHANGED Promise!promiseVars
<1>1. Superseded' = Superseded
    BY DEF Superseded
<1>2. Returned' = Returned
    BY ReturnedKept
<1>3. QED BY <1>1, <1>2 DEF Promise!promiseVars

\* Every step of the workflow is a step of the promise, or none.
LEMMA RefundStepKeepsPromise ==
    ASSUME RefundIInv, RefundIInv', [Next]_vars
    PROVE  [Promise!PromiseNext]_Promise!promiseVars
<1> USE DEF RefundIInv, Rows
<1>1. CASE UNCHANGED vars
    <2>1. Deciders' = Deciders /\ Paid' = Paid
        BY <1>1 DEF Deciders, Paid, vars
    <2>2. QED BY <1>1, <2>1, RowsKeepPromise DEF vars
<1>2. ASSUME NEW r \in Refunds, NEW p \in Payments, NEW f \in Amounts,
             NEW s \in Staff, NEW inCase \in BOOLEAN, Request(r, p, f, s, inCase)
      PROVE  UNCHANGED Promise!promiseVars
    <2>1. /\ status[r] = "none" /\ status' = [status EXCEPT ![r] = "requested"]
          /\ \A x \in Refunds \ {r} : /\ payment'[x] = payment[x] /\ alloc'[x] = alloc[x]
                                      /\ requester'[x] = requester[x]
          /\ UNCHANGED <<approver, retryOf, channel, ledger>>
        BY <1>2 DEF Request, Insert, TypeOK, wireVars, bookVars
    <2>2. Deciders' = Deciders
        BY <2>1 DEF Deciders, Terminal, TypeOK
    <2>3. Paid' = Paid /\ r \notin Paid
        BY <2>1 DEF Paid, PaidAgrees
    <2>4. \A x \in Paid : x \in Refunds \ {r}
        BY <2>3 DEF PaidAgrees
    <2>5. QED BY <2>1, <2>2, <2>3, <2>4, RowsKeepPromise
<1>3. ASSUME NEW r \in Refunds, NEW s \in Staff, Approve(r, s) PROVE Promise!Grant(r)
    <2>1. /\ status[r] = "requested" /\ requester[r] # s
          /\ \E c \in {"processing", "approved"} : status' = [status EXCEPT ![r] = c]
          /\ approver' = [approver EXCEPT ![r] = s]
          /\ UNCHANGED <<payment, alloc, requester, retryOf, channel, ledger>>
        BY <1>3 DEF Approve, MayDecide, Begun, rowVars, wireVars, bookVars
    <2>2. Deciders' = [Deciders EXCEPT ![r] = {requester[r], s}] /\ Deciders[r] = {}
        <3>1. \A x \in Refunds \ {r} :
                 /\ status'[x] = status[x] /\ requester'[x] = requester[x]
                 /\ approver'[x] = approver[x]
            BY <2>1 DEF TypeOK
        <3>2. \A x \in Refunds \ {r} : Deciders'[x] = Deciders[x]
            BY <3>1 DEF Deciders
        <3>3. /\ status'[r] \in {"processing", "approved"}
              /\ requester'[r] = requester[r] /\ approver'[r] = s
            BY <2>1 DEF TypeOK
        <3>4. Deciders'[r] = {requester[r], s} /\ Deciders[r] = {}
            BY <2>1, <3>3 DEF Deciders, Terminal
        <3>5. DOMAIN Deciders = Refunds /\ Deciders' = [x \in Refunds |-> Deciders'[x]]
            BY DEF Deciders
        <3>6. QED BY <3>2, <3>4, <3>5
    <2>3. requester[r] \in Staff
        BY <2>1 DEF Asked
    <2>4. Paid' = Paid /\ Superseded' = Superseded
        BY <2>1 DEF Paid, Superseded
    <2>5. Returned' = Returned
        BY <2>1, <2>4, ReturnedKept
    <2>6. QED BY <2>1, <2>2, <2>3, <2>4, <2>5 DEF Promise!Grant
<1>4. ASSUME NEW r \in Refunds,
             \/ \E s \in Staff : Reject(r, s)
             \/ Withdraw(r) \/ BeginExecution(r)
      PROVE  UNCHANGED Promise!promiseVars
    <2>1. /\ \/ /\ status[r] = "requested"
                /\ \E c \in {"rejected", "cancelled"} : status' = [status EXCEPT ![r] = c]
             \/ status[r] = "approved" /\ status' = [status EXCEPT ![r] = "processing"]
          /\ \A x \in Refunds \ {r} : approver'[x] = approver[x]
          /\ status[r] = "approved" => UNCHANGED approver
          /\ UNCHANGED <<payment, alloc, requester, retryOf, channel, ledger>>
        BY <1>4
        DEF Reject, MayDecide, Withdraw, BeginExecution, TypeOK, rowVars, wireVars, bookVars
    <2>2. Deciders' = Deciders
        BY <2>1 DEF Deciders, Terminal, TypeOK
    <2>3. Paid' = Paid
        BY <2>1 DEF Paid
    <2>4. QED BY <2>1, <2>2, <2>3, RowsKeepPromise
<1>5. ASSUME NEW r \in Refunds,
             \/ Claim(r) \/ ChannelTakes(r) \/ RejectionReturns(r)
             \/ Query(r) \/ Callback(r)
      PROVE  UNCHANGED Promise!promiseVars
    <2>1. UNCHANGED <<status, rowVars, approver, bookVars>>
        BY <1>5 DEF Claim, ChannelTakes, RejectionReturns, Query, Callback
    <2>2. \A x \in Refunds : channel'[x] = "returned" <=> channel[x] = "returned"
        BY <1>5 DEF Claim, ChannelTakes, RejectionReturns, Query, Callback, TypeOK, WireAgrees
    <2>3. Deciders' = Deciders /\ Paid' = Paid
        BY <2>1, <2>2 DEF Deciders, Paid, rowVars, bookVars
    <2>4. QED BY <2>1, <2>3, RowsKeepPromise DEF rowVars, bookVars
<1>6. ASSUME NEW r \in Refunds, ChannelEnds(r)
      PROVE  [Promise!PromiseNext]_Promise!promiseVars
    <2>1. /\ UNCHANGED <<status, rowVars, approver, bookVars>> /\ channel[r] = "accepted"
          /\ \E c \in {"returned", "failed"} : channel' = [channel EXCEPT ![r] = c]
        BY <1>6 DEF ChannelEnds
    <2>2. CASE channel' = [channel EXCEPT ![r] = "returned"]
        <3>1. status[r] = "processing" /\ r \notin Paid
            BY <2>1 DEF Paid, WireAgrees, BooksMatchTheChannel, Terminal
        <3>2. Paid' = Paid \cup {r}
            BY <2>1, <2>2 DEF Paid, TypeOK, bookVars
        <3>3. status' = [status EXCEPT ![r] = "processing"] /\ ledger' = ledger
            BY <2>1, <3>1 DEF TypeOK, bookVars
        <3>4. Promise!PayBack(r)
            BY <2>1, <3>1, <3>2, <3>3, PayBackKeepsPromise
        <3>5. QED BY <3>4 DEF Promise!PromiseNext
    <2>3. CASE channel' = [channel EXCEPT ![r] = "failed"]
        <3>1. Paid' = Paid /\ Deciders' = Deciders
            BY <2>1, <2>3 DEF Paid, Deciders, TypeOK, rowVars, bookVars
        <3>2. QED BY <2>1, <3>1, RowsKeepPromise DEF rowVars, bookVars
    <2>4. QED BY <2>1, <2>2, <2>3
<1>7. ASSUME NEW r \in Refunds, NEW k \in Terminal,
             ApplyResult(r, k) \/ ManualResult(r, k)
      PROVE  [Promise!PromiseNext]_Promise!promiseVars
    <2>1. UNCHANGED <<rowVars, approver, channel>>
        BY <1>7 DEF ApplyResult, ManualResult, wireVars
    <2>2. CASE UNCHANGED <<status, bookVars>>
        <3>1. Paid' = Paid /\ Deciders' = Deciders
            BY <2>1, <2>2 DEF Paid, Deciders, rowVars, bookVars
        <3>2. QED BY <2>1, <2>2, <3>1, RowsKeepPromise DEF rowVars, bookVars
    <2>3. CASE status[r] = "processing" /\ Complete(r, k) /\ k = "failed"
        <3>1. /\ status' = [status EXCEPT ![r] = "failed"] /\ UNCHANGED ledger
            BY <2>3 DEF Complete, bookVars
        <3>2. Paid' = Paid /\ Deciders' = Deciders
            BY <2>1, <2>3, <3>1 DEF Paid, Deciders, Terminal, TypeOK, rowVars
        <3>3. QED BY <2>1, <3>1, <3>2, RowsKeepPromise DEF rowVars
    <2>4. CASE status[r] = "processing" /\ Complete(r, k) /\ k = "succeeded"
        <3>1. /\ status' = [status EXCEPT ![r] = "succeeded"]
              /\ ledger' = ledger \cup {r} /\ r \notin ledger
            BY <2>4 DEF Complete, BooksMatchTheChannel
        <3>2. CASE r \notin Paid
            <4>1. Paid' = Paid \cup {r}
                BY <2>1, <3>1 DEF Paid
            <4>2. Promise!PayBack(r)
                BY <2>1, <2>4, <3>1, <3>2, <4>1, PayBackKeepsPromise
            <4>3. QED BY <4>2 DEF Promise!PromiseNext
        <3>3. CASE r \in Paid
            <4>1. Paid' = Paid
                BY <2>1, <3>1, <3>3 DEF Paid
            <4>2. Deciders' = Deciders
                BY <2>1, <2>4, <3>1 DEF Deciders, Terminal, TypeOK, rowVars
            <4>3. Superseded' = Superseded
                BY <2>1 DEF Superseded, rowVars
            <4>4. Returned' = Returned
                BY <2>1, <4>1, ReturnedKept DEF rowVars
            <4>5. QED
                BY <3>1, <3>3, <4>1, <4>2, <4>3, <4>4 DEF Promise!Book, Promise!PromiseNext
        <3>4. QED BY <3>2, <3>3
    <2>5. QED BY <1>7, <2>2, <2>3, <2>4 DEF ApplyResult, ManualResult, Terminal
<1>8. ASSUME NEW r \in Refunds, NEW x \in Refunds, Retry(r, x)
      PROVE  Promise!Replace(r, x)
    <2>1. /\ status[r] = "failed" /\ status[x] = "none" /\ r \notin Superseded
          /\ \E c \in {"processing", "approved"} : status' = [status EXCEPT ![x] = c]
          /\ payment' = [payment EXCEPT ![x] = payment[r]]
          /\ alloc' = [alloc EXCEPT ![x] = alloc[r]]
          /\ requester' = [requester EXCEPT ![x] = requester[r]]
          /\ approver' = [approver EXCEPT ![x] = approver[r]]
          /\ retryOf' = [retryOf EXCEPT ![x] = r]
          /\ UNCHANGED <<channel, ledger>>
        BY <1>8 DEF Retry, RetryEligible, Insert, Begun, wireVars, bookVars
    <2>2. Deciders[r] # {} /\ Deciders[x] = {}
        BY <2>1 DEF Deciders, Terminal
    <2>3. Deciders' = [Deciders EXCEPT ![x] = Deciders[r]]
        BY <2>1 DEF Deciders, Terminal, TypeOK
    <2>4. Superseded' = Superseded \cup {r}
        <3>1. retryOf[x] = None /\ r # None
            BY <2>1, NobodyAssumption DEF ReplacementsAgree
        <3>2. \A y \in Refunds : retryOf'[y] = IF y = x THEN r ELSE retryOf[y]
            BY <2>1 DEF TypeOK
        <3>3. QED BY <3>1, <3>2 DEF Superseded
    <2>5. Paid' = Paid /\ r \notin Paid /\ x \notin Paid
        BY <2>1 DEF Paid, PaidAgrees
    <2>6. Returned' = Returned
        <3>1. \A y \in Paid : payment'[y] = payment[y] /\ alloc'[y] = alloc[y]
            BY <2>1, <2>5 DEF PaidAgrees, TypeOK
        <3>2. QED BY <2>5, <3>1, ReturnedKept
    <2>7. QED BY <2>1, <2>2, <2>3, <2>4, <2>5, <2>6 DEF Promise!Replace, Promise!Payable
<1>9. QED
    BY <1>1, <1>2, <1>3, <1>4, <1>5, <1>6, <1>7, <1>8, AllocationsAreAmounts
    DEF Next, Promise!PromiseNext

\* Refunding implements its promise: no second payout on one decision, none without two
\* employees, none beyond what was collected, and no entry without the money.
THEOREM RefundsImplementPromise == Spec => RefundsKeepPromise
<1>1. Init => Promise!PromiseInit
    <2> SUFFICES ASSUME Init PROVE Promise!PromiseInit
        OBVIOUS
    <2>1. Deciders = [r \in Refunds |-> {}] /\ Superseded = {} /\ Paid = {} /\ ledger = {}
        BY DEF Init, Deciders, Superseded, Paid, Terminal
    <2>2. ASSUME NEW p \in Payments PROVE Amount(alloc, PaidOf(p), Items) = 0
        <3>1. Coins(alloc, PaidOf(p), Items) = {}
            BY <2>1 DEF PaidOf, Coins
        <3>2. QED BY <3>1, FS_EmptySet DEF Amount
    <2>3. Returned = [p \in Payments |-> 0]
        BY <2>2, ReturnedIs
    <2>4. QED BY <2>1, <2>3 DEF Promise!PromiseInit
<1>2. QED
    BY <1>1, RefundAlways, RefundStepKeepsPromise, PTL
    DEF Spec, RefundsKeepPromise, Promise!PromiseSpec
=============================================================================

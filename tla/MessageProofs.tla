---------------------------- MODULE MessageProofs ----------------------------
(* Proofs about OutboxDispatch and NotificationDelivery, for any number of   *)
(* messages, notifications, processes and attempts.                          *)
EXTENDS OutboxDispatch, NotificationDelivery, FiniteSetTheorems, TLAPS

USE BatchLimitAssumption, MaxTroublesAssumption, NoWorkerAssumption

----------------------------------------------------------------------------
(* Counting                                                                *)

\* 1 for a true statement, 0 for a false one.
One(b) == IF b THEN 1 ELSE 0

\* Two sets that differ at most in one element differ by at most one.
LEMMA CardinalityAtOne ==
  ASSUME NEW A, NEW B, NEW w, IsFiniteSet(A), A \ {w} = B \ {w}
  PROVE  /\ IsFiniteSet(B)
         /\ Cardinality(A) \in Nat /\ Cardinality(B) \in Nat
         /\ Cardinality(B) + One(w \in A) = Cardinality(A) + One(w \in B)
<1> DEFINE C == A \ {w}
<1>1. IsFiniteSet(C) /\ w \notin C
  BY FS_Difference
<1>2. IsFiniteSet(C \cup {w}) /\ Cardinality(C \cup {w}) = Cardinality(C) + 1
  BY <1>1, FS_AddElement
<1>3. Cardinality(C) \in Nat
  BY <1>1, FS_CardinalityType
<1>4. /\ w \in A => A = C \cup {w}
      /\ w \notin A => A = C
      /\ w \in B => B = C \cup {w}
      /\ w \notin B => B = C
  OBVIOUS
<1> HIDE DEF C
<1>5. \A D : (w \in D /\ D = C \cup {w}) \/ (w \notin D /\ D = C) =>
         /\ IsFiniteSet(D) /\ Cardinality(D) = Cardinality(C) + One(w \in D)
         /\ One(w \in D) \in {0, 1}
  <2> SUFFICES ASSUME NEW D, (w \in D /\ D = C \cup {w}) \/ (w \notin D /\ D = C)
               PROVE  /\ IsFiniteSet(D) /\ Cardinality(D) = Cardinality(C) + One(w \in D)
                      /\ One(w \in D) \in {0, 1}
    OBVIOUS
  <2>1. CASE w \in D /\ D = C \cup {w}
    <3>1. One(w \in D) = 1
      BY <2>1 DEF One
    <3>2. QED  BY <1>2, <2>1, <3>1
  <2>2. CASE w \notin D /\ D = C
    <3>1. One(w \in D) = 0
      BY <2>2 DEF One
    <3>2. QED  BY <1>1, <1>3, <2>2, <3>1
  <2>3. QED  BY <2>1, <2>2
<1>6. /\ IsFiniteSet(A) /\ Cardinality(A) = Cardinality(C) + One(w \in A)
      /\ One(w \in A) \in {0, 1}
  BY <1>4, <1>5
<1>7. /\ IsFiniteSet(B) /\ Cardinality(B) = Cardinality(C) + One(w \in B)
      /\ One(w \in B) \in {0, 1}
  BY <1>4, <1>5
<1> DEFINE a == One(w \in A)
           b == One(w \in B)
<1> HIDE DEF a, b
<1>8. a \in {0, 1} /\ b \in {0, 1} /\ Cardinality(A) = Cardinality(C) + a
      /\ Cardinality(B) = Cardinality(C) + b
  BY <1>6, <1>7 DEF a, b
<1>9. /\ Cardinality(A) \in Nat /\ Cardinality(B) \in Nat
      /\ Cardinality(B) + a = Cardinality(A) + b
  BY <1>3, <1>8
<1>10. QED  BY <1>7, <1>9 DEF a, b

----------------------------------------------------------------------------
(* The inductive invariant: every handover of a message is paid for.        *)

\* Workers that will still hand m over, or that failed and will give it back.
Owing(m) == {w \in Workers : m \in batch[w] \/ (step[w] = "releasing" /\ current[w] = m)}

\* Somebody may claim m: now, after its backoff or once its lock has aged by itself.
Open(m) ==
    /\ row[m] # "delivered"
    /\ \/ lockedBy[m] = None
       \/ m \in stale
       \/ ~AtHand(lockedBy[m], m)

\* The first handover is free, each further one was paid for by a trouble.
Paid ==
    \A m \in Messages :
       /\ IsFiniteSet(Owing(m))
       /\ accepted[m] + Cardinality(Owing(m)) + One(Open(m)) <= 1 + troubles[m]

\* The worker's loop: a message is in hand or in the batch, and it is the message the
\* consumer took whose outcome is being marked.
Loop ==
    \A w \in Workers :
       /\ current[w] \notin batch[w]
       /\ step[w] = "marking" => accepted[current[w]] > 0

\* A delivered row has no lock, and the consumer has it.
DeliveredRow ==
    \A m \in Messages : row[m] = "delivered" => lockedBy[m] = None /\ accepted[m] > 0

\* The inductive invariant.
OutboxIInv == TypeOK /\ Loop /\ DeliveredRow /\ Paid

\* The account of a message stays balanced when at most the worker w changes what it
\* owes, and what is added is paid for.
LEMMA PaidStep ==
  ASSUME TypeOK, TypeOK', Paid, NEW m \in Messages, NEW w,
         Owing(m)' \ {w} = Owing(m) \ {w},
         NEW a \in Nat, accepted'[m] = accepted[m] + a,
         NEW t \in Nat, troubles'[m] = troubles[m] + t,
         a + One(w \in Owing(m)') + One(Open(m)') <= One(w \in Owing(m)) + One(Open(m)) + t
  PROVE  /\ IsFiniteSet(Owing(m)')
         /\ accepted'[m] + Cardinality(Owing(m)') + One(Open(m)') <= 1 + troubles'[m]
<1>1. /\ IsFiniteSet(Owing(m))
      /\ accepted[m] + Cardinality(Owing(m)) + One(Open(m)) <= 1 + troubles[m]
  BY DEF Paid
<1>2. /\ IsFiniteSet(Owing(m)')
      /\ Cardinality(Owing(m)) \in Nat /\ Cardinality(Owing(m)') \in Nat
      /\ Cardinality(Owing(m)') + One(w \in Owing(m)) = Cardinality(Owing(m)) + One(w \in Owing(m)')
  BY <1>1, CardinalityAtOne
<1>3. accepted[m] \in Nat /\ accepted'[m] \in Nat /\ troubles[m] \in Nat /\ troubles'[m] \in Nat
  BY DEF TypeOK
<1>4. \A b : One(b) \in {0, 1}
  BY DEF One
<1> DEFINE i == One(w \in Owing(m))
           j == One(w \in Owing(m)')
           o == One(Open(m))
           p == One(Open(m)')
           c == Cardinality(Owing(m))
           d == Cardinality(Owing(m)')
<1>5. i \in {0, 1} /\ j \in {0, 1} /\ o \in {0, 1} /\ p \in {0, 1}
  BY <1>4
<1>6. c \in Nat /\ d \in Nat /\ d + i = c + j /\ accepted[m] + c + o <= 1 + troubles[m]
  BY <1>1, <1>2
<1>7. a + j + p <= i + o + t
  OBVIOUS
<1> HIDE DEF i, j, o, p, c, d
<1>8. accepted'[m] + d + p <= 1 + troubles'[m]
  BY <1>3, <1>5, <1>6, <1>7
<1>9. QED  BY <1>2, <1>8 DEF d, p

\* The account of a message that a step leaves alone, or closes, stays balanced.
LEMMA PaidSame ==
  ASSUME TypeOK, TypeOK', Paid, NEW m \in Messages,
         Owing(m)' = Owing(m), Open(m)' => Open(m),
         accepted'[m] = accepted[m], troubles'[m] = troubles[m]
  PROVE  /\ IsFiniteSet(Owing(m)')
         /\ accepted'[m] + Cardinality(Owing(m)') + One(Open(m)') <= 1 + troubles'[m]
<1>1. accepted'[m] = accepted[m] + 0 /\ troubles'[m] = troubles[m] + 0
  BY DEF TypeOK
<1>2. One(None \in Owing(m)') = One(None \in Owing(m)) /\ One(None \in Owing(m)) \in {0, 1}
  BY DEF One
<1>3. One(Open(m)') <= One(Open(m)) /\ One(Open(m)) \in {0, 1} /\ One(Open(m)') \in {0, 1}
  BY DEF One
<1>4. 0 + One(None \in Owing(m)') + One(Open(m)') <= One(None \in Owing(m)) + One(Open(m)) + 0
  BY <1>2, <1>3
<1>5. QED  BY <1>1, <1>4, PaidStep

\* It holds before any message is written.
LEMMA OutboxInitOK == Init => OutboxIInv
<1> SUFFICES ASSUME Init PROVE OutboxIInv
  OBVIOUS
<1>1. TypeOK /\ Loop /\ DeliveredRow
  BY DEF Init, TypeOK, Loop, DeliveredRow
<1>2. ASSUME NEW m \in Messages
      PROVE  /\ IsFiniteSet(Owing(m))
             /\ accepted[m] + Cardinality(Owing(m)) + One(Open(m)) <= 1 + troubles[m]
  <2>1. Owing(m) = {}
    BY DEF Owing, Init
  <2>2. IsFiniteSet(Owing(m)) /\ Cardinality(Owing(m)) = 0
    BY <2>1, FS_EmptySet
  <2>3. accepted[m] = 0 /\ troubles[m] = 0
    BY DEF Init
  <2>4. QED  BY <2>2, <2>3 DEF One
<1>3. QED  BY <1>1, <1>2 DEF OutboxIInv, Paid

----------------------------------------------------------------------------
(* Type correctness                                                        *)

\* Commands and the clock keep the domains.
LEMMA TableType ==
  ASSUME TypeOK, NEW m \in Messages, Append(m) \/ BackoffEnds(m) \/ LockAges(m)
  PROVE  TypeOK'
<1>1. CASE Append(m) \/ BackoffEnds(m)
  BY <1>1 DEF TypeOK, Append, BackoffEnds, workerVars, historyVars
<1>2. CASE LockAges(m)
  BY <1>2 DEF TypeOK, LockAges, Trouble, workerVars
<1>3. QED  BY <1>1, <1>2

\* So does a claim.
LEMMA ClaimType ==
  ASSUME TypeOK, NEW w \in Workers, Claim(w)
  PROVE  TypeOK'
<1>1. PICK S \in SUBSET Claimable :
        /\ S # {}
        /\ lockedBy' = [m \in Messages |-> IF m \in S THEN w ELSE lockedBy[m]]
        /\ stale' = stale \ S
        /\ batch' = [batch EXCEPT ![w] = S]
  BY DEF Claim
<1>2. S \subseteq Messages /\ step[w] = "claiming"
  BY DEF Claim, Claimable
<1>3. /\ step' = [step EXCEPT ![w] = "delivering"]
      /\ UNCHANGED <<row, current, accepted, troubles>>
  BY DEF Claim, historyVars
<1>4. \A m \in stale' : lockedBy'[m] # None
  BY <1>1 DEF TypeOK
<1>5. QED  BY <1>1, <1>2, <1>3, <1>4 DEF TypeOK

\* So does a handover.
LEMMA DeliverType ==
  ASSUME TypeOK, NEW w \in Workers, Deliver(w)
  PROVE  TypeOK'
<1>1. PICK m \in batch[w], taken \in BOOLEAN, thrown \in BOOLEAN :
        /\ current' = [current EXCEPT ![w] = m]
        /\ batch' = [batch EXCEPT ![w] = @ \ {m}]
        /\ accepted' = IF taken THEN [accepted EXCEPT ![m] = @ + 1] ELSE accepted
        /\ step' = [step EXCEPT ![w] = IF thrown THEN "releasing" ELSE "marking"]
        /\ IF thrown THEN Trouble(m) ELSE UNCHANGED troubles
  BY DEF Deliver
<1>2. UNCHANGED tableVars
  BY DEF Deliver
<1>3. m \in Messages
  BY DEF TypeOK
<1>4. accepted' \in [Messages -> Nat] /\ troubles' \in [Messages -> Nat]
  BY <1>1, <1>3 DEF TypeOK, Trouble
<1>5. QED  BY <1>1, <1>2, <1>3, <1>4 DEF TypeOK, tableVars

\* The UPDATE of markDelivered keeps the domains of the row.
LEMMA MarkedType ==
  ASSUME TypeOK, NEW w \in Workers, current[w] \in Messages, Marked(w, current[w])
  PROVE  /\ row' \in [Messages -> {"unwritten", "due", "backing_off", "delivered"}]
         /\ lockedBy' \in [Messages -> Workers \cup {None}]
         /\ stale' \subseteq Messages
         /\ \A m \in stale' : lockedBy'[m] # None
  BY DEF TypeOK, Marked, tableVars

\* Recording an outcome keeps the domains.
LEMMA MarkType ==
  ASSUME TypeOK, NEW w \in Workers,
         MarkDelivered(w) \/ MarkThrows(w) \/ ReleaseFailed(w)
  PROVE  TypeOK'
<1>1. current[w] \in Messages
  BY DEF TypeOK, MarkDelivered, MarkThrows, ReleaseFailed
<1>2. /\ row' \in [Messages -> {"unwritten", "due", "backing_off", "delivered"}]
      /\ lockedBy' \in [Messages -> Workers \cup {None}]
      /\ stale' \subseteq Messages
      /\ \A m \in stale' : lockedBy'[m] # None
  <2>1. CASE UNCHANGED tableVars
    BY <2>1 DEF TypeOK, tableVars
  <2>2. CASE Marked(w, current[w])
    BY <1>1, <2>2, MarkedType
  <2>3. CASE ReleaseFailed(w)
    BY <1>1, <2>3 DEF ReleaseFailed, Released, TypeOK, tableVars
  <2>4. QED  BY <2>1, <2>2, <2>3 DEF MarkDelivered, MarkThrows
<1>3. CASE MarkDelivered(w) \/ ReleaseFailed(w)
  <2>1. NextMessage(w) /\ UNCHANGED <<accepted, troubles>>
    BY <1>3 DEF MarkDelivered, ReleaseFailed, historyVars
  <2>2. QED  BY <1>2, <2>1 DEF TypeOK, NextMessage
<1>4. CASE MarkThrows(w)
  BY <1>1, <1>2, <1>4 DEF TypeOK, MarkThrows, Trouble
<1>5. QED  BY <1>3, <1>4

\* So does a crash.
LEMMA CrashType ==
  ASSUME TypeOK, NEW w \in Workers, Crash(w)
  PROVE  TypeOK'
  BY DEF TypeOK, Crash, tableVars

----------------------------------------------------------------------------
(* The steps keep the invariant                                            *)

\* The table and the clock: a row that opens because its lock aged in the owner's hand
\* is paid for by that trouble.
LEMMA TableKeeps ==
  ASSUME OutboxIInv, NEW m \in Messages, Append(m) \/ BackoffEnds(m) \/ LockAges(m)
  PROVE  OutboxIInv'
<1>1. TypeOK /\ TypeOK'
  BY TableType DEF OutboxIInv
<1>2. UNCHANGED <<batch, current, step, accepted, lockedBy>>
  BY DEF Append, BackoffEnds, LockAges, workerVars, historyVars
<1>3. \A x \in Messages : row'[x] = "delivered" <=> row[x] = "delivered"
  BY <1>1 DEF Append, BackoffEnds, LockAges, TypeOK
<1>4. Loop' /\ DeliveredRow'
  BY <1>2, <1>3 DEF OutboxIInv, Loop, DeliveredRow
<1>5. ASSUME NEW x \in Messages
      PROVE  /\ IsFiniteSet(Owing(x)')
             /\ accepted'[x] + Cardinality(Owing(x)') + One(Open(x)') <= 1 + troubles'[x]
  <2>1. Owing(x)' = Owing(x)
    BY <1>2 DEF Owing
  <2>2. accepted[x] \in Nat /\ troubles[x] \in Nat
    BY <1>1 DEF TypeOK
  <2>3. CASE x # m \/ ~LockAges(m)
    <3>1. Open(x)' <=> Open(x)
      BY <1>2, <1>3, <2>3 DEF Open, AtHand, Append, BackoffEnds, LockAges
    <3>2. troubles'[x] = troubles[x]
      BY <1>1, <2>3 DEF Append, BackoffEnds, LockAges, Trouble, historyVars, TypeOK
    <3>3. QED  BY <1>1, <1>2, <2>1, <2>2, <3>1, <3>2, PaidSame DEF OutboxIInv
  <2>4. CASE x = m /\ LockAges(m) /\ AtHand(lockedBy[m], m)
    <3>1. troubles'[x] = troubles[x] + 1 /\ accepted'[x] = accepted[x] + 0
      BY <1>1, <1>2, <2>2, <2>4 DEF LockAges, Trouble, TypeOK
    <3>2. 0 + One(None \in Owing(x)') + One(Open(x)') <= One(None \in Owing(x)) + One(Open(x)) + 1
      BY <2>1 DEF One
    <3>3. QED  BY <1>1, <2>1, <3>1, <3>2, PaidStep DEF OutboxIInv
  <2>5. CASE x = m /\ LockAges(m) /\ ~AtHand(lockedBy[m], m)
    <3>1. troubles'[x] = troubles[x]
      BY <2>5 DEF LockAges
    <3>2. Open(x)' => Open(x)
      BY <1>3, <2>5 DEF Open
    <3>3. QED  BY <1>1, <1>2, <2>1, <2>2, <3>1, <3>2, PaidSame DEF OutboxIInv
  <2>6. QED  BY <2>3, <2>4, <2>5
<1>6. QED  BY <1>1, <1>4, <1>5 DEF OutboxIInv, Paid

\* A claim turns a message that is open into one that its worker owes.
LEMMA ClaimMessagesKeeps ==
  ASSUME OutboxIInv, NEW w \in Workers, Claim(w)
  PROVE  OutboxIInv'
<1>1. TypeOK /\ TypeOK'
  BY ClaimType DEF OutboxIInv
<1>2. PICK S \in SUBSET Claimable :
        /\ lockedBy' = [m \in Messages |-> IF m \in S THEN w ELSE lockedBy[m]]
        /\ stale' = stale \ S
        /\ batch' = [batch EXCEPT ![w] = S]
  BY DEF Claim
<1>3. /\ UNCHANGED <<row, current, accepted, troubles>>
      /\ step' = [step EXCEPT ![w] = "delivering"]
      /\ step[w] = "claiming" /\ batch[w] = {} /\ current[w] = None
  BY <1>1 DEF Claim, TypeOK, historyVars
<1>4. /\ \A v \in Workers \ {w} : batch'[v] = batch[v] /\ step'[v] = step[v]
      /\ batch'[w] = S /\ step'[w] = "delivering"
  BY <1>1, <1>2, <1>3 DEF TypeOK
<1>5. \A m \in S : m \in Messages /\ row[m] = "due" /\ (lockedBy[m] = None \/ m \in stale)
  BY DEF Claimable
<1>6. Loop'
  BY <1>1, <1>3, <1>4, <1>5 DEF OutboxIInv, Loop
<1>7. DeliveredRow'
  BY <1>2, <1>3, <1>5 DEF OutboxIInv, DeliveredRow
<1>8. ASSUME NEW m \in Messages
      PROVE  /\ IsFiniteSet(Owing(m)')
             /\ accepted'[m] + Cardinality(Owing(m)') + One(Open(m)') <= 1 + troubles'[m]
  <2>1. accepted[m] \in Nat /\ troubles[m] \in Nat
    BY <1>1 DEF TypeOK
  <2>2. CASE m \in S
    <3>1. Owing(m)' \ {w} = Owing(m) \ {w} /\ w \notin Owing(m)
      BY <1>3, <1>4 DEF Owing
    <3>2. Open(m) /\ ~Open(m)'
      BY <1>1, <1>2, <1>4, <1>5, <2>2 DEF Open, AtHand, TypeOK
    <3>3. 0 + One(w \in Owing(m)') + One(Open(m)') <= One(w \in Owing(m)) + One(Open(m)) + 0
      BY <3>1, <3>2 DEF One
    <3>4. accepted'[m] = accepted[m] + 0 /\ troubles'[m] = troubles[m] + 0
      BY <1>3, <2>1
    <3>5. QED  BY <1>1, <3>1, <3>3, <3>4, PaidStep DEF OutboxIInv
  <2>3. CASE m \notin S
    <3>1. Owing(m)' = Owing(m)
      BY <1>3, <1>4, <2>3 DEF Owing
    <3>2. Open(m)' => Open(m)
      BY <1>1, <1>2, <1>3, <1>4, <2>3 DEF Open, AtHand, TypeOK
    <3>3. QED  BY <1>1, <1>3, <3>1, <3>2, PaidSame DEF OutboxIInv
  <2>4. QED  BY <2>2, <2>3
<1>9. QED  BY <1>1, <1>6, <1>7, <1>8 DEF OutboxIInv, Paid

\* A handover settles what the worker owed; a failed call pays for the next one.
LEMMA DeliverKeeps ==
  ASSUME OutboxIInv, NEW w \in Workers, Deliver(w)
  PROVE  OutboxIInv'
<1>1. TypeOK /\ TypeOK'
  BY DeliverType DEF OutboxIInv
<1>2. PICK m \in batch[w], taken \in BOOLEAN, thrown \in BOOLEAN :
        /\ taken \/ thrown
        /\ current' = [current EXCEPT ![w] = m]
        /\ batch' = [batch EXCEPT ![w] = @ \ {m}]
        /\ accepted' = IF taken THEN [accepted EXCEPT ![m] = @ + 1] ELSE accepted
        /\ step' = [step EXCEPT ![w] = IF thrown THEN "releasing" ELSE "marking"]
        /\ IF thrown THEN Trouble(m) ELSE UNCHANGED troubles
  BY DEF Deliver
<1>3. /\ UNCHANGED <<row, lockedBy, stale>>
      /\ step[w] = "delivering" /\ current[w] = None /\ m \in Messages
  BY <1>1 DEF Deliver, TypeOK, tableVars
<1>4. /\ \A v \in Workers \ {w} : batch'[v] = batch[v] /\ step'[v] = step[v] /\ current'[v] = current[v]
      /\ batch'[w] = batch[w] \ {m} /\ current'[w] = m
      /\ step'[w] = IF thrown THEN "releasing" ELSE "marking"
  BY <1>1, <1>2 DEF TypeOK
<1>5. \A x \in Messages : /\ x # m => accepted'[x] = accepted[x] /\ troubles'[x] = troubles[x]
                          /\ accepted[x] \in Nat /\ troubles[x] \in Nat
  BY <1>1, <1>2, <1>3 DEF TypeOK, Trouble
<1>6. accepted'[m] = accepted[m] + One(taken) /\ troubles'[m] = troubles[m] + One(thrown)
  BY <1>1, <1>2, <1>3 DEF TypeOK, Trouble, One
<1>7. \A x \in Messages : accepted'[x] >= accepted[x]
  BY <1>5, <1>6 DEF One
<1>8. Loop'
  <2> SUFFICES ASSUME NEW v \in Workers
               PROVE  /\ current'[v] \notin batch'[v]
                      /\ step'[v] = "marking" => accepted'[current'[v]] > 0
    BY DEF Loop
  <2>1. CASE v = w
    BY <1>2, <1>4, <1>5, <1>3, <1>6, <2>1 DEF One
  <2>2. CASE v # w
    <3>1. current'[v] = current[v] /\ batch'[v] = batch[v] /\ step'[v] = step[v]
      BY <1>4, <2>2
    <3>2. step[v] = "marking" => current[v] \in Messages /\ accepted[current[v]] > 0
      BY <1>1 DEF TypeOK, OutboxIInv, Loop
    <3>3. QED  BY <1>1, <1>5, <1>7, <3>1, <3>2 DEF OutboxIInv, Loop, TypeOK
  <2>3. QED  BY <2>1, <2>2
<1>9. DeliveredRow'
  BY <1>1, <1>3, <1>5, <1>7 DEF OutboxIInv, DeliveredRow, TypeOK
<1>10. ASSUME NEW x \in Messages
      PROVE  /\ IsFiniteSet(Owing(x)')
             /\ accepted'[x] + Cardinality(Owing(x)') + One(Open(x)') <= 1 + troubles'[x]
  <2>1. Open(x)' <=> Open(x)
    BY <1>1, <1>3, <1>4 DEF Open, AtHand, TypeOK
  <2>2. CASE x = m
    <3>1. Owing(x)' \ {w} = Owing(x) \ {w} /\ w \in Owing(x)
      BY <1>4, <2>2 DEF Owing
    <3>2. w \in Owing(x)' <=> thrown
      BY <1>4, <2>2 DEF Owing
    <3>3. One(taken) \in Nat /\ One(thrown) \in Nat
      BY DEF One
    <3>4. One(taken) + One(w \in Owing(x)') + One(Open(x)')
            <= One(w \in Owing(x)) + One(Open(x)) + One(thrown)
      BY <2>1, <3>1, <3>2 DEF One
    <3>5. QED  BY <1>1, <1>6, <2>2, <3>1, <3>3, <3>4, PaidStep DEF OutboxIInv
  <2>3. CASE x # m
    <3>1. Owing(x)' = Owing(x)
      BY <1>3, <1>4, <2>3 DEF Owing
    <3>2. QED  BY <1>1, <1>5, <2>1, <2>3, <3>1, PaidSame DEF OutboxIInv
  <2>4. QED  BY <2>2, <2>3
<1>11. QED  BY <1>1, <1>8, <1>9, <1>10 DEF OutboxIInv, Paid

\* What the UPDATE of markDelivered may do to the rows: the marked one leaves, delivered.
LEMMA MarkedRows ==
  ASSUME TypeOK, NEW w \in Workers, NEW m \in Messages, Marked(w, m)
  PROVE  \/ UNCHANGED <<row, lockedBy, stale>>
         \/ /\ Owns(w, m)
            /\ row'[m] = "delivered" /\ lockedBy'[m] = None
            /\ stale' = stale \ {m}
            /\ \A x \in Messages \ {m} : row'[x] = row[x] /\ lockedBy'[x] = lockedBy[x]
  BY DEF Marked, TypeOK, tableVars

\* Marking a message opens nothing: it is delivered, or its lock is somebody else's.
LEMMA MarkKeeps ==
  ASSUME OutboxIInv, NEW w \in Workers, MarkDelivered(w)
  PROVE  OutboxIInv'
<1> DEFINE m == current[w]
<1>1. TypeOK /\ TypeOK'
  BY MarkType DEF OutboxIInv
<1>2. /\ step[w] = "marking" /\ m \in Messages /\ accepted[m] > 0 /\ m \notin batch[w]
      /\ UNCHANGED <<batch, accepted, troubles>>
  BY <1>1 DEF OutboxIInv, Loop, MarkDelivered, NextMessage, TypeOK, historyVars
<1>3. /\ current'[w] = None /\ step'[w] \in {"claiming", "delivering"}
      /\ \A v \in Workers \ {w} : current'[v] = current[v] /\ step'[v] = step[v]
  BY <1>1 DEF MarkDelivered, NextMessage, TypeOK
<1>4. \/ UNCHANGED <<row, lockedBy, stale>> /\ ~Owns(w, m)
      \/ /\ row'[m] = "delivered" /\ lockedBy'[m] = None
         /\ stale' = stale \ {m}
         /\ \A x \in Messages \ {m} : row'[x] = row[x] /\ lockedBy'[x] = lockedBy[x]
  BY <1>1, <1>2 DEF MarkDelivered, Marked, TypeOK, tableVars
<1>5. Loop'
  BY <1>1, <1>2, <1>3 DEF OutboxIInv, Loop, TypeOK
<1>6. DeliveredRow'
  BY <1>2, <1>4 DEF OutboxIInv, DeliveredRow
<1>7. ASSUME NEW x \in Messages
      PROVE  /\ IsFiniteSet(Owing(x)')
             /\ accepted'[x] + Cardinality(Owing(x)') + One(Open(x)') <= 1 + troubles'[x]
  <2>1. Owing(x)' = Owing(x)
    BY <1>2, <1>3 DEF Owing
  <2>2. Open(x)' => Open(x)
    <3>1. CASE x = m
      <4>1. CASE row'[m] = "delivered"
        BY <3>1, <4>1 DEF Open
      <4>2. CASE UNCHANGED <<row, lockedBy, stale>> /\ ~Owns(w, m)
        <5>1. CASE row[m] = "delivered"
          BY <3>1, <4>2, <5>1 DEF Open
        <5>2. CASE lockedBy[m] # w
          BY <1>1, <1>2, <1>3, <3>1, <4>2, <5>2 DEF Open, AtHand, TypeOK
        <5>3. QED  BY <4>2, <5>1, <5>2 DEF Owns
      <4>3. QED  BY <1>4, <4>1, <4>2
    <3>2. CASE x # m
      <4>1. row'[x] = row[x] /\ lockedBy'[x] = lockedBy[x] /\ (x \in stale' <=> x \in stale)
        BY <1>4, <3>2
      <4>2. lockedBy[x] \in Workers => (AtHand(lockedBy[x], x)' <=> AtHand(lockedBy[x], x))
        BY <1>1, <1>2, <1>3, <3>2, <4>1 DEF AtHand
      <4>3. lockedBy[x] \in Workers \cup {None}
        BY <1>1 DEF TypeOK
      <4>4. QED  BY <4>1, <4>2, <4>3 DEF Open, AtHand
    <3>3. QED  BY <3>1, <3>2
  <2>3. QED  BY <1>1, <1>2, <2>1, <2>2, PaidSame DEF OutboxIInv
<1>8. QED  BY <1>1, <1>5, <1>6, <1>7 DEF OutboxIInv, Paid

\* A marking that throws pays for the worker giving the message back.
LEMMA MarkThrowsKeeps ==
  ASSUME OutboxIInv, NEW w \in Workers, MarkThrows(w)
  PROVE  OutboxIInv'
<1> DEFINE m == current[w]
<1>1. TypeOK /\ TypeOK'
  BY MarkType DEF OutboxIInv
<1>2. /\ step[w] = "marking" /\ m \in Messages /\ accepted[m] > 0 /\ m \notin batch[w]
      /\ UNCHANGED <<batch, current, accepted>>
  BY <1>1 DEF OutboxIInv, Loop, MarkThrows, TypeOK
<1>3. /\ step'[w] = "releasing"
      /\ \A v \in Workers \ {w} : step'[v] = step[v]
      /\ troubles'[m] = troubles[m] + 1
      /\ \A x \in Messages \ {m} : troubles'[x] = troubles[x]
  BY <1>1, <1>2 DEF MarkThrows, Trouble, TypeOK
<1>4. \/ UNCHANGED <<row, lockedBy, stale>>
      \/ /\ row'[m] = "delivered" /\ lockedBy'[m] = None
         /\ stale' = stale \ {m}
         /\ \A x \in Messages \ {m} : row'[x] = row[x] /\ lockedBy'[x] = lockedBy[x]
  BY <1>1, <1>2, MarkedRows DEF MarkThrows, tableVars
<1>5. Loop'
  BY <1>1, <1>2, <1>3 DEF OutboxIInv, Loop, TypeOK
<1>6. DeliveredRow'
  BY <1>2, <1>4 DEF OutboxIInv, DeliveredRow
<1>7. ASSUME NEW x \in Messages
      PROVE  /\ IsFiniteSet(Owing(x)')
             /\ accepted'[x] + Cardinality(Owing(x)') + One(Open(x)') <= 1 + troubles'[x]
  <2>1. Open(x)' => Open(x)
    <3>1. CASE row'[x] = "delivered"
      BY <3>1 DEF Open
    <3>2. CASE row'[x] # "delivered"
      <4>1. row'[x] = row[x] /\ lockedBy'[x] = lockedBy[x] /\ (x \in stale' <=> x \in stale)
        BY <1>4, <3>2
      <4>2. QED  BY <1>2, <4>1 DEF Open, AtHand
    <3>3. QED  BY <3>1, <3>2
  <2>2. CASE x = m
    <3>1. Owing(x)' \ {w} = Owing(x) \ {w}
      BY <1>2, <1>3 DEF Owing
    <3>2. accepted'[x] = accepted[x] + 0 /\ troubles'[x] = troubles[x] + 1
      BY <1>1, <1>2, <1>3, <2>2 DEF TypeOK
    <3>3. 0 + One(w \in Owing(x)') + One(Open(x)') <= One(w \in Owing(x)) + One(Open(x)) + 1
      BY <2>1 DEF One
    <3>4. QED  BY <1>1, <3>1, <3>2, <3>3, PaidStep DEF OutboxIInv
  <2>3. CASE x # m
    <3>1. Owing(x)' = Owing(x)
      BY <1>2, <1>3, <2>3 DEF Owing
    <3>2. QED  BY <1>1, <1>2, <1>3, <2>1, <2>3, <3>1, PaidSame DEF OutboxIInv
  <2>4. QED  BY <2>2, <2>3
<1>8. QED  BY <1>1, <1>5, <1>6, <1>7 DEF OutboxIInv, Paid

\* Giving a message back opens it, and the worker owes it no more.
LEMMA ReleaseKeeps ==
  ASSUME OutboxIInv, NEW w \in Workers, ReleaseFailed(w)
  PROVE  OutboxIInv'
<1> DEFINE m == current[w]
<1>1. TypeOK /\ TypeOK'
  BY MarkType DEF OutboxIInv
<1>2. /\ step[w] = "releasing" /\ m \in Messages /\ m \notin batch[w]
      /\ UNCHANGED <<batch, accepted, troubles>>
  BY <1>1 DEF OutboxIInv, Loop, ReleaseFailed, NextMessage, TypeOK, historyVars
<1>3. /\ current'[w] = None /\ step'[w] \in {"claiming", "delivering"}
      /\ \A v \in Workers \ {w} : current'[v] = current[v] /\ step'[v] = step[v]
  BY <1>1 DEF ReleaseFailed, NextMessage, TypeOK
<1>4. /\ \A x \in Messages \ {m} :
            row'[x] = row[x] /\ lockedBy'[x] = lockedBy[x] /\ (x \in stale' <=> x \in stale)
      /\ \/ UNCHANGED <<row, lockedBy, stale>>
         \/ row'[m] = "backing_off" /\ lockedBy'[m] = None
  BY <1>1, <1>2 DEF ReleaseFailed, Released, TypeOK, tableVars
<1>5. Loop'
  BY <1>1, <1>2, <1>3 DEF OutboxIInv, Loop, TypeOK
<1>6. DeliveredRow'
  BY <1>2, <1>4 DEF OutboxIInv, DeliveredRow
<1>7. ASSUME NEW x \in Messages
      PROVE  /\ IsFiniteSet(Owing(x)')
             /\ accepted'[x] + Cardinality(Owing(x)') + One(Open(x)') <= 1 + troubles'[x]
  <2>1. CASE x = m
    <3>1. Owing(x)' \ {w} = Owing(x) \ {w} /\ w \in Owing(x) /\ w \notin Owing(x)'
      BY <1>2, <1>3, <2>1 DEF Owing
    <3>2. accepted'[x] = accepted[x] + 0 /\ troubles'[x] = troubles[x] + 0
      BY <1>1, <1>2, <2>1 DEF TypeOK
    <3>3. 0 + One(w \in Owing(x)') + One(Open(x)') <= One(w \in Owing(x)) + One(Open(x)) + 0
      BY <3>1 DEF One
    <3>4. QED  BY <1>1, <3>1, <3>2, <3>3, PaidStep DEF OutboxIInv
  <2>2. CASE x # m
    <3>1. Owing(x)' = Owing(x)
      BY <1>2, <1>3, <2>2 DEF Owing
    <3>2. lockedBy[x] \in Workers => (AtHand(lockedBy[x], x)' <=> AtHand(lockedBy[x], x))
      BY <1>1, <1>2, <1>3, <1>4, <2>2 DEF AtHand
    <3>3. lockedBy[x] \in Workers \cup {None}
      BY <1>1 DEF TypeOK
    <3>4. Open(x)' => Open(x)
      BY <1>4, <2>2, <3>2, <3>3 DEF Open, AtHand
    <3>5. QED  BY <1>1, <1>2, <3>1, <3>4, PaidSame DEF OutboxIInv
  <2>3. QED  BY <2>1, <2>2
<1>8. QED  BY <1>1, <1>5, <1>6, <1>7 DEF OutboxIInv, Paid

\* A crash pays for the messages whose locks it leaves behind.
LEMMA CrashKeeps ==
  ASSUME OutboxIInv, NEW w \in Workers, Crash(w)
  PROVE  OutboxIInv'
<1>1. TypeOK /\ TypeOK'
  BY CrashType DEF OutboxIInv
<1>2. /\ UNCHANGED <<row, lockedBy, stale, accepted>>
      /\ \A x \in Messages : troubles'[x] = IF AtHand(w, x) THEN troubles[x] + 1 ELSE troubles[x]
      /\ batch'[w] = {} /\ current'[w] = None /\ step'[w] = "claiming"
      /\ \A v \in Workers \ {w} : batch'[v] = batch[v] /\ current'[v] = current[v] /\ step'[v] = step[v]
  BY <1>1 DEF Crash, TypeOK, tableVars
<1>3. Loop' /\ DeliveredRow'
  BY <1>1, <1>2 DEF OutboxIInv, Loop, DeliveredRow, TypeOK
<1>4. ASSUME NEW x \in Messages
      PROVE  /\ IsFiniteSet(Owing(x)')
             /\ accepted'[x] + Cardinality(Owing(x)') + One(Open(x)') <= 1 + troubles'[x]
  <2>1. CASE AtHand(w, x)
    <3>1. Owing(x)' \ {w} = Owing(x) \ {w} /\ w \notin Owing(x)'
      BY <1>2 DEF Owing
    <3>2. accepted'[x] = accepted[x] + 0 /\ troubles'[x] = troubles[x] + 1
      BY <1>1, <1>2, <2>1 DEF TypeOK
    <3>3. 0 + One(w \in Owing(x)') + One(Open(x)') <= One(w \in Owing(x)) + One(Open(x)) + 1
      BY <3>1 DEF One
    <3>4. QED  BY <1>1, <3>1, <3>2, <3>3, PaidStep DEF OutboxIInv
  <2>2. CASE ~AtHand(w, x)
    <3>1. Owing(x)' = Owing(x)
      BY <1>2, <2>2 DEF Owing, AtHand
    <3>2. Open(x)' => Open(x)
      BY <1>1, <1>2, <2>2 DEF Open, AtHand, TypeOK
    <3>3. QED  BY <1>1, <1>2, <2>2, <3>1, <3>2, PaidSame DEF OutboxIInv
  <2>3. QED  BY <2>1, <2>2
<1>5. QED  BY <1>1, <1>3, <1>4 DEF OutboxIInv, Paid

\* Every step keeps the invariant.
LEMMA OutboxStepOK == OutboxIInv /\ [Next]_vars => OutboxIInv'
<1> SUFFICES ASSUME OutboxIInv, [Next]_vars PROVE OutboxIInv'
  OBVIOUS
<1>1. ASSUME NEW m \in Messages, Append(m) \/ BackoffEnds(m) \/ LockAges(m) PROVE OutboxIInv'
  BY <1>1, TableKeeps
<1>2. ASSUME NEW w \in Workers,
             \/ Claim(w) \/ Deliver(w) \/ MarkDelivered(w)
             \/ MarkThrows(w) \/ ReleaseFailed(w) \/ Crash(w)
      PROVE  OutboxIInv'
  BY <1>2, ClaimMessagesKeeps, DeliverKeeps, MarkKeeps, MarkThrowsKeeps, ReleaseKeeps, CrashKeeps
<1>3. CASE UNCHANGED vars
  <2>1. TypeOK' /\ Loop' /\ DeliveredRow'
    BY <1>3 DEF OutboxIInv, TypeOK, Loop, DeliveredRow, vars
  <2>2. ASSUME NEW m \in Messages
        PROVE  /\ IsFiniteSet(Owing(m)')
               /\ accepted'[m] + Cardinality(Owing(m)') + One(Open(m)') <= 1 + troubles'[m]
    <3>1. Owing(m)' = Owing(m) /\ Open(m)' = Open(m)
      BY <1>3 DEF Owing, Open, AtHand, vars
    <3>2. QED  BY <1>3, <2>1, <3>1, PaidSame DEF OutboxIInv, vars
  <2>3. QED  BY <2>1, <2>2 DEF OutboxIInv, Paid
<1>4. QED  BY <1>1, <1>2, <1>3 DEF Next

\* So it always holds.
LEMMA OutboxAlways == Spec => []OutboxIInv
  BY OutboxInitOK, OutboxStepOK, PTL DEF Spec

----------------------------------------------------------------------------
\* A duplicate has a cause: a message is taken again only after a failed call, a crash
\* or a lock that aged in a slow worker's hand, however many workers there are.
THEOREM DuplicatesHaveCauses == Spec => []DuplicatesAreExplained
<1>1. OutboxIInv => DuplicatesAreExplained
  <2> SUFFICES ASSUME OutboxIInv, NEW m \in Messages PROVE accepted[m] <= 1 + troubles[m]
    BY DEF DuplicatesAreExplained
  <2>1. IsFiniteSet(Owing(m)) /\ accepted[m] + Cardinality(Owing(m)) + One(Open(m)) <= 1 + troubles[m]
    BY DEF OutboxIInv, Paid
  <2>2. Cardinality(Owing(m)) \in Nat
    BY <2>1, FS_CardinalityType
  <2>3. accepted[m] \in Nat /\ troubles[m] \in Nat /\ One(Open(m)) \in {0, 1}
    BY DEF OutboxIInv, TypeOK, One
  <2>4. QED  BY <2>1, <2>2, <2>3
<1>2. QED  BY <1>1, OutboxAlways, PTL

\* A message leaves the outbox only when the consumer took it.
THEOREM DeliveredHasArrived == Spec => []DeliveredWasAccepted
<1>1. OutboxIInv => DeliveredWasAccepted
  BY DEF OutboxIInv, DeliveredRow, DeliveredWasAccepted
<1>2. QED  BY <1>1, OutboxAlways, PTL

\* No worker that comes late reopens or locks a message that was delivered.
THEOREM DeliveredStays == Spec => DeliveredIsFinal
<1> DEFINE Stays == \A m \in Messages : row[m] = "delivered" =>
                       row'[m] = "delivered" /\ lockedBy'[m] = None
<1>1. OutboxIInv /\ [Next]_vars => [Stays]_vars
  <2> SUFFICES ASSUME OutboxIInv, Next, NEW m \in Messages, row[m] = "delivered"
               PROVE  row'[m] = "delivered" /\ lockedBy'[m] = None
    OBVIOUS
  <2>1. lockedBy[m] = None /\ TypeOK
    BY DEF OutboxIInv, DeliveredRow
  <2>2. ASSUME NEW x \in Messages, Append(x) \/ BackoffEnds(x) \/ LockAges(x)
        PROVE  row'[m] = "delivered" /\ lockedBy'[m] = None
    BY <2>1, <2>2 DEF Append, BackoffEnds, LockAges, TypeOK
  <2>3. ASSUME NEW w \in Workers, Claim(w)
        PROVE  row'[m] = "delivered" /\ lockedBy'[m] = None
    BY <2>1, <2>3 DEF Claim, Claimable
  <2>4. ASSUME NEW w \in Workers, Deliver(w) \/ Crash(w)
        PROVE  row'[m] = "delivered" /\ lockedBy'[m] = None
    BY <2>1, <2>4 DEF Deliver, Crash, tableVars
  <2>5. ASSUME NEW w \in Workers, MarkDelivered(w) \/ MarkThrows(w) \/ ReleaseFailed(w)
        PROVE  row'[m] = "delivered" /\ lockedBy'[m] = None
    BY <2>1, <2>5 DEF MarkDelivered, MarkThrows, ReleaseFailed, Marked, Owns, TypeOK, tableVars
  <2>6. QED  BY <2>2, <2>3, <2>4, <2>5 DEF Next
<1>2. QED  BY <1>1, OutboxAlways, PTL DEF Spec, DeliveredIsFinal

----------------------------------------------------------------------------
(* The outbox implements DeliveryPromise.                                   *)

\* A step that delivers nothing new leaves the fate of every message.
LEMMA SameMessageFate ==
  ASSUME \A m \in Messages : row'[m] = "delivered" <=> row[m] = "delivered"
  PROVE  MessageFate' = MessageFate
  BY DEF MessageFate

\* The UPDATE of markDelivered confirms a message the consumer has, or changes nothing.
LEMMA MarkedConfirms ==
  ASSUME OutboxIInv, NEW w \in Workers, step[w] = "marking", UNCHANGED accepted,
         Marked(w, current[w]) \/ UNCHANGED tableVars
  PROVE  MessagePromise!Confirm(current[w]) \/ UNCHANGED MessagePromise!promiseVars
<1> DEFINE m == current[w]
<1>1. TypeOK /\ m \in Messages /\ accepted[m] > 0
  BY DEF OutboxIInv, TypeOK, Loop
<1>2. CASE UNCHANGED row
  <2>1. MessageFate' = MessageFate
    BY <1>2, SameMessageFate
  <2>2. QED  BY <2>1 DEF MessagePromise!promiseVars
<1>3. CASE row' = [row EXCEPT ![m] = "delivered"] /\ row[m] # "delivered"
  <2>1. MessageFate[m] = "open"
    BY <1>1, <1>3 DEF MessageFate
  <2>2. MessageFate' = [MessageFate EXCEPT ![m] = "done"]
    BY <1>1, <1>3 DEF MessageFate, TypeOK
  <2>3. QED  BY <1>1, <2>1, <2>2 DEF MessagePromise!Confirm
<1>4. QED  BY <1>2, <1>3 DEF Marked, Owns, tableVars

\* Every step of the outbox is a step of the promise, or none.
LEMMA OutboxStepKeepsPromise ==
  ASSUME OutboxIInv, [Next]_vars
  PROVE  [MessagePromise!PromiseNext]_MessagePromise!promiseVars
<1>1. TypeOK
  BY DEF OutboxIInv
<1>2. ASSUME UNCHANGED accepted,
             \A m \in Messages : row'[m] = "delivered" <=> row[m] = "delivered"
      PROVE  UNCHANGED MessagePromise!promiseVars
  BY <1>2, SameMessageFate DEF MessagePromise!promiseVars
<1>3. ASSUME NEW m \in Messages, Append(m) \/ BackoffEnds(m) \/ LockAges(m)
      PROVE  UNCHANGED MessagePromise!promiseVars
  <2>1. UNCHANGED accepted
    BY <1>3 DEF Append, BackoffEnds, LockAges, historyVars
  <2>2. \A x \in Messages : row'[x] = "delivered" <=> row[x] = "delivered"
    BY <1>1, <1>3 DEF Append, BackoffEnds, LockAges, TypeOK
  <2>3. QED  BY <1>2, <2>1, <2>2
<1>4. ASSUME NEW w \in Workers, Claim(w) \/ Crash(w) PROVE UNCHANGED MessagePromise!promiseVars
  <2>1. UNCHANGED <<row, accepted>>
    BY <1>4 DEF Claim, Crash, historyVars, tableVars
  <2>2. QED  BY <1>2, <2>1
<1>5. ASSUME NEW w \in Workers, Deliver(w)
      PROVE  \/ \E m \in Messages : MessagePromise!Arrive(m)
             \/ UNCHANGED MessagePromise!promiseVars
  <2>1. PICK m \in batch[w], taken \in BOOLEAN :
           accepted' = IF taken THEN [accepted EXCEPT ![m] = @ + 1] ELSE accepted
    BY <1>5 DEF Deliver
  <2>2. m \in Messages /\ accepted[m] + 1 \in Nat
    BY <1>1 DEF TypeOK
  <2>3. UNCHANGED row
    BY <1>5 DEF Deliver, tableVars
  <2>4. MessageFate' = MessageFate
    BY <2>3, SameMessageFate
  <2>5. CASE taken
    BY <2>1, <2>2, <2>4, <2>5 DEF MessagePromise!Arrive
  <2>6. CASE ~taken
    BY <1>2, <2>1, <2>3, <2>6
  <2>7. QED  BY <2>5, <2>6
<1>6. ASSUME NEW w \in Workers, MarkDelivered(w) \/ MarkThrows(w)
      PROVE  \/ \E m \in Messages : MessagePromise!Confirm(m)
             \/ UNCHANGED MessagePromise!promiseVars
  <2>1. step[w] = "marking" /\ UNCHANGED accepted /\ (Marked(w, current[w]) \/ UNCHANGED tableVars)
    BY <1>6 DEF MarkDelivered, MarkThrows, historyVars
  <2>2. current[w] \in Messages
    BY <1>1, <2>1 DEF TypeOK
  <2>3. QED  BY <2>1, <2>2, MarkedConfirms
<1>7. ASSUME NEW w \in Workers, ReleaseFailed(w) PROVE UNCHANGED MessagePromise!promiseVars
  <2>1. UNCHANGED accepted
    BY <1>7 DEF ReleaseFailed, historyVars
  <2>2. \A x \in Messages : row'[x] = "delivered" <=> row[x] = "delivered"
    BY <1>1, <1>7 DEF ReleaseFailed, Released, Owns, TypeOK, tableVars
  <2>3. QED  BY <1>2, <2>1, <2>2
<1>8. CASE UNCHANGED vars
  BY <1>2, <1>8 DEF vars
<1>9. QED  BY <1>3, <1>4, <1>5, <1>6, <1>7, <1>8 DEF Next, MessagePromise!PromiseNext

\* At least once: a message is done only after the consumer took it, is never reopened
\* by a late worker and never given up, whatever fails or crashes.
THEOREM OutboxImplementsPromise == Spec => OutboxKeepsPromise
<1>1. Init => MessagePromise!PromiseInit
  BY DEF Init, MessagePromise!PromiseInit, MessageFate
<1>2. QED
  BY <1>1, OutboxAlways, OutboxStepKeepsPromise, PTL
     DEF Spec, OutboxKeepsPromise, MessagePromise!PromiseSpec

----------------------------------------------------------------------------
(* NotificationDelivery                                                     *)

USE MaxTriesAssumption, NoSenderAssumption

----------------------------------------------------------------------------
(* The inductive invariant: attempts are counted before they are made.      *)

\* The process has not tried yet to hand the message over in this turn.
Untried(w, n) == ~(outcome[w] # NoOutcome /\ outcome[w].of = n)

\* The processes that still may hand n over.
Waiting(n) == {w \in Senders : inbox[w][n] # 0 /\ Untried(w, n)}

\* Every process that may hand a message over, and every handover that happened, was
\* counted as an attempt of its own.
Counted ==
    \A n \in Notifications :
       IsFiniteSet(Waiting(n)) /\ handed[n] + Cardinality(Waiting(n)) <= tries[n]

\* The process with the newest attempt holds the lease, unless the row died of it.
NewestHolds ==
    \A w \in Senders, n \in Notifications :
       /\ inbox[w][n] <= tries[n]
       /\ w \in Waiting(n) => \/ inbox[w][n] < tries[n]
                              \/ Holds(w, n)
                              \/ note[n] = "dead" /\ tries[n] = MaxTries

\* Who says "sent", in the process or in the row, has seen the provider take it.
SentIsHanded ==
    /\ \A w \in Senders, n \in Notifications :
          outcome[w] = [of |-> n, is |-> "sent"] => handed[n] # 0
    /\ \A n \in Notifications : note[n] = "delivered" => handed[n] # 0

\* The inductive invariant.
NoteIInv == NoteTypeOK /\ Counted /\ NewestHolds /\ SentIsHanded

\* The count of a message for which nobody new is waiting stays right.
LEMMA CountedStays ==
  ASSUME NoteTypeOK, NoteTypeOK', Counted, NEW n \in Notifications, Waiting(n)' \subseteq Waiting(n),
         handed'[n] = handed[n], tries'[n] = tries[n]
  PROVE  IsFiniteSet(Waiting(n)') /\ handed'[n] + Cardinality(Waiting(n)') <= tries'[n]
<1>1. IsFiniteSet(Waiting(n)) /\ handed[n] + Cardinality(Waiting(n)) <= tries[n]
  BY DEF Counted
<1>2. IsFiniteSet(Waiting(n)') /\ Cardinality(Waiting(n)') <= Cardinality(Waiting(n))
  BY <1>1, FS_Subset
<1>3. Cardinality(Waiting(n)') \in Nat /\ Cardinality(Waiting(n)) \in Nat
  BY <1>1, <1>2, FS_CardinalityType
<1>4. handed[n] \in Nat /\ tries[n] \in Nat
  BY DEF NoteTypeOK
<1>5. QED  BY <1>1, <1>2, <1>3, <1>4

\* It holds before any message is claimed.
LEMMA NoteInitOK == NoteInit => NoteIInv
<1> SUFFICES ASSUME NoteInit PROVE NoteIInv
  OBVIOUS
<1>1. NoteTypeOK
  BY DEF NoteInit, NoteTypeOK, NoteEnded
<1>2. \A n \in Notifications : Waiting(n) = {} /\ handed[n] = 0 /\ tries[n] = 0
  BY DEF NoteInit, Waiting
<1>3. Counted
  <2>1. IsFiniteSet({}) /\ 0 + Cardinality({}) <= 0
    BY FS_EmptySet
  <2>2. QED  BY <1>2, <2>1 DEF Counted
<1>4. NewestHolds
  <2>1. \A w \in Senders, n \in Notifications : inbox[w][n] = 0 /\ inbox[w][n] <= tries[n]
    <3>1. \A w \in Senders, n \in Notifications : inbox[w][n] = 0 /\ tries[n] = 0
      BY DEF NoteInit
    <3>2. \A i, t : i = 0 /\ t = 0 => i <= t
      BY SMT
    <3>3. QED  BY <3>1, <3>2, Zenon
  <2>2. QED  BY <1>2, <2>1 DEF NewestHolds
<1>5. SentIsHanded
  BY DEF NoteInit, SentIsHanded, NoOutcome
<1>6. QED  BY <1>1, <1>3, <1>4, <1>5 DEF NoteIInv

----------------------------------------------------------------------------
\* Time and employees: nobody new waits, and a message that is cancelled was held by
\* nobody.
LEMMA NoteRowKeeps ==
  ASSUME NoteIInv, NEW n \in Notifications,
         NoteFallsDue(n) \/ NoteLeaseAges(n) \/ RetryFailed(n) \/ CancelNotification(n)
  PROVE  NoteIInv'
<1>1. NoteTypeOK'
  <2>1. CASE NoteFallsDue(n) \/ RetryFailed(n)
    BY <2>1 DEF NoteIInv, NoteTypeOK, NoteFallsDue, RetryFailed
  <2>2. CASE NoteLeaseAges(n)
    BY <2>2 DEF NoteIInv, NoteTypeOK, NoteLeaseAges
  <2>3. CASE CancelNotification(n)
    BY <2>3 DEF NoteIInv, NoteTypeOK, CancelNotification, Cancellable, NoteEnded
  <2>4. QED  BY <2>1, <2>2, <2>3
<1>2. /\ UNCHANGED <<tries, inbox, outcome, handed>>
      /\ \A x \in Notifications :
            \/ note'[x] = note[x] /\ holder'[x] = holder[x]
            \/ note[x] \in {"pending", "failed"} /\ note'[x] = "cancelled"
  BY DEF NoteIInv, NoteTypeOK, NoteFallsDue, NoteLeaseAges, RetryFailed, CancelNotification, Cancellable
<1>3. \A x \in Notifications : Waiting(x)' = Waiting(x)
  BY <1>2 DEF Waiting, Untried
<1>4. Counted'
  BY <1>1, <1>2, <1>3, CountedStays DEF NoteIInv, Counted
<1>5. NewestHolds'
  BY <1>2, <1>3 DEF NoteIInv, NewestHolds, Holds
<1>6. SentIsHanded'
  BY <1>2 DEF NoteIInv, SentIsHanded
<1>7. QED  BY <1>1, <1>4, <1>5, <1>6 DEF NoteIInv

\* A claim counts an attempt for each message it takes.
LEMMA ClaimNotesKeeps ==
  ASSUME NoteIInv, NEW w \in Senders, ClaimNotes(w)
  PROVE  NoteIInv'
<1>1. PICK S \in SUBSET {n \in Notifications : Sendable(n)} :
        /\ note' = [n \in Notifications |->
                      IF n \in S THEN "sending" ELSE IF n \in Exhausted THEN "dead" ELSE note[n]]
        /\ holder' = [n \in Notifications |->
                      IF n \in S THEN w ELSE IF n \in Exhausted THEN NoSender ELSE holder[n]]
        /\ leaseOut' = [n \in Notifications |-> leaseOut[n] /\ n \notin S \cup Exhausted]
        /\ tries' = TriesAfter(S)
        /\ inbox' = [inbox EXCEPT ![w] =
                      [n \in Notifications |-> IF n \in S THEN TriesAfter(S)[n] ELSE 0]]
  BY DEF ClaimNotes
<1>2. /\ UNCHANGED <<later, outcome, handed>>
      /\ \A n \in Notifications : inbox[w][n] = 0
  BY DEF ClaimNotes
<1>3. \A n \in S : n \in Notifications /\ tries[n] < MaxTries
  BY DEF Sendable
<1>4. \A n \in Notifications : tries'[n] = IF n \in S THEN tries[n] + 1 ELSE tries[n]
  BY <1>1 DEF TriesAfter
<1>5. \A v \in Senders, n \in Notifications :
         inbox'[v][n] = IF v = w THEN IF n \in S THEN tries[n] + 1 ELSE 0 ELSE inbox[v][n]
  BY <1>1 DEF NoteIInv, NoteTypeOK, TriesAfter
<1>6. NoteTypeOK'
  <2>1. tries' \in [Notifications -> 0 .. MaxTries]
    BY <1>1, <1>3 DEF NoteIInv, NoteTypeOK, TriesAfter
  <2>2. [n \in Notifications |-> IF n \in S THEN TriesAfter(S)[n] ELSE 0]
          \in [Notifications -> 0 .. MaxTries]
    BY <1>3 DEF NoteIInv, NoteTypeOK, TriesAfter
  <2>3. inbox' \in [Senders -> [Notifications -> 0 .. MaxTries]]
    BY <1>1, <2>2 DEF NoteIInv, NoteTypeOK
  <2>4. \A n \in Notifications : note'[n] = "sending" <=> holder'[n] # NoSender
    BY <1>1 DEF NoteIInv, NoteTypeOK
  <2>5. QED  BY <1>1, <1>2, <2>1, <2>3, <2>4 DEF NoteIInv, NoteTypeOK, NoteEnded
<1>7. Counted'
  <2> SUFFICES ASSUME NEW n \in Notifications
               PROVE  IsFiniteSet(Waiting(n)') /\ handed'[n] + Cardinality(Waiting(n)') <= tries'[n]
    BY DEF Counted
  <2>1. CASE n \in S
    <3>1. Waiting(n)' \subseteq Waiting(n) \cup {w}
      BY <1>2, <1>5 DEF Waiting, Untried
    <3>2. IsFiniteSet(Waiting(n)) /\ handed[n] + Cardinality(Waiting(n)) <= tries[n]
      BY DEF NoteIInv, Counted
    <3>3. /\ IsFiniteSet(Waiting(n) \cup {w})
          /\ Cardinality(Waiting(n) \cup {w}) <= Cardinality(Waiting(n)) + 1
      <4>1. Cardinality(Waiting(n)) \in Nat
        BY <3>2, FS_CardinalityType
      <4>2. /\ IsFiniteSet(Waiting(n) \cup {w})
            /\ Cardinality(Waiting(n) \cup {w}) =
                 IF w \in Waiting(n) THEN Cardinality(Waiting(n)) ELSE Cardinality(Waiting(n)) + 1
        BY <3>2, FS_AddElement
      <4>3. QED  BY <4>1, <4>2
    <3>4. /\ IsFiniteSet(Waiting(n)')
          /\ Cardinality(Waiting(n)') <= Cardinality(Waiting(n) \cup {w})
      BY <3>1, <3>3, FS_Subset
    <3>5. /\ Cardinality(Waiting(n)) \in Nat /\ Cardinality(Waiting(n)') \in Nat
          /\ Cardinality(Waiting(n) \cup {w}) \in Nat
      BY <3>2, <3>3, <3>4, FS_CardinalityType
    <3>6. tries'[n] = tries[n] + 1 /\ handed'[n] = handed[n] /\ handed[n] \in Nat /\ tries[n] \in Nat
      BY <1>2, <1>4, <2>1 DEF NoteIInv, NoteTypeOK
    <3>7. QED  BY <3>2, <3>3, <3>4, <3>5, <3>6
  <2>2. CASE n \notin S
    <3>1. Waiting(n)' \subseteq Waiting(n)
      BY <1>2, <1>5, <2>2 DEF Waiting, Untried
    <3>2. QED  BY <1>2, <1>4, <1>6, <2>2, <3>1, CountedStays DEF NoteIInv
  <2>3. QED  BY <2>1, <2>2
<1>8. \A v \in Senders, n \in Notifications : inbox'[v][n] <= tries'[n]
  BY <1>4, <1>5 DEF NoteIInv, NoteTypeOK, NewestHolds
<1>9. NewestHolds'
  <2> SUFFICES ASSUME NEW v \in Senders, NEW n \in Notifications, v \in Waiting(n)'
               PROVE  \/ inbox'[v][n] < tries'[n]
                      \/ Holds(v, n)'
                      \/ note'[n] = "dead" /\ tries'[n] = MaxTries
    BY <1>8 DEF NewestHolds
  <2>1. CASE v = w
    <3>1. n \in S
      BY <1>5, <2>1 DEF Waiting
    <3>2. QED  BY <1>1, <2>1, <3>1 DEF Holds
  <2>2. CASE v # w
    <3>1. v \in Waiting(n) /\ inbox'[v][n] = inbox[v][n]
      BY <1>2, <1>5, <2>2 DEF Waiting, Untried
    <3>2. inbox[v][n] \in Nat /\ inbox[v][n] <= MaxTries /\ tries[n] \in Nat /\ tries[n] <= MaxTries
      BY DEF NoteIInv, NoteTypeOK
    <3>3. CASE n \in S
      <4>1. \/ inbox[v][n] < tries[n]
            \/ Holds(v, n)
            \/ note[n] = "dead" /\ tries[n] = MaxTries
        BY <3>1 DEF NoteIInv, NewestHolds
      <4>2. inbox[v][n] <= tries[n]
        BY <3>1 DEF NoteIInv, NewestHolds
      <4>3. QED  BY <1>4, <3>1, <3>2, <3>3, <4>2
    <3>4. CASE n \in Exhausted /\ n \notin S
      BY <1>1, <1>4, <3>2, <3>4 DEF Exhausted
    <3>5. CASE n \notin Exhausted /\ n \notin S
      BY <1>1, <1>4, <3>1, <3>5 DEF NoteIInv, NewestHolds, Holds
    <3>6. QED  BY <3>3, <3>4, <3>5
  <2>3. QED  BY <2>1, <2>2
<1>10. SentIsHanded'
  BY <1>1, <1>2 DEF NoteIInv, SentIsHanded
<1>11. QED  BY <1>6, <1>7, <1>9, <1>10 DEF NoteIInv

\* A handover uses up the turn of the process, and is one of the counted ones.
LEMMA HandOverKeeps ==
  ASSUME NoteIInv, NEW w \in Senders, NEW n \in Notifications, HandOver(w, n)
  PROVE  NoteIInv'
<1>1. PICK o \in Handovers :
        /\ outcome' = [outcome EXCEPT ![w] = [of |-> n, is |-> o.is]]
        /\ handed' = [handed EXCEPT ![n] = @ + o.took]
  BY DEF HandOver
<1>2. /\ UNCHANGED <<note, tries, holder, leaseOut, later, inbox>>
      /\ inbox[w][n] # 0 /\ outcome[w] = NoOutcome
  BY DEF HandOver, noteRow
<1>3. o.is \in Outcomes /\ o.took \in {0, 1} /\ (o.is = "sent" => o.took = 1)
  BY <1>1 DEF Handovers, Outcomes
<1>4. /\ outcome'[w] = [of |-> n, is |-> o.is]
      /\ \A v \in Senders \ {w} : outcome'[v] = outcome[v]
      /\ handed'[n] = handed[n] + o.took
      /\ \A x \in Notifications \ {n} : handed'[x] = handed[x]
  BY <1>1 DEF NoteIInv, NoteTypeOK
<1>5. NoteTypeOK'
  BY <1>1, <1>2, <1>3 DEF NoteIInv, NoteTypeOK
<1>6. [of |-> n, is |-> o.is] # NoOutcome
  BY <1>3 DEF NoOutcome, Outcomes
<1>7. \A x \in Notifications : Waiting(x)' = IF x = n THEN Waiting(x) \ {w} ELSE Waiting(x)
  BY <1>2, <1>4, <1>6 DEF Waiting, Untried
<1>8. Counted'
  <2> SUFFICES ASSUME NEW x \in Notifications
               PROVE  IsFiniteSet(Waiting(x)') /\ handed'[x] + Cardinality(Waiting(x)') <= tries'[x]
    BY DEF Counted
  <2>1. CASE x # n
    BY <1>2, <1>4, <1>5, <1>7, <2>1, CountedStays DEF NoteIInv
  <2>2. CASE x = n
    <3>1. IsFiniteSet(Waiting(n)) /\ handed[n] + Cardinality(Waiting(n)) <= tries[n]
      BY DEF NoteIInv, Counted
    <3>2. w \in Waiting(n)
      BY <1>2 DEF Waiting, Untried
    <3>3. /\ IsFiniteSet(Waiting(n) \ {w})
          /\ Cardinality(Waiting(n) \ {w}) = Cardinality(Waiting(n)) - 1
      BY <3>1, <3>2, FS_RemoveElement
    <3>4. Cardinality(Waiting(n)) \in Nat /\ handed[n] \in Nat /\ tries[n] \in Nat
      BY <3>1, FS_CardinalityType DEF NoteIInv, NoteTypeOK
    <3>5. handed[n] + o.took + (Cardinality(Waiting(n)) - 1) <= tries[n]
      BY <1>3, <3>1, <3>4
    <3>6. Waiting(n)' = Waiting(n) \ {w}
      BY <1>7
    <3>7. handed'[n] + Cardinality(Waiting(n)') <= tries'[n]
      BY <1>2, <1>4, <3>3, <3>5, <3>6
    <3>8. QED  BY <2>2, <3>3, <3>6, <3>7
  <2>3. QED  BY <2>1, <2>2
<1>9. NewestHolds'
  BY <1>2, <1>7 DEF NoteIInv, NewestHolds, Holds
<1>10. \A x \in Notifications : handed[x] # 0 => handed'[x] # 0
  BY <1>3, <1>4 DEF NoteIInv, NoteTypeOK
<1>11. SentIsHanded'
  <2>1. o.is = "sent" => handed'[n] # 0
    BY <1>3, <1>4 DEF NoteIInv, NoteTypeOK
  <2>2. ASSUME NEW v \in Senders, NEW x \in Notifications, outcome'[v] = [of |-> x, is |-> "sent"]
        PROVE  handed'[x] # 0
    <3>1. CASE v = w
      <4>1. x = n /\ o.is = "sent"
        BY <1>4, <2>2, <3>1
      <4>2. QED  BY <2>1, <4>1
    <3>2. CASE v # w
      BY <1>4, <1>10, <2>2, <3>2 DEF NoteIInv, SentIsHanded
    <3>3. QED  BY <3>1, <3>2
  <2>3. QED  BY <1>2, <1>10, <2>2 DEF NoteIInv, SentIsHanded
<1>12. QED  BY <1>5, <1>8, <1>9, <1>11 DEF NoteIInv

\* A recorded outcome closes the row only when the process still holds it, and then no
\* other process waits with the newest attempt.
LEMMA RecordKeeps ==
  ASSUME NoteIInv, NEW w \in Senders, NEW n \in Notifications, ~Untried(w, n),
         UNCHANGED <<tries, handed>>,
         later' \in [Notifications -> BOOLEAN],
         \/ UNCHANGED <<note, holder, leaseOut>>
         \/ \E s \in {"delivered", "failed", "dead"} :
               Holds(w, n) /\ Ends(n, s) /\ (s = "delivered" => handed[n] # 0),
         \/ TurnOver(w, n)
         \/ UNCHANGED inbox /\ outcome' = [outcome EXCEPT ![w] = [of |-> n, is |-> "failed"]]
  PROVE  NoteIInv'
<1>1. outcome[w] # NoOutcome /\ outcome[w].of = n
  BY DEF Untried
<1>2. /\ \A x \in Notifications \ {n} : note'[x] = note[x] /\ holder'[x] = holder[x]
      /\ \/ note'[n] = note[n] /\ holder'[n] = holder[n]
         \/ Holds(w, n) /\ note'[n] \in {"delivered", "failed", "dead"}
      /\ note'[n] = "delivered" => handed[n] # 0
      /\ note' \in [Notifications -> {"pending", "sending", "failed"} \cup NoteEnded]
      /\ holder' \in [Notifications -> Senders \cup {NoSender}]
      /\ leaseOut' \in [Notifications -> BOOLEAN]
      /\ \A x \in Notifications : note'[x] = "sending" <=> holder'[x] # NoSender
  <2>1. CASE UNCHANGED <<note, holder, leaseOut>>
    BY <2>1 DEF NoteIInv, NoteTypeOK, SentIsHanded
  <2>2. CASE \E s \in {"delivered", "failed", "dead"} :
                Holds(w, n) /\ Ends(n, s) /\ (s = "delivered" => handed[n] # 0)
    BY <2>2, SMTT(30) DEF NoteIInv, NoteTypeOK, NoteEnded, Ends
  <2>3. QED  BY <2>1, <2>2
<1>3. /\ inbox' \in [Senders -> [Notifications -> 0 .. MaxTries]]
      /\ \A v \in Senders, x \in Notifications :
            inbox'[v][x] = inbox[v][x] \/ (v = w /\ x = n /\ inbox'[v][x] = 0)
  <2>1. inbox' = inbox \/ inbox' = [inbox EXCEPT ![w][n] = 0]
    BY DEF TurnOver
  <2>2. inbox \in [Senders -> [Notifications -> 0 .. MaxTries]] /\ 0 \in 0 .. MaxTries
    BY DEF NoteIInv, NoteTypeOK
  <2>3. QED  BY <2>1, <2>2
<1>4. /\ outcome' \in [Senders -> [of : Notifications, is : Outcomes] \cup {NoOutcome}]
      /\ \A v \in Senders \ {w} : outcome'[v] = outcome[v]
      /\ outcome'[w] = NoOutcome \/ outcome'[w] = [of |-> n, is |-> "failed"]
      /\ \/ inbox'[w][n] = 0
         \/ outcome'[w] = [of |-> n, is |-> "failed"]
  <2>1. PICK a :
           /\ a = NoOutcome \/ a = [of |-> n, is |-> "failed"]
           /\ outcome' = [outcome EXCEPT ![w] = a]
           /\ a = NoOutcome => TurnOver(w, n)
    <3>1. CASE TurnOver(w, n)
      BY <3>1, Zenon DEF TurnOver
    <3>2. CASE outcome' = [outcome EXCEPT ![w] = [of |-> n, is |-> "failed"]]
      <4>1. [of |-> n, is |-> "failed"] # NoOutcome
        BY DEF NoOutcome
      <4>2. QED  BY <3>2, <4>1, Zenon
    <3>3. QED  BY <3>1, <3>2
  <2>2. a \in [of : Notifications, is : Outcomes] \cup {NoOutcome}
    <3>1. [of |-> n, is |-> "failed"] \in [of : Notifications, is : Outcomes]
      BY DEF Outcomes
    <3>2. QED  BY <2>1, <3>1
  <2>3. a = NoOutcome => inbox'[w][n] = 0
    BY <2>1 DEF TurnOver, NoteIInv, NoteTypeOK
  <2>4. outcome'[w] = a
    BY <2>1 DEF NoteIInv, NoteTypeOK
  <2>5. QED  BY <2>1, <2>2, <2>3, <2>4 DEF NoteIInv, NoteTypeOK
<1>5. [of |-> n, is |-> "failed"] # NoOutcome
  BY DEF NoOutcome
<1>6. NoteTypeOK'
  BY <1>2, <1>3, <1>4 DEF NoteIInv, NoteTypeOK
<1>7. \A x \in Notifications : Waiting(x)' \subseteq Waiting(x)
  <2> SUFFICES ASSUME NEW x \in Notifications, NEW v \in Senders, inbox'[v][x] # 0, Untried(v, x)'
               PROVE  inbox[v][x] # 0 /\ Untried(v, x)
    BY DEF Waiting
  <2>1. inbox'[v][x] = inbox[v][x]
    BY <1>3
  <2>2. CASE v # w
    BY <1>4, <2>1, <2>2 DEF Untried
  <2>3. CASE v = w /\ x # n
    BY <1>1, <2>1, <2>3 DEF Untried
  <2>4. CASE v = w /\ x = n
    BY <1>4, <1>5, <2>4 DEF Untried
  <2>5. QED  BY <2>2, <2>3, <2>4
<1>8. Counted'
  BY <1>6, <1>7, CountedStays DEF NoteIInv, Counted
<1>9. NewestHolds'
  <2> SUFFICES ASSUME NEW v \in Senders, NEW x \in Notifications
               PROVE  /\ inbox'[v][x] <= tries'[x]
                      /\ v \in Waiting(x)' => \/ inbox'[v][x] < tries'[x]
                                              \/ Holds(v, x)'
                                              \/ note'[x] = "dead" /\ tries'[x] = MaxTries
    BY DEF NewestHolds
  <2>1. inbox'[v][x] <= tries'[x]
    BY <1>3 DEF NoteIInv, NoteTypeOK, NewestHolds
  <2>2. ASSUME v \in Waiting(x)'
        PROVE  \/ inbox'[v][x] < tries'[x]
               \/ Holds(v, x)'
               \/ note'[x] = "dead" /\ tries'[x] = MaxTries
    <3>1. v \in Waiting(x) /\ inbox'[v][x] # 0 /\ inbox'[v][x] = inbox[v][x]
      BY <1>3, <1>7, <2>2 DEF Waiting
    <3>2. \/ inbox[v][x] < tries[x]
          \/ Holds(v, x)
          \/ note[x] = "dead" /\ tries[x] = MaxTries
      BY <3>1 DEF NoteIInv, NewestHolds
    <3>3. CASE note'[x] = note[x] /\ holder'[x] = holder[x]
      BY <3>1, <3>2, <3>3 DEF Holds
    <3>4. CASE x = n /\ Holds(w, n)
      <4>1. v # w
        BY <3>1, <3>4 DEF Waiting
      <4>2. inbox[v][x] < tries[x]
        BY <3>2, <3>4, <4>1 DEF Holds
      <4>3. QED  BY <3>1, <4>2
    <3>5. QED  BY <1>2, <3>3, <3>4
  <2>3. QED  BY <2>1, <2>2
<1>10. SentIsHanded'
  <2>1. ASSUME NEW v \in Senders, NEW x \in Notifications, outcome'[v] = [of |-> x, is |-> "sent"]
        PROVE  handed'[x] # 0
    <3>1. v # w
      BY <1>4, <2>1 DEF NoOutcome
    <3>2. QED  BY <1>4, <2>1, <3>1 DEF NoteIInv, SentIsHanded
  <2>2. QED  BY <1>2, <2>1 DEF NoteIInv, SentIsHanded
<1>11. QED  BY <1>6, <1>8, <1>9, <1>10 DEF NoteIInv

\* Each of the three ways to record an outcome is such a record.
LEMMA OutcomeKeeps ==
  ASSUME NoteIInv, NEW w \in Senders, NEW n \in Notifications,
         MarkNoteDelivered(w, n) \/ MarkingFails(w, n) \/ MarkFailure(w, n)
  PROVE  NoteIInv'
<1>1. CASE MarkNoteDelivered(w, n)
  <2>1. outcome[w] = [of |-> n, is |-> "sent"] /\ TurnOver(w, n) /\ UNCHANGED <<tries, handed, later>>
    BY <1>1 DEF MarkNoteDelivered
  <2>2. ~Untried(w, n) /\ handed[n] # 0 /\ later' \in [Notifications -> BOOLEAN]
    BY <2>1 DEF Untried, NoOutcome, NoteIInv, NoteTypeOK, SentIsHanded
  <2>3. \/ UNCHANGED <<note, holder, leaseOut>>
        \/ Holds(w, n) /\ Ends(n, "delivered")
    BY <1>1 DEF MarkNoteDelivered
  <2>4. QED  BY <2>1, <2>2, <2>3, RecordKeeps
<1>2. CASE MarkingFails(w, n)
  <2>1. /\ outcome[w] = [of |-> n, is |-> "sent"]
        /\ outcome' = [outcome EXCEPT ![w] = [of |-> n, is |-> "failed"]]
        /\ UNCHANGED <<tries, handed, later, inbox>>
    BY <1>2 DEF MarkingFails
  <2>2. ~Untried(w, n) /\ handed[n] # 0 /\ later' \in [Notifications -> BOOLEAN]
    BY <2>1 DEF Untried, NoOutcome, NoteIInv, NoteTypeOK, SentIsHanded
  <2>3. \/ UNCHANGED <<note, holder, leaseOut>>
        \/ Holds(w, n) /\ Ends(n, "delivered")
    BY <1>2 DEF MarkingFails
  <2>4. QED  BY <2>1, <2>2, <2>3, RecordKeeps
<1>3. CASE MarkFailure(w, n)
  <2>1. outcome[w].of = n /\ outcome[w].is \in {"failed", "ineligible"}
    BY <1>3 DEF MarkFailure
  <2>2. ~Untried(w, n) /\ TurnOver(w, n) /\ UNCHANGED <<tries, handed>>
    BY <1>3, <2>1 DEF Untried, NoOutcome, MarkFailure
  <2>3. later' \in [Notifications -> BOOLEAN]
    BY <1>3 DEF MarkFailure, NoteIInv, NoteTypeOK
  <2>4. \/ UNCHANGED <<note, holder, leaseOut>>
        \/ Holds(w, n) /\ (Ends(n, "dead") \/ Ends(n, "failed"))
    BY <1>3 DEF MarkFailure
  <2>5. QED  BY <2>2, <2>3, <2>4, RecordKeeps
<1>4. QED  BY <1>1, <1>2, <1>3

\* A process that ends waits for nothing any more.
LEMMA SenderStopsKeeps ==
  ASSUME NoteIInv, NEW w \in Senders, SenderStops(w)
  PROVE  NoteIInv'
<1>1. /\ UNCHANGED <<note, tries, holder, leaseOut, later, handed>>
      /\ inbox' = [inbox EXCEPT ![w] = [n \in Notifications |-> 0]]
      /\ outcome' = [outcome EXCEPT ![w] = NoOutcome]
  BY DEF SenderStops, noteRow
<1>2. [n \in Notifications |-> 0] \in [Notifications -> 0 .. MaxTries]
  OBVIOUS
<1>3. /\ \A v \in Senders, n \in Notifications : inbox'[v][n] = IF v = w THEN 0 ELSE inbox[v][n]
      /\ outcome'[w] = NoOutcome
      /\ \A v \in Senders \ {w} : outcome'[v] = outcome[v]
  BY <1>1 DEF NoteIInv, NoteTypeOK
<1>4. NoteTypeOK'
  BY <1>1, <1>2 DEF NoteIInv, NoteTypeOK
<1>5. \A n \in Notifications : Waiting(n)' = Waiting(n) \ {w}
  BY <1>3 DEF Waiting, Untried
<1>6. Counted'
  BY <1>1, <1>4, <1>5, CountedStays DEF NoteIInv, Counted
<1>7. NewestHolds'
  <2>1. \A v \in Senders, n \in Notifications : inbox'[v][n] <= tries'[n]
    BY <1>1, <1>3 DEF NoteIInv, NoteTypeOK, NewestHolds
  <2>2. QED  BY <1>1, <1>3, <1>5, <2>1 DEF NoteIInv, NewestHolds, Holds
<1>8. SentIsHanded'
  BY <1>1, <1>3 DEF NoteIInv, SentIsHanded, NoOutcome
<1>9. QED  BY <1>4, <1>6, <1>7, <1>8 DEF NoteIInv

\* Every step keeps the invariant.
LEMMA NoteStepOK == NoteIInv /\ [NoteNext]_noteVars => NoteIInv'
<1> SUFFICES ASSUME NoteIInv, [NoteNext]_noteVars PROVE NoteIInv'
  OBVIOUS
<1>1. ASSUME NEW n \in Notifications,
             NoteFallsDue(n) \/ NoteLeaseAges(n) \/ RetryFailed(n) \/ CancelNotification(n)
      PROVE  NoteIInv'
  BY <1>1, NoteRowKeeps
<1>2. ASSUME NEW w \in Senders, ClaimNotes(w) PROVE NoteIInv'
  BY <1>2, ClaimNotesKeeps
<1>3. ASSUME NEW w \in Senders, SenderStep(w) PROVE NoteIInv'
  BY <1>3, HandOverKeeps, OutcomeKeeps DEF SenderStep
<1>4. ASSUME NEW w \in Senders, SenderStops(w) PROVE NoteIInv'
  BY <1>4, SenderStopsKeeps
<1>5. CASE UNCHANGED noteVars
  <2>1. NoteTypeOK' /\ NewestHolds' /\ SentIsHanded'
    BY <1>5 DEF NoteIInv, NoteTypeOK, NewestHolds, SentIsHanded, Waiting, Untried, Holds, noteVars, noteRow
  <2>2. \A n \in Notifications : Waiting(n)' = Waiting(n)
    BY <1>5 DEF Waiting, Untried, noteVars
  <2>3. Counted'
    BY <1>5, <2>2 DEF NoteIInv, Counted, noteVars, noteRow
  <2>4. QED  BY <2>1, <2>3 DEF NoteIInv
<1>6. QED  BY <1>1, <1>2, <1>3, <1>4, <1>5 DEF NoteNext

\* So it always holds.
LEMMA NoteAlways == NoteSpec => []NoteIInv
  BY NoteInitOK, NoteStepOK, PTL DEF NoteSpec

----------------------------------------------------------------------------
\* The count of attempts bounds the handovers.
LEMMA CountBoundsHandovers == NoteIInv => HandoversWithinAttempts
<1> SUFFICES ASSUME NoteIInv, NEW n \in Notifications PROVE handed[n] <= tries[n]
  BY DEF HandoversWithinAttempts
<1>1. IsFiniteSet(Waiting(n)) /\ handed[n] + Cardinality(Waiting(n)) <= tries[n]
  BY DEF NoteIInv, Counted
<1>2. Cardinality(Waiting(n)) \in Nat
  BY <1>1, FS_CardinalityType
<1>3. handed[n] \in Nat /\ tries[n] \in Nat
  BY DEF NoteIInv, NoteTypeOK
<1>4. QED  BY <1>1, <1>2, <1>3

\* A recipient gets a message at most once per counted attempt, so at most max_attempts
\* times, however many processes there are and whatever happens to them.
THEOREM HandoversAreCounted == NoteSpec => []HandoversWithinAttempts
  BY CountBoundsHandovers, NoteAlways, PTL

\* What is recorded as delivered was taken by the provider.
THEOREM DeliveredNoteWasHanded == NoteSpec => []DeliveredWasHanded
<1>1. NoteIInv => DeliveredWasHanded
  <2>1. NoteIInv => \A n \in Notifications : note[n] = "delivered" => handed[n] # 0
    BY DEF NoteIInv, SentIsHanded
  <2>2. NoteIInv => \A n \in Notifications : handed[n] \in Nat
    BY DEF NoteIInv, NoteTypeOK
  <2>3. \A k \in Nat : k # 0 => k >= 1
    BY SMT
  <2>4. QED  BY <2>1, <2>2, <2>3, Zenon DEF DeliveredWasHanded
<1>2. QED  BY <1>1, NoteAlways, PTL

\* Only a process that lost its lease before hands over what has ended.
THEOREM OnlyLateSenders == NoteSpec => OnlyALateSenderHandsOverAnEndedOne
<1> DEFINE Late == \A n \in Notifications : handed'[n] > handed[n] /\ note[n] \in NoteEnded =>
                      \E w \in Senders :
                         /\ outcome'[w] # outcome[w] /\ outcome'[w].of = n
                         /\ \/ inbox[w][n] < tries[n]
                            \/ note[n] = "dead" /\ tries[n] = MaxTries
<1>1. NoteIInv /\ [NoteNext]_noteVars => [Late]_noteVars
  <2> SUFFICES ASSUME NoteIInv, NoteNext, NEW n \in Notifications,
                      handed'[n] > handed[n], note[n] \in NoteEnded
               PROVE  \E w \in Senders :
                         /\ outcome'[w] # outcome[w] /\ outcome'[w].of = n
                         /\ \/ inbox[w][n] < tries[n]
                            \/ note[n] = "dead" /\ tries[n] = MaxTries
    OBVIOUS
  <2>1. handed'[n] # handed[n]
    BY DEF NoteIInv, NoteTypeOK
  <2>2. PICK w \in Senders, x \in Notifications : HandOver(w, x)
    BY <2>1 DEF NoteNext, NoteFallsDue, NoteLeaseAges, RetryFailed, CancelNotification, ClaimNotes,
         SenderStep, SenderStops, MarkNoteDelivered, MarkingFails, MarkFailure
  <2>3. x = n
    BY <2>1, <2>2 DEF HandOver, NoteIInv, NoteTypeOK
  <2>4. inbox[w][n] # 0 /\ outcome[w] = NoOutcome /\ outcome'[w].of = n /\ outcome'[w] # NoOutcome
    BY <2>2, <2>3 DEF HandOver, Handovers, NoOutcome, NoteIInv, NoteTypeOK
  <2>5. w \in Waiting(n)
    BY <2>4 DEF Waiting, Untried
  <2>6. ~Holds(w, n)
    BY DEF Holds, NoteEnded
  <2>7. QED  BY <2>4, <2>5, <2>6 DEF NoteIInv, NewestHolds
<1>2. QED  BY <1>1, NoteAlways, PTL DEF NoteSpec, OnlyALateSenderHandsOverAnEndedOne

----------------------------------------------------------------------------
(* Notifications implement DeliveryPromise.                                 *)

\* A step that ends nothing leaves the fate of every message.
LEMMA SameNoteFate ==
  ASSUME \A n \in Notifications : \/ note'[n] = note[n]
                                  \/ note[n] \notin NoteEnded /\ note'[n] \notin NoteEnded
  PROVE  NoteFate' = NoteFate
  BY DEF NoteFate, NoteEnded

\* Ending messages without success, as a claim, a failure or an employee does, is GiveUp.
LEMMA NotesGivenUp ==
  ASSUME NEW S \in SUBSET Notifications, UNCHANGED handed,
         \A n \in S : note[n] \notin NoteEnded /\ note'[n] \in {"dead", "cancelled"},
         \A n \in Notifications \ S : \/ note'[n] = note[n]
                                      \/ note[n] \notin NoteEnded /\ note'[n] \notin NoteEnded
  PROVE  NotePromise!GiveUp(S)
<1>1. \A n \in S : NoteFate[n] = "open"
  BY DEF NoteFate, NoteEnded
<1>2. NoteFate' = [n \in Notifications |-> IF n \in S THEN "given_up" ELSE NoteFate[n]]
  BY DEF NoteFate, NoteEnded
<1>3. QED  BY <1>1, <1>2 DEF NotePromise!GiveUp

\* Recording an outcome ends at most the message of the turn, and "delivered" only after
\* the provider took it.
LEMMA RecordKeepsPromise ==
  ASSUME NoteIInv, NEW w \in Senders, NEW n \in Notifications,
         MarkNoteDelivered(w, n) \/ MarkingFails(w, n) \/ MarkFailure(w, n)
  PROVE  [NotePromise!PromiseNext]_NotePromise!promiseVars
<1>1. NoteTypeOK /\ UNCHANGED handed
  BY DEF NoteIInv, MarkNoteDelivered, MarkingFails, MarkFailure
<1>2. CASE UNCHANGED note
  <2>1. NoteFate' = NoteFate
    BY <1>2, SameNoteFate
  <2>2. QED  BY <1>1, <2>1 DEF NotePromise!promiseVars
<1>3. CASE outcome[w] = [of |-> n, is |-> "sent"] /\ Holds(w, n) /\ Ends(n, "delivered")
  <2>1. handed[n] > 0
    BY <1>1, <1>3 DEF NoteIInv, SentIsHanded, NoteTypeOK
  <2>2. NoteFate[n] = "open"
    BY <1>3 DEF NoteFate, Holds
  <2>3. note' = [note EXCEPT ![n] = "delivered"]
    BY <1>3 DEF Ends
  <2>4. NoteFate' = [NoteFate EXCEPT ![n] = "done"]
    BY <1>1, <2>3 DEF NoteFate, NoteTypeOK
  <2>5. QED
    BY <1>1, <2>1, <2>2, <2>4 DEF NotePromise!Confirm, NotePromise!PromiseNext
<1>4. CASE Holds(w, n) /\ Ends(n, "dead")
  <2>1. note' = [note EXCEPT ![n] = "dead"] /\ note[n] \notin NoteEnded
    BY <1>4 DEF Ends, Holds, NoteEnded
  <2>2. NotePromise!GiveUp({n})
    BY <1>1, <2>1, NotesGivenUp DEF NoteTypeOK
  <2>3. QED  BY <2>2 DEF NotePromise!PromiseNext
<1>5. CASE Holds(w, n) /\ Ends(n, "failed")
  <2>1. \A x \in Notifications : \/ note'[x] = note[x]
                                 \/ note[x] \notin NoteEnded /\ note'[x] \notin NoteEnded
    BY <1>1, <1>5 DEF Ends, Holds, NoteEnded, NoteTypeOK
  <2>2. NoteFate' = NoteFate
    BY <2>1, SameNoteFate
  <2>3. QED  BY <1>1, <2>2 DEF NotePromise!promiseVars
<1>6. QED
  BY <1>2, <1>3, <1>4, <1>5 DEF MarkNoteDelivered, MarkingFails, MarkFailure

\* Every step of the notification workers is a step of the promise, or none.
LEMMA NoteStepKeepsPromise ==
  ASSUME NoteIInv, NoteTypeOK', HandoversWithinAttempts', [NoteNext]_noteVars
  PROVE  [NotePromise!PromiseNext]_NotePromise!promiseVars
<1>1. NoteTypeOK
  BY DEF NoteIInv
<1>2. ASSUME UNCHANGED <<note, handed>> PROVE UNCHANGED NotePromise!promiseVars
  <2>1. NoteFate' = NoteFate
    BY <1>2, SameNoteFate
  <2>2. QED  BY <1>2, <2>1 DEF NotePromise!promiseVars
<1>3. ASSUME NEW n \in Notifications, NoteFallsDue(n) \/ NoteLeaseAges(n) \/ RetryFailed(n)
      PROVE  UNCHANGED NotePromise!promiseVars
  BY <1>2, <1>3 DEF NoteFallsDue, NoteLeaseAges, RetryFailed
<1>4. ASSUME NEW n \in Notifications, CancelNotification(n) PROVE NotePromise!PromiseNext
  <2>1. note[n] \notin NoteEnded /\ note' = [note EXCEPT ![n] = "cancelled"] /\ UNCHANGED handed
    BY <1>4 DEF CancelNotification, Cancellable, NoteEnded
  <2>2. NotePromise!GiveUp({n})
    BY <1>1, <2>1, NotesGivenUp DEF NoteTypeOK
  <2>3. QED  BY <2>2 DEF NotePromise!PromiseNext
<1>5. ASSUME NEW w \in Senders, ClaimNotes(w) PROVE NotePromise!PromiseNext
  <2>1. PICK S \in SUBSET {n \in Notifications : Sendable(n)} :
           note' = [n \in Notifications |->
                      IF n \in S THEN "sending" ELSE IF n \in Exhausted THEN "dead" ELSE note[n]]
    BY <1>5 DEF ClaimNotes
  <2>2. \A n \in S : n \in Notifications /\ note[n] \notin NoteEnded
    BY DEF Sendable, NoteEnded
  <2>3. Exhausted \in SUBSET Notifications /\ \A n \in Exhausted : note[n] \notin NoteEnded
    BY DEF Exhausted, NoteEnded
  <2>4. \A n \in Exhausted \ S : note[n] \notin NoteEnded /\ note'[n] \in {"dead", "cancelled"}
    BY <2>1, <2>3
  <2>5. \A n \in Notifications \ (Exhausted \ S) :
           note'[n] = note[n] \/ (note[n] \notin NoteEnded /\ note'[n] \notin NoteEnded)
    BY <2>1, <2>2 DEF NoteEnded
  <2>6. UNCHANGED handed
    BY <1>5 DEF ClaimNotes
  <2>7. NotePromise!GiveUp(Exhausted \ S)
    BY <2>3, <2>4, <2>5, <2>6, NotesGivenUp
  <2>8. QED  BY <2>3, <2>7 DEF NotePromise!PromiseNext
<1>6. ASSUME NEW w \in Senders, NEW n \in Notifications, HandOver(w, n)
      PROVE  NotePromise!PromiseNext \/ UNCHANGED NotePromise!promiseVars
  <2>0. PICK o \in Handovers : handed' = [handed EXCEPT ![n] = @ + o.took]
    BY <1>6 DEF HandOver
  <2>1. PICK k \in {0, 1} : handed' = [handed EXCEPT ![n] = @ + k]
    <3>1. o.took \in {0, 1}
      BY DEF Handovers
    <3>2. QED  BY <2>0, <3>1
  <2>2. UNCHANGED note
    BY <1>6 DEF HandOver, noteRow
  <2>3. NoteFate' = NoteFate
    BY <2>2, SameNoteFate
  <2>4. CASE k = 1
    <3>1. handed'[n] = handed[n] + 1 /\ handed[n] \in Nat /\ handed' = [handed EXCEPT ![n] = @ + 1]
      BY <1>1, <2>1, <2>4 DEF NoteTypeOK
    <3>2. handed'[n] <= tries'[n] /\ tries'[n] \in 0 .. MaxTries
      BY DEF HandoversWithinAttempts, NoteTypeOK
    <3>3. handed[n] + 1 \in 0 .. MaxTries
      BY <3>1, <3>2
    <3>4. QED  BY <2>3, <3>1, <3>3 DEF NotePromise!Arrive, NotePromise!PromiseNext
  <2>5. CASE k = 0
    <3>1. handed' = handed
      BY <1>1, <2>1, <2>5 DEF NoteTypeOK
    <3>2. QED  BY <1>2, <2>2, <3>1
  <2>6. QED  BY <2>1, <2>4, <2>5
<1>7. ASSUME NEW w \in Senders, SenderStops(w) PROVE UNCHANGED NotePromise!promiseVars
  BY <1>2, <1>7 DEF SenderStops, noteRow
<1>8. CASE UNCHANGED noteVars
  BY <1>2, <1>8 DEF noteVars, noteRow
<1>9. ASSUME NEW w \in Senders, SenderStep(w)
      PROVE  [NotePromise!PromiseNext]_NotePromise!promiseVars
  BY <1>6, <1>9, RecordKeepsPromise DEF SenderStep
<1>10. QED  BY <1>3, <1>4, <1>5, <1>7, <1>8, <1>9 DEF NoteNext

\* At most max_attempts times: a handover beyond them, a "delivered" nobody took, or a
\* late process that changes what was delivered, cancelled or dead does not happen.
THEOREM NotesImplementPromise == NoteSpec => NotesKeepPromise
<1>1. NoteInit => NotePromise!PromiseInit
  BY DEF NoteInit, NotePromise!PromiseInit, NoteFate
<1>2. NoteIInv => NoteTypeOK
  BY DEF NoteIInv
<1>3. QED
  BY <1>1, <1>2, NoteAlways, CountBoundsHandovers, NoteStepKeepsPromise, PTL
     DEF NoteSpec, NotesKeepPromise, NotePromise!PromiseSpec
=============================================================================

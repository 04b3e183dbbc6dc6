----------------------- MODULE CommandExecutionProofs -----------------------
(***************************************************************************)
(* Proofs about CommandExecution, for any set of keys, attempts, requests  *)
(* and message contents.                                                   *)
(***************************************************************************)
EXTENDS CommandExecution, TLAPS

(***************************************************************************)
(* The inductive invariant.                                                *)
(***************************************************************************)

\* The receipt of key k lets attempt a run: there is none, it expired, or it holds
\* a non-final result of the same request.
Runnable(k, a) ==
    \/ receipt[k].status = "absent"
    \/ receipt[k].expired
    \/ k \in Provisional /\ ~receipt[k].final /\ receipt[k].hash = HashOf[a]

\* A lock belongs to an attempt that runs its handler for a runnable receipt.
Locking ==
    \A k \in Keys : holder[k] # None =>
        /\ KeyOf[holder[k]] = k /\ pc[holder[k]] = "handling"
        /\ draft[k].status = "processing" /\ ~draft[k].expired
        /\ Runnable(k, holder[k])

\* An attempt in its handler holds the lock of its key.
Handling == \A a \in Attempts : pc[a] = "handling" => holder[KeyOf[a]] = a

\* A committed receipt speaks of a committed effect of its own request.
Receipts ==
    \A k \in Keys :
        \/ receipt[k] = NoRow
        \/ LET r == receipt[k].result IN
           /\ receipt[k].status = "completed" /\ r \in Attempts
           /\ KeyOf[r] = k /\ HashOf[r] = receipt[k].hash /\ effect[r] # None
           /\ receipt[k].final \/ k \in Provisional
           /\ k \in Retained => ~receipt[k].expired

\* Nothing of an unfinished attempt is committed, and it was told nothing.
Callers ==
    \A a \in Attempts :
        /\ pc[a] # "done" => effect[a] = None /\ answer[a] = [kind |-> "none", result |-> None]
        /\ answer[a].result # None => answer[a].kind \in {"executed", "replayed"}
        /\ answer[a].kind = "replayed" => answer[a].result \in Attempts

\* A retained key with final results remembers the only effect it ever had.
Remembering ==
    \A a \in Attempts :
        effect[a] # None /\ KeyOf[a] \in Retained \ Provisional =>
            receipt[KeyOf[a]].status = "completed" /\ receipt[KeyOf[a]].result = a

\* The inductive invariant.
IInv == /\ TypeOK /\ Locking /\ Handling /\ Receipts /\ Callers /\ Remembering
        /\ AnswersAreTrue

\* The invariant holds before the first call.
LEMMA InitInvariant == Init => IInv
BY KeyOfAssumption, EventOfAssumption, NothingAssumption
   DEF Init, IInv, TypeOK, Locking, Handling, Receipts, Callers, Remembering,
       AnswersAreTrue, Row, NoRow, Steps, Answers, Hashes

(***************************************************************************)
(* The shapes of the steps that commit nothing.                            *)
(***************************************************************************)

\* Acquiring the lock on a runnable receipt keeps the invariant.
LEMMA AcquireInvariant ==
    ASSUME IInv, NEW a \in Attempts, NEW row \in Row,
           pc[a] \in {"inserting", "selecting"}, holder[KeyOf[a]] = None,
           row.status = "processing", ~row.expired, Runnable(KeyOf[a], a),
           Acquire(a, row)
    PROVE  IInv'
<1> USE KeyOfAssumption, NothingAssumption DEF Acquire, Goto
<1>1. TypeOK'
    BY DEF IInv, TypeOK, Steps
<1>2. Locking' /\ Handling'
    <2>1. ASSUME NEW k \in Keys, holder'[k] # None
          PROVE  /\ KeyOf[holder'[k]] = k /\ pc'[holder'[k]] = "handling"
                 /\ draft'[k].status = "processing" /\ ~draft'[k].expired
                 /\ Runnable(k, holder[k])'
        <3>1. CASE k = KeyOf[a]
            BY <3>1 DEF IInv, TypeOK, Runnable
        <3>2. CASE k # KeyOf[a]
            BY <2>1, <3>2 DEF IInv, TypeOK, Locking, Runnable
        <3>3. QED BY <3>1, <3>2
    <2>2. ASSUME NEW b \in Attempts, pc'[b] = "handling" PROVE holder'[KeyOf[b]] = b
        <3>1. CASE b = a
            BY <3>1 DEF IInv, TypeOK
        <3>2. CASE b # a
            BY <2>2, <3>2 DEF IInv, TypeOK, Handling
        <3>3. QED BY <3>1, <3>2
    <2>3. QED BY <2>1, <2>2 DEF Locking, Handling
<1>3. Receipts' /\ Remembering' /\ AnswersAreTrue'
    BY DEF IInv, Receipts, Remembering, AnswersAreTrue
<1>4. Callers'
    BY DEF IInv, TypeOK, Callers
<1>5. QED BY <1>1, <1>2, <1>3, <1>4 DEF IInv

\* An answer without any change of the tables keeps the invariant, when a replay
\* speaks of an effect of the same request.
LEMMA AnswerInvariant ==
    ASSUME IInv, NEW a \in Attempts, pc[a] = "selecting",
           NEW kind \in {"replayed", "conflict", "unavailable", "in_progress", "record_error"},
           NEW r \in Attempts \cup {None},
           kind # "replayed" => r = None,
           kind = "replayed" => /\ r \in Attempts /\ effect[r] # None
                                /\ HashOf[r] = HashOf[a] /\ KeyOf[r] = KeyOf[a],
           UNCHANGED dbVars, Answer(a, kind, r)
    PROVE  IInv'
<1> USE KeyOfAssumption, NothingAssumption DEF Answer, Goto, dbVars
<1>1. TypeOK'
    BY DEF IInv, TypeOK, Steps, Answers
<1>2. Locking' /\ Handling'
    BY DEF IInv, TypeOK, Locking, Handling, Runnable
<1>3. Receipts' /\ Remembering'
    BY DEF IInv, Receipts, Remembering
<1>4. Callers'
    BY DEF IInv, TypeOK, Callers
<1>5. AnswersAreTrue'
    <2> SUFFICES ASSUME NEW b \in Attempts
                 PROVE  LET s == answer'[b].result IN
                        /\ answer'[b].kind \in {"failed", "conflict", "unavailable",
                                "record_error", "in_progress"} => effect[b] = None
                        /\ answer'[b].kind = "executed" => effect[b] # None
                        /\ answer'[b].kind = "replayed" =>
                              /\ effect[s] # None /\ HashOf[s] = HashOf[b]
                              /\ KeyOf[s] = KeyOf[b]
        BY DEF AnswersAreTrue
    <2>1. CASE b = a
        BY <2>1 DEF IInv, TypeOK, Callers
    <2>2. CASE b # a
        BY <2>2 DEF IInv, TypeOK, AnswersAreTrue
    <2>3. QED BY <2>1, <2>2
<1>6. QED BY <1>1, <1>2, <1>3, <1>4, <1>5 DEF IInv

\* Moving on to the next statement keeps the invariant.
LEMMA MoveInvariant ==
    ASSUME IInv, NEW a \in Attempts, pc[a] \in {"idle", "inserting", "selecting"},
           NEW step \in {"inserting", "selecting"}, Goto(a, step),
           tries' \in [Attempts -> 0..2], UNCHANGED <<dbVars, answer>>
    PROVE  IInv'
<1> USE KeyOfAssumption, NothingAssumption DEF Goto, dbVars
<1>1. TypeOK'
    BY DEF IInv, TypeOK, Steps
<1>2. Locking' /\ Handling'
    BY DEF IInv, TypeOK, Locking, Handling, Runnable
<1>3. Receipts' /\ Remembering' /\ AnswersAreTrue'
    BY DEF IInv, Receipts, Remembering, AnswersAreTrue
<1>4. Callers'
    BY DEF IInv, TypeOK, Callers
<1>5. QED BY <1>1, <1>2, <1>3, <1>4 DEF IInv

(***************************************************************************)
(* One lemma per statement.                                                *)
(***************************************************************************)

\* The row that an acquiring statement writes.
LEMMA AcquiredRows ==
    ASSUME TypeOK, NEW a \in Attempts
    PROVE  /\ Fresh(a) \in Row /\ Fresh(a).status = "processing" /\ ~Fresh(a).expired
           /\ Resumed(receipt[KeyOf[a]]) \in Row
           /\ Resumed(receipt[KeyOf[a]]).status = "processing"
           /\ Resumed(receipt[KeyOf[a]]).expired = receipt[KeyOf[a]].expired
<1>1. HashOf[a] \in Hashes
    BY DEF Hashes
<1>2. receipt[KeyOf[a]] \in Row
    BY KeyOfAssumption DEF TypeOK
<1>3. QED BY <1>1, <1>2 DEF Fresh, Resumed, Row

\* The INSERT keeps the invariant: it acquires a free key or moves on.
LEMMA InsertInvariant ==
    ASSUME IInv, NEW a \in Attempts, Insert(a)
    PROVE  IInv'
<1>1. CASE receipt[KeyOf[a]].status = "absent" /\ Acquire(a, Fresh(a))
    BY <1>1, AcquireInvariant, AcquiredRows DEF Insert, InsertPending, IInv, Runnable
<1>2. CASE receipt[KeyOf[a]].status # "absent" /\ Goto(a, "selecting")
           /\ UNCHANGED <<dbVars, tries, answer>>
    BY <1>2, MoveInvariant DEF Insert, IInv, TypeOK
<1>3. QED BY <1>1, <1>2 DEF Insert

\* The SELECT keeps the invariant, whatever it finds.
LEMMA SelectInvariant ==
    ASSUME IInv, NEW a \in Attempts, Select(a)
    PROVE  IInv'
<1> DEFINE k == KeyOf[a]
<1>0. /\ pc[a] = "selecting" /\ k \in Keys /\ TypeOK
      /\ receipt[k].status # "absent" => holder[k] = None
    BY KeyOfAssumption DEF Select, IInv
<1>1. CASE SelectMissing(a)
    <2>1. CASE Answer(a, "unavailable", None) /\ UNCHANGED dbVars
        BY <1>0, <2>1, AnswerInvariant
    <2>2. CASE Answer(a, "record_error", None) /\ UNCHANGED dbVars
        BY <1>0, <2>2, AnswerInvariant
    <2>3. CASE /\ tries[a] < 2 /\ tries' = [tries EXCEPT ![a] = @ + 1]
               /\ Goto(a, "inserting") /\ UNCHANGED answer /\ UNCHANGED dbVars
        <3>1. tries' \in [Attempts -> 0..2]
            BY <1>0, <2>3 DEF TypeOK
        <3>2. QED BY <1>0, <2>3, <3>1, MoveInvariant
    <2>4. QED BY <1>1, <2>1, <2>2, <2>3 DEF SelectMissing, Retry
<1>2. CASE SelectExpired(a)
    <2>1. receipt[k].status # "absent" /\ receipt[k].expired
        BY <1>0, <1>2 DEF SelectExpired, IInv, Receipts, NoRow
    <2>2. CASE Answer(a, "unavailable", None) /\ UNCHANGED dbVars
        BY <1>0, <2>2, AnswerInvariant
    <2>3. CASE Acquire(a, Fresh(a))
        BY <1>0, <2>1, <2>3, AcquireInvariant, AcquiredRows DEF Runnable
    <2>4. QED BY <1>2, <2>2, <2>3 DEF SelectExpired
<1>3. CASE SelectLive(a)
    <2>0. receipt[k].status # "absent" /\ ~receipt[k].expired
        BY <1>3 DEF SelectLive
    <2>1. CASE Answer(a, Refusal(a), None) /\ UNCHANGED dbVars
        <3>1. Refusal(a) \in {"conflict", "in_progress"}
            BY DEF Refusal
        <3>2. QED BY <1>0, <2>1, <3>1, AnswerInvariant
    <2>3. CASE /\ SameRequest(a) /\ Answer(a, "replayed", receipt[k].result)
               /\ UNCHANGED dbVars
        <3>1. LET r == receipt[k].result IN
              r \in Attempts /\ effect[r] # None /\ HashOf[r] = HashOf[a] /\ KeyOf[r] = k
            BY <1>0, <2>0, <2>3 DEF IInv, Receipts, NoRow, SameRequest
        <3>2. QED BY <1>0, <2>3, <3>1, AnswerInvariant
    <2>4. CASE SameRequest(a) /\ Resumable(a) /\ Acquire(a, Resumed(receipt[k]))
        BY <1>0, <2>0, <2>4, AcquireInvariant, AcquiredRows
           DEF Runnable, Resumable, SameRequest
    <2>5. QED BY <1>3, <2>1, <2>3, <2>4 DEF SelectLive
<1>4. QED BY <1>1, <1>2, <1>3 DEF Select

\* Committing keeps the invariant: the receipt, the effect and the message change
\* together, and no other transaction can hold the row.
LEMMA FinishInvariant ==
    ASSUME IInv, NEW a \in Attempts, NEW c \in Contents, NEW final \in BOOLEAN,
           NEW kind \in {"executed", "lost"}, Finish(a, c, final, kind)
    PROVE  IInv'
<1> USE KeyOfAssumption, EventOfAssumption, NothingAssumption DEF Finish, Answer, Goto
<1> DEFINE k == KeyOf[a]
<1>0. /\ k \in Keys /\ holder[k] = a /\ Runnable(k, a) /\ ~draft[k].expired /\ draft[k] \in Row
      /\ effect[a] = None
    <2>1. k \in Keys /\ pc[a] = "handling" /\ draft[k] \in Row
        BY DEF IInv, TypeOK
    <2>2. holder[k] = a
        BY <2>1 DEF IInv, Handling
    <2>3. Runnable(k, a) /\ ~draft[k].expired
        BY <2>1, <2>2 DEF IInv, Locking
    <2>4. effect[a] = None
        BY <2>1 DEF IInv, Callers
    <2>5. QED BY <2>1, <2>2, <2>3, <2>4
<1>1. /\ Completed(a, final) \in Row /\ Completed(a, final).status = "completed"
      /\ Completed(a, final).result = a /\ Completed(a, final).hash = HashOf[a]
      /\ Completed(a, final).final = final /\ ~Completed(a, final).expired
    BY <1>0 DEF Completed, Row
<1>2. NoRow \in Row
    BY DEF Row, NoRow
<1>3. TypeOK'
    BY <1>0, <1>1, <1>2 DEF IInv, TypeOK, Steps, Answers
<1>4. Locking'
    <2>1. ASSUME NEW j \in Keys, holder'[j] # None
          PROVE  /\ KeyOf[holder'[j]] = j /\ pc'[holder'[j]] = "handling"
                 /\ draft'[j].status = "processing" /\ ~draft'[j].expired
                 /\ Runnable(j, holder[j])'
        BY <1>0, <2>1 DEF IInv, TypeOK, Locking, Runnable
    <2>2. QED BY <2>1 DEF Locking
<1>5. Handling'
    BY <1>0 DEF IInv, TypeOK, Handling
<1>6. Receipts'
    <2>1. ASSUME NEW j \in Keys, j # k
          PROVE  \/ receipt'[j] = NoRow
                 \/ LET r == receipt'[j].result IN
                    /\ receipt'[j].status = "completed" /\ r \in Attempts
                    /\ KeyOf[r] = j /\ HashOf[r] = receipt'[j].hash /\ effect'[r] # None
                    /\ receipt'[j].final \/ j \in Provisional
                    /\ j \in Retained => ~receipt'[j].expired
        BY <1>0, <2>1 DEF IInv, TypeOK, Receipts
    <2>2. receipt'[k] = Completed(a, final) /\ effect'[a] # None
        BY <1>0 DEF IInv, TypeOK
    <2>3. QED BY <1>0, <1>1, <2>1, <2>2 DEF Receipts
<1>7. Callers'
    BY DEF IInv, TypeOK, Callers
<1>8. AnswersAreTrue'
    BY DEF IInv, TypeOK, AnswersAreTrue, Callers
<1>9. Remembering'
    <2> SUFFICES ASSUME NEW b \in Attempts, effect'[b] # None,
                        KeyOf[b] \in Retained \ Provisional
                 PROVE  receipt'[KeyOf[b]].status = "completed" /\ receipt'[KeyOf[b]].result = b
        BY DEF Remembering
    <2>1. CASE b = a
        BY <1>0, <1>1, <2>1 DEF IInv, TypeOK
    <2>2. CASE b # a /\ KeyOf[b] = k
        <3>1. receipt[k].status = "completed" /\ k \in Retained \ Provisional
            BY <2>2 DEF IInv, TypeOK, Remembering
        <3>2. receipt[k] # NoRow
            BY <3>1 DEF NoRow
        <3>3. receipt[k].final /\ ~receipt[k].expired
            BY <1>0, <3>1, <3>2 DEF IInv, Receipts
        <3>4. QED BY <1>0, <3>1, <3>3 DEF Runnable
    <2>3. CASE KeyOf[b] # k
        BY <1>0, <2>3 DEF IInv, TypeOK, Remembering
    <2>4. QED BY <2>1, <2>2, <2>3
<1>10. QED BY <1>3, <1>4, <1>5, <1>6, <1>7, <1>8, <1>9 DEF IInv

\* An error or a crash keeps the invariant: nothing was committed.
LEMMA FailInvariant ==
    ASSUME IInv, NEW a \in Attempts, NEW kind \in {"failed", "lost"}, Fail(a, kind)
    PROVE  IInv'
<1> USE KeyOfAssumption, NothingAssumption DEF Fail, Rollback, Answer, Goto
<1>1. NoRow \in Row
    BY DEF Row, NoRow
<1>2. TypeOK'
    BY <1>1 DEF IInv, TypeOK, Steps, Answers
<1>3. Locking' /\ Handling'
    <2>1. ASSUME NEW k \in Keys, holder'[k] # None
          PROVE  /\ KeyOf[holder'[k]] = k /\ pc'[holder'[k]] = "handling"
                 /\ draft'[k].status = "processing" /\ ~draft'[k].expired
                 /\ Runnable(k, holder[k])'
        BY <2>1 DEF IInv, TypeOK, Locking, Runnable
    <2>2. ASSUME NEW b \in Attempts, pc'[b] = "handling" PROVE holder'[KeyOf[b]] = b
        BY <2>2 DEF IInv, TypeOK, Handling
    <2>3. QED BY <2>1, <2>2 DEF Locking, Handling
<1>4. Receipts' /\ Remembering'
    BY DEF IInv, Receipts, Remembering
<1>5. Callers' /\ AnswersAreTrue'
    BY DEF IInv, TypeOK, Callers, AnswersAreTrue
<1>6. QED BY <1>2, <1>3, <1>4, <1>5 DEF IInv

\* Expiry and cleanup keep the invariant: they touch no locked and no retained row.
LEMMA ForgettingInvariant ==
    ASSUME IInv, NEW k \in Keys, Lapse(k) \/ Cleanup(k)
    PROVE  IInv'
<1> USE KeyOfAssumption, NothingAssumption DEF Lapse, Cleanup, Deletable
<1>1. NoRow \in Row
    BY DEF Row, NoRow
<1>2. TypeOK'
    <2>1. receipt[k] \in Row
        BY DEF IInv, TypeOK
    <2>2. [receipt[k] EXCEPT !.expired = TRUE] \in Row
        BY <2>1 DEF Row
    <2>3. receipt' \in [Keys -> Row]
        BY <1>1, <2>2 DEF IInv, TypeOK
    <2>4. QED BY <2>3 DEF IInv, TypeOK
<1>3. \A j \in Keys : j # k => receipt'[j] = receipt[j]
    BY DEF IInv, TypeOK
<1>4. Locking' /\ Handling'
    BY <1>3 DEF IInv, TypeOK, Locking, Handling, Runnable
<1>5. \/ receipt'[k] = NoRow
      \/ /\ k \notin Retained /\ receipt[k].status # "absent"
         /\ receipt'[k] = [receipt[k] EXCEPT !.expired = TRUE]
    BY DEF IInv, TypeOK
<1>6. Receipts'
    <2>1. receipt[k] \in Row
        BY DEF IInv, TypeOK
    <2>2. CASE receipt'[k] = NoRow
        BY <1>3, <2>2 DEF IInv, Receipts
    <2>3. CASE /\ k \notin Retained /\ receipt[k].status # "absent"
               /\ receipt'[k] = [receipt[k] EXCEPT !.expired = TRUE]
        <3>1. /\ receipt'[k].status = receipt[k].status /\ receipt'[k].hash = receipt[k].hash
              /\ receipt'[k].result = receipt[k].result /\ receipt'[k].final = receipt[k].final
            BY <2>1, <2>3 DEF Row
        <3>2. receipt[k] # NoRow
            BY <2>3 DEF NoRow
        <3>3. LET r == receipt[k].result IN
              /\ receipt[k].status = "completed" /\ r \in Attempts
              /\ KeyOf[r] = k /\ HashOf[r] = receipt[k].hash /\ effect[r] # None
              /\ receipt[k].final \/ k \in Provisional
            BY <3>2 DEF IInv, Receipts
        <3>4. effect' = effect
            OBVIOUS
        <3>5. LET r == receipt'[k].result IN
              /\ receipt'[k].status = "completed" /\ r \in Attempts
              /\ KeyOf[r] = k /\ HashOf[r] = receipt'[k].hash /\ effect'[r] # None
              /\ receipt'[k].final \/ k \in Provisional
              /\ k \in Retained => ~receipt'[k].expired
            BY <2>3, <3>1, <3>3, <3>4
        <3>6. ASSUME NEW j \in Keys, j # k
              PROVE  \/ receipt'[j] = NoRow
                     \/ LET r == receipt'[j].result IN
                        /\ receipt'[j].status = "completed" /\ r \in Attempts
                        /\ KeyOf[r] = j /\ HashOf[r] = receipt'[j].hash /\ effect'[r] # None
                        /\ receipt'[j].final \/ j \in Provisional
                        /\ j \in Retained => ~receipt'[j].expired
            BY <1>3, <3>4, <3>6 DEF IInv, Receipts
        <3>7. QED BY <3>5, <3>6 DEF Receipts
    <2>4. QED BY <1>5, <2>2, <2>3
<1>7. k \notin Retained
    <2>1. CASE Cleanup(k)
        <3>1. receipt[k] # NoRow /\ receipt[k].expired
            BY <2>1 DEF NoRow
        <3>2. QED BY <3>1 DEF IInv, Receipts
    <2>2. QED BY <2>1
<1>8. Remembering'
    BY <1>3, <1>7 DEF IInv, Remembering
<1>9. Callers' /\ AnswersAreTrue'
    BY DEF IInv, Callers, AnswersAreTrue
<1>10. QED BY <1>2, <1>4, <1>6, <1>8, <1>9 DEF IInv

\* Every step keeps the invariant.
LEMMA StepInvariant == IInv /\ [Next]_vars => IInv'
<1> SUFFICES ASSUME IInv, [Next]_vars PROVE IInv'
    OBVIOUS
<1>1. ASSUME NEW a \in Attempts, Begin(a) PROVE IInv'
    BY <1>1, MoveInvariant DEF Begin, IInv, TypeOK
<1>2. ASSUME NEW a \in Attempts, Ends(a) PROVE IInv'
    BY <1>2, FinishInvariant, FailInvariant DEF Ends
<1>3. CASE UNCHANGED vars
    BY <1>3 DEF vars, IInv, TypeOK, Locking, Handling, Receipts, Callers, Remembering,
                AnswersAreTrue, Runnable
<1>4. QED
    BY <1>1, <1>2, <1>3, InsertInvariant, SelectInvariant, ForgettingInvariant DEF Next

\* The invariant holds in every reachable state.
LEMMA Invariance == Spec => []IInv
BY InitInvariant, StepInvariant, PTL DEF Spec

(***************************************************************************)
(* The theorems.                                                           *)
(***************************************************************************)

\* Whatever fails, no key stays blocked by a 'processing' row that others can read
\* (claim and completion share one transaction).
THEOREM NoKeyIsBlocked == Spec => []NoKeyStaysProcessing
<1>1. IInv => NoKeyStaysProcessing
    <2>1. NoRow.status = "absent"
        BY DEF NoRow
    <2>2. QED BY <2>1 DEF IInv, Receipts, NoKeyStaysProcessing
<1>2. QED BY <1>1, Invariance, PTL

\* A caller that was refused or got an error left nothing behind, one that succeeded
\* did, and a replay speaks of an effect of the same request.
THEOREM AnswersHold == Spec => []AnswersAreTrue
<1>1. IInv => AnswersAreTrue
    BY DEF IInv
<1>2. QED BY <1>1, Invariance, PTL

\* A retained command with final results takes effect at most once, for any number
\* of parallel and later repetitions, crashes and lost answers.
THEOREM RetainedOnce == Spec => []RetainedRunsOnce
<1>1. IInv => RetainedRunsOnce
    BY DEF IInv, Remembering, RetainedRunsOnce
<1>2. QED BY <1>1, Invariance, PTL

\* The rows of the tables and the callers' answers keep their domains.
THEOREM TypeCorrect == Spec => []TypeOK
<1>1. IInv => TypeOK
    BY DEF IInv
<1>2. QED BY <1>1, Invariance, PTL

\* Committing an effect appends its message, or finds the same one there.
LEMMA FinishAnnounces ==
    ASSUME IInv, EffectIsAnnounced, NEW a \in Attempts, NEW c \in Contents,
           NEW final \in BOOLEAN, NEW kind, Finish(a, c, final, kind)
    PROVE  EffectIsAnnounced'
<1>1. effect \in [Attempts -> Contents \cup {None}] /\ outbox \in [Events -> Contents \cup {None}]
    BY DEF IInv, TypeOK
<1>2. effect' = [effect EXCEPT ![a] = c] /\ outbox[EventOf[a]] \in {None, c}
    BY DEF Finish, Appendable
<1>3. outbox' = [outbox EXCEPT ![EventOf[a]] = c]
    BY <1>1, <1>2, EventOfAssumption DEF Finish
<1>4. ASSUME NEW b \in Attempts, effect'[b] # None PROVE outbox'[EventOf[b]] = effect'[b]
    <2>1. EventOf[b] \in Events /\ EventOf[a] \in Events
        BY EventOfAssumption
    <2>2. CASE b = a
        BY <1>1, <1>2, <1>3, <2>1, <2>2
    <2>3. CASE b # a
        <3>1. effect[b] # None /\ effect'[b] = effect[b]
            BY <1>1, <1>2, <1>4, <2>3
        <3>2. outbox[EventOf[b]] = effect[b]
            BY <3>1 DEF EffectIsAnnounced
        <3>3. QED BY <1>1, <1>2, <1>3, <2>1, <3>1, <3>2
    <2>4. QED BY <2>2, <2>3
<1>5. QED BY <1>4 DEF EffectIsAnnounced

\* No effect is committed without the message that announces it, and commands that
\* share an event agree on its content (appendOutboxMessage in the transaction of
\* the effect, refusing a different message under the same key).
THEOREM EffectsAreAnnounced == Spec => []EffectIsAnnounced
<1>1. Init => EffectIsAnnounced
    BY DEF Init, EffectIsAnnounced
<1>2. ASSUME UNCHANGED <<effect, outbox>>, EffectIsAnnounced PROVE EffectIsAnnounced'
    BY <1>2 DEF EffectIsAnnounced
<1>3. ASSUME IInv, EffectIsAnnounced, [Next]_vars PROVE EffectIsAnnounced'
    <2>1. ASSUME NEW a \in Attempts, Begin(a) \/ Insert(a) \/ Select(a)
          PROVE  UNCHANGED <<effect, outbox>>
        BY <2>1 DEF Begin, Insert, Select, SelectMissing, SelectExpired, SelectLive,
                    Acquire, dbVars
    <2>2. ASSUME NEW a \in Attempts, NEW kind, Fail(a, kind)
          PROVE  UNCHANGED <<effect, outbox>>
        BY <2>2 DEF Fail, Rollback
    <2>3. ASSUME NEW a \in Attempts, Ends(a) PROVE EffectIsAnnounced'
        BY <1>2, <1>3, <2>2, <2>3, FinishAnnounces DEF Ends
    <2>4. ASSUME NEW k \in Keys, Lapse(k) \/ Cleanup(k) PROVE UNCHANGED <<effect, outbox>>
        BY <2>4 DEF Lapse, Cleanup
    <2>5. CASE UNCHANGED vars
        BY <1>2, <1>3, <2>5 DEF vars
    <2>6. QED BY <1>2, <1>3, <2>1, <2>3, <2>4, <2>5 DEF Next
<1>4. QED BY <1>1, <1>3, Invariance, PTL DEF Spec

(***************************************************************************)
(* The refinement of CommandPromise.                                       *)
(***************************************************************************)

\* A runnable receipt is one the promise allows to be replaced.
LEMMA RunnableMemory ==
    ASSUME IInv, NEW k \in Keys, NEW a \in Attempts, Runnable(k, a)
    PROVE  \/ Remembered[k] = Promise!Nothing
           \/ /\ ~Remembered[k].final /\ k \in Provisional
              /\ HashOf[Remembered[k].by] = HashOf[a]
<1>1. CASE receipt[k].status = "absent" \/ receipt[k].expired
    BY <1>1 DEF Remembered, Promise!Nothing
<1>2. CASE /\ receipt[k].status # "absent" /\ ~receipt[k].expired
           /\ k \in Provisional /\ ~receipt[k].final /\ receipt[k].hash = HashOf[a]
    <2>1. receipt[k] # NoRow
        BY <1>2 DEF NoRow
    <2>2. receipt[k].status = "completed" /\ HashOf[receipt[k].result] = receipt[k].hash
        BY <2>1 DEF IInv, Receipts
    <2>3. Remembered[k] = [by |-> receipt[k].result, final |-> receipt[k].final]
        BY <1>2, <2>2 DEF Remembered
    <2>4. QED BY <1>2, <2>2, <2>3
<1>3. QED BY <1>1, <1>2 DEF Runnable

\* Committing a command is Perform.
LEMMA FinishPerforms ==
    ASSUME IInv, NEW a \in Attempts, NEW c \in Contents, NEW final \in BOOLEAN,
           NEW kind \in {"executed", "lost"}, Finish(a, c, final, kind)
    PROVE  Promise!Perform(a)
<1> DEFINE k == KeyOf[a]
<1>0. k \in Keys /\ holder[k] = a /\ pc[a] = "handling" /\ c # None /\ a # None
    BY KeyOfAssumption, NothingAssumption DEF IInv, Handling, Finish
<1>1. Runnable(k, a) /\ ~draft[k].expired /\ draft[k] \in Row
    BY <1>0 DEF IInv, TypeOK, Locking
<1>2. effect[a] = None /\ answer[a].result = None
    BY <1>0 DEF IInv, Callers
<1>3. /\ receipt' = [receipt EXCEPT ![k] = Completed(a, final)]
      /\ effect' = [effect EXCEPT ![a] = c]
      /\ answer' = [answer EXCEPT ![a] =
             [kind |-> kind, result |-> IF kind = "executed" THEN a ELSE None]]
    BY DEF Finish, Answer
<1>4. /\ Completed(a, final).status = "completed" /\ ~Completed(a, final).expired
      /\ Completed(a, final).result = a /\ Completed(a, final).final = final
    BY <1>1 DEF Completed, Row
<1>5. Remembered' = [Remembered EXCEPT ![k] = [by |-> a, final |-> final]]
    BY <1>0, <1>3, <1>4 DEF IInv, TypeOK, Remembered
<1>6. Performed' = Performed \cup {a} /\ a \notin Performed
    BY <1>0, <1>2, <1>3 DEF IInv, TypeOK, Performed
<1>7. \E r \in {None, a} : Told' = [Told EXCEPT ![a] = r]
    BY <1>3 DEF IInv, TypeOK, Told
<1>8. Told[a] = None
    BY <1>2 DEF Told
<1>9. \/ Remembered[k] = Promise!Nothing
      \/ /\ ~Remembered[k].final /\ k \in Provisional
         /\ HashOf[Remembered[k].by] = HashOf[a]
    BY <1>0, <1>1, RunnableMemory
<1>10. QED
    BY <1>5, <1>6, <1>7, <1>8, <1>9 DEF Promise!Perform

\* An answer from the receipt is Replay.
LEMMA AnswerReplays ==
    ASSUME IInv, NEW a \in Attempts, pc[a] = "selecting", UNCHANGED dbVars,
           receipt[KeyOf[a]].status = "completed", ~receipt[KeyOf[a]].expired,
           SameRequest(a), Answer(a, "replayed", receipt[KeyOf[a]].result)
    PROVE  Promise!Replay(a)
<1> DEFINE k == KeyOf[a]
<1> DEFINE r == receipt[k].result
<1>1. k \in Keys
    BY KeyOfAssumption
<1>2. receipt[k] # NoRow
    BY DEF NoRow
<1>3. r \in Attempts /\ r # None /\ HashOf[r] = HashOf[a]
    BY <1>1, <1>2, NothingAssumption DEF IInv, Receipts, SameRequest
<1>4. effect[a] = None /\ answer[a].result = None
    BY DEF IInv, Callers
<1>5. Remembered[k] = [by |-> r, final |-> receipt[k].final]
    BY <1>1 DEF Remembered
<1>6. Told' = [Told EXCEPT ![a] = r] /\ Told[a] = None
    BY <1>4 DEF IInv, TypeOK, Told, Answer
<1>7. a \notin Performed /\ UNCHANGED <<Remembered, Performed>>
    BY <1>4 DEF Remembered, Performed, dbVars
<1>8. Remembered[k] # Promise!Nothing /\ HashOf[Remembered[k].by] = HashOf[a]
    BY <1>3, <1>5 DEF Promise!Nothing
<1>9. Remembered[k].by = r
    BY <1>5
<1>10. QED BY <1>6, <1>7, <1>8, <1>9 DEF Promise!Replay

\* A step that keeps receipts, effects and what callers were told is invisible.
LEMMA Invisible ==
    ASSUME UNCHANGED <<receipt, effect, Told>>
    PROVE  UNCHANGED Promise!promiseVars
BY DEF Promise!promiseVars, Remembered, Performed

\* An unfinished attempt that is told nothing leaves the answers as they were.
LEMMA NothingTold ==
    ASSUME IInv, NEW a \in Attempts, pc[a] # "done", NEW kind, Answer(a, kind, None)
    PROVE  UNCHANGED Told
<1>1. answer[a].result = None
    BY DEF IInv, Callers
<1>2. QED BY <1>1 DEF IInv, TypeOK, Told, Answer

\* What the SELECT finds is replayed or leaves the promise as it is.
LEMMA SelectKeepsPromise ==
    ASSUME IInv, NEW a \in Attempts, Select(a)
    PROVE  Promise!Replay(a) \/ UNCHANGED Promise!promiseVars
<1>0. pc[a] = "selecting" /\ pc[a] # "done"
    BY DEF Select
<1>1. ASSUME NEW kind, Answer(a, kind, None), UNCHANGED dbVars
      PROVE  UNCHANGED Promise!promiseVars
    BY <1>0, <1>1, NothingTold, Invisible DEF dbVars
<1>2. ASSUME NEW row, Acquire(a, row) PROVE UNCHANGED Promise!promiseVars
    BY <1>2, Invisible DEF Acquire, Told
<1>3. CASE SelectMissing(a)
    <2>1. CASE UNCHANGED answer /\ UNCHANGED dbVars
        BY <2>1, Invisible DEF dbVars, Told
    <2>2. QED BY <1>1, <1>3, <2>1 DEF SelectMissing
<1>4. CASE SelectExpired(a)
    BY <1>1, <1>2, <1>4 DEF SelectExpired
<1>5. CASE SelectLive(a)
    <2>1. CASE /\ SameRequest(a) /\ receipt[KeyOf[a]].status = "completed"
               /\ Answer(a, "replayed", receipt[KeyOf[a]].result) /\ UNCHANGED dbVars
        BY <1>0, <1>5, <2>1, AnswerReplays DEF SelectLive
    <2>2. QED BY <1>1, <1>2, <1>5, <2>1 DEF SelectLive
<1>6. QED BY <1>3, <1>4, <1>5 DEF Select

\* Expiry forgets; the cleanup removes what was forgotten already.
LEMMA ForgettingKeepsPromise ==
    ASSUME IInv, NEW k \in Keys, Lapse(k) \/ Cleanup(k)
    PROVE  Promise!Forget(k) \/ UNCHANGED Promise!promiseVars
<1>1. CASE Lapse(k)
    <2>1. /\ receipt[k] \in Row /\ UNCHANGED <<effect, answer>> /\ k \notin Retained
          /\ receipt' = [receipt EXCEPT ![k] = [receipt[k] EXCEPT !.expired = TRUE]]
        BY <1>1 DEF IInv, TypeOK, Lapse
    <2>2. [receipt[k] EXCEPT !.expired = TRUE].expired
        BY <2>1 DEF Row
    <2>3. Remembered' = [Remembered EXCEPT ![k] = Promise!Nothing]
        BY <2>1, <2>2 DEF IInv, TypeOK, Remembered, Promise!Nothing
    <2>4. UNCHANGED <<Performed, Told>>
        BY <2>1 DEF Performed, Told
    <2>5. QED BY <2>1, <2>3, <2>4 DEF Promise!Forget
<1>2. CASE Cleanup(k)
    <2>1. /\ receipt[k].expired /\ UNCHANGED <<effect, answer>>
          /\ receipt' = [receipt EXCEPT ![k] = NoRow] /\ NoRow.status = "absent"
        BY <1>2 DEF Cleanup, Deletable, NoRow
    <2>2. UNCHANGED <<Remembered, Performed, Told>>
        BY <2>1 DEF IInv, TypeOK, Remembered, Performed, Told
    <2>3. QED BY <2>2 DEF Promise!promiseVars
<1>3. QED BY <1>1, <1>2

\* The executor implements CommandPromise: callers of one key are told one
\* remembered result of their own request, and a command runs only when its key
\* remembers nothing or a non-final result.
THEOREM KeepsPromise == Spec => ImplementsPromise
<1>1. Init => Promise!PromiseInit
    BY DEF Init, Promise!PromiseInit, Promise!Nothing, NoRow, Remembered, Performed, Told
<1>2. ASSUME IInv, [Next]_vars
      PROVE  [Promise!PromiseNext]_Promise!promiseVars
    <2>1. ASSUME NEW a \in Attempts, Begin(a) PROVE UNCHANGED Promise!promiseVars
        BY <2>1, Invisible DEF Begin, dbVars, Told
    <2>2. ASSUME NEW a \in Attempts, Insert(a) PROVE UNCHANGED Promise!promiseVars
        BY <2>2, Invisible DEF Insert, Acquire, dbVars, Told
    <2>3. ASSUME NEW a \in Attempts, NEW kind, Fail(a, kind)
          PROVE  UNCHANGED Promise!promiseVars
        <3>1. pc[a] # "done" /\ Answer(a, kind, None) /\ UNCHANGED <<receipt, effect>>
            BY <2>3 DEF Fail, Rollback
        <3>2. QED BY <1>2, <3>1, NothingTold, Invisible
    <2>4. CASE UNCHANGED vars
        BY <2>4, Invisible DEF vars, Told
    <2>5. ASSUME NEW a \in Attempts, Ends(a)
          PROVE  Promise!Perform(a) \/ UNCHANGED Promise!promiseVars
        BY <1>2, <2>3, <2>5, FinishPerforms DEF Ends
    <2>6. QED
        BY <1>2, <2>1, <2>2, <2>4, <2>5, SelectKeepsPromise, ForgettingKeepsPromise
           DEF Next, Promise!PromiseNext
<1>3. QED
    BY <1>1, <1>2, Invariance, PTL DEF Spec, ImplementsPromise, Promise!PromiseSpec
=============================================================================

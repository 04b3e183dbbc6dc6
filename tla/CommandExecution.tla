-------------------------- MODULE CommandExecution --------------------------
EXTENDS Naturals

(***************************************************************************)
(* NormalizedCommandExecutor.execute: one PostgreSQL transaction claims    *)
(* the idempotency key, runs the handler, appends its outbox messages,     *)
(* completes the receipt and commits; idempotency-cleanup-worker deletes   *)
(* expired receipts next to it.                                            *)
(*                                                                         *)
(* The statements of the claim are separate actions, with the locks READ   *)
(* COMMITTED gives them: an INSERT waits for another transaction's         *)
(* uncommitted row of the same key, SELECT ... FOR UPDATE does not see     *)
(* such a row but waits for the lock on a committed one, and the cleanup   *)
(* skips locked rows.  The handler with everything after it is one action: *)
(* nobody sees it before COMMIT.                                           *)
(***************************************************************************)
CONSTANTS
    Keys,        \* (operation scope, idempotency key) pairs of one store
    Attempts,    \* calls of execute
    KeyOf,       \* the key of each attempt
    HashOf,      \* its request_sha256
    ReplayOnly,  \* attempts with replayOnly
    Retained,    \* keys used with retainReceipt
    Strict,      \* keys used with rejectExpiredReceipt
    Provisional, \* keys used with retryCompletedAfter
    Events,      \* business event keys of outbox messages
    EventOf,     \* the one each attempt's handler appends
    Contents,    \* contents of such a message
    None

ASSUME KeyOfAssumption == KeyOf \in [Attempts -> Keys]
ASSUME EventOfAssumption == EventOf \in [Attempts -> Events]
ASSUME ReplayOnlyAssumption == ReplayOnly \subseteq Attempts
ASSUME NothingAssumption == None \notin Attempts /\ None \notin Contents

VARIABLES
    receipt,  \* committed rows of mbox.idempotency_records
    draft,    \* the uncommitted version of a row, in the transaction of its holder
    holder,   \* the attempt whose transaction has the row locked or inserted
    pc,       \* where each attempt is in execute
    tries,    \* 'attempt' of the claim loop
    answer,   \* what the caller was told: [kind, result]
    effect,   \* committed effects: the content an attempt wrote to its event
    outbox    \* committed rows of mbox.outbox_messages: event key -> content

dbVars == <<receipt, draft, holder, effect, outbox>>
vars == <<receipt, draft, holder, pc, tries, answer, effect, outbox>>

Hashes == {HashOf[a] : a \in Attempts}

\* result and final are the stored response: whose it is, and whether
\* retryCompletedAfter calls it final.
Row == [status : {"absent", "processing", "completed"}, hash : Hashes \cup {None},
        result : Attempts \cup {None}, final : BOOLEAN, expired : BOOLEAN]
NoRow == [status |-> "absent", hash |-> None, result |-> None,
          final |-> FALSE, expired |-> FALSE]

Steps == {"idle", "inserting", "selecting", "handling", "done"}
Answers == [kind : {"none", "executed", "replayed", "conflict", "unavailable",
                    "in_progress", "record_error", "failed", "lost"},
            result : Attempts \cup {None}]

TypeOK ==
    /\ receipt \in [Keys -> Row]
    /\ draft \in [Keys -> Row]
    /\ holder \in [Keys -> Attempts \cup {None}]
    /\ pc \in [Attempts -> Steps]
    /\ tries \in [Attempts -> 0..2]
    /\ answer \in [Attempts -> Answers]
    /\ effect \in [Attempts -> Contents \cup {None}]
    /\ outbox \in [Events -> Contents \cup {None}]

Init ==
    /\ receipt = [k \in Keys |-> NoRow]
    /\ draft = [k \in Keys |-> NoRow]
    /\ holder = [k \in Keys |-> None]
    /\ pc = [a \in Attempts |-> "idle"]
    /\ tries = [a \in Attempts |-> 0]
    /\ answer = [a \in Attempts |-> [kind |-> "none", result |-> None]]
    /\ effect = [a \in Attempts |-> None]
    /\ outbox = [e \in Events |-> None]

----------------------------------------------------------------------------
(* Helpers.                                                                *)

Goto(a, step) == pc' = [pc EXCEPT ![a] = step]

\* The transaction ends and the caller gets an answer (or none: "lost").
Answer(a, kind, result) ==
    /\ Goto(a, "done")
    /\ answer' = [answer EXCEPT ![a] = [kind |-> kind, result |-> result]]
    /\ UNCHANGED tries

\* Somebody else inserted the row and has not committed.
InsertPending(k) == receipt[k].status = "absent" /\ holder[k] # None

\* The row the acquiring statement writes: a fresh INSERT, or the UPDATE that
\* reclaims an expired row, both with the new hash.
Fresh(a) == [status |-> "processing", hash |-> HashOf[a], result |-> None,
             final |-> FALSE, expired |-> FALSE]

\* The UPDATE that resumes a non-final result: the old response stays in place.
Resumed(row) == [row EXCEPT !.status = "processing"]

\* return { kind: 'acquired' }
Acquire(a, row) ==
    /\ holder' = [holder EXCEPT ![KeyOf[a]] = a]
    /\ draft' = [draft EXCEPT ![KeyOf[a]] = row]
    /\ Goto(a, "handling")
    /\ UNCHANGED <<receipt, effect, outbox, tries, answer>>

\* Slip: the handler's own writes survive the error.
RollbackKeepsEffect(a) ==
    /\ holder' = [k \in Keys |-> IF holder[k] = a THEN None ELSE holder[k]]
    /\ draft' = [k \in Keys |-> IF holder[k] = a THEN NoRow ELSE draft[k]]
    /\ effect' = IF pc[a] = "handling"
                 THEN [effect EXCEPT ![a] = CHOOSE c \in Contents : TRUE] ELSE effect
    /\ UNCHANGED <<receipt, outbox>>

\* Slip: the connection returns to the pool without a rollback.
RollbackForgotten(a) == UNCHANGED dbVars

\* ROLLBACK: the lock and the uncommitted row are gone.
Rollback(a) ==
    /\ holder' = [k \in Keys |-> IF holder[k] = a THEN None ELSE holder[k]]
    /\ draft' = [k \in Keys |-> IF holder[k] = a THEN NoRow ELSE draft[k]]
    /\ UNCHANGED <<receipt, effect, outbox>>

----------------------------------------------------------------------------
(* claimIdempotency.                                                       *)

Begin(a) ==
    /\ pc[a] = "idle"
    /\ Goto(a, IF a \in ReplayOnly THEN "selecting" ELSE "inserting")
    /\ UNCHANGED <<dbVars, tries, answer>>

\* INSERT ... ON CONFLICT DO NOTHING
Insert(a) ==
    /\ pc[a] = "inserting" /\ ~InsertPending(KeyOf[a])
    /\ \/ /\ receipt[KeyOf[a]].status = "absent"
          /\ Acquire(a, Fresh(a))
       \/ /\ receipt[KeyOf[a]].status # "absent"
          /\ Goto(a, "selecting") /\ UNCHANGED <<dbVars, tries, answer>>

\* Slip: the loop is not bounded.
RetryAlways(a) == TRUE

\* if (attempt < 2) continue
Retry(a) == tries[a] < 2

\* The row is not there, or not visible: the cleanup deleted it after the INSERT
\* saw it, or another attempt is inserting it.
SelectMissing(a) ==
    /\ receipt[KeyOf[a]].status = "absent"
    /\ \/ a \in ReplayOnly /\ Answer(a, "unavailable", None)
       \/ /\ a \notin ReplayOnly /\ Retry(a)
          /\ tries' = [tries EXCEPT ![a] = @ + 1]
          /\ Goto(a, "inserting") /\ UNCHANGED answer
       \/ a \notin ReplayOnly /\ ~Retry(a) /\ Answer(a, "record_error", None)
    /\ UNCHANGED dbVars

\* An expired receipt is reclaimed for the new request.
SelectExpired(a) ==
    /\ receipt[KeyOf[a]].expired
    /\ IF a \in ReplayOnly \/ KeyOf[a] \in Strict
       THEN Answer(a, "unavailable", None) /\ UNCHANGED dbVars
       ELSE Acquire(a, Fresh(a))

\* Slip: the stored hash is not compared.
SameAnyRequest(a) == TRUE

SameRequest(a) == receipt[KeyOf[a]].hash = HashOf[a]

\* Slip: a final result is executed again.
ResumableAlways(a) == a \notin ReplayOnly

\* retryCompletedAfter: a result it calls non-final may be executed again, once
\* its retry time has come; the time is not modelled, both outcomes are allowed.
Resumable(a) ==
    /\ a \notin ReplayOnly /\ KeyOf[a] \in Provisional
    /\ ~receipt[KeyOf[a]].final

\* A live receipt of another request, or one somebody left in processing.
Refusal(a) == IF SameRequest(a) THEN "in_progress" ELSE "conflict"

SelectLive(a) ==
    LET row == receipt[KeyOf[a]] IN
    /\ row.status # "absent" /\ ~row.expired
    /\ \/ /\ ~SameRequest(a) \/ row.status = "processing"
          /\ Answer(a, Refusal(a), None) /\ UNCHANGED dbVars
       \/ /\ SameRequest(a) /\ row.status = "completed"
          /\ Answer(a, "replayed", row.result) /\ UNCHANGED dbVars
       \/ /\ SameRequest(a) /\ row.status = "completed" /\ Resumable(a)
          /\ Acquire(a, Resumed(row))

\* SELECT ... FOR UPDATE and what follows it under the lock.
Select(a) ==
    /\ pc[a] = "selecting"
    /\ receipt[KeyOf[a]].status # "absent" => holder[KeyOf[a]] = None
    /\ SelectMissing(a) \/ SelectExpired(a) \/ SelectLive(a)

----------------------------------------------------------------------------
(* The rest of the transaction.                                            *)

\* Slip: ON CONFLICT DO NOTHING without looking at the row that is there.
AppendableBlindly(a, c) == TRUE

\* appendOutboxMessage: a new key, or the same message again.
Appendable(a, c) == outbox[EventOf[a]] \in {None, c}

\* Slip: a response is stored without ending the processing state.
CompletedHalfway(a, final) ==
    [draft[KeyOf[a]] EXCEPT !.result = a, !.final = final]

\* completeIdempotency
Completed(a, final) ==
    [draft[KeyOf[a]] EXCEPT !.status = "completed", !.result = a, !.final = final]

\* The handler succeeds with content c, its message is appended, the receipt is
\* completed and COMMIT goes through.  The caller learns it ("executed"), or
\* loses the connection on the way ("lost").
Finish(a, c, final, kind) ==
    /\ pc[a] = "handling"
    /\ final \/ KeyOf[a] \in Provisional
    /\ Appendable(a, c)
    /\ draft[KeyOf[a]].status = "processing" /\ draft[KeyOf[a]].hash = HashOf[a]
    /\ outbox' = IF outbox[EventOf[a]] = None
                 THEN [outbox EXCEPT ![EventOf[a]] = c] ELSE outbox
    /\ effect' = [effect EXCEPT ![a] = c]
    /\ receipt' = [receipt EXCEPT ![KeyOf[a]] = Completed(a, final)]
    /\ holder' = [holder EXCEPT ![KeyOf[a]] = None]
    /\ draft' = [draft EXCEPT ![KeyOf[a]] = NoRow]
    /\ Answer(a, kind, IF kind = "executed" THEN a ELSE None)

\* Any exception (beforeClaim, authorizeReplay, the handler, a conflicting outbox
\* message, a database error) or a crash of the process.
Fail(a, kind) ==
    /\ pc[a] \in {"inserting", "selecting", "handling"}
    /\ Rollback(a)
    /\ Answer(a, kind, None)

\* The TTL of a receipt passes; that of a retained one is 'infinity'.  A passing
\* under somebody's lock is noticed only afterwards.
Lapse(k) ==
    /\ k \notin Retained
    /\ receipt[k].status # "absent" /\ ~receipt[k].expired /\ holder[k] = None
    /\ receipt' = [receipt EXCEPT ![k].expired = TRUE]
    /\ UNCHANGED <<draft, holder, pc, tries, answer, effect, outbox>>

\* Slip: the cleanup does not look at expires_at.
DeletableEarly(k) == receipt[k].status = "completed" /\ holder[k] = None

\* FOR UPDATE SKIP LOCKED over expired, finished rows
Deletable(k) ==
    receipt[k].status = "completed" /\ receipt[k].expired /\ holder[k] = None

\* One batch of idempotency-cleanup-worker; a row of it is deleted on its own.
Cleanup(k) ==
    /\ Deletable(k)
    /\ receipt' = [receipt EXCEPT ![k] = NoRow]
    /\ UNCHANGED <<draft, holder, pc, tries, answer, effect, outbox>>

----------------------------------------------------------------------------
Ends(a) ==
    \/ \E c \in Contents, final \in BOOLEAN, kind \in {"executed", "lost"} :
          Finish(a, c, final, kind)
    \/ \E kind \in {"failed", "lost"} : Fail(a, kind)

Next ==
    \/ \E a \in Attempts : Begin(a) \/ Insert(a) \/ Select(a) \/ Ends(a)
    \/ \E k \in Keys : Lapse(k) \/ Cleanup(k)

Spec == Init /\ [][Next]_vars

\* A statement that need not wait returns, a handler succeeds or throws.  Nothing
\* makes a waiting statement fail.
Fairness ==
    \A a \in Attempts :
        WF_vars(Insert(a)) /\ WF_vars(Select(a)) /\ WF_vars(pc[a] = "handling" /\ Ends(a))

FairSpec == Spec /\ Fairness

----------------------------------------------------------------------------
\* No failure, crash or lost answer leaves a key blocked: a row that others can
\* read is never 'processing', so no later attempt is refused for it
\* (the claim is made and completed in one transaction).
NoKeyStaysProcessing ==
    \A k \in Keys : receipt[k].status \in {"absent", "completed"}

\* The caller can act on its answer: after a refusal or an error nothing of its
\* attempt was committed, so it may start over; after a success the effect is
\* there, and a replay speaks of an effect of the very same request
\* ("Only the acquired, never-committed execution is safe to release").
AnswersAreTrue ==
    \A a \in Attempts :
        LET r == answer[a].result IN
        /\ answer[a].kind \in {"failed", "conflict", "unavailable", "record_error",
                               "in_progress"} => effect[a] = None
        /\ answer[a].kind = "executed" => effect[a] # None
        /\ answer[a].kind = "replayed" =>
              /\ effect[r] # None /\ HashOf[r] = HashOf[a] /\ KeyOf[r] = KeyOf[a]

\* An effect and the event that announces it are committed together, and two
\* commands that share a business event agree on what it says.
EffectIsAnnounced ==
    \A a \in Attempts : effect[a] # None => outbox[EventOf[a]] = effect[a]

\* What the receipts, the effects and the answers amount to.
Remembered ==
    [k \in Keys |-> IF receipt[k].status = "completed" /\ ~receipt[k].expired
                    THEN [by |-> receipt[k].result, final |-> receipt[k].final]
                    ELSE [by |-> None, final |-> FALSE]]
Performed == {a \in Attempts : effect[a] # None}
Told == [a \in Attempts |-> answer[a].result]

\* Within the life of one receipt, all callers are told the same final result,
\* whatever they repeat, in parallel or later; the receipt of a retained key lives
\* for ever, and nothing takes effect twice in its life.
Promise == INSTANCE CommandPromise WITH
              remembered <- Remembered, performed <- Performed, told <- Told

ImplementsPromise == Promise!PromiseSpec

\* A retained command takes effect at most once, unless its result was non-final.
RetainedRunsOnce ==
    \A a, b \in Attempts :
        (/\ a # b /\ KeyOf[a] = KeyOf[b] /\ KeyOf[a] \in Retained \ Provisional
         /\ effect[a] # None) => effect[b] = None

\* Attempts that wait for each other's row locks all come to an end.
AttemptsEnd == \A a \in Attempts : pc[a] # "idle" ~> pc[a] = "done"
=============================================================================

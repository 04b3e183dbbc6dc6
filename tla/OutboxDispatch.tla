--------------------------- MODULE OutboxDispatch ---------------------------
EXTENDS Naturals, FiniteSets

(***************************************************************************)
(* OutboxDispatcher.runBatch in several worker processes: claim a batch in *)
(* one transaction, hand the messages over one after the other outside any *)
(* transaction, and record each outcome in a transaction of its own.  A    *)
(* process may die between any two of these steps; its locks stay until    *)
(* they are 60 s old.                                                      *)
(*                                                                         *)
(* Within a process batches do not overlap (one coordinator cycle at a     *)
(* time), so a worker claims only when its last batch is done.             *)
(***************************************************************************)
CONSTANTS
    Messages,     \* rows of mbox.outbox_messages
    Workers,      \* worker ids, one per process
    BatchLimit,   \* LIMIT of the claim (50 in the code)
    MaxTroubles,  \* bound on failures, crashes and stale locks, per message
    None

ASSUME BatchLimitAssumption == BatchLimit \in Nat \ {0}
ASSUME MaxTroublesAssumption == MaxTroubles \in Nat
ASSUME NoWorkerAssumption == None \notin Workers /\ None \notin Messages

VARIABLES
    row,       \* "unwritten", "due", "backing_off" (available_at ahead) or "delivered"
    lockedBy,  \* locked_by
    stale,     \* messages whose locked_at is older than staleLockMs
    batch,     \* claimed messages a worker has not handled yet
    current,   \* the message a worker is busy with
    step,      \* what it does with it
    accepted,  \* history: how often the consumer took each message
    troubles   \* history: what went wrong with each message

tableVars == <<row, lockedBy, stale>>
workerVars == <<batch, current, step>>
historyVars == <<accepted, troubles>>
vars == <<row, lockedBy, stale, batch, current, step, accepted, troubles>>

\* Domains, and the shape of the loop in runBatch: a worker claims again only
\* when its last batch is empty, and has a message in hand while it records an
\* outcome; only locks age.
TypeOK ==
    /\ row \in [Messages -> {"unwritten", "due", "backing_off", "delivered"}]
    /\ lockedBy \in [Messages -> Workers \cup {None}]
    /\ stale \subseteq Messages
    /\ batch \in [Workers -> SUBSET Messages]
    /\ current \in [Workers -> Messages \cup {None}]
    /\ step \in [Workers -> {"claiming", "delivering", "marking", "releasing"}]
    /\ accepted \in [Messages -> Nat]
    /\ troubles \in [Messages -> Nat]
    /\ \A w \in Workers :
          /\ step[w] = "claiming" => batch[w] = {}
          /\ step[w] \in {"marking", "releasing"} <=> current[w] # None
    /\ \A m \in stale : lockedBy[m] # None

Init ==
    /\ row = [m \in Messages |-> "unwritten"]
    /\ lockedBy = [m \in Messages |-> None]
    /\ stale = {}
    /\ batch = [w \in Workers |-> {}]
    /\ current = [w \in Workers |-> None]
    /\ step = [w \in Workers |-> "claiming"]
    /\ accepted = [m \in Messages |-> 0]
    /\ troubles = [m \in Messages |-> 0]

----------------------------------------------------------------------------
(* The table: appendOutboxMessage and the clock.                           *)

\* A command commits its message.
Append(m) ==
    /\ row[m] = "unwritten"
    /\ row' = [row EXCEPT ![m] = "due"]
    /\ UNCHANGED <<lockedBy, stale, workerVars, historyVars>>

\* available_at is reached.
BackoffEnds(m) ==
    /\ row[m] = "backing_off"
    /\ row' = [row EXCEPT ![m] = "due"]
    /\ UNCHANGED <<lockedBy, stale, workerVars, historyVars>>

Trouble(m) ==
    /\ troubles[m] < MaxTroubles
    /\ troubles' = [troubles EXCEPT ![m] = @ + 1]

\* The worker still means to deliver m, or to record the outcome.
AtHand(w, m) == m \in batch[w] \/ m = current[w]

\* staleLockMs pass, be the owner dead or only slow.
LockAges(m) ==
    /\ lockedBy[m] # None /\ m \notin stale
    /\ stale' = stale \cup {m}
    /\ IF AtHand(lockedBy[m], m) THEN Trouble(m) ELSE UNCHANGED troubles
    /\ UNCHANGED <<row, lockedBy, workerVars, accepted>>

----------------------------------------------------------------------------
(* runBatch                                                                *)

\* Slip: locks are not looked at.
ClaimableLocked == {m \in Messages : row[m] = "due"}

\* Slip: a dead worker's locks are never taken over.
ClaimableUnlocked == {m \in Messages : row[m] = "due" /\ lockedBy[m] = None}

\* claimMessages: WHERE delivered_at IS NULL AND available_at has come AND not
\* locked, or locked too long ago; rows of a transaction under way are skipped, so
\* a batch may be any part of them.
Claimable ==
    {m \in Messages : row[m] = "due" /\ (lockedBy[m] = None \/ m \in stale)}

Claim(w) ==
    /\ step[w] = "claiming"
    /\ \E S \in SUBSET Claimable :
          /\ S # {} /\ Cardinality(S) <= BatchLimit
          /\ lockedBy' = [m \in Messages |-> IF m \in S THEN w ELSE lockedBy[m]]
          /\ stale' = stale \ S
          /\ batch' = [batch EXCEPT ![w] = S]
    /\ step' = [step EXCEPT ![w] = "delivering"]
    /\ UNCHANGED <<row, current, historyVars>>

\* await deliver(message); the lock is not checked again before the call.  The
\* consumer takes the message, or the call throws whether it took it or not.
Deliver(w) ==
    /\ step[w] = "delivering" /\ current[w] = None
    /\ \E m \in batch[w], taken, thrown \in BOOLEAN :
          /\ taken \/ thrown
          /\ current' = [current EXCEPT ![w] = m]
          /\ batch' = [batch EXCEPT ![w] = @ \ {m}]
          /\ accepted' = IF taken THEN [accepted EXCEPT ![m] = @ + 1] ELSE accepted
          /\ step' = [step EXCEPT ![w] = IF thrown THEN "releasing" ELSE "marking"]
          /\ IF thrown THEN Trouble(m) ELSE UNCHANGED troubles
    /\ UNCHANGED tableVars

\* The loop goes on with the next message, or the batch is done.
NextMessage(w) ==
    /\ current' = [current EXCEPT ![w] = None]
    /\ step' = [step EXCEPT ![w] = IF batch[w] = {} THEN "claiming" ELSE "delivering"]
    /\ UNCHANGED batch

\* Slip: any claimant may write the outcome of a message.
OwnsAnyway(w, m) == TRUE

\* WHERE delivered_at IS NULL AND locked_by = the worker
Owns(w, m) == row[m] # "delivered" /\ lockedBy[m] = w

\* The UPDATE of markDelivered; of a message somebody else took over it changes
\* nothing.
Marked(w, m) ==
    IF Owns(w, m)
    THEN /\ row' = [row EXCEPT ![m] = "delivered"]
         /\ lockedBy' = [lockedBy EXCEPT ![m] = None]
         /\ stale' = stale \ {m}
    ELSE UNCHANGED tableVars

MarkDelivered(w) ==
    /\ step[w] = "marking"
    /\ Marked(w, current[w])
    /\ NextMessage(w)
    /\ UNCHANGED historyVars

\* The transaction of markDelivered throws, before or after its COMMIT: the
\* message counts as failed.
MarkThrows(w) ==
    /\ step[w] = "marking"
    /\ Trouble(current[w])
    /\ Marked(w, current[w]) \/ UNCHANGED tableVars
    /\ step' = [step EXCEPT ![w] = "releasing"]
    /\ UNCHANGED <<batch, current, accepted>>

\* Slip: a failed message is given up.
ReleasedForGood == "delivered"

\* available_at = now + retryDelayMs
Released == "backing_off"

\* releaseFailed
ReleaseFailed(w) ==
    LET m == current[w] IN
    /\ step[w] = "releasing"
    /\ IF Owns(w, m)
       THEN /\ row' = [row EXCEPT ![m] = Released]
            /\ lockedBy' = [lockedBy EXCEPT ![m] = None]
            /\ stale' = stale \ {m}
       ELSE UNCHANGED tableVars
    /\ NextMessage(w)
    /\ UNCHANGED historyVars

\* The process dies, or releaseFailed throws and ends the batch: the messages at
\* hand stay locked.
Crash(w) ==
    /\ step[w] # "claiming"
    /\ \A m \in Messages : AtHand(w, m) => troubles[m] < MaxTroubles
    /\ troubles' = [m \in Messages |->
                      IF AtHand(w, m) THEN troubles[m] + 1 ELSE troubles[m]]
    /\ batch' = [batch EXCEPT ![w] = {}]
    /\ current' = [current EXCEPT ![w] = None]
    /\ step' = [step EXCEPT ![w] = "claiming"]
    /\ UNCHANGED <<tableVars, accepted>>

----------------------------------------------------------------------------
Next ==
    \/ \E m \in Messages : Append(m) \/ BackoffEnds(m) \/ LockAges(m)
    \/ \E w \in Workers :
          \/ Claim(w) \/ Deliver(w) \/ MarkDelivered(w) \/ MarkThrows(w)
          \/ ReleaseFailed(w) \/ Crash(w)

Spec == Init /\ [][Next]_vars

Fairness ==
    /\ \A m \in Messages : WF_vars(BackoffEnds(m)) /\ WF_vars(LockAges(m))
    /\ \A w \in Workers : WF_vars(Claim(w)) /\ WF_vars(Deliver(w))
                          /\ WF_vars(MarkDelivered(w)) /\ WF_vars(ReleaseFailed(w))

FairSpec == Spec /\ Fairness

----------------------------------------------------------------------------
\* A message leaves the outbox only when the consumer took it, whatever failures,
\* takeovers and late workers there were.
DeliveredWasAccepted ==
    \A m \in Messages : row[m] = "delivered" => accepted[m] > 0

\* A delivered message is never opened, locked or delivered anew by a worker that
\* comes late with its outcome (delivered_at IS NULL in every UPDATE).
DeliveredIsFinal ==
    [][\A m \in Messages : row[m] = "delivered" =>
          row'[m] = "delivered" /\ lockedBy'[m] = None]_vars

\* The consumer sees a message again only when something went wrong with it before:
\* a failed call, a crash or a lock that aged.
DuplicatesAreExplained ==
    \A m \in Messages : accepted[m] <= 1 + troubles[m]

\* Every committed message is delivered in the end: no crash, failure or takeover
\* leaves it locked or forgotten.
EveryMessageIsDelivered == \A m \in Messages : row[m] = "due" ~> row[m] = "delivered"

----------------------------------------------------------------------------
(* The promise of the loop                                                 *)

MessageFate == [m \in Messages |-> IF row[m] = "delivered" THEN "done" ELSE "open"]

MessagePromise == INSTANCE DeliveryPromise WITH
    Things <- Messages, Copies <- Nat, MayGiveUp <- FALSE,
    reached <- accepted, fate <- MessageFate

\* At least once: a message is done only after the consumer took it, never reopened
\* and never given up.
OutboxKeepsPromise == MessagePromise!PromiseSpec
=============================================================================

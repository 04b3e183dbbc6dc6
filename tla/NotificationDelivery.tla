------------------------ MODULE NotificationDelivery ------------------------
EXTENDS Naturals

(***************************************************************************)
(* Rows of mbox.notifications and the processes that deliver them          *)
(* (NotificationWorker.runBatch): a batch is leased in one transaction,    *)
(* its messages are checked and handed to the provider one by one, and     *)
(* every outcome is recorded in a transaction of its own, which changes    *)
(* the row only while the process still holds its lease.                   *)
(***************************************************************************)
CONSTANTS
    Notifications,
    Senders,       \* worker ids, one per process
    MaxTries,      \* max_attempts
    NoSender

ASSUME MaxTriesAssumption == MaxTries \in Nat \ {0}
ASSUME NoSenderAssumption == NoSender \notin Senders

VARIABLES
    note,      \* status
    tries,     \* attempts
    holder,    \* locked_by
    leaseOut,  \* locked_at is older than staleLockMs
    later,     \* available_at is ahead
    inbox,     \* attempts of the rows a process has claimed and not finished, 0 elsewhere
    outcome,   \* of the message a process has just tried to hand over
    handed     \* history: how often the provider took the message

noteRow == <<note, tries, holder, leaseOut, later>>
noteVars == <<noteRow, inbox, outcome, handed>>

NoteEnded == {"delivered", "dead", "cancelled"}
Outcomes == {"sent", "failed", "ineligible"}
NoOutcome == [of |-> NoSender, is |-> "none"]

NoteTypeOK ==
    /\ note \in [Notifications -> {"pending", "sending", "failed"} \cup NoteEnded]
    /\ tries \in [Notifications -> 0 .. MaxTries]
    /\ holder \in [Notifications -> Senders \cup {NoSender}]
    /\ leaseOut \in [Notifications -> BOOLEAN]
    /\ later \in [Notifications -> BOOLEAN]
    /\ inbox \in [Senders -> [Notifications -> 0 .. MaxTries]]
    /\ outcome \in [Senders -> [of : Notifications, is : Outcomes] \cup {NoOutcome}]
    /\ handed \in [Notifications -> Nat]
    /\ \A n \in Notifications : note[n] = "sending" <=> holder[n] # NoSender

NoteInit ==
    /\ note = [n \in Notifications |-> "pending"]
    /\ tries = [n \in Notifications |-> 0]
    /\ holder = [n \in Notifications |-> NoSender]
    /\ leaseOut = [n \in Notifications |-> FALSE]
    /\ later \in [Notifications -> BOOLEAN]
    /\ inbox = [w \in Senders |-> [n \in Notifications |-> 0]]
    /\ outcome = [w \in Senders |-> NoOutcome]
    /\ handed = [n \in Notifications |-> 0]

----------------------------------------------------------------------------
(* The row: time and employees                                             *)

NoteFallsDue(n) ==
    /\ later[n]
    /\ later' = [later EXCEPT ![n] = FALSE]
    /\ UNCHANGED <<note, tries, holder, leaseOut, inbox, outcome, handed>>

NoteLeaseAges(n) ==
    /\ holder[n] # NoSender /\ ~leaseOut[n]
    /\ leaseOut' = [leaseOut EXCEPT ![n] = TRUE]
    /\ UNCHANGED <<note, tries, holder, later, inbox, outcome, handed>>

RetryFailed(n) ==
    /\ note[n] = "failed"
    /\ later' = [later EXCEPT ![n] = FALSE]
    /\ UNCHANGED <<note, tries, holder, leaseOut, inbox, outcome, handed>>

\* Slip: whatever has not ended may be cancelled.
CancellableAnyway(n) == note[n] \in {"pending", "failed", "sending"}

Cancellable(n) == note[n] \in {"pending", "failed"}

CancelNotification(n) ==
    /\ Cancellable(n)
    /\ note' = [note EXCEPT ![n] = "cancelled"]
    /\ holder' = [holder EXCEPT ![n] = NoSender]
    /\ leaseOut' = [leaseOut EXCEPT ![n] = FALSE]
    /\ UNCHANGED <<tries, later, inbox, outcome, handed>>

----------------------------------------------------------------------------
(* runBatch                                                                *)

\* A lease that ran out on the last attempt: nobody tries again, the row is dead.
Exhausted == {n \in Notifications : note[n] = "sending" /\ leaseOut[n] /\ tries[n] >= MaxTries}

\* Slip: rows without a lease only.
SendableFresh(n) ==
    tries[n] < MaxTries /\ note[n] \in {"pending", "failed"} /\ ~later[n]

Sendable(n) ==
    /\ tries[n] < MaxTries
    /\ \/ note[n] \in {"pending", "failed"} /\ ~later[n]
       \/ note[n] = "sending" /\ leaseOut[n]

\* Slip: taking over a lease is not counted as an attempt.
TriesOfFreshOnly(S) ==
    [n \in Notifications |->
        IF n \in S /\ note[n] # "sending" THEN tries[n] + 1 ELSE tries[n]]

TriesAfter(S) == [n \in Notifications |-> IF n \in S THEN tries[n] + 1 ELSE tries[n]]

\* Rows another transaction has locked are skipped, so a batch is any part of them.
ClaimNotes(w) ==
    /\ \A n \in Notifications : inbox[w][n] = 0
    /\ \E S \in SUBSET {n \in Notifications : Sendable(n)} :
          LET touched == S \cup Exhausted IN
          /\ touched # {}
          /\ note' = [n \in Notifications |->
                        IF n \in S THEN "sending" ELSE IF n \in Exhausted THEN "dead" ELSE note[n]]
          /\ holder' = [n \in Notifications |->
                        IF n \in S THEN w ELSE IF n \in Exhausted THEN NoSender ELSE holder[n]]
          /\ leaseOut' = [n \in Notifications |-> leaseOut[n] /\ n \notin touched]
          /\ tries' = TriesAfter(S)
          /\ inbox' = [inbox EXCEPT ![w] =
                        [n \in Notifications |-> IF n \in S THEN TriesAfter(S)[n] ELSE 0]]
    /\ UNCHANGED <<later, outcome, handed>>

\* Slip: a recipient who is no longer eligible is passed over as done.
HandoversPassed ==
    {[is |-> "sent", took |-> 1], [is |-> "sent", took |-> 0], [is |-> "failed", took |-> 0],
     [is |-> "failed", took |-> 1]}

\* A provider that took the message may still fail the call.
Handovers ==
    {[is |-> "sent", took |-> 1], [is |-> "ineligible", took |-> 0],
     [is |-> "failed", took |-> 0], [is |-> "failed", took |-> 1]}

\* The recipient is checked and the message handed over.
HandOver(w, n) ==
    /\ inbox[w][n] # 0 /\ outcome[w] = NoOutcome
    /\ \E o \in Handovers :
          /\ outcome' = [outcome EXCEPT ![w] = [of |-> n, is |-> o.is]]
          /\ handed' = [handed EXCEPT ![n] = @ + o.took]
    /\ UNCHANGED <<noteRow, inbox>>

\* WHERE status = 'sending' AND locked_by = the process.
Holds(w, n) == note[n] = "sending" /\ holder[n] = w

\* The row leaves its lease with a status.
Ends(n, s) ==
    /\ note' = [note EXCEPT ![n] = s]
    /\ holder' = [holder EXCEPT ![n] = NoSender]
    /\ leaseOut' = [leaseOut EXCEPT ![n] = FALSE]

TurnOver(w, n) ==
    /\ inbox' = [inbox EXCEPT ![w][n] = 0]
    /\ outcome' = [outcome EXCEPT ![w] = NoOutcome]

MarkNoteDelivered(w, n) ==
    /\ outcome[w] = [of |-> n, is |-> "sent"]
    /\ IF Holds(w, n) THEN Ends(n, "delivered") ELSE UNCHANGED <<note, holder, leaseOut>>
    /\ TurnOver(w, n)
    /\ UNCHANGED <<tries, later, handed>>

\* The transaction fails, or its answer is lost after it committed: the turn goes on
\* in the catch block.
MarkingFails(w, n) ==
    /\ outcome[w] = [of |-> n, is |-> "sent"]
    /\ outcome' = [outcome EXCEPT ![w] = [of |-> n, is |-> "failed"]]
    /\ \/ Holds(w, n) /\ Ends(n, "delivered")
       \/ UNCHANGED <<note, holder, leaseOut>>
    /\ UNCHANGED <<tries, later, inbox, handed>>

IsTerminal(w, n) == outcome[w].is = "ineligible" \/ inbox[w][n] >= MaxTries

MarkFailure(w, n) ==
    /\ outcome[w] \in [of : {n}, is : {"failed", "ineligible"}]
    /\ \/ /\ Holds(w, n) /\ IsTerminal(w, n)
          /\ Ends(n, "dead") /\ UNCHANGED later
       \/ /\ Holds(w, n) /\ ~IsTerminal(w, n)
          /\ Ends(n, "failed") /\ later' = [later EXCEPT ![n] = TRUE]
       \/ ~Holds(w, n) /\ UNCHANGED <<note, holder, leaseOut, later>>
    /\ TurnOver(w, n)
    /\ UNCHANGED <<tries, handed>>

\* The process ends, or markFailure throws and with it the batch.
SenderStops(w) ==
    /\ \E n \in Notifications : inbox[w][n] # 0
    /\ inbox' = [inbox EXCEPT ![w] = [n \in Notifications |-> 0]]
    /\ outcome' = [outcome EXCEPT ![w] = NoOutcome]
    /\ UNCHANGED <<noteRow, handed>>

----------------------------------------------------------------------------
SenderStep(w) ==
    \E n \in Notifications :
       HandOver(w, n) \/ MarkNoteDelivered(w, n) \/ MarkingFails(w, n) \/ MarkFailure(w, n)

NoteNext ==
    \/ \E n \in Notifications :
          NoteFallsDue(n) \/ NoteLeaseAges(n) \/ RetryFailed(n) \/ CancelNotification(n)
    \/ \E w \in Senders : ClaimNotes(w) \/ SenderStep(w) \/ SenderStops(w)

NoteSpec == NoteInit /\ [][NoteNext]_noteVars

\* Workers are scheduled every few seconds and calls of the provider return; time
\* passes.  Nothing is assumed of crashes, failures or employees.
NoteFairness ==
    /\ \A n \in Notifications : WF_noteVars(NoteFallsDue(n)) /\ WF_noteVars(NoteLeaseAges(n))
    /\ \A w \in Senders : WF_noteVars(ClaimNotes(w)) /\ WF_noteVars(SenderStep(w))

NoteFairSpec == NoteSpec /\ NoteFairness

----------------------------------------------------------------------------
\* A recipient gets a message at most once per counted attempt, so at most
\* max_attempts times, however often leases lapse, processes die and calls fail.
HandoversWithinAttempts ==
    \A n \in Notifications : handed[n] <= tries[n]

\* What is recorded as delivered was taken by the provider.
DeliveredWasHanded ==
    \A n \in Notifications : note[n] = "delivered" => handed[n] >= 1

\* What has ended is handed over only by a process that lost its lease before: a newer
\* attempt was counted, or its own was the last one and the row died of it.
OnlyALateSenderHandsOverAnEndedOne ==
    [][ \A n \in Notifications : handed'[n] > handed[n] /\ note[n] \in NoteEnded =>
           \E w \in Senders :
              /\ outcome'[w] # outcome[w] /\ outcome'[w].of = n
              /\ \/ inbox[w][n] < tries[n]
                 \/ note[n] = "dead" /\ tries[n] = MaxTries ]_noteVars

\* Every message ends: delivered, cancelled, or dead where the staff can see it.
EveryNotificationEnds ==
    \A n \in Notifications : <>(note[n] \in NoteEnded)

----------------------------------------------------------------------------
(* The promise of the loop                                                 *)

NoteFate == [n \in Notifications |->
               CASE note[n] = "delivered" -> "done"
                 [] note[n] \in {"dead", "cancelled"} -> "given_up"
                 [] OTHER -> "open"]

NotePromise == INSTANCE DeliveryPromise WITH
    Things <- Notifications, Copies <- 0 .. MaxTries, MayGiveUp <- TRUE,
    reached <- handed, fate <- NoteFate

\* At most max_attempts times; a status that ended is final, and "delivered" is true.
NotesKeepPromise == NotePromise!PromiseSpec
=============================================================================

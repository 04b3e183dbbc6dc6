----------------------------- MODULE CloudPrint -----------------------------
EXTENDS Naturals

(***************************************************************************)
(* Tickets printed through the cloud adapter (mbox.print_jobs with         *)
(* delivery_mode 'cloud_adapter'): PrintWorker.runBatch in several         *)
(* processes.  Unlike a notification a ticket must not come out twice, so  *)
(* a lease that ran out ends it, and so does every doubtful answer.        *)
(***************************************************************************)
CONSTANTS
    Tickets,
    Printers,      \* worker ids, one per process
    MaxPrintTries, \* max_attempts
    NoWorker

ASSUME MaxPrintTriesAssumption == MaxPrintTries \in Nat \ {0}
ASSUME NoPrinterAssumption == NoWorker \notin Printers

VARIABLES
    ticket,    \* status
    prints,    \* attempts
    heldBy,  \* locked_by
    lockOld,   \* locked_at is older than staleLockMs
    pile,      \* attempts of the tickets a process has claimed and not finished, 0 elsewhere
    answer,    \* what the process heard of the ticket it is busy with
    sheets     \* history: how often the ticket came out

ticketRow == <<ticket, prints, heldBy, lockOld>>
cloudVars == <<ticketRow, pile, answer, sheets>>

TicketEnded == {"printed", "dead"}
Answers == {"printed", "refused", "unknown"}
NoAnswer == [of |-> NoWorker, is |-> "none"]

CloudTypeOK ==
    /\ ticket \in [Tickets -> {"pending", "printing", "failed"} \cup TicketEnded]
    /\ prints \in [Tickets -> 0 .. MaxPrintTries]
    /\ heldBy \in [Tickets -> Printers \cup {NoWorker}]
    /\ lockOld \in [Tickets -> BOOLEAN]
    /\ pile \in [Printers -> [Tickets -> 0 .. MaxPrintTries]]
    /\ answer \in [Printers -> [of : Tickets, is : Answers] \cup {NoAnswer}]
    /\ sheets \in [Tickets -> Nat]
    /\ \A t \in Tickets : ticket[t] = "printing" <=> heldBy[t] # NoWorker

CloudInit ==
    /\ ticket = [t \in Tickets |-> "pending"]
    /\ prints = [t \in Tickets |-> 0]
    /\ heldBy = [t \in Tickets |-> NoWorker]
    /\ lockOld = [t \in Tickets |-> FALSE]
    /\ pile = [w \in Printers |-> [t \in Tickets |-> 0]]
    /\ answer = [w \in Printers |-> NoAnswer]
    /\ sheets = [t \in Tickets |-> 0]

----------------------------------------------------------------------------
LockTurnsOld(t) ==
    /\ heldBy[t] # NoWorker /\ ~lockOld[t]
    /\ lockOld' = [lockOld EXCEPT ![t] = TRUE]
    /\ UNCHANGED <<ticket, prints, heldBy, pile, answer, sheets>>

\* A failed ticket is retired when a reprint, a ticket of its own, replaces it.
Replace(t) ==
    /\ ticket[t] = "failed"
    /\ ticket' = [ticket EXCEPT ![t] = "dead"]
    /\ UNCHANGED <<prints, heldBy, lockOld, pile, answer, sheets>>

\* Slip: only a lease of the last attempt is given up, as with notifications.
AbandonedAtLast ==
    {t \in Tickets : ticket[t] = "printing" /\ lockOld[t] /\ prints[t] >= MaxPrintTries}

\* Leases that ran out, whatever their attempt.
Abandoned == {t \in Tickets : ticket[t] = "printing" /\ lockOld[t]}

\* Slip: tickets whose lease ran out are candidates too.
DueOrStale(t) ==
    /\ prints[t] < MaxPrintTries
    /\ \/ ticket[t] \in {"pending", "failed"}
       \/ ticket[t] = "printing" /\ lockOld[t]

\* The candidates; the delay after a failure has no length here.
Due(t) == prints[t] < MaxPrintTries /\ ticket[t] \in {"pending", "failed"}

ClaimTickets(w) ==
    /\ \A t \in Tickets : pile[w][t] = 0
    /\ \E S \in SUBSET {t \in Tickets : Due(t)} :
          LET lost == Abandoned \ S IN
          /\ S \cup lost # {}
          /\ ticket' = [t \in Tickets |->
                IF t \in S THEN "printing" ELSE IF t \in lost THEN "dead" ELSE ticket[t]]
          /\ heldBy' = [t \in Tickets |->
                IF t \in S THEN w ELSE IF t \in lost THEN NoWorker ELSE heldBy[t]]
          /\ lockOld' = [t \in Tickets |-> lockOld[t] /\ t \notin S \cup lost]
          /\ prints' = [t \in Tickets |-> IF t \in S THEN prints[t] + 1 ELSE prints[t]]
          /\ pile' = [pile EXCEPT ![w] = [t \in Tickets |-> IF t \in S THEN prints[t] + 1 ELSE 0]]
    /\ UNCHANGED <<answer, sheets>>

\* The printer is offline, or the adapter proves that nothing was submitted; or the
\* ticket comes out; or no clear answer comes in time, whatever came out.
PrintTicket(w, t) ==
    /\ pile[w][t] # 0 /\ answer[w] = NoAnswer
    /\ \E a \in Answers, out \in {0, 1} :
          /\ a = "printed" => out = 1
          /\ a = "refused" => out = 0
          /\ answer' = [answer EXCEPT ![w] = [of |-> t, is |-> a]]
          /\ sheets' = [sheets EXCEPT ![t] = @ + out]
    /\ UNCHANGED <<ticketRow, pile>>

\* WHERE status = 'printing' AND locked_by = the process.
Leases(w, t) == ticket[t] = "printing" /\ heldBy[t] = w

Close(t, s) ==
    /\ ticket' = [ticket EXCEPT ![t] = s]
    /\ heldBy' = [heldBy EXCEPT ![t] = NoWorker]
    /\ lockOld' = [lockOld EXCEPT ![t] = FALSE]

NextTicket(w, t) ==
    /\ pile' = [pile EXCEPT ![w][t] = 0]
    /\ answer' = [answer EXCEPT ![w] = NoAnswer]

MarkPrinted(w, t) ==
    /\ answer[w] = [of |-> t, is |-> "printed"]
    /\ \/ Leases(w, t) /\ Close(t, "printed")
       \/ ~Leases(w, t) /\ UNCHANGED <<ticket, heldBy, lockOld>>
    /\ NextTicket(w, t)
    /\ UNCHANGED <<prints, sheets>>

\* Slip: a failed transaction counts as a refusal of the printer.
PrintedInVainRefused(w, t) == [of |-> t, is |-> "refused"]

\* What the catch block makes of a transaction that failed after the print.
PrintedInVain(w, t) == [of |-> t, is |-> "unknown"]

\* The transaction fails, or its answer is lost after it committed.
PrintedMarkFails(w, t) ==
    /\ answer[w] = [of |-> t, is |-> "printed"]
    /\ answer' = [answer EXCEPT ![w] = PrintedInVain(w, t)]
    /\ \/ Leases(w, t) /\ Close(t, "printed")
       \/ UNCHANGED <<ticket, heldBy, lockOld>>
    /\ UNCHANGED <<prints, pile, sheets>>

Terminal(w, t) == answer[w].is = "unknown" \/ pile[w][t] >= MaxPrintTries

MarkFailed(w, t) ==
    /\ answer[w] \in [of : {t}, is : {"refused", "unknown"}]
    /\ \/ Leases(w, t) /\ Close(t, IF Terminal(w, t) THEN "dead" ELSE "failed")
       \/ ~Leases(w, t) /\ UNCHANGED <<ticket, heldBy, lockOld>>
    /\ NextTicket(w, t)
    /\ UNCHANGED <<prints, sheets>>

PrinterStops(w) ==
    /\ \E t \in Tickets : pile[w][t] # 0
    /\ pile' = [pile EXCEPT ![w] = [t \in Tickets |-> 0]]
    /\ answer' = [answer EXCEPT ![w] = NoAnswer]
    /\ UNCHANGED <<ticketRow, sheets>>

----------------------------------------------------------------------------
PrinterStep(w) ==
    \E t \in Tickets : PrintTicket(w, t) \/ MarkPrinted(w, t) \/ PrintedMarkFails(w, t) \/ MarkFailed(w, t)

CloudNext ==
    \/ \E t \in Tickets : LockTurnsOld(t) \/ Replace(t)
    \/ \E w \in Printers : ClaimTickets(w) \/ PrinterStep(w) \/ PrinterStops(w)

CloudSpec == CloudInit /\ [][CloudNext]_cloudVars

\* Workers are scheduled and the bounded print call returns; time passes.
CloudFairness ==
    /\ \A t \in Tickets : WF_cloudVars(LockTurnsOld(t))
    /\ \A w \in Printers : WF_cloudVars(ClaimTickets(w)) /\ WF_cloudVars(PrinterStep(w))

CloudFairSpec == CloudSpec /\ CloudFairness

----------------------------------------------------------------------------
\* A ticket comes out at most once by itself: nothing that may have printed it lets it
\* be claimed again.
CloudTicketComesOutOnce == \A t \in Tickets : sheets[t] <= 1

\* A ticket recorded as printed came out, and one that waits for a printer did not.
CloudStatusTellsPaper ==
    \A t \in Tickets : /\ ticket[t] = "printed" => sheets[t] = 1
                       /\ ticket[t] \in {"pending", "failed"} => sheets[t] = 0

\* Every ticket ends as printed, or as dead for the staff to look at: unlike at the
\* bridge, none stays "printing".
CloudTicketEnds == \A t \in Tickets : <>(ticket[t] \in TicketEnded)

----------------------------------------------------------------------------
(* The promise of the loop                                                 *)

TicketFate == [t \in Tickets |->
                 CASE ticket[t] = "printed" -> "done"
                   [] ticket[t] = "dead" -> "given_up"
                   [] OTHER -> "open"]

TicketPromise == INSTANCE DeliveryPromise WITH
    Things <- Tickets, Copies <- {0, 1}, MayGiveUp <- TRUE,
    reached <- sheets, fate <- TicketFate

\* At most once; a status that ended is final, and "printed" is true.
CloudKeepsPromise == TicketPromise!PromiseSpec
=============================================================================

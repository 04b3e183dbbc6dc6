--------------------------- MODULE PrintingProofs ---------------------------
(* Proofs about CloudPrint and PrintBridge, for any number of tickets,      *)
(* processes, tries and attempts.                                          *)
EXTENDS CloudPrint, PrintBridge, TLAPS

USE MaxPrintTriesAssumption, NoPrinterAssumption

----------------------------------------------------------------------------
(* CloudPrint.  The inductive invariant: at most one process has a ticket   *)
(* in its pile, and a ticket in a pile is never one to be claimed.          *)

\* The process of a pile holds the lease, or the ticket has ended.
PileIsLeased ==
    \A w \in Printers, t \in Tickets : pile[w][t] # 0 =>
       Leases(w, t) \/ ticket[t] \in TicketEnded

\* No ticket is in the piles of two processes.
OnePile ==
    \A v, w \in Printers, t \in Tickets : pile[v][t] # 0 /\ pile[w][t] # 0 => v = w

\* A process has an answer only of a ticket in its pile.
AnswersOfPile ==
    \A w \in Printers, t \in Tickets :
       answer[w] # NoAnswer /\ answer[w].of = t => pile[w][t] # 0

\* The process has an answer of this ticket.
Answered(w, t) == answer[w] # NoAnswer /\ answer[w].of = t

\* A ticket in a pile that was not sent yet did not come out, nor did a refused one;
\* one said to be printed did.
PaperOfPile ==
    \A w \in Printers, t \in Tickets : pile[w][t] # 0 =>
       /\ ~Answered(w, t) => sheets[t] = 0
       /\ Answered(w, t) /\ answer[w].is = "refused" => sheets[t] = 0
       /\ Answered(w, t) /\ answer[w].is = "printed" => sheets[t] = 1

\* What the rows say of the paper.
PaperOfRow ==
    \A t \in Tickets : /\ sheets[t] = 0 \/ sheets[t] = 1
                       /\ ticket[t] = "printed" => sheets[t] = 1
                       /\ ticket[t] \in {"pending", "failed"} => sheets[t] = 0

\* The inductive invariant.
CloudIInv == CloudTypeOK /\ PileIsLeased /\ OnePile /\ AnswersOfPile /\ PaperOfPile /\ PaperOfRow

\* It holds before any ticket is claimed.
LEMMA CloudInitOK == CloudInit => CloudIInv
  BY SMTT(30) DEF CloudInit, CloudIInv, CloudTypeOK, PileIsLeased, OnePile, AnswersOfPile, Answered,
       PaperOfPile, PaperOfRow, TicketEnded

----------------------------------------------------------------------------
\* Time and the staff: no pile, answer or paper moves, and a failed ticket, which is in
\* no pile, ends.
LEMMA RowKeeps ==
  ASSUME CloudIInv, NEW t \in Tickets, LockTurnsOld(t) \/ Replace(t)
  PROVE  CloudIInv'
<1>1. CloudTypeOK'
  <2>1. CASE LockTurnsOld(t)
    BY <2>1 DEF CloudIInv, CloudTypeOK, LockTurnsOld
  <2>2. CASE Replace(t)
    BY <2>2 DEF CloudIInv, CloudTypeOK, Replace, TicketEnded
  <2>3. QED  BY <2>1, <2>2
<1>2. /\ UNCHANGED <<pile, answer, sheets, heldBy>>
      /\ \A x \in Tickets : ticket'[x] # ticket[x] => ticket[x] = "failed" /\ ticket'[x] = "dead"
  BY DEF CloudIInv, CloudTypeOK, LockTurnsOld, Replace
<1>3. PileIsLeased'
  BY <1>2 DEF CloudIInv, PileIsLeased, Leases, TicketEnded
<1>4. OnePile' /\ AnswersOfPile' /\ PaperOfPile'
  BY <1>2 DEF CloudIInv, OnePile, AnswersOfPile, PaperOfPile, Answered
<1>5. PaperOfRow'
  BY <1>2 DEF CloudIInv, PaperOfRow
<1>6. QED  BY <1>1, <1>3, <1>4, <1>5 DEF CloudIInv

\* A claim takes tickets that are in no pile and never came out, and gives up leases
\* that ran out.
LEMMA ClaimKeeps ==
  ASSUME CloudIInv, NEW w \in Printers, ClaimTickets(w)
  PROVE  CloudIInv'
<1>1. PICK S \in SUBSET {t \in Tickets : Due(t)} :
        LET lost == Abandoned \ S IN
        /\ ticket' = [t \in Tickets |->
              IF t \in S THEN "printing" ELSE IF t \in lost THEN "dead" ELSE ticket[t]]
        /\ heldBy' = [t \in Tickets |->
              IF t \in S THEN w ELSE IF t \in lost THEN NoWorker ELSE heldBy[t]]
        /\ lockOld' = [t \in Tickets |-> lockOld[t] /\ t \notin S \cup lost]
        /\ prints' = [t \in Tickets |-> IF t \in S THEN prints[t] + 1 ELSE prints[t]]
        /\ pile' = [pile EXCEPT ![w] = [t \in Tickets |-> IF t \in S THEN prints[t] + 1 ELSE 0]]
  BY DEF ClaimTickets
<1>2. /\ UNCHANGED <<answer, sheets>>
      /\ \A t \in Tickets : pile[w][t] = 0
  BY DEF ClaimTickets
<1>3. \A t \in S : /\ t \in Tickets /\ prints[t] < MaxPrintTries
                   /\ ticket[t] \in {"pending", "failed"}
                   /\ \A v \in Printers : pile[v][t] = 0
                   /\ sheets[t] = 0
  BY <1>1 DEF Due, CloudIInv, PileIsLeased, Leases, TicketEnded, PaperOfRow
<1>4. \A v \in Printers, t \in Tickets :
         pile'[v][t] = IF v = w THEN IF t \in S THEN prints[t] + 1 ELSE 0 ELSE pile[v][t]
  BY <1>1 DEF CloudIInv, CloudTypeOK
<1>5. CloudTypeOK'
  <2>1. prints' \in [Tickets -> 0 .. MaxPrintTries]
    BY <1>1, <1>3 DEF CloudIInv, CloudTypeOK
  <2>2. [t \in Tickets |-> IF t \in S THEN prints[t] + 1 ELSE 0] \in [Tickets -> 0 .. MaxPrintTries]
    BY <1>3 DEF CloudIInv, CloudTypeOK
  <2>3. pile' \in [Printers -> [Tickets -> 0 .. MaxPrintTries]]
    BY <1>1, <2>2 DEF CloudIInv, CloudTypeOK
  <2>4. \A t \in Tickets : ticket'[t] = "printing" <=> heldBy'[t] # NoWorker
    BY <1>1 DEF CloudIInv, CloudTypeOK
  <2>5. QED
    BY <1>1, <1>2, <2>1, <2>3, <2>4 DEF CloudIInv, CloudTypeOK, TicketEnded
<1>6. PileIsLeased'
  <2> SUFFICES ASSUME NEW v \in Printers, NEW t \in Tickets, pile'[v][t] # 0
               PROVE  Leases(v, t)' \/ ticket'[t] \in TicketEnded
    BY DEF PileIsLeased
  <2>1. CASE t \in S
    BY <1>1, <1>3, <1>4, <2>1 DEF Leases
  <2>2. CASE t \notin S
    <3>1. pile[v][t] # 0
      BY <1>2, <1>4, <2>2
    <3>2. CASE t \in Abandoned
      BY <1>1, <2>2, <3>2 DEF TicketEnded
    <3>3. CASE t \notin Abandoned
      BY <1>1, <2>2, <3>1, <3>3 DEF CloudIInv, PileIsLeased, Leases
    <3>4. QED  BY <3>2, <3>3
  <2>3. QED  BY <2>1, <2>2
<1>7. OnePile'
  BY <1>2, <1>3, <1>4 DEF CloudIInv, OnePile
<1>8. AnswersOfPile'
  BY <1>2, <1>3, <1>4 DEF CloudIInv, AnswersOfPile
<1>9. PaperOfPile'
  <2> SUFFICES ASSUME NEW v \in Printers, NEW t \in Tickets, pile'[v][t] # 0
               PROVE  /\ ~Answered(v, t) => sheets[t] = 0
                      /\ Answered(v, t) /\ answer[v].is = "refused" => sheets[t] = 0
                      /\ Answered(v, t) /\ answer[v].is = "printed" => sheets[t] = 1
    BY <1>2 DEF PaperOfPile, Answered
  <2>1. CASE t \in S
    <3>1. ~Answered(v, t)
      BY <1>3, <2>1 DEF CloudIInv, AnswersOfPile, Answered
    <3>2. QED  BY <1>3, <2>1, <3>1
  <2>2. CASE t \notin S
    BY <1>2, <1>4, <2>2 DEF CloudIInv, PaperOfPile
  <2>3. QED  BY <2>1, <2>2
<1>10. PaperOfRow'
  BY <1>1, <1>2 DEF CloudIInv, PaperOfRow
<1>11. QED  BY <1>5, <1>6, <1>7, <1>8, <1>9, <1>10 DEF CloudIInv

\* A ticket is sent only from a pile, where it was not sent before.
LEMMA PrintKeeps ==
  ASSUME CloudIInv, NEW w \in Printers, NEW t \in Tickets, PrintTicket(w, t)
  PROVE  CloudIInv'
<1>1. PICK a \in Answers, out \in {0, 1} :
        /\ a = "printed" => out = 1
        /\ a = "refused" => out = 0
        /\ answer' = [answer EXCEPT ![w] = [of |-> t, is |-> a]]
        /\ sheets' = [sheets EXCEPT ![t] = @ + out]
  BY DEF PrintTicket
<1>2. /\ UNCHANGED <<ticket, prints, heldBy, lockOld, pile>>
      /\ pile[w][t] # 0 /\ answer[w] = NoAnswer
  BY DEF PrintTicket, ticketRow
<1>3. sheets[t] = 0 /\ sheets'[t] = out /\ ticket[t] \notin {"pending", "failed", "printed"}
  BY <1>1, <1>2 DEF CloudIInv, CloudTypeOK, PaperOfPile, PaperOfRow, Answered, PileIsLeased, Leases,
       TicketEnded
<1>4. [of |-> t, is |-> a] # NoAnswer
  BY <1>1 DEF NoAnswer, Answers
<1>5. CloudTypeOK'
  BY <1>1, <1>2 DEF CloudIInv, CloudTypeOK
<1>6. PileIsLeased' /\ OnePile'
  BY <1>2 DEF CloudIInv, PileIsLeased, OnePile, Leases
<1>7. answer' \in [Printers -> [of : Tickets, is : Answers] \cup {NoAnswer}]
      /\ answer'[w] = [of |-> t, is |-> a]
      /\ \A v \in Printers \ {w} : answer'[v] = answer[v]
  BY <1>1, <1>5 DEF CloudIInv, CloudTypeOK
<1>8. AnswersOfPile'
  BY <1>2, <1>7 DEF CloudIInv, AnswersOfPile
<1>9. PaperOfPile'
  <2> SUFFICES ASSUME NEW v \in Printers, NEW x \in Tickets, pile[v][x] # 0
               PROVE  /\ ~Answered(v, x)' => sheets'[x] = 0
                      /\ Answered(v, x)' /\ answer'[v].is = "refused" => sheets'[x] = 0
                      /\ Answered(v, x)' /\ answer'[v].is = "printed" => sheets'[x] = 1
    BY <1>2 DEF PaperOfPile
  <2>1. CASE v = w /\ x = t
    BY <1>1, <1>3, <1>4, <1>7, <2>1 DEF Answered
  <2>2. CASE v = w /\ x # t
    BY <1>1, <1>2, <1>3, <1>7, <2>2 DEF CloudIInv, CloudTypeOK, PaperOfPile, Answered
  <2>3. CASE v # w
    <3>1. x # t
      BY <1>2, <2>3 DEF CloudIInv, OnePile
    <3>2. QED
      BY <1>1, <1>7, <2>3, <3>1 DEF CloudIInv, CloudTypeOK, PaperOfPile, Answered
  <2>4. QED  BY <2>1, <2>2, <2>3
<1>10. PaperOfRow'
  BY <1>1, <1>2, <1>3 DEF CloudIInv, CloudTypeOK, PaperOfRow
<1>11. QED  BY <1>5, <1>6, <1>8, <1>9, <1>10 DEF CloudIInv

\* Closing a ticket the process has in its pile: it is nobody's to claim, or it is known
\* that it did not come out.
LEMMA CloseKeepsRows ==
  ASSUME CloudIInv, NEW w \in Printers, NEW t \in Tickets, NEW s \in {"printed", "failed", "dead"},
         Leases(w, t), Close(t, s),
         UNCHANGED sheets,
         s = "printed" => sheets[t] = 1,
         s = "failed" => sheets[t] = 0
  PROVE  /\ ticket' \in [Tickets -> {"pending", "printing", "failed"} \cup TicketEnded]
         /\ heldBy' \in [Tickets -> Printers \cup {NoWorker}]
         /\ lockOld' \in [Tickets -> BOOLEAN]
         /\ \A x \in Tickets : ticket'[x] = "printing" <=> heldBy'[x] # NoWorker
         /\ PaperOfRow'
         /\ ticket'[t] = s
         /\ \A x \in Tickets \ {t} : ticket'[x] = ticket[x] /\ heldBy'[x] = heldBy[x]
  BY SMTT(30) DEF CloudIInv, CloudTypeOK, Close, Leases, TicketEnded, PaperOfRow

\* The end of a ticket's turn: it leaves the pile, and the answer is forgotten.
LEMMA TurnKeeps ==
  ASSUME CloudIInv, NEW w \in Printers, NEW t \in Tickets, pile[w][t] # 0,
         NextTicket(w, t), UNCHANGED <<prints, sheets>>,
         \A x \in Tickets : answer[w] # NoAnswer /\ answer[w].of = x => x = t,
         \/ UNCHANGED <<ticket, heldBy, lockOld>>
         \/ \E s \in {"printed", "failed", "dead"} :
               /\ Leases(w, t) /\ Close(t, s)
               /\ s = "printed" => sheets[t] = 1
               /\ s = "failed" => sheets[t] = 0
  PROVE  CloudIInv'
<1>1. /\ ticket' \in [Tickets -> {"pending", "printing", "failed"} \cup TicketEnded]
      /\ heldBy' \in [Tickets -> Printers \cup {NoWorker}]
      /\ lockOld' \in [Tickets -> BOOLEAN]
      /\ \A x \in Tickets : ticket'[x] = "printing" <=> heldBy'[x] # NoWorker
      /\ PaperOfRow'
      /\ \A x \in Tickets \ {t} : ticket'[x] = ticket[x] /\ heldBy'[x] = heldBy[x]
  <2>1. CASE UNCHANGED <<ticket, heldBy, lockOld>>
    BY <2>1 DEF CloudIInv, CloudTypeOK, PaperOfRow
  <2>2. QED  BY <2>1, CloseKeepsRows
<1>2. /\ pile' \in [Printers -> [Tickets -> 0 .. MaxPrintTries]]
      /\ \A v \in Printers, x \in Tickets :
            pile'[v][x] = IF v = w /\ x = t THEN 0 ELSE pile[v][x]
  BY DEF NextTicket, CloudIInv, CloudTypeOK
<1>3. /\ answer' \in [Printers -> [of : Tickets, is : Answers] \cup {NoAnswer}]
      /\ answer'[w] = NoAnswer
      /\ \A v \in Printers \ {w} : answer'[v] = answer[v]
  BY DEF NextTicket, CloudIInv, CloudTypeOK
<1>4. CloudTypeOK'
  BY <1>1, <1>2, <1>3 DEF CloudIInv, CloudTypeOK
<1>5. \A v \in Printers, x \in Tickets : pile'[v][x] # 0 => x # t /\ pile[v][x] # 0
  BY <1>2 DEF CloudIInv, OnePile
<1>6. PileIsLeased' /\ OnePile'
  BY <1>1, <1>5 DEF CloudIInv, PileIsLeased, OnePile, Leases
<1>7. AnswersOfPile'
  <2> SUFFICES ASSUME NEW v \in Printers, NEW x \in Tickets, answer'[v] # NoAnswer, answer'[v].of = x
               PROVE  pile'[v][x] # 0
    BY DEF AnswersOfPile
  <2>1. v # w /\ answer[v] # NoAnswer /\ answer[v].of = x
    BY <1>3
  <2>2. QED  BY <1>2, <2>1 DEF CloudIInv, AnswersOfPile
<1>8. PaperOfPile'
  <2> SUFFICES ASSUME NEW v \in Printers, NEW x \in Tickets, pile'[v][x] # 0
               PROVE  /\ ~Answered(v, x)' => sheets'[x] = 0
                      /\ Answered(v, x)' /\ answer'[v].is = "refused" => sheets'[x] = 0
                      /\ Answered(v, x)' /\ answer'[v].is = "printed" => sheets'[x] = 1
    BY DEF PaperOfPile
  <2>1. x # t /\ pile[v][x] # 0
    BY <1>5
  <2>2. Answered(v, x)' <=> Answered(v, x)
    BY <1>3, <2>1 DEF Answered
  <2>3. Answered(v, x) => answer'[v] = answer[v]
    BY <1>3, <2>1 DEF Answered
  <2>4. QED  BY <2>1, <2>2, <2>3 DEF CloudIInv, PaperOfPile
<1>9. QED  BY <1>1, <1>4, <1>6, <1>7, <1>8 DEF CloudIInv

\* A success is recorded for a ticket that came out.
LEMMA MarkPrintedKeeps ==
  ASSUME CloudIInv, NEW w \in Printers, NEW t \in Tickets, MarkPrinted(w, t)
  PROVE  CloudIInv'
<1>1. answer[w] = [of |-> t, is |-> "printed"] /\ answer[w] # NoAnswer
  BY DEF MarkPrinted, NoAnswer
<1>2. Answered(w, t) /\ pile[w][t] # 0
  BY <1>1 DEF Answered, CloudIInv, AnswersOfPile
<1>3. sheets[t] = 1
  BY <1>1, <1>2 DEF CloudIInv, PaperOfPile
<1>4. NextTicket(w, t) /\ UNCHANGED <<prints, sheets>>
  BY DEF MarkPrinted
<1>5. \/ UNCHANGED <<ticket, heldBy, lockOld>>
      \/ Leases(w, t) /\ Close(t, "printed")
  BY DEF MarkPrinted
<1>6. QED  BY <1>1, <1>2, <1>3, <1>4, <1>5, TurnKeeps

\* A ticket becomes claimable again only when the printer refused it.
LEMMA MarkFailedKeeps ==
  ASSUME CloudIInv, NEW w \in Printers, NEW t \in Tickets, MarkFailed(w, t)
  PROVE  CloudIInv'
<1>1. answer[w] \in [of : {t}, is : {"refused", "unknown"}] /\ answer[w] # NoAnswer
  BY DEF MarkFailed, NoAnswer
<1>2. Answered(w, t) /\ pile[w][t] # 0
  BY <1>1 DEF Answered, CloudIInv, AnswersOfPile
<1>3. NextTicket(w, t) /\ UNCHANGED <<prints, sheets>>
  BY DEF MarkFailed
<1>4. \/ UNCHANGED <<ticket, heldBy, lockOld>>
      \/ Leases(w, t) /\ Close(t, "dead")
      \/ ~Terminal(w, t) /\ Leases(w, t) /\ Close(t, "failed")
  BY DEF MarkFailed
<1>5. ~Terminal(w, t) => sheets[t] = 0
  BY <1>1, <1>2 DEF Terminal, CloudIInv, PaperOfPile
<1>6. QED  BY <1>1, <1>2, <1>3, <1>4, <1>5, TurnKeeps

\* The ticket may be recorded as printed although the process believes it is not; it
\* keeps it in its pile, with a doubtful answer.
LEMMA PrintedMarkFailsKeeps ==
  ASSUME CloudIInv, NEW w \in Printers, NEW t \in Tickets, PrintedMarkFails(w, t)
  PROVE  CloudIInv'
<1>1. answer[w] = [of |-> t, is |-> "printed"] /\ answer[w] # NoAnswer
  BY DEF PrintedMarkFails, NoAnswer
<1>2. Answered(w, t) /\ pile[w][t] # 0 /\ sheets[t] = 1
  BY <1>1 DEF Answered, CloudIInv, AnswersOfPile, PaperOfPile
<1>3. /\ UNCHANGED <<prints, pile, sheets>>
      /\ answer' = [answer EXCEPT ![w] = [of |-> t, is |-> "unknown"]]
  BY DEF PrintedMarkFails, PrintedInVain
<1>4. /\ ticket' \in [Tickets -> {"pending", "printing", "failed"} \cup TicketEnded]
      /\ heldBy' \in [Tickets -> Printers \cup {NoWorker}]
      /\ lockOld' \in [Tickets -> BOOLEAN]
      /\ \A x \in Tickets : ticket'[x] = "printing" <=> heldBy'[x] # NoWorker
      /\ PaperOfRow'
      /\ \/ ticket'[t] = "printed"
         \/ ticket'[t] = ticket[t] /\ heldBy'[t] = heldBy[t]
      /\ \A x \in Tickets \ {t} : ticket'[x] = ticket[x] /\ heldBy'[x] = heldBy[x]
  <2>1. CASE UNCHANGED <<ticket, heldBy, lockOld>>
    BY <1>3, <2>1 DEF CloudIInv, CloudTypeOK, PaperOfRow
  <2>2. CASE Leases(w, t) /\ Close(t, "printed")
    <3>1. \E s \in {"printed", "failed", "dead"} :
             /\ s = "printed" /\ Leases(w, t) /\ Close(t, s)
             /\ s = "failed" => sheets[t] = 0
      BY <2>2
    <3>2. UNCHANGED sheets
      BY <1>3
    <3>3. PICK s \in {"printed", "failed", "dead"} :
             /\ s = "printed" /\ Leases(w, t) /\ Close(t, s)
             /\ s = "failed" => sheets[t] = 0
      BY <3>1
    <3>4. ticket'[t] = s
      BY <1>2, <3>2, <3>3, CloseKeepsRows
    <3>5. QED  BY <1>2, <3>2, <3>3, <3>4, CloseKeepsRows
  <2>3. QED  BY <2>1, <2>2 DEF PrintedMarkFails
<1>5. [of |-> t, is |-> "unknown"] # NoAnswer
  BY DEF NoAnswer
<1>6. /\ answer' \in [Printers -> [of : Tickets, is : Answers] \cup {NoAnswer}]
      /\ answer'[w] = [of |-> t, is |-> "unknown"]
      /\ \A v \in Printers \ {w} : answer'[v] = answer[v]
  BY <1>3 DEF CloudIInv, CloudTypeOK, Answers
<1>7. CloudTypeOK'
  BY <1>3, <1>4, <1>6 DEF CloudIInv, CloudTypeOK
<1>8. PileIsLeased' /\ OnePile'
  BY <1>3, <1>4 DEF CloudIInv, PileIsLeased, OnePile, Leases, TicketEnded
<1>9. AnswersOfPile'
  BY <1>2, <1>3, <1>6 DEF CloudIInv, AnswersOfPile
<1>10. PaperOfPile'
  <2> SUFFICES ASSUME NEW v \in Printers, NEW x \in Tickets, pile[v][x] # 0
               PROVE  /\ ~Answered(v, x)' => sheets[x] = 0
                      /\ Answered(v, x)' /\ answer'[v].is = "refused" => sheets[x] = 0
                      /\ Answered(v, x)' /\ answer'[v].is = "printed" => sheets[x] = 1
    BY <1>3 DEF PaperOfPile
  <2>1. Answered(v, x)' <=> Answered(v, x)
    BY <1>1, <1>5, <1>6 DEF Answered
  <2>2. CASE v = w
    <3>1. answer'[v].is = "unknown"
      BY <1>6, <2>2
    <3>2. QED  BY <2>1, <3>1 DEF CloudIInv, PaperOfPile
  <2>3. CASE v # w
    BY <1>6, <2>1, <2>3 DEF CloudIInv, PaperOfPile
  <2>4. QED  BY <2>2, <2>3
<1>11. QED  BY <1>4, <1>7, <1>8, <1>9, <1>10 DEF CloudIInv

\* A process that ends forgets its pile; the leases stay until they are given up.
LEMMA PrinterStopsKeeps ==
  ASSUME CloudIInv, NEW w \in Printers, PrinterStops(w)
  PROVE  CloudIInv'
<1>1. /\ UNCHANGED <<ticket, prints, heldBy, lockOld, sheets>>
      /\ pile' = [pile EXCEPT ![w] = [t \in Tickets |-> 0]]
      /\ answer' = [answer EXCEPT ![w] = NoAnswer]
  BY DEF PrinterStops, ticketRow
<1>2. [t \in Tickets |-> 0] \in [Tickets -> 0 .. MaxPrintTries]
  OBVIOUS
<1>3. /\ \A v \in Printers, t \in Tickets : pile'[v][t] = IF v = w THEN 0 ELSE pile[v][t]
      /\ answer'[w] = NoAnswer
      /\ \A v \in Printers \ {w} : answer'[v] = answer[v]
  BY <1>1 DEF CloudIInv, CloudTypeOK
<1>4. CloudTypeOK'
  BY <1>1, <1>2 DEF CloudIInv, CloudTypeOK
<1>5. PileIsLeased' /\ OnePile' /\ AnswersOfPile' /\ PaperOfRow'
  BY <1>1, <1>3 DEF CloudIInv, PileIsLeased, OnePile, AnswersOfPile, PaperOfRow, Leases
<1>6. PaperOfPile'
  BY <1>1, <1>3 DEF CloudIInv, PaperOfPile, Answered
<1>7. QED  BY <1>4, <1>5, <1>6 DEF CloudIInv

\* Every step keeps the invariant.
LEMMA CloudStepOK == CloudIInv /\ [CloudNext]_cloudVars => CloudIInv'
<1> SUFFICES ASSUME CloudIInv, [CloudNext]_cloudVars PROVE CloudIInv'
  OBVIOUS
<1>1. ASSUME NEW t \in Tickets, LockTurnsOld(t) \/ Replace(t) PROVE CloudIInv'
  BY <1>1, RowKeeps
<1>2. ASSUME NEW w \in Printers, ClaimTickets(w) PROVE CloudIInv'
  BY <1>2, ClaimKeeps
<1>3. ASSUME NEW w \in Printers, PrinterStep(w) PROVE CloudIInv'
  BY <1>3, PrintKeeps, MarkPrintedKeeps, PrintedMarkFailsKeeps, MarkFailedKeeps DEF PrinterStep
<1>4. ASSUME NEW w \in Printers, PrinterStops(w) PROVE CloudIInv'
  BY <1>4, PrinterStopsKeeps
<1>5. CASE UNCHANGED cloudVars
  BY <1>5 DEF CloudIInv, CloudTypeOK, PileIsLeased, OnePile, AnswersOfPile, PaperOfPile, PaperOfRow,
       Answered, Leases, cloudVars, ticketRow
<1>6. QED  BY <1>1, <1>2, <1>3, <1>4, <1>5 DEF CloudNext

\* So it always holds.
LEMMA CloudAlways == CloudSpec => []CloudIInv
  BY CloudInitOK, CloudStepOK, PTL DEF CloudSpec

----------------------------------------------------------------------------
\* A ticket of the cloud adapter comes out at most once: what may have printed it is
\* never claimed again, whichever process dies or comes late.
THEOREM CloudTicketPrintsOnce == CloudSpec => []CloudTicketComesOutOnce
<1>1. CloudIInv => CloudTicketComesOutOnce
  <2>1. \A n : n = 0 \/ n = 1 => n <= 1
    BY SMT
  <2>2. CloudIInv => \A t \in Tickets : sheets[t] = 0 \/ sheets[t] = 1
    BY DEF CloudIInv, PaperOfRow
  <2>3. QED  BY <2>1, <2>2, Zenon DEF CloudTicketComesOutOnce
<1>2. QED  BY <1>1, CloudAlways, PTL

\* A ticket recorded as printed came out, and one a printer may still get did not.
THEOREM CloudStatusIsTrue == CloudSpec => []CloudStatusTellsPaper
<1>1. CloudIInv => CloudStatusTellsPaper
  BY DEF CloudIInv, PaperOfRow, CloudStatusTellsPaper
<1>2. QED  BY <1>1, CloudAlways, PTL

----------------------------------------------------------------------------
(* CloudPrint implements DeliveryPromise.                                   *)

\* A step that ends nothing leaves the fate of every ticket.
LEMMA SameTicketFate ==
  ASSUME \A t \in Tickets : \/ ticket'[t] = ticket[t]
                            \/ ticket[t] \notin TicketEnded /\ ticket'[t] \notin TicketEnded
  PROVE  TicketFate' = TicketFate
  BY DEF TicketFate, TicketEnded

\* Tickets that die, of a lost lease, a doubtful answer or a reprint, are given up.
LEMMA TicketsGivenUp ==
  ASSUME NEW S \in SUBSET Tickets, UNCHANGED sheets,
         \A t \in S : ticket[t] \notin TicketEnded /\ ticket'[t] = "dead",
         \A t \in Tickets \ S : \/ ticket'[t] = ticket[t]
                                \/ ticket[t] \notin TicketEnded /\ ticket'[t] \notin TicketEnded
  PROVE  TicketPromise!GiveUp(S)
<1>1. \A t \in S : TicketFate[t] = "open"
  BY DEF TicketFate, TicketEnded
<1>2. TicketFate' = [t \in Tickets |-> IF t \in S THEN "given_up" ELSE TicketFate[t]]
  BY DEF TicketFate, TicketEnded
<1>3. QED  BY <1>1, <1>2 DEF TicketPromise!GiveUp

\* Recording an answer ends at most the ticket of the turn, as printed only when it came
\* out.
LEMMA AnswerKeepsPromise ==
  ASSUME CloudIInv, PaperOfRow', NEW w \in Printers, NEW t \in Tickets,
         MarkPrinted(w, t) \/ PrintedMarkFails(w, t) \/ MarkFailed(w, t)
  PROVE  [TicketPromise!PromiseNext]_TicketPromise!promiseVars
<1>1. CloudTypeOK /\ UNCHANGED sheets
  BY DEF CloudIInv, MarkPrinted, PrintedMarkFails, MarkFailed
<1>2. UNCHANGED ticket \/ \E s \in {"printed", "dead", "failed"} : Leases(w, t) /\ Close(t, s)
  BY DEF MarkPrinted, PrintedMarkFails, MarkFailed
<1>3. CASE UNCHANGED ticket
  <2>1. TicketFate' = TicketFate
    BY <1>3, SameTicketFate
  <2>2. QED  BY <1>1, <2>1 DEF TicketPromise!promiseVars
<1>4. ASSUME NEW s \in {"printed", "dead", "failed"}, Leases(w, t), Close(t, s)
      PROVE  [TicketPromise!PromiseNext]_TicketPromise!promiseVars
  <2>1. ticket' = [ticket EXCEPT ![t] = s] /\ ticket[t] = "printing" /\ ticket[t] \notin TicketEnded
    BY <1>4 DEF Leases, Close, TicketEnded
  <2>2. CASE s = "printed"
    <3>1. sheets[t] = 1
      BY <1>1, <2>1, <2>2 DEF PaperOfRow, CloudTypeOK
    <3>2. TicketFate[t] = "open" /\ TicketFate' = [TicketFate EXCEPT ![t] = "done"]
      BY <1>1, <2>1, <2>2 DEF TicketFate, CloudTypeOK
    <3>3. sheets[t] > 0
      BY <3>1
    <3>4. QED
      BY <1>1, <3>2, <3>3 DEF TicketPromise!Confirm, TicketPromise!PromiseNext
  <2>3. CASE s = "dead"
    <3>1. TicketPromise!GiveUp({t})
      BY <1>1, <2>1, <2>3, TicketsGivenUp DEF CloudTypeOK
    <3>2. QED  BY <3>1 DEF TicketPromise!PromiseNext
  <2>4. CASE s = "failed"
    <3>1. \A x \in Tickets : \/ ticket'[x] = ticket[x]
                             \/ ticket[x] \notin TicketEnded /\ ticket'[x] \notin TicketEnded
      BY <1>1, <2>1, <2>4 DEF TicketEnded, CloudTypeOK
    <3>2. TicketFate' = TicketFate
      BY <3>1, SameTicketFate
    <3>3. QED  BY <1>1, <3>2 DEF TicketPromise!promiseVars
  <2>5. QED  BY <2>2, <2>3, <2>4
<1>5. QED  BY <1>2, <1>3, <1>4

\* Every step of the print workers is a step of the promise, or none.
LEMMA CloudStepKeepsPromise ==
  ASSUME CloudIInv, PaperOfRow', [CloudNext]_cloudVars
  PROVE  [TicketPromise!PromiseNext]_TicketPromise!promiseVars
<1>1. CloudTypeOK
  BY DEF CloudIInv
<1>2. ASSUME UNCHANGED <<ticket, sheets>> PROVE UNCHANGED TicketPromise!promiseVars
  <2>1. TicketFate' = TicketFate
    BY <1>2, SameTicketFate
  <2>2. QED  BY <1>2, <2>1 DEF TicketPromise!promiseVars
<1>3. ASSUME NEW t \in Tickets, LockTurnsOld(t) PROVE UNCHANGED TicketPromise!promiseVars
  BY <1>2, <1>3 DEF LockTurnsOld
<1>4. ASSUME NEW t \in Tickets, Replace(t) PROVE TicketPromise!PromiseNext
  <2>1. ticket[t] \notin TicketEnded /\ ticket' = [ticket EXCEPT ![t] = "dead"] /\ UNCHANGED sheets
    BY <1>4 DEF Replace, TicketEnded
  <2>2. TicketPromise!GiveUp({t})
    BY <1>1, <2>1, TicketsGivenUp DEF CloudTypeOK
  <2>3. QED  BY <2>2 DEF TicketPromise!PromiseNext
<1>5. ASSUME NEW w \in Printers, ClaimTickets(w) PROVE TicketPromise!PromiseNext
  <2>1. PICK S \in SUBSET {t \in Tickets : Due(t)} :
           ticket' = [t \in Tickets |-> IF t \in S THEN "printing"
                                        ELSE IF t \in Abandoned \ S THEN "dead" ELSE ticket[t]]
    BY <1>5 DEF ClaimTickets
  <2>2. \A t \in S : t \in Tickets /\ ticket[t] \notin TicketEnded
    BY DEF Due, TicketEnded
  <2>3. /\ Abandoned \ S \in SUBSET Tickets
        /\ \A t \in Abandoned \ S : ticket[t] \notin TicketEnded
    BY DEF Abandoned, TicketEnded
  <2>4. \A t \in Abandoned \ S : ticket[t] \notin TicketEnded /\ ticket'[t] = "dead"
    BY <2>1, <2>3
  <2>5. \A t \in Tickets \ (Abandoned \ S) :
           ticket'[t] = ticket[t] \/ (ticket[t] \notin TicketEnded /\ ticket'[t] \notin TicketEnded)
    BY <2>1, <2>2 DEF TicketEnded
  <2>6. UNCHANGED sheets
    BY <1>5 DEF ClaimTickets
  <2>7. TicketPromise!GiveUp(Abandoned \ S)
    BY <2>3, <2>4, <2>5, <2>6, TicketsGivenUp
  <2>8. QED  BY <2>3, <2>7 DEF TicketPromise!PromiseNext
<1>6. ASSUME NEW w \in Printers, NEW t \in Tickets, PrintTicket(w, t)
      PROVE  TicketPromise!PromiseNext \/ UNCHANGED TicketPromise!promiseVars
  <2>1. PICK out \in {0, 1} : sheets' = [sheets EXCEPT ![t] = @ + out]
    BY <1>6 DEF PrintTicket
  <2>2. UNCHANGED ticket
    BY <1>6 DEF PrintTicket, ticketRow
  <2>3. TicketFate' = TicketFate
    BY <2>2, SameTicketFate
  <2>4. CASE out = 1
    <3>1. sheets'[t] = sheets[t] + 1 /\ sheets' = [sheets EXCEPT ![t] = @ + 1]
      BY <1>1, <2>1, <2>4 DEF CloudTypeOK
    <3>2. sheets[t] + 1 \in {0, 1}
      BY <3>1 DEF PaperOfRow
    <3>3. QED  BY <2>3, <3>1, <3>2 DEF TicketPromise!Arrive, TicketPromise!PromiseNext
  <2>5. CASE out = 0
    <3>1. sheets' = sheets
      BY <1>1, <2>1, <2>5 DEF CloudTypeOK
    <3>2. QED  BY <1>2, <2>2, <3>1
  <2>6. QED  BY <2>1, <2>4, <2>5
<1>7. ASSUME NEW w \in Printers, PrinterStops(w) PROVE UNCHANGED TicketPromise!promiseVars
  BY <1>2, <1>7 DEF PrinterStops, ticketRow
<1>8. CASE UNCHANGED cloudVars
  BY <1>2, <1>8 DEF cloudVars, ticketRow
<1>9. ASSUME NEW w \in Printers, PrinterStep(w)
      PROVE  [TicketPromise!PromiseNext]_TicketPromise!promiseVars
  BY <1>6, <1>9, AnswerKeepsPromise DEF PrinterStep
<1>10. QED  BY <1>3, <1>4, <1>5, <1>7, <1>8, <1>9 DEF CloudNext

\* At most once at the network printers: a second sheet, a "printed" without paper, or a
\* late process that changes what was printed or dead does not happen.
THEOREM CloudImplementsPromise == CloudSpec => CloudKeepsPromise
<1>1. CloudInit => TicketPromise!PromiseInit
  BY DEF CloudInit, TicketPromise!PromiseInit, TicketFate
<1>2. CloudIInv => PaperOfRow
  BY DEF CloudIInv
<1>3. QED
  BY <1>1, <1>2, CloudAlways, CloudStepKeepsPromise, PTL
     DEF CloudSpec, CloudKeepsPromise, TicketPromise!PromiseSpec

USE MaxAttemptsAssumption, NobodyAssumption

----------------------------------------------------------------------------
(* PrintBridge.  The inductive invariant: what the journal remembers.       *)

\* The process has a ticket in hand exactly while it is busy.
Busy == stage = "idle" <=> hand = Nobody

\* What came out once is in the journal, whatever becomes of it there.
Remembered == \A j \in Jobs : paper[j] # 0 => paper[j] = 1 /\ journal[j] # "none"

\* Between the entry "printing" and the spooler's answer the process knows how often
\* the ticket came out.
UnderPrint ==
    /\ stage = "marked" => paper[hand] = 0 /\ journal[hand] = "printing"
    /\ stage = "accepted" => paper[hand] = 1 /\ journal[hand] = "printing"

\* Whoever says "printed" (journal, request or server) has seen it come out.
SaidIsDone ==
    /\ \A j \in Jobs : journal[j] = "printed" \/ jobStatus[j] = "printed" => paper[j] = 1
    /\ \A m \in wire : m.result = "printed" => paper[m.job] = 1

\* The inductive invariant.
PrintIInv == PrintTypeOK /\ Busy /\ Remembered /\ UnderPrint /\ SaidIsDone

\* It holds before any ticket is claimed.
LEMMA PrintInitOK == PrintInit => PrintIInv
  BY SMTT(30) DEF PrintInit, PrintIInv, PrintTypeOK, Busy, Remembered, UnderPrint, SaidIsDone

\* Steps of the server and of time leave journal and paper alone.
LEMMA ServerKeeps ==
  ASSUME PrintIInv, NEW j \in Jobs,
         ClaimTicket(j) \/ LeaseAges(j) \/ StaffRetry(j) \/ StaffReprint(j)
  PROVE  PrintIInv'
<1>1. PrintTypeOK'
  <2>1. CASE ClaimTicket(j)
    BY <2>1 DEF PrintIInv, PrintTypeOK, ClaimTicket, Takeable
  <2>2. CASE LeaseAges(j)
    BY <2>2 DEF PrintIInv, PrintTypeOK, LeaseAges, bridgeVars
  <2>3. CASE StaffRetry(j) \/ StaffReprint(j)
    BY <2>3 DEF PrintIInv, PrintTypeOK, StaffRetry, StaffReprint, bridgeVars
  <2>4. QED  BY <2>1, <2>2, <2>3
<1>2. Busy' /\ Remembered' /\ UnderPrint' /\ SaidIsDone'
  BY SMTT(30) DEF PrintIInv, PrintTypeOK, Busy, Remembered, UnderPrint, SaidIsDone, ClaimTicket, Takeable,
       LeaseAges, StaffRetry, StaffReprint, serverVars, bridgeVars
<1>3. QED  BY <1>1, <1>2 DEF PrintIInv

\* Steps of processJob: only PrinterTakes moves paper, and it starts from none.
LEMMA WorkKeeps ==
  ASSUME PrintIInv, NEW j \in Jobs,
         Begin(j) \/ PrinterTakes(j) \/ PrinterRefuses(j) \/ PrintFails(j) \/ PrintEnds(j)
  PROVE  PrintIInv'
<1>1. CASE Begin(j)
  BY <1>1, SMTT(60) DEF PrintIInv, PrintTypeOK, Busy, Remembered, UnderPrint, SaidIsDone, Begin, PriorState,
       Say, Results, serverVars
<1>2. CASE PrinterTakes(j)
  BY <1>2, SMTT(60) DEF PrintIInv, PrintTypeOK, Busy, Remembered, UnderPrint, SaidIsDone, PrinterTakes,
       serverVars
<1>3. CASE PrinterRefuses(j)
  BY <1>3, SMTT(60) DEF PrintIInv, PrintTypeOK, Busy, Remembered, UnderPrint, SaidIsDone, PrinterRefuses,
       Say, Results, serverVars
<1>4. CASE PrintFails(j)
  BY <1>4, SMTT(60) DEF PrintIInv, PrintTypeOK, Busy, Remembered, UnderPrint, SaidIsDone, PrintFails,
       Say, Results, serverVars
<1>5. CASE PrintEnds(j)
  BY <1>5, SMTT(60) DEF PrintIInv, PrintTypeOK, Busy, Remembered, UnderPrint, SaidIsDone, PrintEnds,
       Say, Results, serverVars
<1>6. QED  BY <1>1, <1>2, <1>3, <1>4, <1>5

\* A call that fails leaves the ticket doubtful, never unremembered.
LEMMA CallFailsKeeps ==
  ASSUME PrintIInv, NEW j \in Jobs, hand = j, NEW w, w \subseteq wire, CallFails(j, w)
  PROVE  /\ wire' \subseteq [job : Jobs, result : Results]
         /\ journal' \in [Jobs -> {"none", "printing", "printed", "ambiguous"}]
         /\ \A i \in Jobs : /\ journal'[i] = "none" => journal[i] = "none"
                            /\ journal'[i] = "printed" => journal[i] = "printed"
         /\ \A m \in wire' : m.result = "printed" => m \in wire
         /\ \/ hand' = Nobody /\ stage' = "idle"
            \/ hand' = j /\ stage' = "closing"
  BY SMTT(60) DEF PrintIInv, PrintTypeOK, CallFails, Results, Idle

\* So does giving up a call, whatever becomes of its request.
LEMMA GiveUpKeeps ==
  ASSUME PrintIInv, NEW j \in Jobs, GiveUp(j)
  PROVE  PrintIInv'
<1>1. PICK w \in {wire, {m \in wire : m.job # j}} : CallFails(j, w)
  BY DEF GiveUp
<1>2. w \subseteq wire /\ hand = j /\ UNCHANGED <<serverVars, paper>>
  BY DEF GiveUp
<1>3. QED
  BY <1>1, <1>2, CallFailsKeeps, SMTT(60)
     DEF PrintIInv, PrintTypeOK, Busy, Remembered, UnderPrint, SaidIsDone, serverVars

\* The server calls a ticket printed only when a request says so.
LEMMA HandleResultKeeps ==
  ASSUME PrintIInv, NEW m \in wire, HandleResult(m)
  PROVE  PrintIInv'
<1>1. m.job \in Jobs /\ m.result \in Results
  BY DEF PrintIInv, PrintTypeOK
<1>2. /\ jobStatus' \in [Jobs -> {"pending", "printing", "printed", "failed", "dead"}]
      /\ leaseOld' \in [Jobs -> BOOLEAN]
      /\ \A j \in Jobs : jobStatus'[j] = "printed" => paper[j] = 1
      /\ UNCHANGED <<attempts, paper>>
  <2>1. /\ UNCHANGED <<attempts, paper>>
        /\ m.result = "printed" => paper[m.job] = 1
        /\ Recorded(m.job, m.result)
    BY DEF PrintIInv, SaidIsDone, HandleResult
  <2>2. CASE jobStatus[m.job] = "printing"
    <3>1. PICK s \in {"printed", "failed", "dead"} :
             /\ jobStatus' = [jobStatus EXCEPT ![m.job] = s]
             /\ s = "printed" => m.result = "printed"
      BY <2>1, <2>2 DEF Recorded, AfterResult
    <3>2. leaseOld' = [leaseOld EXCEPT ![m.job] = FALSE]
      BY <2>1, <2>2 DEF Recorded
    <3>3. QED
      BY <1>1, <2>1, <3>1, <3>2 DEF PrintIInv, PrintTypeOK, SaidIsDone
  <2>3. CASE jobStatus[m.job] # "printing"
    BY <2>1, <2>3 DEF Recorded, PrintIInv, PrintTypeOK, SaidIsDone
  <2>4. QED  BY <2>2, <2>3
<1>3. CASE wire' = wire \ {m} /\ UNCHANGED bridgeVars
  BY <1>2, <1>3, SMTT(60) DEF PrintIInv, PrintTypeOK, Busy, Remembered, UnderPrint, SaidIsDone, bridgeVars
<1>4. CASE /\ hand = m.job /\ Idle /\ wire' = wire \ {m} /\ UNCHANGED journal
  BY <1>2, <1>4, SMTT(60) DEF PrintIInv, PrintTypeOK, Busy, Remembered, UnderPrint, SaidIsDone, Idle
<1>5. CASE hand = m.job /\ CallFails(m.job, wire \ {m})
  <2>1. wire \ {m} \subseteq wire
    OBVIOUS
  <2>2. QED
    BY <1>1, <1>2, <1>5, <2>1, CallFailsKeeps, SMTT(60)
       DEF PrintIInv, PrintTypeOK, Busy, Remembered, UnderPrint, SaidIsDone
<1>6. QED  BY <1>3, <1>4, <1>5 DEF HandleResult

\* A stop forgets the ticket in hand, not the journal.
LEMMA StopKeeps == PrintIInv /\ BridgeStops => PrintIInv'
  BY SMTT(30) DEF PrintIInv, PrintTypeOK, Busy, Remembered, UnderPrint, SaidIsDone, BridgeStops, Idle,
       serverVars

\* Every step keeps the invariant.
LEMMA PrintStepOK == PrintIInv /\ [PrintNext]_printVars => PrintIInv'
<1> SUFFICES ASSUME PrintIInv, [PrintNext]_printVars PROVE PrintIInv'
  OBVIOUS
<1>1. ASSUME NEW j \in Jobs, ClaimTicket(j) \/ LeaseAges(j) \/ StaffRetry(j) \/ StaffReprint(j)
      PROVE  PrintIInv'
  BY <1>1, ServerKeeps
<1>2. ASSUME NEW j \in Jobs, Work(j) PROVE PrintIInv'
  BY <1>2, WorkKeeps, GiveUpKeeps DEF Work
<1>3. ASSUME NEW m \in wire, HandleResult(m) PROVE PrintIInv'
  BY <1>3, HandleResultKeeps
<1>4. CASE BridgeStops
  BY <1>4, StopKeeps
<1>5. CASE UNCHANGED printVars
  BY <1>5 DEF PrintIInv, PrintTypeOK, Busy, Remembered, UnderPrint, SaidIsDone, printVars, serverVars,
       bridgeVars
<1>6. QED  BY <1>1, <1>2, <1>3, <1>4, <1>5 DEF PrintNext

\* So it always holds.
LEMMA PrintAlways == PrintSpec => []PrintIInv
  BY PrintInitOK, PrintStepOK, PTL DEF PrintSpec

----------------------------------------------------------------------------
\* A ticket comes out of the printer of a store at most once: the journal entry that
\* processJob writes before it prints survives whatever happens afterwards.
THEOREM TicketPrintsOnce == PrintSpec => []TicketComesOutOnce
<1>1. PrintIInv => TicketComesOutOnce
  <2>1. \A n : n = 0 \/ n = 1 => n <= 1
    BY SMT
  <2>2. PrintIInv => \A j \in Jobs : paper[j] = 0 \/ paper[j] = 1
    BY DEF PrintIInv, Remembered
  <2>3. QED  BY <2>1, <2>2, Zenon DEF TicketComesOutOnce
<1>2. QED  BY <1>1, PrintAlways, PTL

\* What the server calls printed is on paper, and a ticket that will be handed out
\* again is not, unless the journal will stop it.
THEOREM StatusIsTrue == PrintSpec => []StatusTellsPaper
<1>1. PrintIInv => StatusTellsPaper
  <2>1. PrintIInv => \A j \in Jobs : journal[j] \in {"none", "printing", "printed", "ambiguous"}
    BY DEF PrintIInv, PrintTypeOK
  <2>2. PrintIInv => \A j \in Jobs : paper[j] = 1 => journal[j] # "none"
    BY DEF PrintIInv, Remembered
  <2>3. QED  BY <2>1, <2>2 DEF PrintIInv, SaidIsDone, StatusTellsPaper
<1>2. QED  BY <1>1, PrintAlways, PTL

----------------------------------------------------------------------------
(* Server and bridge implement DeliveryPromise.                             *)

\* A step that ends nothing leaves the fate of every ticket.
LEMMA SameJobFate ==
  ASSUME \A j \in Jobs : \/ jobStatus'[j] = jobStatus[j]
                         \/ jobStatus[j] \notin Ended /\ jobStatus'[j] \notin Ended
  PROVE  JobFate' = JobFate
  BY DEF JobFate, Ended

\* A status that becomes "printed" confirms a ticket that is on paper, one that becomes
\* "dead" gives it up, and between the others the promise sees no difference.
LEMMA StatusKeepsPromise ==
  ASSUME PrintTypeOK, SaidIsDone', UNCHANGED paper, NEW j \in Jobs, jobStatus[j] \notin Ended,
         NEW s \in {"pending", "printing", "printed", "failed", "dead"},
         jobStatus' = [jobStatus EXCEPT ![j] = s]
  PROVE  [JobPromise!PromiseNext]_JobPromise!promiseVars
<1>1. JobFate[j] = "open"
  BY DEF JobFate, Ended
<1>2. CASE s = "printed"
  <2>1. paper[j] > 0
    BY <1>2 DEF SaidIsDone, PrintTypeOK
  <2>2. JobFate' = [JobFate EXCEPT ![j] = "done"]
    BY <1>2 DEF JobFate, PrintTypeOK
  <2>3. QED  BY <1>1, <2>1, <2>2 DEF JobPromise!Confirm, JobPromise!PromiseNext
<1>3. CASE s = "dead"
  <2>1. JobFate' = [i \in Jobs |-> IF i \in {j} THEN "given_up" ELSE JobFate[i]]
    BY <1>3 DEF JobFate, PrintTypeOK
  <2>2. JobPromise!GiveUp({j})
    BY <1>1, <2>1 DEF JobPromise!GiveUp
  <2>3. QED  BY <2>2 DEF JobPromise!PromiseNext
<1>4. CASE s \notin Ended
  <2>1. \A i \in Jobs : \/ jobStatus'[i] = jobStatus[i]
                        \/ jobStatus[i] \notin Ended /\ jobStatus'[i] \notin Ended
    BY <1>4 DEF PrintTypeOK
  <2>2. JobFate' = JobFate
    BY <2>1, SameJobFate
  <2>3. QED  BY <2>2 DEF JobPromise!promiseVars
<1>5. QED  BY <1>2, <1>3, <1>4 DEF Ended

\* Every step of server, bridge and printer is a step of the promise, or none.
LEMMA PrintStepKeepsPromise ==
  ASSUME PrintIInv, PrintIInv', [PrintNext]_printVars
  PROVE  [JobPromise!PromiseNext]_JobPromise!promiseVars
<1>1. PrintTypeOK /\ SaidIsDone'
  BY DEF PrintIInv
<1>2. ASSUME UNCHANGED <<jobStatus, paper>> PROVE UNCHANGED JobPromise!promiseVars
  <2>1. JobFate' = JobFate
    BY <1>2, SameJobFate
  <2>2. QED  BY <1>2, <2>1 DEF JobPromise!promiseVars
<1>3. ASSUME NEW j \in Jobs, ClaimTicket(j) \/ StaffRetry(j) \/ StaffReprint(j)
      PROVE  [JobPromise!PromiseNext]_JobPromise!promiseVars
  <2>1. /\ jobStatus[j] \notin Ended /\ UNCHANGED paper
        /\ \E s \in {"printing", "pending", "dead"} : jobStatus' = [jobStatus EXCEPT ![j] = s]
    BY <1>3 DEF ClaimTicket, Takeable, StaffRetry, StaffReprint, Ended
  <2>2. QED  BY <1>1, <2>1, StatusKeepsPromise
<1>4. ASSUME NEW j \in Jobs,
             \/ LeaseAges(j) \/ Begin(j) \/ PrinterRefuses(j) \/ PrintFails(j)
             \/ PrintEnds(j) \/ GiveUp(j)
      PROVE  UNCHANGED JobPromise!promiseVars
  <2>1. UNCHANGED <<jobStatus, paper>>
    BY <1>4 DEF LeaseAges, Begin, PrinterRefuses, PrintFails, PrintEnds, GiveUp, serverVars
  <2>2. QED  BY <1>2, <2>1
<1>5. ASSUME NEW j \in Jobs, PrinterTakes(j) PROVE JobPromise!PromiseNext
  <2>1. paper' = [paper EXCEPT ![j] = @ + 1] /\ UNCHANGED jobStatus /\ paper[j] = 0
    BY <1>5 DEF PrinterTakes, serverVars, PrintIInv, UnderPrint
  <2>2. JobFate' = JobFate
    BY <2>1, SameJobFate
  <2>3. paper[j] + 1 \in {0, 1}
    BY <2>1
  <2>4. QED  BY <2>1, <2>2, <2>3 DEF JobPromise!Arrive, JobPromise!PromiseNext
<1>6. ASSUME NEW m \in wire, HandleResult(m)
      PROVE  [JobPromise!PromiseNext]_JobPromise!promiseVars
  <2>1. m.job \in Jobs /\ UNCHANGED paper /\ Recorded(m.job, m.result)
    BY <1>1, <1>6 DEF PrintTypeOK, HandleResult
  <2>2. CASE jobStatus[m.job] = "printing"
    <3>1. PICK s \in {"printed", "failed", "dead"} : jobStatus' = [jobStatus EXCEPT ![m.job] = s]
      BY <2>1, <2>2 DEF Recorded, AfterResult
    <3>2. jobStatus[m.job] \notin Ended
      BY <2>2 DEF Ended
    <3>3. QED  BY <1>1, <2>1, <3>1, <3>2, StatusKeepsPromise
  <2>3. CASE jobStatus[m.job] # "printing"
    BY <1>2, <2>1, <2>3 DEF Recorded
  <2>4. QED  BY <2>2, <2>3
<1>7. CASE BridgeStops
  BY <1>2, <1>7 DEF BridgeStops, serverVars
<1>8. CASE UNCHANGED printVars
  BY <1>2, <1>8 DEF printVars, serverVars
<1>9. QED  BY <1>3, <1>4, <1>5, <1>6, <1>7, <1>8 DEF PrintNext, Work

\* At most once at the print bridge: a second copy, a "printed" without paper, or a late
\* result that changes what was printed or dead does not happen.
THEOREM BridgeImplementsPromise == PrintSpec => BridgeKeepsPromise
<1>1. PrintInit => JobPromise!PromiseInit
  BY DEF PrintInit, JobPromise!PromiseInit, JobFate
<1>2. QED
  BY <1>1, PrintAlways, PrintStepKeepsPromise, PTL
     DEF PrintSpec, BridgeKeepsPromise, JobPromise!PromiseSpec
=============================================================================

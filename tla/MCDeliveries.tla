---------------------------- MODULE MCDeliveries ----------------------------
(* TLC instance of Deliveries: two messages, notifications and tickets, and *)
(* two processes.                                                           *)
EXTENDS Deliveries

CONSTANTS d1, d2, w1, w2

Items == {d1, d2}
Processes == {w1, w2}

\* The fairness of OutboxDispatch, NotificationDelivery and CloudPrint, each for its own
\* behaviours.
TimePasses(d) ==
    \/ outboxLoop /\ BackoffEnds(d)
    \/ noteLoop /\ NoteFallsDue(d)

LockEnds(d) ==
    \/ outboxLoop /\ LockAges(d)
    \/ noteLoop /\ NoteLeaseAges(d)
    \/ cloudLoop /\ LockTurnsOld(d)

AsksForWork(w) ==
    \/ outboxLoop /\ Claim(w)
    \/ noteLoop /\ ClaimNotes(w)
    \/ cloudLoop /\ ClaimTickets(w)

HandsOn(w) ==
    \/ outboxLoop /\ Deliver(w)
    \/ noteLoop /\ SenderStep(w)
    \/ cloudLoop /\ PrinterStep(w)

LoopFairness ==
    /\ \A d \in Items : WF_loopVars(TimePasses(d)) /\ WF_loopVars(LockEnds(d))
    /\ \A w \in Processes :
          /\ WF_loopVars(AsksForWork(w)) /\ WF_loopVars(HandsOn(w))
          /\ WF_loopVars(outboxLoop /\ MarkDelivered(w))
          /\ WF_loopVars(outboxLoop /\ ReleaseFailed(w))

FairLoopSpec == LoopSpec /\ LoopFairness
=============================================================================

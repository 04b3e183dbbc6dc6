----------------------------- MODULE Deliveries -----------------------------
(* The four loops that carry something out of the database, together:       *)
(* outbox messages, notifications, tickets at network printers and tickets  *)
(* at the print bridge.  They share no rows, so a behaviour of LoopSpec is  *)
(* of one loop, while the other three stay in their initial states;         *)
(* TogetherSpec is any mixture of their steps.                              *)
EXTENDS OutboxDispatch, NotificationDelivery, CloudPrint, PrintBridge

VARIABLE loop   \* the loop a behaviour is about

outboxLoop == loop = "outbox" /\ UNCHANGED <<loop, noteVars, cloudVars, printVars>>
noteLoop == loop = "notes" /\ UNCHANGED <<loop, vars, cloudVars, printVars>>
cloudLoop == loop = "cloud" /\ UNCHANGED <<loop, vars, noteVars, printVars>>
bridgeLoop == loop = "bridge" /\ UNCHANGED <<loop, vars, noteVars, cloudVars>>
loopVars == <<loop, vars, noteVars, cloudVars, printVars>>

LoopInit ==
    /\ loop \in {"outbox", "notes", "cloud", "bridge"}
    /\ Init /\ NoteInit /\ CloudInit /\ PrintInit
    /\ loop # "notes" => \A n \in Notifications : ~later[n]

LoopNext ==
    \/ outboxLoop /\ Next
    \/ noteLoop /\ NoteNext
    \/ cloudLoop /\ CloudNext
    \/ bridgeLoop /\ PrintNext

LoopSpec == LoopInit /\ [][LoopNext]_loopVars

TogetherSpec == Spec /\ NoteSpec /\ CloudSpec /\ PrintSpec

----------------------------------------------------------------------------
\* The types of the four loops.
LoopTypeOK == TypeOK /\ NoteTypeOK /\ CloudTypeOK /\ PrintTypeOK

\* What a loop records as done was done: a message that left the outbox was accepted, a
\* delivered notification handed over and a printed ticket is on paper; a ticket that
\* waits to be tried again is not.
RecordsAreTrue ==
    DeliveredWasAccepted /\ DeliveredWasHanded /\ CloudStatusTellsPaper /\ StatusTellsPaper

\* Every loop implements DeliveryPromise: messages at least once, notifications at most
\* max_attempts times, tickets at most once; what is recorded as done did arrive, and
\* no late worker, bridge or answer changes what has ended.
LoopsKeepTheirPromises ==
    OutboxKeepsPromise /\ NotesKeepPromise /\ CloudKeepsPromise /\ BridgeKeepsPromise

\* No crash, failure, takeover or late answer leaves a message, a notification or a
\* ticket of a network printer unfinished.
LoopsFinish ==
    /\ EveryMessageIsDelivered
    /\ loop = "notes" => EveryNotificationEnds
    /\ loop = "cloud" => CloudTicketEnds
=============================================================================

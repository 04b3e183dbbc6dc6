---------------------------- MODULE PrintBridge ----------------------------
EXTENDS Naturals

(***************************************************************************)
(* Tickets printed by the Windows print bridge of a store: the leases of   *)
(* mbox.print_jobs on the server, the bridge with its journal on disk, the *)
(* requests between them, and the paper.                                   *)
(*                                                                         *)
(* One bridge process handles one ticket at a time.  A request it gave up  *)
(* waiting for may be lost, or handled by the server at any later time.    *)
(* The printer takes a ticket or refuses it; a refusal the bridge          *)
(* classifies as "definitely not submitted" printed nothing.               *)
(***************************************************************************)
CONSTANTS
    Jobs,          \* rows of mbox.print_jobs with delivery_mode 'bridge_pull'
    MaxAttempts,   \* max_attempts
    Nobody

ASSUME MaxAttemptsAssumption == MaxAttempts \in Nat \ {0}
ASSUME NobodyAssumption == Nobody \notin Jobs

VARIABLES
    jobStatus,   \* print_jobs.status
    attempts,    \* print_jobs.attempts
    leaseOld,    \* locked_at is more than 90 seconds ago
    journal,     \* journal.json: state of the entry of a ticket, "none" without one
    hand,        \* the ticket the process works on, or Nobody
    stage,       \* where processJob stands with it
    wire,        \* results on their way: [job, result]
    paper        \* how often the ticket came out of the printer

serverVars == <<jobStatus, attempts, leaseOld>>
bridgeVars == <<journal, hand, stage>>
printVars == <<serverVars, bridgeVars, wire, paper>>

Results == {"printed", "refused", "unknown"}
Ended == {"printed", "dead"}

PrintTypeOK ==
    /\ jobStatus \in [Jobs -> {"pending", "printing", "printed", "failed", "dead"}]
    /\ attempts \in [Jobs -> 0 .. MaxAttempts]
    /\ leaseOld \in [Jobs -> BOOLEAN]
    /\ journal \in [Jobs -> {"none", "printing", "printed", "ambiguous"}]
    /\ hand \in Jobs \cup {Nobody}
    /\ stage \in {"idle", "claimed", "marked", "accepted", "telling", "closing"}
    /\ wire \subseteq [job : Jobs, result : Results]
    /\ paper \in [Jobs -> Nat]

PrintInit ==
    /\ jobStatus = [j \in Jobs |-> "pending"]
    /\ attempts = [j \in Jobs |-> 0]
    /\ leaseOld = [j \in Jobs |-> FALSE]
    /\ journal = [j \in Jobs |-> "none"]
    /\ hand = Nobody /\ stage = "idle"
    /\ wire = {}
    /\ paper = [j \in Jobs |-> 0]

----------------------------------------------------------------------------
(* The server                                                              *)

\* Slip: a ticket whose lease ran out is taken over however often it was tried.
TakeableAnew(j) ==
    \/ jobStatus[j] \in {"pending", "failed"} /\ attempts[j] < MaxAttempts
    \/ jobStatus[j] = "printing" /\ leaseOld[j]

\* The candidates of claimJobs; the delay after a failure has no length here.
Takeable(j) ==
    /\ attempts[j] < MaxAttempts
    /\ \/ jobStatus[j] \in {"pending", "failed"}
       \/ jobStatus[j] = "printing" /\ leaseOld[j]

\* The bridge asks for work; the answer may get lost.
ClaimTicket(j) ==
    /\ hand = Nobody
    /\ Takeable(j)
    /\ jobStatus' = [jobStatus EXCEPT ![j] = "printing"]
    /\ attempts' = [attempts EXCEPT ![j] = @ + 1]
    /\ leaseOld' = [leaseOld EXCEPT ![j] = FALSE]
    /\ \/ hand' = j /\ stage' = "claimed"
       \/ UNCHANGED <<hand, stage>>
    /\ UNCHANGED <<journal, wire, paper>>

LeaseAges(j) ==
    /\ jobStatus[j] = "printing" /\ ~leaseOld[j]
    /\ leaseOld' = [leaseOld EXCEPT ![j] = TRUE]
    /\ UNCHANGED <<jobStatus, attempts, bridgeVars, wire, paper>>

\* The status a result gives a ticket under print: only a definite refusal is retried.
AfterResult(j, r) ==
    CASE r = "printed" -> "printed"
      [] r = "refused" /\ attempts[j] < MaxAttempts -> "failed"
      [] OTHER -> "dead"

\* recordPrintResult: a printed ticket is confirmed again, one without a lease refused.
Accepts(j) == jobStatus[j] \in {"printing", "printed"}

Recorded(j, r) ==
    IF jobStatus[j] = "printing"
    THEN /\ jobStatus' = [jobStatus EXCEPT ![j] = AfterResult(j, r)]
         /\ leaseOld' = [leaseOld EXCEPT ![j] = FALSE]
    ELSE UNCHANGED <<jobStatus, leaseOld>>

\* An employee tries a failed ticket at once, or retires it for a reprint, which is
\* a ticket of its own.
StaffRetry(j) ==
    /\ jobStatus[j] = "failed" /\ attempts[j] < MaxAttempts
    /\ jobStatus' = [jobStatus EXCEPT ![j] = "pending"]
    /\ UNCHANGED <<attempts, leaseOld, bridgeVars, wire, paper>>

StaffReprint(j) ==
    /\ jobStatus[j] = "failed"
    /\ jobStatus' = [jobStatus EXCEPT ![j] = "dead"]
    /\ UNCHANGED <<attempts, leaseOld, bridgeVars, wire, paper>>

----------------------------------------------------------------------------
(* The bridge                                                              *)

\* reportJob: the request leaves.  While "telling", a failure of the call is caught.
Say(j, r, s) ==
    /\ wire' = wire \cup {[job |-> j, result |-> r]}
    /\ stage' = s

\* Slip: a ticket under print when the process died is printed again.
PriorStateForgotten(j) == IF journal[j] = "printing" THEN "none" ELSE journal[j]

\* What the journal says of a ticket that was claimed.
PriorState(j) == journal[j]

\* processJob up to the print: what is done is told, what is doubtful is not repeated.
Begin(j) ==
    /\ hand = j /\ stage = "claimed"
    /\ \/ PriorState(j) = "printed" /\ Say(j, "printed", "closing") /\ UNCHANGED journal
       \/ /\ PriorState(j) \in {"printing", "ambiguous"}
          /\ journal' = [journal EXCEPT ![j] = "ambiguous"]
          /\ Say(j, "unknown", "closing")
       \/ /\ PriorState(j) = "none"
          /\ journal' = [journal EXCEPT ![j] = "printing"]
          /\ stage' = "marked" /\ UNCHANGED wire
    /\ UNCHANGED <<serverVars, hand, paper>>

\* The print spooler takes the ticket and it comes out.
PrinterTakes(j) ==
    /\ hand = j /\ stage = "marked"
    /\ paper' = [paper EXCEPT ![j] = @ + 1]
    /\ stage' = "accepted"
    /\ UNCHANGED <<serverVars, journal, hand, wire>>

\* An error that proves that nothing was submitted; the printer driver is trusted in
\* this, and no such error comes from the journal after the ticket came out.
PrinterRefuses(j) ==
    /\ hand = j /\ stage = "marked"
    /\ journal' = [journal EXCEPT ![j] = "none"]
    /\ Say(j, "refused", "closing")
    /\ UNCHANGED <<serverVars, hand, paper>>

\* A timeout or another error, before or after the ticket came out.
PrintFails(j) ==
    /\ hand = j /\ stage \in {"marked", "accepted"}
    /\ journal' = [journal EXCEPT ![j] = "ambiguous"]
    /\ Say(j, "unknown", "closing")
    /\ UNCHANGED <<serverVars, hand, paper>>

\* Slip: success is told before it is written down.
PrintEndsUnsaved(j) ==
    /\ hand = j /\ stage = "accepted"
    /\ Say(j, "printed", "telling")
    /\ journal' = [journal EXCEPT ![j] = "none"]
    /\ UNCHANGED <<serverVars, hand, paper>>

PrintEnds(j) ==
    /\ hand = j /\ stage = "accepted"
    /\ journal' = [journal EXCEPT ![j] = "printed"]
    /\ Say(j, "printed", "telling")
    /\ UNCHANGED <<serverVars, hand, paper>>

Idle == hand' = Nobody /\ stage' = "idle"

\* The call failed.  Inside the try block the entry becomes "ambiguous", even after a
\* print, and the failure is told; elsewhere the cycle ends.
CallFails(j, w) ==
    \/ /\ stage = "telling"
       /\ journal' = [journal EXCEPT ![j] = "ambiguous"]
       /\ wire' = w \cup {[job |-> j, result |-> "unknown"]}
       /\ stage' = "closing" /\ UNCHANGED hand
    \/ stage = "closing" /\ wire' = w /\ Idle /\ UNCHANGED journal

\* The server handles a result.  The bridge gets the answer if it still waits for it
\* and it does not get lost.
HandleResult(m) ==
    /\ m \in wire
    /\ Recorded(m.job, m.result)
    /\ \/ wire' = wire \ {m} /\ UNCHANGED bridgeVars
       \/ /\ hand = m.job /\ stage \in {"telling", "closing"}
          /\ \/ Accepts(m.job) /\ Idle /\ wire' = wire \ {m} /\ UNCHANGED journal
             \/ ~Accepts(m.job) /\ CallFails(m.job, wire \ {m})
    /\ UNCHANGED <<attempts, paper>>

\* The bridge gives up waiting; a request still under way is lost or comes late.
GiveUp(j) ==
    /\ hand = j /\ stage \in {"telling", "closing"}
    /\ \E w \in {wire, {m \in wire : m.job # j}} : CallFails(j, w)
    /\ UNCHANGED <<serverVars, paper>>

\* The computer or the service stops; the journal stays.
BridgeStops ==
    /\ hand # Nobody
    /\ Idle
    /\ UNCHANGED <<serverVars, journal, wire, paper>>

----------------------------------------------------------------------------
Work(j) ==
    \/ Begin(j) \/ PrinterTakes(j) \/ PrinterRefuses(j) \/ PrintFails(j)
    \/ PrintEnds(j) \/ GiveUp(j)

PrintNext ==
    \/ \E j \in Jobs : \/ ClaimTicket(j) \/ LeaseAges(j) \/ Work(j)
                       \/ StaffRetry(j) \/ StaffReprint(j)
    \/ \E m \in wire : HandleResult(m)
    \/ BridgeStops

PrintSpec == PrintInit /\ [][PrintNext]_printVars

\* The bridge goes on asking and working, time passes; requests need not arrive.
PrintFairness ==
    \A j \in Jobs :
       WF_printVars(ClaimTicket(j)) /\ WF_printVars(LeaseAges(j)) /\ WF_printVars(Work(j))

PrintFairSpec == PrintSpec /\ PrintFairness

----------------------------------------------------------------------------
\* A ticket comes out of the printer at most once, whatever stops, is lost, arrives
\* late or is leased again: kitchen and guests never see the same ticket twice.
TicketComesOutOnce == \A j \in Jobs : paper[j] <= 1

\* A ticket the server calls printed is on paper, and a failed one that will be tried
\* again is not, unless the journal remembers it.
StatusTellsPaper ==
    \A j \in Jobs :
       /\ jobStatus[j] = "printed" => paper[j] = 1
       /\ jobStatus[j] \in {"pending", "failed"} /\ paper[j] = 1 =>
             journal[j] \in {"printing", "printed", "ambiguous"}

\* A ticket whose result was lost is settled in the end: it is confirmed, or handed to
\* the staff as doubtful.
LostTicketIsHandedOver ==
    \A j \in Jobs : jobStatus[j] = "printing" ~> jobStatus[j] \in Ended

----------------------------------------------------------------------------
(* The promise of server and bridge                                        *)

JobFate == [j \in Jobs |->
              CASE jobStatus[j] = "printed" -> "done"
                [] jobStatus[j] = "dead" -> "given_up"
                [] OTHER -> "open"]

JobPromise == INSTANCE DeliveryPromise WITH
    Things <- Jobs, Copies <- {0, 1}, MayGiveUp <- TRUE,
    reached <- paper, fate <- JobFate

\* At most once; a status that ended is final, and "printed" is true.
BridgeKeepsPromise == JobPromise!PromiseSpec
=============================================================================

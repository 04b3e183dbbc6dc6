----------------------------- MODULE Reservations -----------------------------
EXTENDS Naturals, FiniteSets

(***************************************************************************)
(* Reservations of a store: the seats they may claim together, the tables  *)
(* that some of them lock, and the two deadlines that end them.            *)
(*                                                                         *)
(* A reservation is made on-line by a guest, at the reception by staff     *)
(* (both without a table), or by the native staff client for named         *)
(* tables.  Those that count seats take the advisory lock of the           *)
(* reservation policy first and are serial; the others lock the row of the *)
(* reservation.  A transaction is one action, but for the accepting of a   *)
(* reservation: it compares a deadline with the clock and commits later,   *)
(* and who counts seats meanwhile reads the row as it was.  An exception   *)
(* rolls back, so a refused command is an action that is not enabled, and  *)
(* accepting that is undone has changed nothing.                           *)
(***************************************************************************)
CONSTANTS
    Bookings,   \* reservations
    Tables,
    Seats,      \* seats of a table
    Periods,    \* what a guest may ask for, as sets of instants
    MaxParty    \* bound on the guests of a reservation

ASSUME BookingsAssumption == IsFiniteSet(Bookings)
ASSUME SeatsAssumption == IsFiniteSet(Tables) /\ Seats \in [Tables -> Nat \ {0}]
ASSUME PartyAssumption == MaxParty \in Nat \ {0}
ASSUME PeriodsAssumption == Periods # {}

VARIABLES
    row,        \* reservations, with hold: whether the request hold still runs
    lock,       \* reservation_table_locks.status of a reservation and a table
    announced,  \* outbox keys of deadlines acted on
    accepting,  \* the status that a transaction with the row locked will give
    late        \* history: accepted although the hold had lapsed before the commit

vars == <<row, lock, announced, accepting, late>>

Parties == 1 .. MaxParty
LiveLock == {"held", "confirmed"}
Accepted == {"confirmed", "arrived", "seated"}

\* Every reservation and every lock has one of the statuses that the schema
\* admits (reservations and reservation_table_locks, with their CHECKs).
ReservationTypeOK ==
    /\ row \in [Bookings ->
         [status : {"none", "pending", "cancelled", "completed", "no_show"} \cup Accepted,
          source : {"online", "reception", "native"}, party : Parties, period : Periods,
          hold : {"none", "running", "lapsed"}, graceOver : BOOLEAN]]
    /\ lock \in [Bookings -> [Tables -> LiveLock \cup {"none", "released", "expired", "cancelled"}]]
    /\ announced \subseteq Bookings
    /\ accepting \in [Bookings -> {"none", "confirmed", "arrived"}]
    /\ late \subseteq Bookings

Init ==
    /\ row = [r \in Bookings |->
         [status |-> "none", source |-> "online", party |-> 1, period |-> CHOOSE p \in Periods : TRUE,
          hold |-> "none", graceOver |-> FALSE]]
    /\ lock = [r \in Bookings |-> [t \in Tables |-> "none"]]
    /\ announced = {}
    /\ accepting = [r \in Bookings |-> "none"]
    /\ late = {}

----------------------------------------------------------------------------
(* Seats and tables                                                        *)

\* Sums, as the number of chairs and of guests.
SeatsOf(tables) == Cardinality(UNION {{t} \X (1 .. Seats[t]) : t \in tables})
GuestsOf(bookings) == Cardinality({g \in bookings \X Parties : g[2] <= row[g[1]].party})
Overlap(p, q) == p \cap q # {}

\* Tables named by a reservation, whatever became of the lock.
Named(r) == {t \in Tables : lock[r][t] # "none"}

\* A lock in force: confirmed, or held and not yet lapsed.
InForce(r, t) ==
    \/ lock[r][t] = "confirmed"
    \/ lock[r][t] = "held" /\ row[r].hold = "running"

\* Slip: seated parties are left out.
CountsSlip(r) ==
    \/ row[r].status \in Accepted \ {"seated"}
    \/ /\ row[r].status = "pending"
       /\ CASE row[r].source = "online" -> row[r].hold = "running"
            [] OTHER -> Named(r) = {} \/ \E t \in Named(r) : InForce(r, t)

\* Reservations that count against the seats of the store, as committed rows and the
\* clock have it; nobody waits for a transaction that is accepting one of them.
Counts(r) ==
    \/ row[r].status \in Accepted
    \/ /\ row[r].status = "pending"
       /\ CASE row[r].source = "online" -> row[r].hold = "running"
            [] OTHER -> Named(r) = {} \/ \E t \in Named(r) : InForce(r, t)

\* The store has room for n more guests in p, besides all reservations that
\* overlap p, whether or not these overlap each other.
HasRoom(n, p, others) ==
    GuestsOf({q \in others : Counts(q) /\ Overlap(row[q].period, p)}) + n <= SeatsOf(Tables)

----------------------------------------------------------------------------
(* Deadlines                                                               *)

\* Slip: the row is read without FOR UPDATE.
UnlockedSlip(r) == TRUE

\* No transaction has the row of r locked.
Unlocked(r) == accepting[r] = "none"

\* Pending reservations with a table whose hold has lapsed.
HoldDue(r) ==
    /\ row[r].status = "pending"
    /\ row[r].hold = "lapsed"
    /\ \E t \in Tables : lock[r][t] = "held"

GraceDue(r) == row[r].status = "confirmed" /\ row[r].graceOver

\* Slip: the status of a hold is given to its reservation.
EndedSlip(r) ==
    [row[r] EXCEPT !.status = IF @ = "confirmed" THEN "no_show" ELSE "expired"]

Ended(r) ==
    [row[r] EXCEPT !.status = IF @ = "confirmed" THEN "no_show" ELSE "cancelled"]

\* The locks of a reservation that a deadline ends.
Vacated(r) ==
    [t \in Tables |->
        CASE row[r].status = "pending" /\ lock[r][t] = "held" -> "expired"
          [] row[r].status = "confirmed" /\ lock[r][t] = "confirmed" -> "released"
          [] OTHER -> lock[r][t]]

\* Slip: one key for all reservations.
AnnounceSlip(due) ==
    /\ announced = {}
    /\ announced' = announced \cup due

\* Acting on a deadline puts an event under a key of the reservation into the
\* outbox; a key that is taken undoes the transaction.
Announce(due) ==
    /\ due \cap announced = {}
    /\ announced' = announced \cup due

\* A batch of the worker: any rows that are due and not locked by others.
ExpireBatch(due) ==
    /\ due # {}
    /\ \A r \in due : Unlocked(r) /\ (HoldDue(r) \/ GraceDue(r))
    /\ row' = [r \in Bookings |-> IF r \in due THEN Ended(r) ELSE row[r]]
    /\ lock' = [r \in Bookings |-> IF r \in due THEN Vacated(r) ELSE lock[r]]
    /\ Announce(due)
    /\ UNCHANGED <<accepting, late>>

\* The clock.  The hold ends at the arrival at the latest, the grace after it.  A
\* reservation that is being accepted, and has passed the look at its hold, is late
\* from here on; at the reception no hold is asked for.
HoldLapses(r) ==
    /\ row[r].status = "pending" /\ row[r].hold = "running"
    /\ row' = [row EXCEPT ![r].hold = "lapsed"]
    /\ late' = late \cup {q \in {r} : accepting[q] # "none" /\ row[q].source # "reception"}
    /\ UNCHANGED <<lock, announced, accepting>>

GraceEnds(r) ==
    /\ row[r].status \in {"pending", "confirmed"}
    /\ row[r].hold # "running" /\ ~row[r].graceOver
    /\ row' = [row EXCEPT ![r].graceOver = TRUE]
    /\ UNCHANGED <<lock, announced, accepting, late>>

----------------------------------------------------------------------------
(* New reservations                                                        *)

HoldOf(status) == IF status = "pending" THEN "running" ELSE "none"

NewRow(source, status, n, p) ==
    [status |-> status, source |-> source, party |-> n, period |-> p,
     hold |-> HoldOf(status), graceOver |-> FALSE]

\* A guest on-line, or the reception, registers a party without a table.
Register(r, source, status, n, p) ==
    /\ row[r].status = "none"
    /\ source = "online" => status = "pending"
    /\ HasRoom(n, p, Bookings)
    /\ row' = [row EXCEPT ![r] = NewRow(source, status, n, p)]
    /\ UNCHANGED <<lock, announced, accepting, late>>

\* Reservations whose lapsed hold on one of these tables gives way to a new one.
GiveWay(tables) == {q \in Bookings : HoldDue(q) /\ \E t \in tables : lock[q][t] = "held"}

\* No lock in force, nor one whose lapse nobody acted on, overlaps the new ones.
TablesFree(tables, p, others) ==
    \A q \in others : \A t \in tables :
        lock[q][t] \in LiveLock => ~Overlap(row[q].period, p)

\* The native client books named tables.  It waits for the rows it clears away.
BookTables(r, status, n, p, tables) ==
    LET stale == GiveWay(tables) IN
    /\ row[r].status = "none"
    /\ \A q \in stale : Unlocked(q)
    /\ HasRoom(n, p, Bookings)
    /\ SeatsOf(tables) >= n
    /\ TablesFree(tables, p, Bookings \ stale)
    /\ row' = [q \in Bookings |->
                 IF q = r THEN NewRow("native", status, n, p)
                 ELSE IF q \in stale THEN Ended(q) ELSE row[q]]
    /\ lock' = [q \in Bookings |->
                  IF q = r THEN [t \in Tables |->
                      IF t \notin tables THEN "none"
                      ELSE IF status = "pending" THEN "held" ELSE "confirmed"]
                  ELSE IF q \in stale THEN Vacated(q) ELSE lock[q]]
    /\ Announce(stale)
    /\ UNCHANGED <<accepting, late>>

----------------------------------------------------------------------------
(* The life of a reservation                                               *)

\* Slip: one table that is still locked is enough.
TablesKeptSlip(r) == Named(r) = {} \/ \E t \in Named(r) : lock[r][t] \in LiveLock

\* Every table the reservation ever named must still be locked by it.
TablesKept(r) == \A t \in Named(r) : InForce(r, t)

\* Slip: only holds are let go.
RelockSlip(r, status) ==
    lock' = [lock EXCEPT ![r] =
        [t \in Tables |-> IF @[t] = "held" THEN status ELSE @[t]]]

\* Locks of r that are live get a new status.
Relock(r, status) ==
    lock' = [lock EXCEPT ![r] =
        [t \in Tables |-> IF @[t] \in LiveLock THEN status ELSE @[t]]]

\* Staff accept a reservation.  The transaction locks the row, looks at the status
\* and at the deadlines of the table locks, and writes; nothing counts the seats
\* again.  An on-line request has no table lock, so its own hold is not looked at.
Accept(r, from, to) ==
    /\ Unlocked(r)
    /\ row[r].status \in from
    /\ TablesKept(r)
    /\ accepting' = [accepting EXCEPT ![r] = to]
    /\ late' = late \cup {q \in {r} : row[q].source = "online" /\ row[q].hold = "lapsed"}
    /\ UNCHANGED <<row, lock, announced>>

Confirm(r) == Accept(r, {"pending"}, "confirmed")
Arrive(r) == Accept(r, {"pending", "confirmed"}, "arrived")

\* What was written becomes visible, whatever the clock says by now.
CommitAccept(r) ==
    /\ accepting[r] # "none"
    /\ row' = [row EXCEPT ![r].status = accepting[r],
                          ![r].hold = IF accepting[r] = "confirmed" THEN "none" ELSE @]
    /\ Relock(r, "confirmed")
    /\ accepting' = [accepting EXCEPT ![r] = "none"]
    /\ UNCHANGED <<announced, late>>

Leave(r, from, to, status) ==
    /\ Unlocked(r)
    /\ row[r].status \in from
    /\ row' = [row EXCEPT ![r].status = to]
    /\ Relock(r, status)
    /\ UNCHANGED <<announced, accepting, late>>

\* The guest, within the rules of cancellation, or staff with a reason.
Cancel(r) == Leave(r, {"pending", "confirmed"}, "cancelled", "cancelled")

\* Staff link an arrived party to open table sessions.
Seat(r) == Leave(r, {"arrived"}, "seated", "released")

\* A party registered at the reception must have been seated; of the on-line
\* ones only those made since the reception protocol was switched on.
Complete(r) ==
    /\ row[r].source = "reception" => row[r].status = "seated"
    /\ Leave(r, {"arrived", "seated"}, "completed", "released")

\* The guest changes party and period.  Native bookings belong to no guest.
Amend(r, n, p) ==
    /\ Unlocked(r)
    /\ row[r].source # "native" /\ row[r].status \in {"pending", "confirmed"}
    /\ HasRoom(n, p, Bookings \ {r})
    /\ Relock(r, "released")
    /\ row' = [row EXCEPT ![r] = NewRow(row[r].source, row[r].status, n, p)]
    /\ late' = late \ {r}
    /\ UNCHANGED <<announced, accepting>>

----------------------------------------------------------------------------
Next ==
    \/ \E r \in Bookings, n \in Parties, p \in Periods, status \in {"pending", "confirmed"} :
          \/ \E source \in {"online", "reception"} : Register(r, source, status, n, p)
          \/ \E tables \in SUBSET Tables \ {{}} : BookTables(r, status, n, p, tables)
    \/ \E r \in Bookings :
          \/ Confirm(r) \/ Arrive(r) \/ CommitAccept(r) \/ Cancel(r) \/ Seat(r) \/ Complete(r)
          \/ HoldLapses(r) \/ GraceEnds(r)
          \/ \E n \in Parties, p \in Periods : Amend(r, n, p)
    \/ \E due \in SUBSET Bookings : ExpireBatch(due)

Spec == Init /\ [][Next]_vars

\* The worker's timer fires again and again, and a transaction that has a row locked
\* ends.
Fairness ==
    \A r \in Bookings :
        /\ WF_vars(CommitAccept(r))
        /\ WF_vars(\E due \in SUBSET Bookings : r \in due /\ ExpireBatch(due))

FairSpec == Spec /\ Fairness

----------------------------------------------------------------------------
(* Properties                                                              *)

Instants == UNION Periods
At(bookings, i) == {r \in bookings : i \in row[r].period}

\* Parties that were promised seats: accepted, or asked to wait for an answer
\* until a hold that still runs.
Promised == {r \in Bookings :
                \/ row[r].status \in Accepted
                \/ row[r].status = "pending" /\ row[r].hold = "running"}

\* At no instant are more guests promised seats than the store has, but for
\* parties whose hold lapsed before their acceptance was committed: on-line
\* requests at any time before, bookings of tables between the look at the
\* deadline and the commit.  Concurrent registrations, amendments, and the
\* deadlines that give seats back between two of them make this hard to see from
\* one handler: the reservation is counted where it is made and believed
\* everywhere else.
OverbookingIsExplained ==
    \A i \in Instants : GuestsOf(At(Promised \ late, i)) <= SeatsOf(Tables)

\* The table locks of a reservation say what its status says, on every path to
\* that status (staff, guest, worker, or the new reservation that clears the
\* way), and no table is locked for two reservations at an instant.
LocksFollowReservations ==
    \A r \in Bookings, t \in Tables :
        /\ lock[r][t] # "none" =>
             CASE row[r].status = "pending" -> lock[r][t] = "held"
               [] row[r].status \in {"confirmed", "arrived"} -> lock[r][t] = "confirmed"
               [] OTHER -> lock[r][t] \notin LiveLock
        /\ lock[r][t] \in LiveLock =>
             \A q \in Bookings \ {r} :
                 lock[q][t] \in LiveLock => ~Overlap(row[q].period, row[r].period)

\* A lapsed hold on a table and a grace that has run out are acted on in the
\* end, by the worker or by whoever comes first, whatever else expires or is
\* announced meanwhile.
DeadlinesAreActedOn ==
    \A r \in Bookings :
        /\ (HoldDue(r) ~> ~HoldDue(r))
        /\ (GraceDue(r) ~> ~GraceDue(r))

\* What the command service says of the capacity: new reservations are
\* serialised against one budget of guests, so that those accepted fit it.
AdmissionFitsCapacity ==
    \A i \in Instants :
        GuestsOf(At({r \in Bookings : row[r].status \in Accepted}, i)) <= SeatsOf(Tables)

=============================================================================

------------------------- MODULE ReservationsProofs -------------------------
(* Proofs about Reservations, for any number of bookings, tables, seats and *)
(* periods.                                                                *)
EXTENDS Reservations, FiniteSetTheorems, TLAPS

----------------------------------------------------------------------------
(* The inductive invariant.                                                *)

\* Only reservations of the native client name tables, and only once they exist.
TablesOfNative ==
    \A r \in Bookings : (row[r].source # "native" \/ row[r].status = "none") =>
        \A t \in Tables : lock[r][t] = "none"

\* The locks of a reservation follow its status.
Follows ==
    \A r \in Bookings, t \in Tables : lock[r][t] # "none" =>
        /\ row[r].status = "pending" => lock[r][t] = "held"
        /\ row[r].status \in {"confirmed", "arrived"} => lock[r][t] = "confirmed"
        /\ row[r].status \notin {"pending", "confirmed", "arrived"} => lock[r][t] \notin LiveLock

\* Live locks of two reservations on one table do not overlap.
Exclusive ==
    \A r, q \in Bookings, t \in Tables :
        (r # q /\ lock[r][t] \in LiveLock /\ lock[q][t] \in LiveLock) =>
            ~Overlap(row[q].period, row[r].period)

\* What is being accepted stays pending or confirmed until it is committed.
StillOpen ==
    \A r \in Bookings : accepting[r] # "none" => row[r].status \in {"pending", "confirmed"}

ReservationIInv == ReservationTypeOK /\ TablesOfNative /\ Follows /\ Exclusive /\ StillOpen

\* The tables of the schema.
Sources == {"online", "reception", "native"}
Statuses == {"none", "pending", "cancelled", "completed", "no_show"} \cup Accepted
Rows == [status : Statuses, source : Sources, party : Parties, period : Periods,
         hold : {"none", "running", "lapsed"}, graceOver : BOOLEAN]
Locks == LiveLock \cup {"none", "released", "expired", "cancelled"}
Targets == {"none", "confirmed", "arrived"}

LEMMA TypeShape ==
    ReservationTypeOK <=> /\ row \in [Bookings -> Rows]
                          /\ lock \in [Bookings -> [Tables -> Locks]]
                          /\ announced \subseteq Bookings
                          /\ accepting \in [Bookings -> Targets]
                          /\ late \subseteq Bookings
BY DEF ReservationTypeOK, Rows, Sources, Statuses, Locks, Targets

LEMMA ReservationInitOK == Init /\ Periods # {} => ReservationIInv
<1> SUFFICES ASSUME Init, Periods # {} PROVE ReservationIInv
    OBVIOUS
<1>1. (CHOOSE p \in Periods : TRUE) \in Periods
    OBVIOUS
<1>2. 1 \in Parties
    BY PartyAssumption DEF Parties
<1>3. ReservationTypeOK
    BY <1>1, <1>2 DEF Init, ReservationTypeOK, LiveLock, Accepted
<1>4. TablesOfNative /\ Follows /\ Exclusive /\ StillOpen
    BY DEF Init, TablesOfNative, Follows, Exclusive, StillOpen, LiveLock
<1> QED BY <1>3, <1>4 DEF ReservationIInv

----------------------------------------------------------------------------
(* Steps.                                                                  *)

\* A change of one row that keeps its source and period, next to a change of
\* live locks into a status that suits it, keeps the invariant.
LEMMA OneRowKeeps ==
    ASSUME ReservationIInv, NEW r \in Bookings, NEW new \in Rows, NEW to \in Locks \ {"none"},
           row[r].status # "none",
           row' = [row EXCEPT ![r] = new],
           Relock(r, to),
           announced' \subseteq Bookings, late' \subseteq Bookings,
           accepting' = [accepting EXCEPT ![r] = "none"],
           new.source = row[r].source, new.status # "none",
           \/ \A t \in Tables : lock[r][t] = "none"
           \/ /\ new.period = row[r].period
              /\ \/ new.status \in {"confirmed", "arrived"} /\ to = "confirmed"
                    /\ row[r].status \in {"pending", "confirmed", "arrived"}
                 \/ new.status \in Statuses \ {"pending", "confirmed", "arrived"} /\ to \notin LiveLock
    PROVE  ReservationIInv'
<1>1. ReservationTypeOK'
    <2>1. row' \in [Bookings -> Rows]
        BY TypeShape DEF ReservationIInv
    <2>2. lock' \in [Bookings -> [Tables -> Locks]]
        BY TypeShape DEF ReservationIInv, Relock
    <2>3. accepting' \in [Bookings -> Targets]
        BY TypeShape DEF ReservationIInv, Targets
    <2> QED BY <2>1, <2>2, <2>3 DEF ReservationTypeOK, Rows, Sources, Statuses, Locks, Targets
<1>2. /\ row'[r] = new
      /\ \A q \in Bookings \ {r} : row'[q] = row[q] /\ lock'[q] = lock[q]
      /\ \A t \in Tables : lock'[r][t] = IF lock[r][t] \in LiveLock THEN to ELSE lock[r][t]
    BY TypeShape DEF ReservationIInv, Relock
<1>3. TablesOfNative'
    BY <1>2 DEF ReservationIInv, TablesOfNative, LiveLock
<1>4. Follows'
    BY <1>2 DEF ReservationIInv, Follows, LiveLock, Statuses, Accepted
<1>5. Exclusive'
    BY <1>2 DEF ReservationIInv, Exclusive, LiveLock, Overlap
<1>6. StillOpen'
    <2>1. accepting'[r] = "none" /\ \A q \in Bookings \ {r} : accepting'[q] = accepting[q]
        BY TypeShape DEF ReservationIInv
    <2> QED BY <1>2, <2>1 DEF ReservationIInv, StillOpen
<1> QED BY <1>1, <1>3, <1>4, <1>5, <1>6 DEF ReservationIInv

\* To write back what stood there changes nothing.
LEMMA UnlockedStays ==
    ASSUME ReservationIInv, NEW r \in Bookings, Unlocked(r)
    PROVE  accepting = [accepting EXCEPT ![r] = "none"]
BY TypeShape DEF ReservationIInv, Unlocked

LEMMA AcceptKeeps ==
    ASSUME ReservationIInv, NEW r \in Bookings, Confirm(r) \/ Arrive(r)
    PROVE  ReservationIInv'
<1>1. PICK to \in {"confirmed", "arrived"} : Accept(r, IF to = "confirmed" THEN {"pending"}
                                                     ELSE {"pending", "confirmed"}, to)
    BY DEF Confirm, Arrive
<1>2. /\ row[r].status \in {"pending", "confirmed"} /\ row' = row /\ lock' = lock
      /\ announced' = announced /\ late' \subseteq Bookings
      /\ accepting' = [accepting EXCEPT ![r] = to]
    BY <1>1, TypeShape DEF Accept, ReservationIInv
<1>3. ReservationTypeOK'
    BY <1>2 DEF ReservationIInv, ReservationTypeOK
<1>4. TablesOfNative' /\ Follows' /\ Exclusive'
    BY <1>2 DEF ReservationIInv, TablesOfNative, Follows, Exclusive
<1>5. StillOpen'
    BY <1>2, TypeShape DEF ReservationIInv, StillOpen
<1> QED BY <1>3, <1>4, <1>5 DEF ReservationIInv

LEMMA CommitKeeps ==
    ASSUME ReservationIInv, NEW r \in Bookings, CommitAccept(r)
    PROVE  ReservationIInv'
<1> DEFINE to == accepting[r]
           new == [row[r] EXCEPT !.status = to, !.hold = IF to = "confirmed" THEN "none" ELSE @]
<1>1. to \in {"confirmed", "arrived"} /\ row[r].status \in {"pending", "confirmed"}
    BY TypeShape DEF CommitAccept, ReservationIInv, StillOpen, Targets
<1>2. /\ row' = [row EXCEPT ![r] = new] /\ Relock(r, "confirmed")
      /\ accepting' = [accepting EXCEPT ![r] = "none"]
      /\ announced' \subseteq Bookings /\ late' \subseteq Bookings
    BY TypeShape DEF CommitAccept, ReservationIInv
<1>3. /\ new \in Rows /\ new.source = row[r].source /\ new.period = row[r].period
      /\ new.status = to
    BY <1>1, TypeShape DEF ReservationIInv, Rows, Statuses, Accepted
<1> HIDE DEF new, to
<1> QED BY <1>1, <1>2, <1>3, OneRowKeeps DEF Locks, LiveLock

LEMMA LeaveKeeps ==
    ASSUME ReservationIInv, NEW r \in Bookings, Cancel(r) \/ Seat(r) \/ Complete(r)
    PROVE  ReservationIInv'
<1>1. PICK to \in {"cancelled", "seated", "completed"}, as \in {"cancelled", "released"} :
        Leave(r, {"pending", "confirmed", "arrived", "seated"}, to, as)
    BY DEF Cancel, Seat, Complete, Leave
<1> DEFINE new == [row[r] EXCEPT !.status = to]
<1>2. row[r].status # "none" /\ row' = [row EXCEPT ![r] = new]
    BY <1>1 DEF Leave
<1>3. /\ new \in Rows /\ new.source = row[r].source /\ new.period = row[r].period
      /\ new.status = to
    BY TypeShape DEF ReservationIInv, Rows, Statuses, Accepted
<1>4. /\ Relock(r, as) /\ announced' \subseteq Bookings /\ late' \subseteq Bookings
      /\ accepting' = [accepting EXCEPT ![r] = "none"]
    BY <1>1, UnlockedStays DEF Leave, ReservationIInv, ReservationTypeOK
<1> QED BY <1>2, <1>3, <1>4, OneRowKeeps DEF Locks, LiveLock, Statuses, Accepted

LEMMA NewRowType ==
    ASSUME NEW source \in Sources, NEW status \in {"pending", "confirmed"}, NEW n \in Parties,
           NEW p \in Periods
    PROVE  /\ NewRow(source, status, n, p) \in Rows
           /\ NewRow(source, status, n, p).source = source
           /\ NewRow(source, status, n, p).status = status
           /\ NewRow(source, status, n, p).period = p
BY DEF NewRow, HoldOf, Rows, Statuses, Accepted

LEMMA AmendKeeps ==
    ASSUME ReservationIInv, NEW r \in Bookings, NEW n \in Parties, NEW p \in Periods, Amend(r, n, p)
    PROVE  ReservationIInv'
<1> DEFINE new == NewRow(row[r].source, row[r].status, n, p)
<1>1. row[r].source \in Sources /\ row[r].status \in {"pending", "confirmed"}
    BY TypeShape DEF ReservationIInv, Rows, Amend
<1>2. /\ new \in Rows /\ new.source = row[r].source /\ new.status # "none"
    BY <1>1, NewRowType
<1>3. \A t \in Tables : lock[r][t] = "none"
    BY DEF Amend, ReservationIInv, TablesOfNative
<1>4. /\ row' = [row EXCEPT ![r] = new] /\ Relock(r, "released")
      /\ announced' \subseteq Bookings /\ late' \subseteq Bookings
      /\ accepting' = [accepting EXCEPT ![r] = "none"]
    BY UnlockedStays DEF Amend, ReservationIInv, ReservationTypeOK
<1> QED BY <1>1, <1>2, <1>3, <1>4, OneRowKeeps DEF Locks, LiveLock

LEMMA RegisterKeeps ==
    ASSUME ReservationIInv, NEW r \in Bookings, NEW source \in {"online", "reception"},
           NEW status \in {"pending", "confirmed"}, NEW n \in Parties, NEW p \in Periods,
           Register(r, source, status, n, p)
    PROVE  ReservationIInv'
<1> DEFINE new == NewRow(source, status, n, p)
<1>1. new \in Rows /\ new.source = source /\ new.status = status
    BY NewRowType DEF Sources
<1>2. /\ row' = [row EXCEPT ![r] = new] /\ lock' = lock /\ announced' = announced /\ late' = late
      /\ accepting' = accepting /\ row[r].status = "none"
    BY DEF Register
<1>3. ReservationTypeOK'
    BY <1>1, <1>2, TypeShape DEF ReservationIInv, ReservationTypeOK, Rows, Sources, Statuses, Locks
<1>4. /\ row'[r] = new
      /\ \A q \in Bookings \ {r} : row'[q] = row[q]
      /\ \A t \in Tables : lock[r][t] = "none"
    BY <1>2, TypeShape DEF ReservationIInv, TablesOfNative
<1>5. TablesOfNative' /\ Follows'
    BY <1>1, <1>2, <1>4 DEF ReservationIInv, TablesOfNative, Follows
<1>6. Exclusive'
    BY <1>2, <1>4 DEF ReservationIInv, Exclusive, LiveLock, Overlap
<1>7. StillOpen'
    BY <1>2, <1>4 DEF ReservationIInv, StillOpen
<1> QED BY <1>3, <1>5, <1>6, <1>7 DEF ReservationIInv

\* What a deadline leaves of a reservation: nothing live.
LEMMA EndedType ==
    ASSUME ReservationIInv, NEW r \in Bookings, HoldDue(r) \/ GraceDue(r)
    PROVE  /\ Ended(r) \in Rows /\ Ended(r).source = row[r].source
           /\ Ended(r).period = row[r].period /\ Ended(r).status \in {"cancelled", "no_show"}
           /\ Vacated(r) \in [Tables -> Locks]
           /\ \A t \in Tables : /\ Vacated(r)[t] \notin LiveLock
                                /\ lock[r][t] = "none" => Vacated(r)[t] = "none"
<1>1. row[r].status \in {"pending", "confirmed"} /\ row[r] \in Rows /\ lock[r] \in [Tables -> Locks]
    BY TypeShape DEF ReservationIInv, HoldDue, GraceDue
<1>2. /\ Ended(r) \in Rows /\ Ended(r).source = row[r].source
      /\ Ended(r).period = row[r].period /\ Ended(r).status \in {"cancelled", "no_show"}
    BY <1>1 DEF Ended, Rows, Statuses
<1>3. Vacated(r) \in [Tables -> Locks]
    BY <1>1 DEF Vacated, Locks
<1>4. ASSUME NEW t \in Tables
      PROVE  /\ Vacated(r)[t] \notin LiveLock
             /\ lock[r][t] = "none" => Vacated(r)[t] = "none"
    BY <1>1 DEF Vacated, LiveLock, ReservationIInv, Follows
<1> QED BY <1>2, <1>3, <1>4

LEMMA ExpireKeeps ==
    ASSUME ReservationIInv, NEW due \in SUBSET Bookings, ExpireBatch(due)
    PROVE  ReservationIInv'
<1>1. /\ \A r \in due : Unlocked(r) /\ (HoldDue(r) \/ GraceDue(r))
      /\ row' = [r \in Bookings |-> IF r \in due THEN Ended(r) ELSE row[r]]
      /\ lock' = [r \in Bookings |-> IF r \in due THEN Vacated(r) ELSE lock[r]]
      /\ announced' = announced \cup due /\ accepting' = accepting /\ late' = late
    BY DEF ExpireBatch, Announce
<1>2. ReservationTypeOK'
    <2>1. row' \in [Bookings -> Rows]
        BY <1>1, EndedType, TypeShape DEF ReservationIInv
    <2>2. lock' \in [Bookings -> [Tables -> Locks]]
        BY <1>1, EndedType, TypeShape DEF ReservationIInv
    <2> QED BY <1>1, <2>1, <2>2 DEF ReservationIInv, ReservationTypeOK, Rows, Sources, Statuses, Locks
<1>3. ASSUME NEW r \in Bookings
      PROVE  /\ row'[r].source = row[r].source /\ row'[r].period = row[r].period
             /\ r \in due => /\ row'[r].status \in {"cancelled", "no_show"}
                             /\ \A t \in Tables : /\ lock'[r][t] \notin LiveLock
                                                  /\ lock[r][t] = "none" => lock'[r][t] = "none"
             /\ r \notin due => row'[r] = row[r] /\ lock'[r] = lock[r]
    BY <1>1, EndedType
<1>4. TablesOfNative'
    <2> SUFFICES ASSUME NEW r \in Bookings, row'[r].source # "native" \/ row'[r].status = "none",
                        NEW t \in Tables
                 PROVE  lock'[r][t] = "none"
        BY DEF TablesOfNative
    <2>1. CASE r \in due
        BY <1>3, <2>1 DEF ReservationIInv, TablesOfNative
    <2>2. CASE r \notin due
        BY <1>3, <2>2 DEF ReservationIInv, TablesOfNative
    <2> QED BY <2>1, <2>2
<1>5. Follows'
    <2> SUFFICES ASSUME NEW r \in Bookings, NEW t \in Tables, lock'[r][t] # "none"
                 PROVE  /\ row'[r].status = "pending" => lock'[r][t] = "held"
                        /\ row'[r].status \in {"confirmed", "arrived"} => lock'[r][t] = "confirmed"
                        /\ row'[r].status \notin {"pending", "confirmed", "arrived"}
                             => lock'[r][t] \notin LiveLock
        BY DEF Follows
    <2>1. CASE r \in due
        BY <1>3, <2>1
    <2>2. CASE r \notin due
        BY <1>3, <2>2 DEF ReservationIInv, Follows
    <2> QED BY <2>1, <2>2
<1>6. Exclusive'
    <2> SUFFICES ASSUME NEW r \in Bookings, NEW q \in Bookings, NEW t \in Tables, r # q,
                        lock'[r][t] \in LiveLock, lock'[q][t] \in LiveLock
                 PROVE  ~Overlap(row'[q].period, row'[r].period)
        BY DEF Exclusive
    <2>1. r \notin due /\ q \notin due
        BY <1>3
    <2>2. lock[r][t] \in LiveLock /\ lock[q][t] \in LiveLock
        BY <1>3, <2>1
    <2>3. ~Overlap(row[q].period, row[r].period)
        BY <2>2 DEF ReservationIInv, Exclusive
    <2> QED BY <1>3, <2>3
<1>7. StillOpen'
    <2> SUFFICES ASSUME NEW r \in Bookings, accepting'[r] # "none"
                 PROVE  row'[r].status \in {"pending", "confirmed"}
        BY DEF StillOpen
    <2>1. r \notin due /\ accepting[r] # "none"
        BY <1>1 DEF Unlocked
    <2> QED BY <1>3, <2>1 DEF ReservationIInv, StillOpen
<1> QED BY <1>2, <1>4, <1>5, <1>6, <1>7 DEF ReservationIInv

LEMMA BookKeeps ==
    ASSUME ReservationIInv, NEW r \in Bookings, NEW status \in {"pending", "confirmed"},
           NEW n \in Parties, NEW p \in Periods, NEW tables \in SUBSET Tables,
           BookTables(r, status, n, p, tables)
    PROVE  ReservationIInv'
<1> DEFINE stale == GiveWay(tables)
           new == NewRow("native", status, n, p)
           mine == [t \in Tables |-> IF t \notin tables THEN "none"
                                     ELSE IF status = "pending" THEN "held" ELSE "confirmed"]
<1>1. new \in Rows /\ new.source = "native" /\ new.status = status /\ new.period = p
    BY NewRowType DEF Sources
<1>2. /\ row[r].status = "none" /\ TablesFree(tables, p, Bookings \ stale)
      /\ row' = [q \in Bookings |-> IF q = r THEN new ELSE IF q \in stale THEN Ended(q) ELSE row[q]]
      /\ lock' = [q \in Bookings |-> IF q = r THEN mine ELSE IF q \in stale THEN Vacated(q) ELSE lock[q]]
      /\ announced' = announced \cup stale /\ accepting' = accepting /\ late' = late
      /\ \A q \in stale : Unlocked(q)
    BY DEF BookTables, Announce
<1>3. stale \subseteq Bookings /\ r \notin stale /\ \A q \in stale : HoldDue(q)
    BY <1>2 DEF GiveWay, HoldDue
<1>4. mine \in [Tables -> Locks]
    BY DEF Locks, LiveLock
<1> HIDE DEF stale, new, mine
<1>5. ReservationTypeOK'
    <2>1. row' \in [Bookings -> Rows]
        BY <1>1, <1>2, <1>3, EndedType, TypeShape DEF ReservationIInv
    <2>2. lock' \in [Bookings -> [Tables -> Locks]]
        BY <1>2, <1>3, <1>4, EndedType, TypeShape DEF ReservationIInv
    <2> QED BY <1>2, <1>3, <2>1, <2>2
            DEF ReservationIInv, ReservationTypeOK, Rows, Sources, Statuses, Locks
<1>6. row'[r] = new /\ lock'[r] = mine
    BY <1>2
<1>7. ASSUME NEW q \in Bookings \ {r}
      PROVE  /\ row'[q].source = row[q].source /\ row'[q].period = row[q].period
             /\ q \in stale => /\ row'[q].status \in {"cancelled", "no_show"}
                               /\ \A t \in Tables : /\ lock'[q][t] \notin LiveLock
                                                    /\ lock[q][t] = "none" => lock'[q][t] = "none"
             /\ q \notin stale => row'[q] = row[q] /\ lock'[q] = lock[q]
    BY <1>2, <1>3, EndedType
<1>8. TablesOfNative'
    <2> SUFFICES ASSUME NEW q \in Bookings, row'[q].source # "native" \/ row'[q].status = "none",
                        NEW t \in Tables
                 PROVE  lock'[q][t] = "none"
        BY DEF TablesOfNative
    <2>1. CASE q = r
        BY <1>1, <1>6, <2>1
    <2>2. CASE q # r /\ q \in stale
        BY <1>7, <2>2 DEF ReservationIInv, TablesOfNative
    <2>3. CASE q # r /\ q \notin stale
        BY <1>7, <2>3 DEF ReservationIInv, TablesOfNative
    <2> QED BY <2>1, <2>2, <2>3
<1>9. Follows'
    <2> SUFFICES ASSUME NEW q \in Bookings, NEW t \in Tables, lock'[q][t] # "none"
                 PROVE  /\ row'[q].status = "pending" => lock'[q][t] = "held"
                        /\ row'[q].status \in {"confirmed", "arrived"} => lock'[q][t] = "confirmed"
                        /\ row'[q].status \notin {"pending", "confirmed", "arrived"}
                             => lock'[q][t] \notin LiveLock
        BY DEF Follows
    <2>1. CASE q = r
        BY <1>1, <1>6, <2>1 DEF mine
    <2>2. CASE q # r /\ q \in stale
        BY <1>7, <2>2
    <2>3. CASE q # r /\ q \notin stale
        BY <1>7, <2>3 DEF ReservationIInv, Follows
    <2> QED BY <2>1, <2>2, <2>3
<1>10. \* What the new locks overlap is gone.
       ASSUME NEW q \in Bookings \ {r}, NEW t \in Tables,
              lock'[q][t] \in LiveLock, lock'[r][t] \in LiveLock
       PROVE  ~Overlap(row'[q].period, p)
    <2>1. q \notin stale
        BY <1>7, <1>10
    <2>2. lock[q][t] \in LiveLock /\ row'[q] = row[q]
        BY <1>7, <1>10, <2>1
    <2>3. t \in tables
        BY <1>6, <1>10 DEF mine, LiveLock
    <2> QED BY <1>2, <2>1, <2>2, <2>3 DEF TablesFree
<1>11. Exclusive'
    <2> SUFFICES ASSUME NEW a \in Bookings, NEW q \in Bookings, NEW t \in Tables, a # q,
                        lock'[a][t] \in LiveLock, lock'[q][t] \in LiveLock
                 PROVE  ~Overlap(row'[q].period, row'[a].period)
        BY DEF Exclusive
    <2>1. CASE a = r
        BY <1>1, <1>6, <1>10, <2>1
    <2>2. CASE q = r
        <3>1. ~Overlap(row'[a].period, p) /\ row'[q].period = p
            BY <1>1, <1>6, <1>10, <2>2
        <3> QED BY <3>1 DEF Overlap
    <2>3. CASE a # r /\ q # r
        <3>1. a \notin stale /\ q \notin stale
            BY <1>7, <2>3
        <3>2. lock'[a] = lock[a] /\ lock'[q] = lock[q]
            BY <1>7, <2>3, <3>1
        <3>3. ~Overlap(row[q].period, row[a].period)
            BY <3>2 DEF ReservationIInv, Exclusive
        <3> QED BY <1>7, <2>3, <3>3
    <2> QED BY <2>1, <2>2, <2>3
<1>12. StillOpen'
    <2> SUFFICES ASSUME NEW q \in Bookings, accepting'[q] # "none"
                 PROVE  row'[q].status \in {"pending", "confirmed"}
        BY DEF StillOpen
    <2>1. q \notin stale /\ row[q].status \in {"pending", "confirmed"}
        BY <1>2 DEF Unlocked, ReservationIInv, StillOpen
    <2>2. q # r
        BY <1>2, <2>1
    <2> QED BY <1>7, <2>1, <2>2
<1> QED BY <1>5, <1>8, <1>9, <1>11, <1>12 DEF ReservationIInv

LEMMA ClockKeeps ==
    ASSUME ReservationIInv, NEW r \in Bookings, HoldLapses(r) \/ GraceEnds(r)
    PROVE  ReservationIInv'
<1>1. PICK new \in {[row[r] EXCEPT !.hold = "lapsed"], [row[r] EXCEPT !.graceOver = TRUE]} :
         /\ row' = [row EXCEPT ![r] = new] /\ UNCHANGED <<lock, announced, accepting>>
         /\ late' \subseteq late \cup {r}
    BY DEF HoldLapses, GraceEnds
<1>2. /\ new \in Rows /\ new.status = row[r].status /\ new.source = row[r].source
      /\ new.period = row[r].period
    BY TypeShape DEF ReservationIInv, Rows
<1>3. ReservationTypeOK'
    BY <1>1, <1>2, TypeShape DEF ReservationIInv, ReservationTypeOK, Rows, Sources, Statuses, Locks
<1>4. \A q \in Bookings : /\ row'[q].status = row[q].status /\ row'[q].source = row[q].source
                          /\ row'[q].period = row[q].period
    BY <1>1, <1>2, TypeShape DEF ReservationIInv
<1>5. TablesOfNative' /\ Follows'
    BY <1>1, <1>4 DEF ReservationIInv, TablesOfNative, Follows
<1>6. Exclusive' /\ StillOpen'
    BY <1>1, <1>4 DEF ReservationIInv, Exclusive, StillOpen
<1> QED BY <1>3, <1>5, <1>6 DEF ReservationIInv

LEMMA ReservationStepOK == ReservationIInv /\ [Next]_vars => ReservationIInv'
<1> SUFFICES ASSUME ReservationIInv, [Next]_vars PROVE ReservationIInv'
    OBVIOUS
<1>1. CASE UNCHANGED vars
    BY <1>1 DEF vars, ReservationIInv, ReservationTypeOK, TablesOfNative, Follows, Exclusive,
                StillOpen
<1>2. ASSUME NEW r \in Bookings, NEW n \in Parties, NEW p \in Periods,
             NEW status \in {"pending", "confirmed"}, NEW source \in {"online", "reception"},
             Register(r, source, status, n, p)
      PROVE  ReservationIInv'
    BY <1>2, RegisterKeeps
<1>3. ASSUME NEW r \in Bookings, NEW n \in Parties, NEW p \in Periods,
             NEW status \in {"pending", "confirmed"}, NEW tables \in SUBSET Tables \ {{}},
             BookTables(r, status, n, p, tables)
      PROVE  ReservationIInv'
    BY <1>3, BookKeeps
<1>4. ASSUME NEW r \in Bookings, Confirm(r) \/ Arrive(r) PROVE ReservationIInv'
    BY <1>4, AcceptKeeps
<1>5. ASSUME NEW r \in Bookings, Cancel(r) \/ Seat(r) \/ Complete(r) PROVE ReservationIInv'
    BY <1>5, LeaveKeeps
<1>6. ASSUME NEW r \in Bookings, HoldLapses(r) \/ GraceEnds(r) PROVE ReservationIInv'
    BY <1>6, ClockKeeps
<1>7. ASSUME NEW r \in Bookings, NEW n \in Parties, NEW p \in Periods, Amend(r, n, p)
      PROVE  ReservationIInv'
    BY <1>7, AmendKeeps
<1>8. ASSUME NEW due \in SUBSET Bookings, ExpireBatch(due) PROVE ReservationIInv'
    BY <1>8, ExpireKeeps
<1>9. ASSUME NEW r \in Bookings, CommitAccept(r) PROVE ReservationIInv'
    BY <1>9, CommitKeeps
<1> QED BY <1>1, <1>2, <1>3, <1>4, <1>5, <1>6, <1>7, <1>8, <1>9 DEF Next

LEMMA ReservationAlways == Spec => []ReservationIInv
<1>1. Init => ReservationIInv
    BY ReservationInitOK, PeriodsAssumption
<1> QED BY <1>1, ReservationStepOK, PTL DEF Spec

----------------------------------------------------------------------------
(* Seats.  OverbookingIsExplained is not inductive: it speaks of accepted    *)
(* reservations, and accepting one counts no seats.  What is kept is the     *)
(* room for all reservations that count, the pending ones too, and that who  *)
(* is being accepted counts until the commit, or is late by then.            *)

\* A pending request has a hold, running or lapsed.
PendingHolds == \A r \in Bookings : row[r].status = "pending" => row[r].hold # "none"

\* Between the look at a reservation and the commit of its acceptance.
AcceptingCounts == \A r \in Bookings : accepting[r] # "none" => r \in late \/ Counts(r)

Counted == {r \in Bookings \ late : Counts(r)}

\* At no instant do the reservations that count need more than the seats.
Fits == \A i \in Instants : GuestsOf(At(Counted, i)) <= SeatsOf(Tables)

SeatsIInv == ReservationIInv /\ PendingHolds /\ AcceptingCounts /\ Fits

\* The guests of some reservations, one by one.
Heads(rows, S) == {g \in S \X Parties : g[2] <= rows[g[1]].party}

LEMMA GuestsAreHeads == \A S : GuestsOf(S) = Cardinality(Heads(row, S))
BY DEF GuestsOf, Heads

LEMMA HeadsAreFinite ==
    ASSUME NEW f, NEW S \in SUBSET Bookings
    PROVE  IsFiniteSet(Heads(f, S)) /\ Cardinality(Heads(f, S)) \in Nat
<1>1. IsFiniteSet(S) /\ IsFiniteSet(Parties)
    BY BookingsAssumption, PartyAssumption, FS_Subset, FS_Interval DEF Parties
<1>2. IsFiniteSet(S \X Parties) /\ Heads(f, S) \in SUBSET (S \X Parties)
    BY <1>1, FS_Product DEF Heads
<1> QED BY <1>2, FS_Subset, FS_CardinalityType

LEMMA SeatsAreFinite == SeatsOf(Tables) \in Nat
<1> DEFINE chairs == [t \in Tables |-> {t} \X (1 .. Seats[t])]
           all == {chairs[t] : t \in Tables}
<1>1. chairs \in Surjection(Tables, all)
    BY DEF Surjection
<1>2. IsFiniteSet(all)
    BY <1>1, SeatsAssumption, FS_Surjection
<1>3. ASSUME NEW t \in Tables PROVE IsFiniteSet(chairs[t])
    <2>1. Seats[t] \in Int /\ 1 \in Int
        BY SeatsAssumption
    <2>2. IsFiniteSet({t}) /\ IsFiniteSet(1 .. Seats[t])
        BY <2>1, FS_Singleton, FS_Interval
    <2> QED BY <2>2, FS_Product
<1>4. IsFiniteSet(UNION all)
    BY <1>2, <1>3, FS_UNION
<1>5. UNION all = UNION {{t} \X (1 .. Seats[t]) : t \in Tables}
    OBVIOUS
<1> QED BY <1>4, <1>5, FS_CardinalityType DEF SeatsOf

\* Fewer reservations of the same parties have no more guests.
LEMMA FewerGuests ==
    ASSUME NEW f, NEW g, NEW T \in SUBSET Bookings, NEW S \in SUBSET T,
           \A q \in S : g[q].party = f[q].party
    PROVE  Cardinality(Heads(g, S)) <= Cardinality(Heads(f, T))
<1>1. Heads(g, S) \in SUBSET Heads(f, T)
    BY DEF Heads
<1> QED BY <1>1, HeadsAreFinite, FS_Subset

\* One more reservation adds its party.
LEMMA OneMoreParty ==
    ASSUME NEW f, NEW g, NEW T \in SUBSET Bookings, NEW r \in Bookings,
           NEW S \in SUBSET (T \cup {r}), NEW n \in Parties,
           g[r].party = n, \A q \in S \ {r} : g[q].party = f[q].party
    PROVE  Cardinality(Heads(g, S)) <= Cardinality(Heads(f, T)) + n
<1> DEFINE party == {r} \X (1 .. n)
<1>1. n \in Nat
    BY PartyAssumption DEF Parties
<1>2. IsFiniteSet(party) /\ Cardinality(party) = n
    <2>1. IsFiniteSet({r}) /\ Cardinality({r}) = 1
        BY FS_Singleton
    <2>2. IsFiniteSet(1 .. n) /\ Cardinality(1 .. n) = n
        <3>1. n \in Int /\ 1 \in Int /\ n - 1 + 1 = n /\ (1 > n => n = 0)
            BY <1>1
        <3> QED BY <3>1, FS_Interval
    <2>3. /\ IsFiniteSet(party)
          /\ Cardinality(party) = Cardinality({r}) * Cardinality(1 .. n)
        BY <2>1, <2>2, FS_Product, Zenon
    <2>4. 1 * n = n
        BY <1>1
    <2> QED BY <2>1, <2>2, <2>3, <2>4
<1>3. IsFiniteSet(Heads(f, T)) /\ Cardinality(Heads(f, T)) \in Nat
    BY HeadsAreFinite
<1>4. Heads(g, S) \in SUBSET (Heads(f, T) \cup party)
    <2> SUFFICES ASSUME NEW h \in Heads(g, S) PROVE h \in Heads(f, T) \cup party
        OBVIOUS
    <2>1. h \in S \X Parties /\ h[2] <= g[h[1]].party
        BY DEF Heads
    <2>2. CASE h[1] = r
        <3>1. h[2] \in 1 .. n /\ h = <<r, h[2]>>
            BY <1>1, <2>1, <2>2 DEF Parties
        <3> QED BY <3>1
    <2>3. CASE h[1] # r
        <3>1. h[1] \in S \ {r} /\ h[1] \in T
            BY <2>1, <2>3
        <3>2. g[h[1]].party = f[h[1]].party
            BY <3>1
        <3>3. h \in T \X Parties
            BY <2>1, <3>1
        <3> QED BY <2>1, <3>2, <3>3 DEF Heads
    <2> QED BY <2>2, <2>3
<1> HIDE DEF party
<1>5. IsFiniteSet(Heads(f, T) \cup party)
      /\ Cardinality(Heads(f, T) \cup party)
            = Cardinality(Heads(f, T)) + Cardinality(party) - Cardinality(Heads(f, T) \cap party)
    BY <1>2, <1>3, FS_Union
<1>6. Cardinality(Heads(f, T) \cap party) \in Nat
    BY <1>3, FS_Intersection, FS_CardinalityType
<1>7. Cardinality(Heads(g, S)) <= Cardinality(Heads(f, T) \cup party)
    BY <1>4, <1>5, FS_Subset
<1>8. Cardinality(Heads(g, S)) \in Nat
    <2>1. S \in SUBSET Bookings
        OBVIOUS
    <2> QED BY <2>1, HeadsAreFinite
<1> QED BY <1>1, <1>2, <1>3, <1>5, <1>6, <1>7, <1>8

\* A step in which no reservation begins to count keeps the room.
LEMMA NobodyNewKeepsRoom ==
    ASSUME Fits,
           \A q \in Counted' : /\ q \in Counted /\ row'[q].party = row[q].party
                               /\ row'[q].period = row[q].period
    PROVE  Fits'
<1> SUFFICES ASSUME NEW i \in Instants PROVE GuestsOf(At(Counted, i))' <= SeatsOf(Tables)
    BY DEF Fits, Instants, SeatsOf
<1> DEFINE S == At(Counted, i)'
           T == At(Counted, i)
<1>1. T \in SUBSET Bookings /\ S \in SUBSET T
    BY DEF At, Counted
<1>2. \A q \in S : row'[q].party = row[q].party
    BY DEF At
<1>3. GuestsOf(At(Counted, i))' = Cardinality(Heads(row', S))
    BY DEF GuestsOf, Heads
<1>4. GuestsOf(T) = Cardinality(Heads(row, T)) /\ GuestsOf(T) <= SeatsOf(Tables)
    BY GuestsAreHeads DEF Fits
<1> HIDE DEF S, T
<1>5. Cardinality(Heads(row', S)) <= Cardinality(Heads(row, T))
    BY <1>1, <1>2, FewerGuests
<1>6. Cardinality(Heads(row', S)) \in Nat /\ Cardinality(Heads(row, T)) \in Nat
    <2>1. S \in SUBSET Bookings
        BY <1>1
    <2> QED BY <1>1, <2>1, HeadsAreFinite
<1> QED BY <1>3, <1>4, <1>5, <1>6, SeatsAreFinite

\* A step that lets one reservation in after looking for room keeps it.
LEMMA RoomForOneKeepsRoom ==
    ASSUME Fits, NEW r \in Bookings, NEW n \in Parties, NEW p \in Periods, NEW others,
           others = Bookings \/ others = Bookings \ {r},
           HasRoom(n, p, others),
           row'[r].party = n, row'[r].period = p,
           \A q \in Counted' \ {r} : /\ q \in Counted /\ row'[q].party = row[q].party
                                     /\ row'[q].period = row[q].period
    PROVE  Fits'
<1> SUFFICES ASSUME NEW i \in Instants PROVE GuestsOf(At(Counted, i))' <= SeatsOf(Tables)
    BY DEF Fits, Instants, SeatsOf
<1> DEFINE S == At(Counted, i)'
           T == At(Counted, i)
           O == {q \in others : Counts(q) /\ Overlap(row[q].period, p)}
<1>0. n \in Nat
    BY PartyAssumption DEF Parties
<1>1. T \in SUBSET Bookings /\ O \in SUBSET Bookings /\ S \in SUBSET Bookings
    BY DEF At, Counted
<1>2. GuestsOf(At(Counted, i))' = Cardinality(Heads(row', S))
    BY DEF GuestsOf, Heads
<1>3. /\ GuestsOf(T) = Cardinality(Heads(row, T)) /\ GuestsOf(T) <= SeatsOf(Tables)
      /\ GuestsOf(O) = Cardinality(Heads(row, O)) /\ GuestsOf(O) + n <= SeatsOf(Tables)
    BY GuestsAreHeads DEF Fits, HasRoom
<1>4. /\ Cardinality(Heads(row', S)) \in Nat /\ Cardinality(Heads(row, T)) \in Nat
      /\ Cardinality(Heads(row, O)) \in Nat
    BY <1>1, HeadsAreFinite
<1>5. \A q \in S \ {r} : /\ q \in Counted /\ i \in row[q].period
                         /\ row'[q].party = row[q].party
    BY DEF At
<1>6. CASE i \notin p
    <2>1. r \notin S
        BY <1>6 DEF At
    <2>2. S \in SUBSET T /\ \A q \in S : row'[q].party = row[q].party
        BY <1>5, <2>1 DEF At
    <2> HIDE DEF S, T, O
    <2>3. Cardinality(Heads(row', S)) <= Cardinality(Heads(row, T))
        BY <1>1, <2>2, FewerGuests
    <2> QED BY <1>2, <1>3, <1>4, <2>3, SeatsAreFinite
<1>7. CASE i \in p
    <2>1. S \in SUBSET (O \cup {r})
        BY <1>5, <1>7 DEF Counted, Overlap
    <2> HIDE DEF S, T, O
    <2>2. Cardinality(Heads(row', S)) <= Cardinality(Heads(row, O)) + n
        BY <1>1, <1>5, <2>1, OneMoreParty
    <2> QED BY <1>0, <1>2, <1>3, <1>4, <2>2, SeatsAreFinite
<1> QED BY <1>6, <1>7

\* A reservation counts by its own row and locks.
LEMMA CountsByItself ==
    ASSUME NEW q \in Bookings, row'[q] = row[q], lock'[q] = lock[q]
    PROVE  Counts(q)' <=> Counts(q)
BY DEF Counts, Named, InForce

\* A live request without a lapsed hold counts, and so does a party of the reception.
LEMMA WhoCounts ==
    ASSUME ReservationIInv, NEW q \in Bookings
    PROVE  /\ row[q].status \in Accepted => Counts(q)
           /\ Counts(q) => row[q].status \in Accepted \cup {"pending"}
           /\ row[q].status = "pending" /\ row[q].hold = "running" => Counts(q)
           /\ row[q].status = "pending" /\ row[q].source # "online" /\ Named(q) = {} => Counts(q)
<1>1. ASSUME row[q].status = "pending", row[q].hold = "running" PROVE Counts(q)
    <2>1. \A t \in Named(q) : InForce(q, t)
        BY <1>1 DEF Named, InForce, ReservationIInv, Follows
    <2> QED BY <1>1, <2>1 DEF Counts
<1> QED BY <1>1 DEF Counts, Accepted

\* Reservations that are being accepted and not touched count as they did.
LEMMA UntouchedStillCount ==
    ASSUME AcceptingCounts,
           \A q \in Bookings : accepting'[q] # "none" =>
               /\ accepting[q] # "none" /\ row'[q] = row[q] /\ lock'[q] = lock[q]
               /\ q \in late => q \in late'
    PROVE  AcceptingCounts'
<1> SUFFICES ASSUME NEW q \in Bookings, accepting'[q] # "none" PROVE q \in late' \/ Counts(q)'
    BY DEF AcceptingCounts
<1> QED BY CountsByItself DEF AcceptingCounts

LEMMA AcceptKeepsRoom ==
    ASSUME SeatsIInv, NEW r \in Bookings, Confirm(r) \/ Arrive(r)
    PROVE  PendingHolds' /\ AcceptingCounts' /\ Fits'
<1>1. PICK to \in {"confirmed", "arrived"} : Accept(r, IF to = "confirmed" THEN {"pending"}
                                                     ELSE {"pending", "confirmed"}, to)
    BY DEF Confirm, Arrive
<1>2. /\ row[r].status \in {"pending", "confirmed"} /\ row \in [Bookings -> Rows]
      /\ row' = row /\ lock' = lock /\ late \subseteq late'
      /\ accepting' = [accepting EXCEPT ![r] = to] /\ accepting \in [Bookings -> Targets]
    BY <1>1, TypeShape DEF Accept, SeatsIInv, ReservationIInv
<1>3. PendingHolds'
    BY <1>2 DEF SeatsIInv, PendingHolds
<1>4. \* Who passes the look at the deadlines counts, or comes late.
      r \notin late' => Counts(r)
    <2>1. CASE row[r].status = "confirmed" \/ row[r].hold = "running"
        BY <1>2, <2>1, WhoCounts DEF SeatsIInv, Accepted
    <2>2. CASE row[r].status = "pending" /\ row[r].hold # "running"
        <3>1. row[r].hold = "lapsed"
            BY <1>2, <2>2 DEF SeatsIInv, PendingHolds, Rows
        <3>2. Named(r) = {}
            BY <1>1, <2>2, <3>1
               DEF Accept, TablesKept, InForce, Named, SeatsIInv, ReservationIInv, Follows
        <3>3. r \notin late' => row[r].source # "online"
            BY <1>1, <3>1 DEF Accept
        <3> QED BY <2>2, <3>2, <3>3, WhoCounts DEF SeatsIInv
    <2> QED BY <1>2, <2>1, <2>2
<1>5. AcceptingCounts'
    <2> SUFFICES ASSUME NEW q \in Bookings, accepting'[q] # "none"
                 PROVE  q \in late' \/ Counts(q)'
        BY DEF AcceptingCounts
    <2>1. Counts(q)' <=> Counts(q)
        BY <1>2, CountsByItself
    <2>2. CASE q = r
        BY <1>4, <2>1, <2>2
    <2>3. CASE q # r
        BY <1>2, <2>1, <2>3 DEF SeatsIInv, AcceptingCounts
    <2> QED BY <2>2, <2>3
<1>6. ASSUME NEW q \in Counted'
      PROVE  q \in Counted /\ row'[q].party = row[q].party /\ row'[q].period = row[q].period
    BY <1>2, CountsByItself DEF Counted
<1>7. Fits'
    BY <1>6, NobodyNewKeepsRoom DEF SeatsIInv
<1> QED BY <1>3, <1>5, <1>7

LEMMA CommitKeepsRoom ==
    ASSUME SeatsIInv, NEW r \in Bookings, CommitAccept(r)
    PROVE  PendingHolds' /\ AcceptingCounts' /\ Fits'
<1>1. /\ row \in [Bookings -> Rows] /\ lock \in [Bookings -> [Tables -> Locks]]
      /\ accepting[r] \in {"confirmed", "arrived"} /\ accepting \in [Bookings -> Targets]
    BY TypeShape DEF CommitAccept, SeatsIInv, ReservationIInv, Targets
<1>2. /\ row'[r].status = accepting[r]
      /\ row'[r].party = row[r].party /\ row'[r].period = row[r].period
      /\ \A q \in Bookings \ {r} : row'[q] = row[q] /\ lock'[q] = lock[q]
      /\ accepting' = [accepting EXCEPT ![r] = "none"] /\ late' = late
    BY <1>1 DEF CommitAccept, Relock, Rows
<1>3. PendingHolds'
    BY <1>1, <1>2 DEF SeatsIInv, PendingHolds
<1>4. AcceptingCounts'
    BY <1>1, <1>2, UntouchedStillCount DEF SeatsIInv
<1>5. \* The seats were counted since the look at the deadlines.
      r \notin late => Counts(r)
    BY DEF CommitAccept, SeatsIInv, AcceptingCounts
<1>6. ASSUME NEW q \in Counted'
      PROVE  q \in Counted /\ row'[q].party = row[q].party /\ row'[q].period = row[q].period
    BY <1>2, <1>5, CountsByItself DEF Counted
<1>7. Fits'
    BY <1>6, NobodyNewKeepsRoom DEF SeatsIInv
<1> QED BY <1>3, <1>4, <1>7

LEMMA LeaveKeepsRoom ==
    ASSUME SeatsIInv, NEW r \in Bookings, Cancel(r) \/ Seat(r) \/ Complete(r)
    PROVE  PendingHolds' /\ AcceptingCounts' /\ Fits'
<1>1. PICK to \in {"cancelled", "seated", "completed"}, as \in {"cancelled", "released"} :
        /\ Leave(r, {"pending", "confirmed", "arrived", "seated"}, to, as)
        /\ to = "seated" => row[r].status = "arrived"
    BY DEF Cancel, Seat, Complete, Leave
<1>2. row \in [Bookings -> Rows] /\ ReservationIInv /\ ReservationIInv'
    BY LeaveKeeps, TypeShape DEF SeatsIInv, ReservationIInv
<1>3. /\ row'[r].status = to /\ row'[r].party = row[r].party /\ row'[r].period = row[r].period
      /\ \A q \in Bookings \ {r} : row'[q] = row[q] /\ lock'[q] = lock[q]
      /\ late' = late /\ accepting' = accepting /\ accepting[r] = "none"
    BY <1>1, <1>2, TypeShape DEF Leave, Unlocked, Relock, Rows, ReservationIInv
<1>4. PendingHolds'
    BY <1>3 DEF SeatsIInv, PendingHolds
<1>5. Counts(r)' => Counts(r)
    <2>1. Counts(r)' => row'[r].status \in Accepted \cup {"pending"}
        BY DEF Counts
    <2> QED BY <1>1, <1>2, <1>3, <2>1, WhoCounts DEF Accepted
<1>6. ASSUME NEW q \in Counted'
      PROVE  q \in Counted /\ row'[q].party = row[q].party /\ row'[q].period = row[q].period
    BY <1>3, <1>5, CountsByItself DEF Counted
<1>7. Fits'
    BY <1>6, NobodyNewKeepsRoom DEF SeatsIInv
<1>8. AcceptingCounts'
    BY <1>3, UntouchedStillCount DEF SeatsIInv
<1> QED BY <1>4, <1>7, <1>8

LEMMA ClockKeepsRoom ==
    ASSUME SeatsIInv, NEW r \in Bookings, HoldLapses(r) \/ GraceEnds(r)
    PROVE  PendingHolds' /\ AcceptingCounts' /\ Fits'
<1>1. row \in [Bookings -> Rows] /\ ReservationIInv
    BY TypeShape DEF SeatsIInv, ReservationIInv
<1>2. PICK new \in {[row[r] EXCEPT !.hold = "lapsed"], [row[r] EXCEPT !.graceOver = TRUE]} :
         /\ row' = [row EXCEPT ![r] = new] /\ UNCHANGED <<lock, accepting>> /\ late \subseteq late'
         /\ \/ /\ row[r].hold = "running" /\ new = [row[r] EXCEPT !.hold = "lapsed"]
               /\ accepting[r] # "none" /\ row[r].source # "reception" => r \in late'
            \/ new = [row[r] EXCEPT !.graceOver = TRUE]
    BY <1>1 DEF HoldLapses, GraceEnds, Rows
<1>3. /\ row'[r].status = row[r].status /\ row'[r].party = row[r].party
      /\ row'[r].period = row[r].period /\ row'[r].source = row[r].source
      /\ \/ row'[r].hold = row[r].hold
         \/ row[r].hold = "running" /\ row'[r].hold = "lapsed"
      /\ \A q \in Bookings \ {r} : row'[q] = row[q] /\ lock'[q] = lock[q]
      /\ late \subseteq late'
    BY <1>1, <1>2 DEF Rows
<1>4. PendingHolds'
    BY <1>3 DEF SeatsIInv, PendingHolds
<1>5. Counts(r)' => Counts(r)
    <2>1. CASE row'[r].hold = row[r].hold
        BY <1>2, <1>3, <2>1 DEF Counts, Named, InForce
    <2>2. CASE row[r].hold = "running"
        BY <1>1, <1>3, <2>2, WhoCounts DEF Counts
    <2> QED BY <1>3, <2>1, <2>2
<1>6. ASSUME NEW q \in Counted'
      PROVE  q \in Counted /\ row'[q].party = row[q].party /\ row'[q].period = row[q].period
    BY <1>2, <1>3, <1>5, CountsByItself DEF Counted
<1>7. Fits'
    BY <1>6, NobodyNewKeepsRoom DEF SeatsIInv
<1>8. \* A party of the reception counts without a hold.
      accepting[r] # "none" => r \in late' \/ Counts(r)'
    <2> SUFFICES ASSUME accepting[r] # "none", r \notin late' PROVE Counts(r)'
        OBVIOUS
    <2>1. Counts(r)
        BY <1>2 DEF SeatsIInv, AcceptingCounts
    <2>2. CASE row'[r].hold = row[r].hold
        BY <1>2, <1>3, <2>1, <2>2 DEF Counts, Named, InForce
    <2>3. CASE row'[r].hold # row[r].hold
        <3>1. row[r].source = "reception" \/ row[r].status # "pending"
            BY <1>1, <1>2, <1>3, <2>3 DEF Rows
        <3>2. CASE row[r].status # "pending"
            BY <1>3, <2>1, <3>2 DEF Counts
        <3>3. CASE row[r].source = "reception"
            <4>1. \A t \in Tables : lock'[r][t] = "none"
                BY <1>1, <1>2, <3>3 DEF ReservationIInv, TablesOfNative
            <4>2. Named(r)' = {}
                BY <4>1 DEF Named
            <4>3. row'[r].status \in Accepted \cup {"pending"}
                BY <1>3, <2>1 DEF Counts
            <4> QED BY <1>3, <3>3, <4>2, <4>3 DEF Counts
        <3> QED BY <3>1, <3>2, <3>3
    <2> QED BY <2>2, <2>3
<1>9. AcceptingCounts'
    <2> SUFFICES ASSUME NEW q \in Bookings, accepting'[q] # "none"
                 PROVE  q \in late' \/ Counts(q)'
        BY DEF AcceptingCounts
    <2>1. CASE q = r
        BY <1>2, <1>8, <2>1
    <2>2. CASE q # r
        BY <1>2, <1>3, <2>2, CountsByItself DEF SeatsIInv, AcceptingCounts
    <2> QED BY <2>1, <2>2
<1> QED BY <1>4, <1>7, <1>9

LEMMA ExpireKeepsRoom ==
    ASSUME SeatsIInv, NEW due \in SUBSET Bookings, ExpireBatch(due)
    PROVE  PendingHolds' /\ AcceptingCounts' /\ Fits'
<1>1. /\ \A q \in due : accepting[q] = "none" /\ (HoldDue(q) \/ GraceDue(q))
      /\ row' = [q \in Bookings |-> IF q \in due THEN Ended(q) ELSE row[q]]
      /\ lock' = [q \in Bookings |-> IF q \in due THEN Vacated(q) ELSE lock[q]]
      /\ accepting' = accepting /\ late' = late /\ ReservationIInv
    BY DEF ExpireBatch, Unlocked, SeatsIInv
<1>2. ASSUME NEW q \in Bookings
      PROVE  /\ q \in due => row'[q].status \in {"cancelled", "no_show"}
             /\ q \notin due => row'[q] = row[q] /\ lock'[q] = lock[q]
    BY <1>1, EndedType
<1>3. PendingHolds'
    BY <1>2 DEF SeatsIInv, PendingHolds
<1>4. ASSUME NEW q \in Counted'
      PROVE  q \in Counted /\ row'[q].party = row[q].party /\ row'[q].period = row[q].period
    <2>1. q \in Bookings /\ Counts(q)'
        BY DEF Counted
    <2>2. row'[q].status \in Accepted \cup {"pending"}
        BY <2>1 DEF Counts
    <2>3. q \notin due
        BY <1>2, <2>1, <2>2 DEF Accepted
    <2> QED BY <1>1, <1>2, <2>1, <2>3, CountsByItself DEF Counted
<1>5. Fits'
    BY <1>4, NobodyNewKeepsRoom DEF SeatsIInv
<1>6. AcceptingCounts'
    BY <1>1, <1>2, UntouchedStillCount DEF SeatsIInv
<1> QED BY <1>3, <1>5, <1>6

LEMMA NewRowHolds ==
    ASSUME NEW source, NEW status, NEW n, NEW p
    PROVE  /\ NewRow(source, status, n, p).party = n
           /\ NewRow(source, status, n, p).period = p
           /\ NewRow(source, status, n, p).status = "pending" =>
                NewRow(source, status, n, p).hold = "running"
BY DEF NewRow, HoldOf

LEMMA RegisterKeepsRoom ==
    ASSUME SeatsIInv, NEW r \in Bookings, NEW source \in {"online", "reception"},
           NEW status \in {"pending", "confirmed"}, NEW n \in Parties, NEW p \in Periods,
           Register(r, source, status, n, p)
    PROVE  PendingHolds' /\ AcceptingCounts' /\ Fits'
<1> DEFINE new == NewRow(source, status, n, p)
<1>1. /\ row' = [row EXCEPT ![r] = new] /\ lock' = lock /\ HasRoom(n, p, Bookings)
      /\ accepting' = accepting /\ late' = late /\ row[r].status = "none"
    BY DEF Register
<1>2. row'[r] = new /\ \A q \in Bookings \ {r} : row'[q] = row[q]
    BY <1>1, TypeShape DEF SeatsIInv, ReservationIInv
<1>3. new.party = n /\ new.period = p /\ (new.status = "pending" => new.hold = "running")
    BY NewRowHolds
<1> HIDE DEF new
<1>4. PendingHolds'
    BY <1>2, <1>3 DEF SeatsIInv, PendingHolds
<1>5. ASSUME NEW q \in Counted' \ {r}
      PROVE  q \in Counted /\ row'[q].party = row[q].party /\ row'[q].period = row[q].period
    BY <1>1, <1>2, CountsByItself DEF Counted
<1>6. Fits'
    BY <1>1, <1>2, <1>3, <1>5, RoomForOneKeepsRoom DEF SeatsIInv
<1>7. accepting[r] = "none"
    BY <1>1 DEF SeatsIInv, ReservationIInv, StillOpen
<1>8. AcceptingCounts'
    BY <1>1, <1>2, <1>7, UntouchedStillCount DEF SeatsIInv
<1> QED BY <1>4, <1>6, <1>8

LEMMA AmendKeepsRoom ==
    ASSUME SeatsIInv, NEW r \in Bookings, NEW n \in Parties, NEW p \in Periods, Amend(r, n, p)
    PROVE  PendingHolds' /\ AcceptingCounts' /\ Fits'
<1> DEFINE new == NewRow(row[r].source, row[r].status, n, p)
<1>1. /\ row' = [row EXCEPT ![r] = new] /\ late' = late \ {r}
      /\ HasRoom(n, p, Bookings \ {r}) /\ Relock(r, "released")
      /\ accepting' = accepting /\ accepting[r] = "none"
    BY DEF Amend, Unlocked
<1>2. /\ row'[r] = new
      /\ \A q \in Bookings \ {r} : row'[q] = row[q] /\ lock'[q] = lock[q]
    BY <1>1, TypeShape DEF SeatsIInv, ReservationIInv, Relock
<1>3. new.party = n /\ new.period = p /\ (new.status = "pending" => new.hold = "running")
    BY NewRowHolds
<1> HIDE DEF new
<1>4. PendingHolds'
    BY <1>2, <1>3 DEF SeatsIInv, PendingHolds
<1>5. ASSUME NEW q \in Counted' \ {r}
      PROVE  q \in Counted /\ row'[q].party = row[q].party /\ row'[q].period = row[q].period
    BY <1>1, <1>2, CountsByItself DEF Counted
<1>6. Fits'
    BY <1>1, <1>2, <1>3, <1>5, RoomForOneKeepsRoom DEF SeatsIInv
<1>7. AcceptingCounts'
    BY <1>1, <1>2, UntouchedStillCount DEF SeatsIInv
<1> QED BY <1>4, <1>6, <1>7

LEMMA BookKeepsRoom ==
    ASSUME SeatsIInv, NEW r \in Bookings, NEW status \in {"pending", "confirmed"},
           NEW n \in Parties, NEW p \in Periods, NEW tables \in SUBSET Tables,
           BookTables(r, status, n, p, tables)
    PROVE  PendingHolds' /\ AcceptingCounts' /\ Fits'
<1> DEFINE stale == GiveWay(tables)
           new == NewRow("native", status, n, p)
<1>1. /\ row' = [q \in Bookings |-> IF q = r THEN new ELSE IF q \in stale THEN Ended(q) ELSE row[q]]
      /\ \A q \in Bookings \ {r} : q \notin stale => lock'[q] = lock[q]
      /\ late' = late /\ HasRoom(n, p, Bookings) /\ ReservationIInv
      /\ accepting' = accepting /\ row[r].status = "none"
      /\ \A q \in stale : accepting[q] = "none"
    BY DEF BookTables, Unlocked, SeatsIInv
<1>2. \A q \in stale : q \in Bookings /\ HoldDue(q)
    BY DEF GiveWay
<1>3. new.party = n /\ new.period = p /\ (new.status = "pending" => new.hold = "running")
    BY NewRowHolds
<1> HIDE DEF new, stale
<1>4. ASSUME NEW q \in Bookings \ {r}
      PROVE  /\ q \in stale => row'[q].status \in {"cancelled", "no_show"}
             /\ q \notin stale => row'[q] = row[q] /\ lock'[q] = lock[q]
    BY <1>1, <1>2, EndedType
<1>5. row'[r] = new
    BY <1>1
<1>6. PendingHolds'
    BY <1>3, <1>4, <1>5 DEF SeatsIInv, PendingHolds
<1>7. ASSUME NEW q \in Counted' \ {r}
      PROVE  q \in Counted /\ row'[q].party = row[q].party /\ row'[q].period = row[q].period
    <2>1. q \in Bookings \ {r} /\ Counts(q)'
        BY <1>7 DEF Counted
    <2>2. row'[q].status \in Accepted \cup {"pending"}
        BY <2>1 DEF Counts
    <2>3. q \notin stale
        BY <1>4, <2>1, <2>2 DEF Accepted
    <2> QED BY <1>1, <1>4, <1>7, <2>1, <2>3, CountsByItself DEF Counted
<1>8. Fits'
    BY <1>1, <1>3, <1>5, <1>7, RoomForOneKeepsRoom DEF SeatsIInv
<1>9. accepting[r] = "none"
    BY <1>1 DEF ReservationIInv, StillOpen
<1>10. AcceptingCounts'
    BY <1>1, <1>4, <1>9, UntouchedStillCount DEF SeatsIInv
<1> QED BY <1>6, <1>8, <1>10

LEMMA SeatsInitOK == Init => SeatsIInv
<1> SUFFICES ASSUME Init PROVE SeatsIInv
    OBVIOUS
<1>1. ReservationIInv
    BY ReservationInitOK, PeriodsAssumption
<1>2. PendingHolds /\ AcceptingCounts /\ \A q \in Bookings : ~Counts(q)
    BY DEF Init, PendingHolds, AcceptingCounts, Counts, Accepted
<1>3. ASSUME NEW i \in Instants PROVE GuestsOf(At(Counted, i)) <= SeatsOf(Tables)
    <2>1. At(Counted, i) = {}
        BY <1>2 DEF At, Counted
    <2>2. Heads(row, {}) = {}
        BY DEF Heads
    <2>3. GuestsOf(At(Counted, i)) = 0
        BY <2>1, <2>2, GuestsAreHeads, FS_EmptySet
    <2> QED BY <2>3, SeatsAreFinite
<1> QED BY <1>1, <1>2, <1>3 DEF SeatsIInv, Fits

LEMMA SeatsStepOK == SeatsIInv /\ [Next]_vars => SeatsIInv'
<1> SUFFICES ASSUME SeatsIInv, [Next]_vars PROVE SeatsIInv'
    OBVIOUS
<1>0. ReservationIInv'
    BY ReservationStepOK DEF SeatsIInv
<1> SUFFICES PendingHolds' /\ AcceptingCounts' /\ Fits'
    BY <1>0 DEF SeatsIInv
<1>1. CASE UNCHANGED vars
    BY <1>1 DEF vars, SeatsIInv, PendingHolds, AcceptingCounts, Fits, Instants, SeatsOf, GuestsOf, At, Counted,
                Counts, Named, InForce
<1>2. ASSUME NEW r \in Bookings, NEW n \in Parties, NEW p \in Periods,
             NEW status \in {"pending", "confirmed"}, NEW source \in {"online", "reception"},
             Register(r, source, status, n, p)
      PROVE  PendingHolds' /\ AcceptingCounts' /\ Fits'
    BY <1>2, RegisterKeepsRoom
<1>3. ASSUME NEW r \in Bookings, NEW n \in Parties, NEW p \in Periods,
             NEW status \in {"pending", "confirmed"}, NEW tables \in SUBSET Tables \ {{}},
             BookTables(r, status, n, p, tables)
      PROVE  PendingHolds' /\ AcceptingCounts' /\ Fits'
    BY <1>3, BookKeepsRoom
<1>4. ASSUME NEW r \in Bookings, Confirm(r) \/ Arrive(r) PROVE PendingHolds' /\ AcceptingCounts' /\ Fits'
    BY <1>4, AcceptKeepsRoom
<1>5. ASSUME NEW r \in Bookings, Cancel(r) \/ Seat(r) \/ Complete(r) PROVE PendingHolds' /\ AcceptingCounts' /\ Fits'
    BY <1>5, LeaveKeepsRoom
<1>6. ASSUME NEW r \in Bookings, HoldLapses(r) \/ GraceEnds(r) PROVE PendingHolds' /\ AcceptingCounts' /\ Fits'
    BY <1>6, ClockKeepsRoom
<1>7. ASSUME NEW r \in Bookings, NEW n \in Parties, NEW p \in Periods, Amend(r, n, p)
      PROVE  PendingHolds' /\ AcceptingCounts' /\ Fits'
    BY <1>7, AmendKeepsRoom
<1>8. ASSUME NEW due \in SUBSET Bookings, ExpireBatch(due) PROVE PendingHolds' /\ AcceptingCounts' /\ Fits'
    BY <1>8, ExpireKeepsRoom
<1>9. ASSUME NEW r \in Bookings, CommitAccept(r)
      PROVE  PendingHolds' /\ AcceptingCounts' /\ Fits'
    BY <1>9, CommitKeepsRoom
<1> QED BY <1>1, <1>2, <1>3, <1>4, <1>5, <1>6, <1>7, <1>8, <1>9 DEF Next

----------------------------------------------------------------------------
\* Reservations and locks keep their domains in every reachable state, for any
\* number of them (reservation-repository.ts and its migrations).
THEOREM ReservationTypeCorrect == Spec => []ReservationTypeOK
<1>1. ReservationIInv => ReservationTypeOK
    BY DEF ReservationIInv
<1> QED BY <1>1, ReservationAlways, PTL

\* For any number of reservations and tables, the locks of a reservation say
\* what its status says, and no table is locked twice for an instant: neither
\* the worker, nor a new reservation that clears stale holds away, nor staff
\* leaves a lock behind (reservation-repository.ts, reservation-hold-expiry.ts).
THEOREM LocksFollow == Spec => []LocksFollowReservations
<1>1. ReservationIInv => LocksFollowReservations
    <2> SUFFICES ASSUME ReservationIInv, NEW r \in Bookings, NEW t \in Tables
                 PROVE  /\ lock[r][t] # "none" =>
                             CASE row[r].status = "pending" -> lock[r][t] = "held"
                               [] row[r].status \in {"confirmed", "arrived"} -> lock[r][t] = "confirmed"
                               [] OTHER -> lock[r][t] \notin LiveLock
                        /\ lock[r][t] \in LiveLock =>
                             \A q \in Bookings \ {r} :
                                 lock[q][t] \in LiveLock => ~Overlap(row[q].period, row[r].period)
        BY DEF LocksFollowReservations
    <2>1. lock[r][t] # "none" =>
             CASE row[r].status = "pending" -> lock[r][t] = "held"
               [] row[r].status \in {"confirmed", "arrived"} -> lock[r][t] = "confirmed"
               [] OTHER -> lock[r][t] \notin LiveLock
        BY DEF ReservationIInv, Follows
    <2>2. ASSUME lock[r][t] \in LiveLock, NEW q \in Bookings \ {r}, lock[q][t] \in LiveLock
          PROVE  ~Overlap(row[q].period, row[r].period)
        BY <2>2 DEF ReservationIInv, Exclusive
    <2> QED BY <2>1, <2>2
<1> QED BY <1>1, ReservationAlways, PTL

\* However many parties are registered on three ways, amended, accepted and ended by
\* deadlines, the guests promised seats at an instant fit the seats, but for parties
\* whose hold lapsed before their acceptance was committed: an on-line request at any
\* time, a booking of tables after the look at its deadline (readReservationCapacity of
\* public-reservation-api.ts, transition of reservation-repository.ts).
THEOREM SeatsArePromisedOnce == Spec => []OverbookingIsExplained
<1>1. SeatsIInv => OverbookingIsExplained
    <2> SUFFICES ASSUME SeatsIInv, NEW i \in Instants
                 PROVE  GuestsOf(At(Promised \ late, i)) <= SeatsOf(Tables)
        BY DEF OverbookingIsExplained
    <2> DEFINE S == At(Promised \ late, i)
               T == At(Counted, i)
    <2>1. T \in SUBSET Bookings /\ S \in SUBSET T
        BY WhoCounts DEF SeatsIInv, At, Counted, Promised
    <2>2. GuestsOf(S) = Cardinality(Heads(row, S)) /\ GuestsOf(T) = Cardinality(Heads(row, T))
        BY GuestsAreHeads
    <2>3. GuestsOf(T) <= SeatsOf(Tables)
        BY DEF SeatsIInv, Fits
    <2> HIDE DEF S, T
    <2>4. Cardinality(Heads(row, S)) <= Cardinality(Heads(row, T))
        BY <2>1, FewerGuests
    <2>5. Cardinality(Heads(row, S)) \in Nat /\ Cardinality(Heads(row, T)) \in Nat
        <3>1. S \in SUBSET Bookings
            BY <2>1
        <3> QED BY <2>1, <3>1, HeadsAreFinite
    <2> QED BY <2>2, <2>3, <2>4, <2>5, SeatsAreFinite DEF S
<1> QED BY <1>1, SeatsInitOK, SeatsStepOK, PTL DEF Spec

=============================================================================

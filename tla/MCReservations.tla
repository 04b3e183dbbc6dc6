---------------------------- MODULE MCReservations ----------------------------
(* TLC instances of Reservations.                                          *)
EXTENDS Reservations, TLC

CONSTANTS r1, r2, t1, t2

TwoBookings == {r1, r2}
TwoTables == {t1, t2}
OneSeatEach == [t \in TwoTables |-> 1]
ThreePeriods == {{1}, {2}, {1, 2}}

=============================================================================

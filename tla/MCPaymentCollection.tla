------------------------ MODULE MCPaymentCollection ------------------------
(* TLC instances of PaymentCollection.                                     *)
EXTENDS PaymentCollection, TLC

CONSTANTS p1, p2, p3, o1, o2

TwoPayments == {p1, p2}
ThreePayments == {p1, p2, p3}
OneOrder == {o1}
TwoOrders == {o1, o2}
NoOrders == {}
Jsapi == {"jsapi"}
JsapiAndQr == {"jsapi", "qrcode"}

\* Payments are interchangeable; orders are when they are all of one kind.
SymmetryOfPayments == Permutations(Payments)
SymmetryOfBoth == Permutations(Payments) \cup Permutations(Orders)

\* Scope of the two-order runs; the one-order runs have what it leaves out.  The
\* channel accepts every request, its answer arrives, an attempt may be closed
\* but does not fail, staff releases none for a retry, and a batch is made for
\* both orders, or for what an earlier payment left.
BatchScope ==
    \A p \in Payments :
        /\ action[p] # "unknown" /\ rail[p] \notin {"rejected", "failed"}
        /\ ~pay[p].released
        /\ pay[p].kind = "order_batch" =>
              pay[p].covers = Orders \/ \E q \in Payments \ {p} : pay[q].status = "succeeded"
=============================================================================

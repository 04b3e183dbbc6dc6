-------------------------- MODULE MCRefundWorkflow --------------------------
(* TLC instances of RefundWorkflow.                                        *)
EXTENDS RefundWorkflow, TLC

CONSTANTS r1, r2, online, till, food, drink, o1, o2, s1, s2

TwoRefunds == {r1, r2}
BothPayments == {online, till}
BothItems == {food, drink}
BothStaff == {s1, s2}

\* An online payment over two orders, and one at the till for the first of them.
OrderOfBoth == (food :> o1) @@ (drink :> o2)
PriceOfBoth == (food :> 2) @@ (drink :> 1)
ShareOfBoth == (online :> ((o1 :> 2) @@ (o2 :> 1))) @@ (till :> ((o1 :> 1) @@ (o2 :> 0)))
CapturedByBoth == (online :> 3) @@ (till :> 1)
ProviderCash == (online :> "postar") @@ (till :> "cash")
ProviderPos == (online :> "postar") @@ (till :> "physical_pos")
=============================================================================

------------------------- MODULE MCPaymentAllocation -------------------------
(* Small instances of PaymentAllocation. *)
EXTENDS PaymentAllocation, TLC

CONSTANTS p1, p2

Received == p1 :> 2 @@ p2 :> 1
OwnersOf == p1 :> {"member"} @@ p2 :> Owners
Raised   == 1..2
Debts    == <<2, 1>>
Urgent   == {1}
Symmetry == Permutations(Runs)
=============================================================================

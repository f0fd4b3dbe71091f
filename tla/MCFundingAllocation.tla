------------------------- MODULE MCFundingAllocation -------------------------
(* Small instances of FundingAllocation. *)
EXTENDS FundingAllocation, TLC

CONSTANTS i1, p

Balances  == (i1 :> 3) @@ (p :> 1)
Exposures == i1 :> 2
Loans     == [r \in Requests |-> 2]
Symmetry  == Permutations(Calls)
=============================================================================

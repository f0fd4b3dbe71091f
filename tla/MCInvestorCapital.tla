-------------------------- MODULE MCInvestorCapital --------------------------
(* Small instances of InvestorCapital. *)
EXTENDS InvestorCapital, TLC

CONSTANTS p1, p2, v1, v2, i1, i2

\* A platform and an investor tranche, and repayments that share out whole.
Halves     == <<2, 2>>
Owners     == <<"platform", i1>>
Capital    == [i \in Investors |-> 3]
OtherLoans == [i \in Investors |-> 1]
Principals == [k \in References |-> 2]
Interests  == [k \in References |-> IF k \in Repayments THEN 2 ELSE 0]
Payers     == [m \in Moves |-> i1]
Units      == [m \in Moves |-> 1]

Symmetry == Permutations(LoanCalls) \union Permutations(Recoveries)
              \union Permutations(Repayments) \union Permutations(MoveCalls)
=============================================================================

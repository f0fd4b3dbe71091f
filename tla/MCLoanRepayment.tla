--------------------------- MODULE MCLoanRepayment ---------------------------
(* Small instances of LoanRepayment. *)
EXTENDS LoanRepayment, TLC

\* The second payment pays off the loan, and more when the first came before.
Payments == [k \in Keys |-> IF k = 1 THEN 1 ELSE 2]
Installments == <<1, 1>>
Symmetry == Permutations(Calls)
=============================================================================

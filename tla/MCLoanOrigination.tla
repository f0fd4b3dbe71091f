-------------------------- MODULE MCLoanOrigination --------------------------
(* A small instance of LoanOrigination. *)
EXTENDS LoanOrigination, TLC

Symmetry == Permutations(Calls) \union Permutations(Keys)
=============================================================================

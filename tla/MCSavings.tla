------------------------------ MODULE MCSavings ------------------------------
(* Small instances of Savings. *)
EXTENDS Savings, TLC

Amounts  == [k \in Deposits \union Withdrawals |-> 1]
Symmetry == Permutations(Attempts) \union Permutations(Withdrawals)
=============================================================================

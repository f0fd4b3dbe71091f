-------------------------------- MODULE Sums --------------------------------
(***************************************************************************)
(* Amounts, added up: what a SUM over rows does in the repositories, and a   *)
(* loop over allocations in the business layer.                             *)
(***************************************************************************)
EXTENDS Integers, FiniteSetsExt

\* The sum of f over the members of S.
Total(f, S) == MapThenSumSet(LAMBDA x : f[x], S)
=============================================================================

--------------------------- MODULE MCLimitsApproval ---------------------------
(* Small instances of LimitsApproval. *)
EXTENDS LimitsApproval, TLC

CONSTANTS qa, qb, mia, ana, bob

\* One request needs two approvers, the other one.
TwoTiers == (qa :> 2) @@ (qb :> 1)
Callers  == Permutations(Deciders) \union Permutations(Reapers)
=============================================================================

--------------------------- MODULE MCTransferOrder ---------------------------
(* Small instances of TransferOrder. *)
EXTENDS TransferOrder, TLC

Symmetry == Permutations(Jobs)
=============================================================================

-------------------------------- MODULE Payout --------------------------------
(***************************************************************************)
(* What a payout order promises, whoever executes it and however often: the *)
(* books say the money left, then it is handed to the payment rail once,    *)
(* and the books are put back only for money that never reached the         *)
(* recipient.                                                               *)
(*                                                                         *)
(* apps/operations keeps the promise with a claim on the execution, a claim *)
(* on the payout, a lookup at the payment service and a reversal order;     *)
(* TransferOrder models those and is shown to implement this module.        *)
(***************************************************************************)

VARIABLES
  book,   \* the ledger: "none", then "posted", then perhaps "reversed"
  cash    \* the rail: "none", "sent", and its verdict "paid" or "failed"

vars == <<book, cash>>

Init == book = "none" /\ cash = "none"

\* The ledger leg posts.
Post == book = "none" /\ book' = "posted" /\ UNCHANGED cash

\* The rail takes the payout: only for money the books say has left. It may
\* pay or refuse it at once.
Send ==
  /\ book = "posted" /\ cash = "none"
  /\ cash' \in {"sent", "paid", "failed"}
  /\ UNCHANGED book

\* The rail's verdict on a payout it took.
Settle ==
  /\ book = "posted" /\ cash = "sent"
  /\ cash' \in {"paid", "failed"}
  /\ UNCHANGED book

\* The money goes back in the books: nothing was sent, or the rail failed it,
\* and from here on nothing is sent.
Reverse ==
  /\ book = "posted" /\ cash \in {"none", "failed"}
  /\ book' = "reversed"
  /\ UNCHANGED cash

Next == Post \/ Send \/ Settle \/ Reverse

Spec == Init /\ [][Next]_vars

TypeOK ==
  /\ book \in {"none", "posted", "reversed"}
  /\ cash \in {"none", "sent", "paid", "failed"}

\* The recipient is paid out of posted money, and never of reversed money.
PaidFromTheBooks == cash \in {"sent", "paid"} => book = "posted"
=============================================================================

----------------------------- MODULE PayoutOrder -----------------------------
(***************************************************************************)
(* What a service that pays out sees of its transfer order at operations:   *)
(* the order is "none", "sent" to the rail, "paid" or "failed". Module       *)
(* Payout is the contract these answers keep, and TransferOrder keeps it.    *)
(***************************************************************************)

\* TransferOrderExecute of a payout, as Payout promises it: what the order may
\* be afterwards, and the answers. "rejected" is an error code that
\* payoutPermanentlyRejected reads; a refusal before the ledger leg leaves no
\* mark, so a later attempt may pass.
PayoutAnswers(o) ==
  CASE o = "none" -> {<<"none", "rejected">>, <<"sent", "done">>, <<"paid", "done">>,
                      <<"failed", "rejected">>, <<"none", "error">>,
                      <<"sent", "error">>}
    [] o \in {"sent", "paid"} -> {<<o, "done">>, <<o, "error">>}
    [] o = "failed" -> {<<o, "rejected">>, <<o, "error">>}
=============================================================================

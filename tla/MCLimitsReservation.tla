------------------------- MODULE MCLimitsReservation -------------------------
(* Small instances of LimitsReservation: the policies and intents the runs    *)
(* use.                                                                       *)
EXTENDS LimitsReservation, TLC

MCPolicy(kind, mode, subject, value, window) ==
  [kind |-> kind, mode |-> mode, subject |-> subject, value |-> value,
   window |-> window, tiers |-> {}, anyCurrency |-> FALSE, filtered |-> FALSE]

MCIntent(amount, P) ==
  [amount |-> amount, subjects |-> {p.subject : p \in P}, policies |-> P]

\* The caps of a payer and of a payee, so that an intent under both takes two
\* locks.
CapPayer == MCPolicy("rolling_window_amount", "enforce", 1, 2, 1)
CapPayee == MCPolicy("rolling_window_count", "enforce", 2, 1, 1)

\* Verdicts: a cap with an approver tier, a floor, an attribute-filtered cap,
\* a shadow cap and a currency-agnostic count. Two intents take the locks of
\* both subjects; the third is under the shadow cap alone.
Tiered   == [MCPolicy("per_txn_max", "enforce", 1, 1, 0) EXCEPT !.tiers = {2}]
Floor    == MCPolicy("per_txn_min", "enforce", 1, 2, 0)
Filtered == [CapPayer EXCEPT !.filtered = TRUE]
ShadowCap == MCPolicy("rolling_window_amount", "shadow", 2, 1, 1)
AnyCount == [CapPayee EXCEPT !.anyCurrency = TRUE]
VerdictPolicies == {CapPayer, Tiered, Floor, Filtered, ShadowCap, AnyCount}
VerdictIntents ==
  {MCIntent(2, {Tiered, Filtered, AnyCount}), MCIntent(1, {Floor, Filtered, ShadowCap}),
   MCIntent(2, {CapPayer, ShadowCap})}
=============================================================================

CONSTANTS
  Keys = {1, 2}
  Pay <- Payments
  Due <- Installments
  Penalty = 1
  Calls = {c1, c2}
  MaxFaults = 1
  MaxLapses = 1
SYMMETRY Symmetry
SPECIFICATION Spec
INVARIANTS PaidIsApplied AllocatedOnce StatusFollowsMoney
PROPERTY FollowsTransitions
CHECK_DEADLOCK FALSE

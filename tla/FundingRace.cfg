CONSTANTS
  i1 = i1
  p = p
  Requests = {r1}
  Calls = {c1, c2, c3}
  Sources = {i1, p}
  Investors = {i1}
  Balance <- Balances
  MaxExposure <- Exposures
  Loan <- Loans
  MaxAttempts = 2
  MaxFaults = 1
SYMMETRY Symmetry
SPECIFICATION Spec
INVARIANTS ReservedIsActive CompletedIsFunded NothingIsLeftBehind
CHECK_DEADLOCK FALSE

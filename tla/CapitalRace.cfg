CONSTANTS
  p1 = p1
  p2 = p2
  v1 = v1
  v2 = v2
  i1 = i1
  i2 = i2
  Last = 2
  Lent <- Halves
  Investors = {i1}
  Owner <- Owners
  Opening <- Capital
  Elsewhere <- OtherLoans
  Repayments = {p1}
  Recoveries = {v1, v2}
  Principal <- Principals
  Interest <- Interests
  Deposits = {d1}
  Withdrawals = {m1}
  Of <- Payers
  Amount <- Units
  LoanCalls = {l1, l2}
  MoveCalls = {w1}
  MaxSaves = 0
  MaxFaults = 1
SYMMETRY Symmetry
SPECIFICATION Spec
INVARIANTS SharesAddUp CapitalIsAccounted RowsTellTheMoney
CHECK_DEADLOCK FALSE

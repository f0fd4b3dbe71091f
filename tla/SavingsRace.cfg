CONSTANTS
  Deposits = {d1}
  Withdrawals = {w1, w2}
  Attempts = {c1, c2}
  Amount <- Amounts
  Opening = 1
  Rate = 3
  Scale = 2
  MaxDay = 1
  MaxSaves = 1
  MaxFailures = 1
SYMMETRY Symmetry
SPECIFICATION SavingsSpec
INVARIANTS FundsMatchRows SettledIsBooked InterestIsDue
CHECK_DEADLOCK FALSE

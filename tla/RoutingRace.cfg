CONSTANTS
  p1 = p1
  p2 = p2
  Payments = {p1, p2}
  Runs = {r1, r2}
  Amount <- Received
  MayOwn <- OwnersOf
  Obligations <- Raised
  Owed <- Debts
  Late <- Urgent
  MaxLapses = 1
  MaxFaults = 1
SYMMETRY Symmetry
SPECIFICATION Spec
INVARIANTS ObligationPaidOnce SpentWithinPayment NothingIsStranded
CHECK_DEADLOCK FALSE

CONSTANTS
  Keys = {k1, k2}
  Calls = {c1, c2}
  MaxSaves = 1
  MaxFaults = 2
SYMMETRY Symmetry
SPECIFICATION Spec
INVARIANTS PaidOnce ReleasedIsUnpaid RowsTellTheMoney AccountIsFunded
CHECK_DEADLOCK FALSE

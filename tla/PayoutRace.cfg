CONSTANTS
  Jobs = {j1, j2}
  MaxSends = 2
  StaleAfter = 1
  Grace = 2
  MaxTime = 2
  MaxFaults = 1
  None = None
SYMMETRY Symmetry
SPECIFICATION Spec
INVARIANTS TypeOK DoneMeansSent OutcomeIsTheRails CommittedMeansDone
PROPERTY KeepsContract

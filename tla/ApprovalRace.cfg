CONSTANTS
  qa = qa
  qb = qb
  mia = mia
  ana = ana
  bob = bob
  Requests = {qa, qb}
  Users = {mia, ana, bob}
  Maker = mia
  Required <- TwoTiers
  Deciders = {d1, d2, d3}
  Releasers = {r1}
  Reapers = {e1}
  MaxFaults = 1
  Resv = Resv
  NoProc = NoProc
  NoRequest = NoRequest
SYMMETRY Callers
SPECIFICATION ApprovalSpec
INVARIANTS ApprovalTypeOK UsableOnlyWhenApproved RefusalReleases
PROPERTIES DecisionsStand HoldFollowsLifecycle
CHECK_DEADLOCK FALSE

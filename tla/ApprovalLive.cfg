CONSTANTS
  qa = qa
  qb = qb
  mia = mia
  ana = ana
  bob = bob
  Requests = {qa, qb}
  Users = {mia, ana, bob}
  Maker = mia
  Required <- TwoTiers
  Deciders = {d1, d2}
  Releasers = {r1}
  Reapers = {e1}
  MaxFaults = 1
  Resv = Resv
  NoProc = NoProc
  NoRequest = NoRequest
SPECIFICATION ApprovalFairSpec
PROPERTY LateRequestSettles
CHECK_DEADLOCK FALSE

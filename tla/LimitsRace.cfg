CONSTANTS
  Ids = {1, 2, 3}
  Keys = {k1, k2}
  Calls = {c1, c2}
  Subjects = {1, 2}
  Policies <- VerdictPolicies
  Intents <- VerdictIntents
  MaxAmount = 2
  ActiveTTL = 1
  ApprovalTTL = 1
  ResvRetain = 1
  LedgerRetain = 1
  WindowSlack = 0
  MaxTime = 2
  NoId = NoId
  NoCall = NoCall
  NoPolicy = NoPolicy
SPECIFICATION FairSpec
INVARIANTS TypeOK HoldsWithinCap OverCapOnlyByCommit OneReservationPerKey
PROPERTIES GrantRespectsRules ReserveAnswered LapsedHoldEnds FollowsLifecycle
CHECK_DEADLOCK FALSE

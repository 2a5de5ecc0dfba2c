CONSTANTS
  None = None
  Requests = {r1, r2}
  PageSize = 1
  MaxPages = 2
  Window = 2
  Throttle = 0
  MaxLag = 1
  MaxTime = 3
  MaxTxs = 2
SPECIFICATION FairSpec
INVARIANTS
  TypeOK
  GrowthHasNoAction
PROPERTIES
  EveryRequestIsAnswered

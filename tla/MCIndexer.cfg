CONSTANTS
  None = None
  Addresses = {a1, a2}
  PageSize = 1
  MaxPages = 2
  MaxAttempts = 2
  Concurrency = 2
  BackfillDepth = 1
  FloorBlock = 0
  MaxLag = 1
  Parties = {{a1}, {a1, a2}}
  MaxHead = 2
  MaxTxs = 3
  MaxFaults = 1
SPECIFICATION FairSpec
INVARIANTS
  TypeOK
  NoGapBelowCursor
PROPERTIES
  CursorsMoveForward
  ListedCatchUp

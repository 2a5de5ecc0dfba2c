CONSTANTS
  None = None
  u1 = u1
  u2 = u2
  v1 = v1
  v2 = v2
  Users = {u1}
  Validators = {v1, v2}
  IntentIds = {i1}
  TxHashes = {h1}
  CreateCalls = {c1}
  ConfirmCalls = {d1}
  GetCalls = {g1}
  IntentTTL = 1
  CacheTTL = 1
  Throttle = 1
  MaxTime = 3
  Bodies <- TwoBodies
  StakerStates <- TwoStakers
  MinedTxs <- OneUserTxs
SYMMETRY Symmetric
SPECIFICATION Spec
INVARIANTS
  SnapshotSpacing
  PendingOverlayIsBacked

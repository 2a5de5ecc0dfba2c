CONSTANTS
  None = None
  u1 = u1
  u2 = u2
  v1 = v1
  v2 = v2
  Users = {u1, u2}
  Validators = {v1, v2}
  IntentIds = {i1, i2}
  TxHashes = {h1, h2}
  CreateCalls = {c1, c2}
  ConfirmCalls = {d1, d2}
  GetCalls = {}
  IntentTTL = 1
  CacheTTL = 1
  Throttle = 1
  MaxTime = 3
  Bodies <- OneBody
  StakerStates <- NoStakers
  MinedTxs <- TwoUserTxs
SYMMETRY Symmetric
SPECIFICATION Spec
INVARIANTS
  ConfirmedIsOnChain
  ConfirmedInTime
PROPERTIES
  ImplementsLifecycle

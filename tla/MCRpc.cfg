CONSTANTS
  Primary = primary
  Fallback = fallback
  Null = Null
  Calls = {c1, c2}
  MaxAttempts = 2
SPECIFICATION RpcFairSpec
INVARIANTS
  RpcTypeOK
PROPERTIES
  DeadIsDropped
  ReachableIsServed
  EveryCallEnds

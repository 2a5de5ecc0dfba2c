CONSTANTS
  None = None
  Validators = {v1, v2}
  FreshTTL = 1
  StaleTTL = 1
  Capacity = 2
  MaxTime = 2
  MaxFaults = 1
SPECIFICATION FairSpec
INVARIANTS
  CacheFollowsDirectory
  OutdatedRowsExpire
PROPERTIES
  DirectoryFollowsRegistry

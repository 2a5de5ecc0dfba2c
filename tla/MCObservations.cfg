CONSTANTS
  Null = Null
  Payouts = {0, 1, 2}
  Failed = {}
  Window = 1
  Hours = {1}
  MinHistory = 1
  Versions = {1, 2}
  MaxTime = 2
  MaxUpsets = 1

SPECIFICATION ObservationsFairSpec

PROPERTY EvidenceIsRepaired
PROPERTY CycleRepairs
PROPERTY InboxIsDurable
PROPERTY NewsIsNew
CHECK_DEADLOCK FALSE

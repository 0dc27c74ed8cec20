SPECIFICATION FairSpec
CONSTANTS
  MaxCalls = 3
  MaxUpsets = 1
  PoolSize = 2
CHECK_DEADLOCK FALSE
INVARIANTS
  TypeOK
  PaidOnce
  AvatarShown
PROPERTIES
  EverythingSettles

SPECIFICATION Spec
CONSTANTS
  MaxConvs = 2
  MaxTurns = 2
  MaxIterations = 2
  MaxBlocks = 1
  Limit = 1
  MaxUpsets = 1
CHECK_DEADLOCK FALSE
INVARIANTS
  TypeOK
  ThreadSound
  BudgetStops
PROPERTIES
  TitleKept

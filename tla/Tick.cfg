SPECIFICATION Spec
CONSTANTS
  Sources = {1}
  MonthDays <- TwoMonths
  WeekDays = 2
  DaySlots = 2
  Window = 2
  DiscoverDefault = 1
  CollectDefault = 1
  Patches <- SomePatches
  Cadences <- SomeCadences
  Threshold = 2
  StartDate = 1
  MinClock = 2
  MaxClock = 4
  p1 = p1
  p2 = p2
  Procs = {p1, p2}
  MaxRuns = 3
  MaxUpsets = 1
SYMMETRY Symmetry
CHECK_DEADLOCK FALSE
INVARIANTS
  TypeOK
  OncePerDay
  HealthEarned
  StoriesReviewed

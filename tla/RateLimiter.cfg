SPECIFICATION Spec
CONSTANTS
  a = a
  b = b
  t1 = t1
  t2 = t2
  Keys <- MCKeys
  Threads <- MCThreads
  Limit <- MCLimit
  Window <- MCWindow
  MaxIdle = 3
  SweepEvery = 2
  MaxStall = 1
  MaxClock = 6
SYMMETRY ThreadSymmetry
INVARIANTS TypeOK WindowBound
PROPERTIES RetryAfterHonest

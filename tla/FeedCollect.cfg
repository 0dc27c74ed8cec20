SPECIFICATION Spec
CONSTANTS
  c1 = c1
  c2 = c2
  p1 = p1
  p2 = p2
  Threads = {c1, c2}
  Topics = {p1, p2}
  Shown = 3
  Cap = 2
  MaxEntries = 3
  MaxPreviews = 1
  MaxDeletes = 1
  MaxErrors = 0
  MaxFaults = 1
CHECK_DEADLOCK FALSE
SYMMETRY Symmetry
INVARIANTS
  TypeOK
  VouchedIsCollected

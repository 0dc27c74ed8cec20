SPECIFICATION Spec
CONSTANTS
  c1 = c1
  c2 = c2
  p1 = p1
  p2 = p2
  Threads = {c1}
  Topics = {p1}
  Shown = 2
  Cap = 2
  MaxEntries = 1
  MaxPreviews = 1
  MaxDeletes = 0
  MaxErrors = 0
  MaxFaults = 0
CHECK_DEADLOCK FALSE
PROPERTY CollectedIsAvailable

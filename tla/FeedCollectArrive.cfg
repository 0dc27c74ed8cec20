SPECIFICATION FairSpec
CONSTANTS
  c1 = c1
  c2 = c2
  p1 = p1
  p2 = p2
  Threads = {c1, c2}
  Topics = {p1}
  Shown = 2
  Cap = 1
  MaxEntries = 3
  MaxPreviews = 0
  MaxDeletes = 0
  MaxErrors = 1
  MaxFaults = 0
CHECK_DEADLOCK FALSE
PROPERTY EntriesArrive

SPECIFICATION FairSpec
CONSTANTS
  r1 = r1
  r2 = r2
  r3 = r3
  t1 = t1
  t2 = t2
  s1 = s1
  s2 = s2
  Runs = {r1, r2}
  Topics = {t1}
  Sources = {s1}
  Workers = 1
  MaxFaults = 2
  MaxCrashes = 1
  MaxEdits = 1
CHECK_DEADLOCK FALSE
PROPERTY RunsEnd

SPECIFICATION Spec
CONSTANTS
  r1 = r1
  r2 = r2
  r3 = r3
  t1 = t1
  t2 = t2
  s1 = s1
  s2 = s2
  Runs = {r1, r2}
  Topics = {t1, t2}
  Sources = {s1, s2}
  Workers = 2
  MaxFaults = 2
  MaxCrashes = 1
  MaxEdits = 1
SYMMETRY AllSymmetry
CHECK_DEADLOCK FALSE
INVARIANTS
  TypeOK
  NoZombies
  DiscoveredIsDecided
PROPERTIES
  DecisionsStick
  ImplementsLifecycle

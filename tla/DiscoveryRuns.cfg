SPECIFICATION FairSpec
CONSTANTS
  t1 = t1
  t2 = t2
  f1 = f1
  MaxRuns = 2
  MaxCommits = 2
  Topics = {t1, t2}
  Feeds = {f1}
  Workers = 1
  MaxFaults = 1
  MaxEdits = 1
CHECK_DEADLOCK FALSE
INVARIANTS
  TypeOK
  CommittedIsPlaced
PROPERTIES
  EarlierDecisionsStick
  ImplementsLifecycle
  SearchEnds

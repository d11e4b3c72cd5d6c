SPECIFICATION FairSpec
CONSTANTS
  Jobs = {j1, j2}
  Workers = {w1, w2}
  Clients = {c1}
  None = None
  MaxFaults = 2
  MaxCancels = 2
INVARIANTS
  RunningHasOneWorker
PROPERTIES
  EveryJobEnds
CHECK_DEADLOCK FALSE

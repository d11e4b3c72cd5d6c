SPECIFICATION Disturbed
CONSTANTS
  Requests = {r1, r2}
  Models = {m1, m2}
  None = None
  MaxFaults = 1
INVARIANTS
  TypeOK
  BusyMeansWorking
  SummaryMatchesZip
PROPERTIES
  CompleteMeansAll
  AppendKeepsOthers
  EveryQaJobEnds
CHECK_DEADLOCK FALSE

SPECIFICATION FairSpec
CONSTANTS
  Jobs = {j1, j2}
  Executors = {e1, e2}
  Web = Web
  None = None
  MaxCrashes = 2
  MaxFaults = 1
INVARIANTS
  TypeOK
  AnswersStayTrue
PROPERTIES
  EveryAnsweredJobEnds
CHECK_DEADLOCK FALSE

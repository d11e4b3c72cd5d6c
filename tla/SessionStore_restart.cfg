SPECIFICATION Spec
CONSTANTS
  Sessions = {s1}
  Threads = {t1}
  None = None
  MaxRestarts = 1
SYMMETRY Symmetric
INVARIANTS
  SessionsSurviveRestarts
CHECK_DEADLOCK FALSE

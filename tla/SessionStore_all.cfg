SPECIFICATION Spec
CONSTANTS
  Sessions = {s1, s2}
  Threads = {t1, t2}
  None = None
  MaxRestarts = 1
SYMMETRY Symmetric
INVARIANTS
  TypeOK
  SessionsAreAsTold
PROPERTIES
  CleanUpSparesSessionsInUse
CHECK_DEADLOCK FALSE

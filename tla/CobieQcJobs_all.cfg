SPECIFICATION FairSpec
CONSTANTS
  Jobs = {j1, j2}
  Scans = {s1}
  MaxFaults = 2
  MaxRestarts = 1
INVARIANTS
  TypeOK
  PermitConserved
  DoneMeansReport
  ToldIsTrue
PROPERTIES
  EveryPageAnswered

SPECIFICATION FairSpec
CONSTANTS
  Workers = {w1, w2}
  NoWorker = NoWorker
  MaxFiles = 1
  MaxJobs = 1
  MaxFaults = 2
  MaxSlow = 1
PROPERTIES
  ScansResumeAndEnd

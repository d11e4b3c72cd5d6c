SPECIFICATION Spec
CONSTANTS
  Workers = {w1, w2}
  NoWorker = NoWorker
  MaxFiles = 2
  MaxJobs = 2
  MaxFaults = 1
  MaxSlow = 1
SYMMETRY Symmetric
INVARIANTS
  TypeOK
  OneActiveJobPerFile
  LeaseIsExclusive
  ResultsBeforeReport
  FailedFileHasFailedJob
PROPERTIES
  FinishedJobsStay
  PromiseKept

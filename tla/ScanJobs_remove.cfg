SPECIFICATION Spec
CONSTANTS
  Workers = {w1}
  NoWorker = NoWorker
  MaxFiles = 2
  MaxJobs = 2
  MaxFaults = 0
  MaxSlow = 0
PROPERTIES
  RemoveTakesOnlyItsModel

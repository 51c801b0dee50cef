SPECIFICATION FairSpec
CONSTANTS
  j1 = j1  j2 = j2  k1 = k1  k2 = k2
  Jobs <- MCJobs
  Consumers <- MCConsumers
  Pieces = 2
  MaxFrames = 2
  Fails = TRUE
CHECK_DEADLOCK FALSE
INVARIANTS WholeRecords
PROPERTIES ProgramStops StoppedIsSilent

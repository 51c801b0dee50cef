SPECIFICATION FairSpec
CONSTANTS
  Kinds <- MCKinds
  MaxSessions = 2
  MaxInCall = 1
CHECK_DEADLOCK FALSE
INVARIANTS OneStops ReadersGoFirst NothingOutlives
PROPERTIES LostIsReaped

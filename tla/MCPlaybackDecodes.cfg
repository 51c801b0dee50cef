SPECIFICATION PlaySpec
CONSTANTS
  Files <- MCFiles
  Instants <- MCInstants
  Rates <- MCRates
  Window = 6
  Runback = 2
  FastRate = 4
  MaxCalls = 3
CHECK_DEADLOCK FALSE
INVARIANTS SurplusIsSent

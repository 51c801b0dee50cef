CONSTANTS Callers = {a1, a2}
          Main = main
          Nobody = nobody
          Cameras <- MixedRows
          MaxSessions = 2
          MaxFiles = 2
          MaxCalls = 2
          Removes = TRUE
          Stops = TRUE
          Failures = TRUE
SPECIFICATION Spec
SYMMETRY CallersAreAlike
INVARIANTS NoRivalSessions AskedFootageSurvives OpenFileStays NoRowLeftOpen HeldIsListedAndUndecided NobodyIsStuck
CHECK_DEADLOCK FALSE

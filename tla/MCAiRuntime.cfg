SPECIFICATION AiSpec
CONSTANTS
  c1 = c1  c2 = c2  j1 = j1  j2 = j2  old = old  new = new
  Callers <- MCCallers
  Jobs <- MCJobs
  Feeds <- MCFeeds
  MaxWorkers = 4
  MaxTaps = 3
  MaxCalls = 4
  Fails = TRUE
SYMMETRY MCSymmetry
CHECK_DEADLOCK FALSE
INVARIANTS DecodedOnceForSomebody MotionIsWatched UncontestedRunsOnce

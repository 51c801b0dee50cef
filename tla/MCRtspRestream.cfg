SPECIFICATION RestFairSpec
CONSTANTS
  MaxForwardJump = 2
  NominalStep = 1
  Stamps <- MCStamps
  MaxFrames = 3
  Inputs <- MCInputs
  KeyEvery = 2
  Feeds <- MCFeeds
  MaxViewers = 2
  stream = stream
  http = http
  Callers <- MCCallers
  MaxCalls = 2
INVARIANT OwnClock
PROPERTY NeverJumps UnwatchedComesDown InvokeReturns
CHECK_DEADLOCK FALSE

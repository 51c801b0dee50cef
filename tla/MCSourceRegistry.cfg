CONSTANTS
  c1 = c1  c2 = c2  s1 = s1  s2 = s2
  Consumers <- MCConsumers
  Streams <- MCStreams
  Hevc <- MCHevc
  Rates <- MCRates
  Linger = 1
  Patience = 1
  MaxRaw = 2
  MaxTr = 2
SPECIFICATION FairSpec
INVARIANT WatchedKeepsRunning OneConnection
PROPERTY UnwatchedIsRetired
CHECK_DEADLOCK FALSE

CONSTANTS
  t1 = t1  t2 = t2  s1 = s1  s2 = s2  h1 = h1  h2 = h2  n1 = n1  None = None
  Cameras <- MCOneCamera
  Sources <- MCSources
  Hardwares <- MCHardwares
  Urls <- MCSources
  Accelerations <- MCHardwares
  Names <- MCNames
  Http <- MCHttp
  Asks <- MCAsks
  Creations <- MCCreations
  Edits <- MCEdits
  Postgres = TRUE
  MaxCalls = 20
  MaxRequests = 2
  MaxCrashes = 1
SPECIFICATION LifeFairSpec
INVARIANTS PublishedIsCurrent SettledPartsAgree BuriedStaysBuried
PROPERTIES RenameKeepsViewers PushAfterWrite WantedIsProbed
CHECK_DEADLOCK FALSE

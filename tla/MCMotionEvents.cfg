SPECIFICATION EventsFairSpec
CONSTANTS
  Cameras <- MCCameras
  PostMotion = 2
  MaxPending = 1
  MaxRows = 3
  MaxEdits = 1
  Fails = TRUE
CHECK_DEADLOCK FALSE
INVARIANTS NewestIsKept
PROPERTIES EventsAreApart CapturesAreTaken

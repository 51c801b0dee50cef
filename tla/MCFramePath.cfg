CONSTANTS
  recorder = recorder  viewer = viewer
  Recorder = recorder  Viewer = viewer
  Consumers <- MCConsumers
  CacheOn = TRUE
  MaxFrames = 2
  MaxBytes = 3
  Sizes = {1, 2}
  MaxStream = 3
  MaxQueued = 1
  MaxSize = 2
  MaxParts = 3
SPECIFICATION PathSpec
INVARIANTS NoGapNoRepeat FootageDecodes ReaderIsServed
CHECK_DEADLOCK FALSE

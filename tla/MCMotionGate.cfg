CONSTANTS Pre = 2
          Post = 1
          MaxLag = 1
          MaxTime = 7
          MaxEvents = 2
SPECIFICATION Spec
INVARIANT PreRollNeverLost
PROPERTY ImplementsFate
CHECK_DEADLOCK FALSE

SPECIFICATION FairSpec
CONSTANTS
  MaxManagers = 3
  MaxFails = 2
INVARIANTS TypeOK OneManagerAtMost
PROPERTY DisabledStops
CHECK_DEADLOCK FALSE

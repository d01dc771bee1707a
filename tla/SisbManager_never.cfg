SPECIFICATION FairSpec
CONSTANTS
  MaxManagers = 2
  MaxFails = 0
PROPERTY RunsController
CHECK_DEADLOCK FALSE

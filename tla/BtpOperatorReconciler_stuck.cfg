SPECIFICATION FairSpec
CONSTANTS
  FailureReasons <- TwoFailures
  MaxCreates = 2
  MaxEdits = 0
  MaxFails = 1
  MaxCrashes = 0
  MaxLag = 2
PROPERTY ErrorIsRetried

SPECIFICATION Spec
CONSTANTS
  FailureReasons <- TwoFailures
  MaxCreates = 2
  MaxEdits = 0
  MaxFails = 0
  MaxCrashes = 0
  MaxLag = 2
INVARIANT DeletingMeansDeleted

SPECIFICATION FairSpec
CONSTANTS
  FailureReasons <- TwoFailures
  MaxCreates = 1
  MaxEdits = 1
  MaxFails = 1
  MaxCrashes = 1
  MaxLag = 2
INVARIANTS TypeOK StatusConsistent NoLostWakeup ReadyMeansInstalled
PROPERTIES LifecycleSpec BecomesReady DeletionFinishes

SPECIFICATION Spec
CONSTANTS
  MaxStale = 3
  MaxRegens = 6
  MaxEdits = 1
  MaxFaults = 1
INVARIANTS TypeOK AgreeWhenQuiet EachRegenerationHasACause
CHECK_DEADLOCK FALSE

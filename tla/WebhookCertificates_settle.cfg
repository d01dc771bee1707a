SPECIFICATION FairSpec
CONSTANTS
  MaxStale = 1
  MaxRegens = 8
  MaxEdits = 2
  MaxFaults = 1
INVARIANTS AgreeWhenQuiet EachRegenerationHasACause
PROPERTY Settles

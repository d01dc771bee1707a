SPECIFICATION FairSpec
CONSTANTS
  MaxStale = 0
  MaxRegens = 8
  MaxEdits = 2
  MaxFaults = 0
PROPERTY RenewedInAdvance

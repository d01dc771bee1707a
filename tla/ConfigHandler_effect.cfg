SPECIFICATION FairSpec
CONSTANTS
  Names = {"sap-btp-manager", "other"}
  Default = "sap-btp-manager"
  Contents <- Plain
  MaxEdits = 2
  MaxFails = 1
  MaxRestarts = 1
INVARIANTS TypeOK SettledWhenQuiet InForceFromTheStart
PROPERTY TakesEffect

SPECIFICATION FairSpec
CONSTANTS
  Names = {"sap-btp-manager"}
  Default = "sap-btp-manager"
  Contents <- Plain
  MaxEdits = 1
  MaxFails = 0
  MaxRestarts = 0
PROPERTY MetricTellsTruth

SPECIFICATION FairSpec
CONSTANTS
  Manifests <- OneManifest
  Policies <- OnePolicy
  MaxEdits = 2
  MaxFails = 1
  MaxUpgrades = 1
INVARIANTS TypeOK ReadyWhenQuiet NoWaiterLeft
PROPERTIES ReadyMeansApplied Installed

SPECIFICATION Spec
CONSTANTS
  Pods <- OnePod
  TlsResults <- AlwaysOk
  Unmounts = FALSE
  MaxRotations = 1
  MaxTls = 0
  MaxFaults = 1
INVARIANT WaitsForTheJob

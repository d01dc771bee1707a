SPECIFICATION Spec
CONSTANTS
  Pods <- OnePod
  TlsResults <- OkOrUntrusted
  Unmounts = TRUE
  MaxRotations = 1
  MaxTls = 2
  MaxFaults = 0
PROPERTY SilentExitKeepsMetric

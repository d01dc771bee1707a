SPECIFICATION FairSpec
CONSTANTS
  Pods <- MCPods
  TlsResults <- OkOrUntrusted
  Unmounts = TRUE
  MaxRotations = 2
  MaxTls = 2
  MaxFaults = 1
INVARIANTS TypeOK EachRestartHasACause
PROPERTIES RotationRestarts MetricFollows

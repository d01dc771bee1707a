SPECIFICATION Spec
CONSTANTS
  Pods <- MCPods
  TlsResults <- AlwaysOk
  Unmounts = FALSE
  MaxRotations = 2
  MaxTls = 0
  MaxFaults = 3
INVARIANT RestartedBeforeRecorded

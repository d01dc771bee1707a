SPECIFICATION FairSpec
CONSTANTS
  Pods <- OnePod
  TlsResults <- OkOrUntrusted
  Unmounts = FALSE
  MaxRotations = 1
  MaxTls = 2
  MaxFaults = 0
PROPERTY RestartsWhenHealthy

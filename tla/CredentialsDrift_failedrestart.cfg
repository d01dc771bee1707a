SPECIFICATION FairSpec
CONSTANTS
  First <- Lowest
  Namespaces <- TwoNamespaces
  ChartNamespace = 1
  Ids = {11, 12}
  PromptCaches = TRUE
  MaxEdits = 1
  MaxFails = 1
  MaxCrashes = 0
PROPERTY ClusterIdOverridden

SPECIFICATION FairSpec
CONSTANTS
  First <- Lowest
  Namespaces <- ThreeNamespaces
  ChartNamespace = 2
  Ids = {11}
  PromptCaches = TRUE
  MaxEdits = 2
  MaxFails = 1
  MaxCrashes = 0
PROPERTY DefaultNamespaceIsCleared

SPECIFICATION FairSpec
CONSTANTS
  First <- Lowest
  Namespaces <- TwoNamespaces
  ChartNamespace = 1
  Ids = {11, 12}
  PromptCaches = TRUE
  MaxEdits = 1
  MaxFails = 2
  MaxCrashes = 1
PROPERTIES CredentialsInUseStay ReadyMeansConfigured NamespaceTakesOver ClusterIdTakesOver

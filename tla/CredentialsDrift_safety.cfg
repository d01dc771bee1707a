SPECIFICATION Spec
CONSTANTS
  First <- Lowest
  Namespaces <- TwoNamespaces
  ChartNamespace = 1
  Ids = {11}
  PromptCaches = FALSE
  MaxEdits = 2
  MaxFails = 1
  MaxCrashes = 1
INVARIANT TypeOK
PROPERTY CredentialsInUseStay

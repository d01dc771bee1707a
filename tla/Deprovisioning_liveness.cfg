SPECIFICATION FairSpec
CONSTANTS
  sb1 = sb1
  si1 = si1
  ns1 = ns1
  ns2 = ns2
  Bindings <- OneBinding
  Instances <- OneInstance
  Namespaces <- OneNamespace
  FirstNamespaces <- OneNamespace
  HomeOf <- AllInFirst
  Renamed = {}
  Deleters = {d1}
  CredentialsInChartNamespace = TRUE
  MaxCreates = 0
  MaxEdits = 1
  MaxFails = 1
  MaxCrashes = 0
PROPERTIES
  FollowsLifecycle
  SecretsGoWithBindings
  DeletionCompletes
  ModuleRestoredWhileBlocked

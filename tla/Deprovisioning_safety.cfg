SPECIFICATION Spec
CONSTANTS
  sb1 = sb1
  si1 = si1
  ns1 = ns1
  ns2 = ns2
  Bindings <- OneBinding
  Instances <- OneInstance
  Namespaces <- TwoNamespaces
  FirstNamespaces <- OneNamespace
  HomeOf <- InstanceInSecond
  Renamed = {}
  Deleters = {d1}
  CredentialsInChartNamespace = TRUE
  MaxCreates = 1
  MaxEdits = 0
  MaxFails = 0
  MaxCrashes = 1
INVARIANTS
  TypeOK
  BlockedByDefault
  ModuleRemovedOnlyWhenDrained
  BindingsBeforeInstances
PROPERTIES
  CrOutlivesModule

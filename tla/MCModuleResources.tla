------------------------- MODULE MCModuleResources -------------------------
(* Instances of ModuleResources for TLC: the Service stands for the         *)
(* resources without a watch.                                               *)
EXTENDS ModuleResources

OneManifest == <<"service">>
TwoPolicies == <<"dns", "webhook">>
OnePolicy == <<"webhook">>
=============================================================================

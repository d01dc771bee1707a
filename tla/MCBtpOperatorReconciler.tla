---------------------- MODULE MCBtpOperatorReconciler ----------------------
(* Constants of the reconciler's runs.                                     *)
EXTENDS BtpOperatorReconciler

\* Two of the reasons Provision fails with; every one of them leads to Error.
TwoFailures == {"ProvisioningFailed", "ResourceRemovalFailed"}
=============================================================================

--------------------------- MODULE MCProbeRunner ---------------------------
(* Instances of ProbeRunner for TLC.                                        *)
EXTENDS ProbeRunner

MCPods == {"p1", "p2"}
OnePod == {"p1"}
AlwaysOk == {"ok"}
OkOrUntrusted == {"ok", "x509"}
AllResults == {"ok", "x509", "other"}
=============================================================================

--------------------------- MODULE MCSisbManager ---------------------------
(* Instances of SisbManager for TLC.                                        *)
EXTENDS SisbManager
=============================================================================

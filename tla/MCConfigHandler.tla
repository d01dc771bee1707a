-------------------------- MODULE MCConfigHandler --------------------------
(* Instances of ConfigHandler for TLC.                                      *)
EXTENDS ConfigHandler

Content(c, l, t, p) ==
  [k \in Keys |-> CASE k = "ConfigName" -> c [] k = "EnableLimitedCache" -> l
                    [] k = "ReadyTimeout" -> t [] k = "ProbeInterval" -> p]

\* Settings that change, with one that does not parse and one that is left
\* out; one content disables the probe.
Plain == {Content("unset", "custom", "custom", "0"),
          Content("unset", "default", "bad", "unset")}
Probe == {Content("unset", "unset", "unset", "custom"), Content("unset", "unset", "unset", "0")}
=============================================================================

-------------------------- MODULE MCDeprovisioning --------------------------
(* Instances of Deprovisioning for TLC.                                     *)
EXTENDS Deprovisioning

CONSTANTS sb1, si1, ns1, ns2

OneBinding == {sb1}
OneInstance == {si1}
OneNamespace == {ns1}
TwoNamespaces == {ns1, ns2}
AllInFirst == [o \in {sb1, si1} |-> ns1]
InstanceInSecond == [o \in {sb1, si1} |-> IF o = si1 THEN ns2 ELSE ns1]
=============================================================================

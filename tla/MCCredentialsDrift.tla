------------------------- MODULE MCCredentialsDrift -------------------------
(* Instances of CredentialsDrift for TLC: the namespace names in order.     *)
EXTENDS CredentialsDrift

Lowest(S) == CHOOSE n \in S : \A o \in S : n <= o
TwoNamespaces == {1, 2}
ThreeNamespaces == {1, 2, 3}
=============================================================================

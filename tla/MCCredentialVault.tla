------------------------ MODULE MCCredentialVault ------------------------
EXTENDS CredentialVault, TLC
CONSTANTS p1, p2, s1, r1, u1, n1
Two == (s1 :> p1) @@ (r1 :> p1) @@ (u1 :> p2)
==========================================================================

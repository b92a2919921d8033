--------------------------- MODULE MCOIDCGrants ----------------------------
(* Instances of OIDCGrants for TLC. *)
EXTENDS OIDCGrants, TLC

CONSTANTS c1, c2, x1, v1, k1, s1, s2, s3, p1, p2

TwoClients == {c1, c2}
OneClient == {c1}
OneURI == {x1}
OneVerifier == {v1}
OneCode == {k1}
ThreeSessions == {s1, s2, s3}
TwoProcs == {p1, p2}

Symmetry == Permutations(ThreeSessions) \cup Permutations(TwoProcs)
=============================================================================

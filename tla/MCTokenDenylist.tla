-------------------------- MODULE MCTokenDenylist --------------------------
(* Instances of TokenDenylist for TLC. *)
EXTENDS TokenDenylist, TLC

CONSTANTS c1, c2, j1, j2, p1, p2

TwoClients == {c1, c2}
TwoTokens == {j1, j2}
TwoProcs == {p1, p2}

Symmetry == Permutations(TwoClients) \cup Permutations(TwoTokens) \cup Permutations(TwoProcs)
=============================================================================

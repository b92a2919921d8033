----------------------------- MODULE MCLoginMFA -----------------------------
(* An instance of LoginMFA for TLC. *)
EXTENDS LoginMFA, TLC

CONSTANTS u1, c1, c2, p1, p2

OneUser == {u1}
TwoChallenges == {c1, c2}
TwoProcs == {p1, p2}

Symmetry == Permutations(TwoChallenges) \cup Permutations(TwoProcs)
=============================================================================

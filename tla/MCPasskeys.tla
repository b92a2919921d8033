----------------------------- MODULE MCPasskeys -----------------------------
(* An instance of Passkeys for TLC. *)
EXTENDS Passkeys, TLC

CONSTANTS u1, u2, k1, x1, x2, p1, p2

TwoUsers == {u1, u2}
OneKey == {k1}
TwoCeremonies == {x1, x2}
TwoProcs == {p1, p2}

Symmetry == Permutations(TwoUsers) \cup Permutations(TwoCeremonies) \cup Permutations(TwoProcs)
=============================================================================

----------------------------- MODULE MCLockouts ----------------------------
(* Instances of Lockouts for TLC. *)
EXTENDS Lockouts, TLC

CONSTANTS a1, i1, p1, p2

OneAccount == {a1}
OneIP == {i1}
TwoProcs == {p1, p2}

\* Three-bit durations: the third doubling of 1 is -4, the fourth 0.
ShortUser == [threshold |-> 1, base |-> 1, max |-> 2, window |-> 2]
ShortIP == [threshold |-> 2, base |-> 1, max |-> 2, window |-> 2]
=============================================================================

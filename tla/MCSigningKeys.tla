--------------------------- MODULE MCSigningKeys ---------------------------
(* Instances of SigningKeys for TLC. *)
EXTENDS SigningKeys

CONSTANTS r1, r2

TwoReplicas == {r1, r2}
=============================================================================

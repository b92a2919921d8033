--------------------------- MODULE MCCredentials ---------------------------
(* Instances of Credentials for TLC. *)
EXTENDS Credentials, TLC

CONSTANTS u1, u2, g1, g2, w1, w2, r1, r2, t1, t2, p1, p2

OneUser == {u1}
TwoUsers == {u1, u2}
OneGroup == {g1}
TwoGroups == {g1, g2}
TwoPasswords == {w1, w2}
OnePassword == {w1}
OneReplica == {r1}
TwoReplicas == {r1, r2}
OneToken == {t1}
NoTokens == {}
TwoProcs == {p1, p2}
\* The values the sequence may hand out in a run.
ThreeRIDs == FirstRID + 3
FourRIDs == FirstRID + 4
=============================================================================

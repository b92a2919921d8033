---------------------------- MODULE MCHotReload -----------------------------
(* An instance of HotReload for TLC: a file of groups and a file of users,   *)
(* whose users may be members of the declared group.                         *)
EXTENDS HotReload, TLC

CONSTANTS plain, group, e1

TwoContents == {plain, group}
OneEditor == {e1}

\* CheckReferences: the group that users are members of must be declared.
References(t) == t[2] = group => t[1] = group
=============================================================================

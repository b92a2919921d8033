------------------------------- MODULE Clock -------------------------------
(***************************************************************************)
(* The one clock of the tokens: it dates and retires the keys that sign    *)
(* them (SigningKeys), ends their lifetime and that of the rows that deny  *)
(* them (TokenDenylist), in Postgres and on every replica.                 *)
(***************************************************************************)
EXTENDS Naturals

CONSTANT MaxTime  \* bound: the last instant of a behaviour
VARIABLE now
=============================================================================

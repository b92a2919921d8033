--------------------------- MODULE PasswordRecord ---------------------------
(***************************************************************************)
(* What the credential store promises to its two readers.                  *)
(*                                                                         *)
(* A web or LDAP login verifies the password against an Argon2id hash: the *)
(* declared one if the replica's snapshot has one, or the stored one.  A   *)
(* Samba server verifies it against the NT hash exported over LDAP.  The   *)
(* promise is that an account without a declared hash has one password,    *)
(* and that what Samba knows is that password or nothing yet (an account   *)
(* whose row predates the NT hash column).                                 *)
(*                                                                         *)
(* Nothing is promised of an account with a declared hash: Samba keeps     *)
(* accepting what it accepted, and a reset that was under way may still    *)
(* change it.                                                              *)
(***************************************************************************)
CONSTANTS Users, Replicas, Passwords, None

VARIABLES
    declared,   \* the password of the hash each replica declares, None if it does not
    stored,     \* the password of the stored hash, None before the first
    samba       \* the password Samba accepts, None while it has no NT hash

vars == <<declared, stored, samba>>

\* The password a login at replica r must present.
Current(r, u) == IF declared[r][u] # None THEN declared[r][u] ELSE stored[u]

Init ==
    /\ declared = [r \in Replicas |-> [u \in Users |-> None]]
    /\ stored \in [Users -> Passwords \cup {None}]
    /\ samba = [u \in Users |-> None]

\* A password change takes effect for both readers in one step.
SetPassword(u, pw) ==
    /\ stored' = [stored EXCEPT ![u] = pw]
    /\ samba' = [samba EXCEPT ![u] = pw]
    /\ UNCHANGED declared

\* Samba learns the password of an account it knew nothing of; what it learns
\* is the password that is stored at that moment.
Learn(u) ==
    /\ stored[u] # None
    /\ samba[u] = None
    /\ samba' = [samba EXCEPT ![u] = stored[u]]
    /\ UNCHANGED <<declared, stored>>

\* A reload declares a hash, or no hash any more, on one replica.
Declare(r, u, pw) ==
    /\ declared' = [declared EXCEPT ![r][u] = pw]
    /\ UNCHANGED <<stored, samba>>

Next ==
    \E u \in Users :
        \/ \E pw \in Passwords : SetPassword(u, pw)
        \/ Learn(u)
        \/ \E r \in Replicas, pw \in Passwords \cup {None} : Declare(r, u, pw)

Spec == Init /\ [][Next]_vars

\* It follows that where no hash is declared, what Samba accepts is what a login
\* must present.
Agreement ==
    \A r \in Replicas, u \in Users :
        declared[r][u] = None /\ samba[u] # None => samba[u] = Current(r, u)
=============================================================================

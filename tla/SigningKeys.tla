---------------------------- MODULE SigningKeys ----------------------------
(***************************************************************************)
(* The JWT signing keys: the shared oidc_signing_keys table, each          *)
(* replica's in-memory KeyStore, and the maintenance tick that rotates the *)
(* one and refreshes the other.                                            *)
(*                                                                         *)
(* RotateIfDue is a READ COMMITTED transaction.  Its SELECT ... FOR UPDATE *)
(* works on the snapshot taken when the statement starts: a replica that   *)
(* waited for the row lock re-evaluates `is_current = true` on the row it  *)
(* waited for, and does not see a row inserted meanwhile.                  *)
(*                                                                         *)
(* One clock serves Postgres and the replicas.                             *)
(***************************************************************************)
EXTENDS Clock

CONSTANTS
    Replicas,
    None,       \* no key, no replica
    Interval,   \* KeyRotationInterval
    Overlap,    \* KeyOverlap
    TokenTTL,   \* lifetime of an access or ID token
    Stale,      \* the longest a replica goes without a successful Refresh
    MaxKeys     \* bound: keys generated in a behaviour

VARIABLES
    keys,       \* oidc_signing_keys
    lock,       \* the replica whose transaction locks the current key's row
    rep,        \* each replica's transaction and cache
    usedUntil   \* history: when the last token a key signed expires

vars == <<now, keys, lock, rep, usedUntil>>

ASSUME TimingAssumption ==
    /\ None \notin Replicas /\ None \notin Nat
    /\ {Interval, Overlap, TokenTTL, Stale, MaxKeys, MaxTime} \subseteq Nat
    \* A retired key is overlapped long enough for the slowest replica to stop
    \* signing with it and for what it signed last to expire.
    /\ Overlap >= 2 * Stale + TokenTTL

Kids == 1..MaxKeys
Key == [state : {"none", "current", "retired"}, created : Nat, retireAt : Nat]
NoKey == [state |-> "none", created |-> 0, retireAt |-> 0]

Replica ==
    [pc : {"off", "idle", "blocked", "insert", "refresh"},
     seen : Kids \cup {None},        \* the current key the transaction found
     at : Nat,                       \* now() in the open transaction
     serving : BOOLEAN,              \* NewKeyStore has returned
     current : Kids \cup {None}, active : SUBSET Kids, last : Nat]
Off == [pc |-> "off", seen |-> None, at |-> 0, serving |-> FALSE,
        current |-> None, active |-> {}, last |-> 0]

TypeOK ==
    /\ now \in Nat
    /\ keys \in [Kids -> Key]
    /\ lock \in Replicas \cup {None}
    /\ rep \in [Replicas -> Replica]
    /\ usedUntil \in [Kids -> Nat]

Init ==
    /\ now = 0
    /\ keys = [k \in Kids |-> NoKey]
    /\ lock = None
    /\ rep = [r \in Replicas |-> Off]
    /\ usedUntil = [k \in Kids |-> 0]

-----------------------------------------------------------------------------

IsCurrent(k) == keys[k].state = "current"

\* Active: the current signer and every key still in its overlap window.
Active == {k \in Kids : IsCurrent(k) \/ (keys[k].state = "retired" /\ keys[k].retireAt > now)}

\* Where a replica's maintenance loop rests: a replica that has not finished
\* NewKeyStore does not run at all.
Rest(r) == IF rep[r].serving THEN "idle" ELSE "off"

Due(k) == now >= keys[k].created + Interval

\* The row of key k is locked by a transaction begun at t: either the key is
\* young and the transaction rolls back, or it is due and keeps the lock.
Found(r, k, t) ==
    \/ /\ ~Due(k)
       /\ rep' = [rep EXCEPT ![r].pc = "refresh", ![r].seen = None, ![r].at = 0]
       /\ UNCHANGED lock
    \/ /\ Due(k)
       /\ rep' = [rep EXCEPT ![r].pc = "insert", ![r].seen = k, ![r].at = t]
       /\ lock' = r

\* BEGIN and SELECT ... FOR UPDATE, from the ticker or from NewKeyStore.
RotateSelect(r) ==
    /\ rep[r].pc = Rest(r)
    /\ \/ /\ \A k \in Kids : ~IsCurrent(k)
          /\ rep' = [rep EXCEPT ![r].pc = "insert", ![r].at = now]
          /\ UNCHANGED lock
       \/ \E k \in Kids :
             /\ IsCurrent(k)
             /\ \/ /\ lock # None
                   /\ rep' = [rep EXCEPT ![r].pc = "blocked", ![r].seen = k, ![r].at = now]
                   /\ UNCHANGED lock
                \/ /\ lock = None
                   /\ Found(r, k, now)
    /\ UNCHANGED <<now, keys, usedUntil>>

\* The lock is released.  A row that is no longer current does not qualify any
\* more, and the SELECT returns no row.
RotateUnblock(r) ==
    /\ rep[r].pc = "blocked"
    /\ lock = None
    /\ \/ /\ IsCurrent(rep[r].seen)
          /\ Found(r, rep[r].seen, rep[r].at)
       \/ /\ ~IsCurrent(rep[r].seen)
          /\ rep' = [rep EXCEPT ![r].pc = "insert", ![r].seen = None]
          /\ UNCHANGED lock
    /\ UNCHANGED <<now, keys, usedUntil>>

\* Wrong variant: no unique index.
IndexAllows_NoIndex(r) == TRUE

\* The unique index lets a second current key in only after the first has been
\* retired by the same transaction.
IndexAllows(r) == \A k \in Kids : IsCurrent(k) => k = rep[r].seen

\* Wrong variant: retire_at is left NULL.
RotateInsert_NoRetireAt(r) ==
    /\ rep[r].pc = "insert"
    /\ lock' = IF lock = r THEN None ELSE lock
    /\ \/ /\ IndexAllows(r)
          /\ \E new \in Kids :
                /\ keys[new] = NoKey
                /\ \A k \in Kids : k < new => keys[k] # NoKey
                /\ keys' = [k \in Kids |->
                     IF k = new
                     THEN [state |-> "current", created |-> rep[r].at, retireAt |-> 0]
                     ELSE IF k = rep[r].seen
                     THEN [keys[k] EXCEPT !.state = "retired", !.retireAt = None]
                     ELSE keys[k]]
          /\ rep' = [rep EXCEPT ![r].pc = "refresh", ![r].seen = None, ![r].at = 0]
       \/ /\ ~IndexAllows(r)
          /\ rep' = [rep EXCEPT ![r].pc = Rest(r), ![r].seen = None, ![r].at = 0]
          /\ UNCHANGED keys
    /\ UNCHANGED <<now, usedUntil>>

\* genKey, UPDATE, INSERT and COMMIT, or the unique violation that rolls the
\* transaction back; the error skips the Refresh and, at startup, ends the
\* process.
RotateInsert(r) ==
    /\ rep[r].pc = "insert"
    /\ lock' = IF lock = r THEN None ELSE lock
    /\ \/ /\ IndexAllows(r)
          /\ \E new \in Kids :
                /\ keys[new] = NoKey
                /\ \A k \in Kids : k < new => keys[k] # NoKey
                /\ keys' = [k \in Kids |->
                     IF k = new
                     THEN [state |-> "current", created |-> rep[r].at, retireAt |-> 0]
                     ELSE IF k = rep[r].seen
                     THEN [keys[k] EXCEPT !.state = "retired", !.retireAt = rep[r].at + Overlap]
                     ELSE keys[k]]
          /\ rep' = [rep EXCEPT ![r].pc = "refresh", ![r].seen = None, ![r].at = 0]
       \/ /\ ~IndexAllows(r)
          /\ rep' = [rep EXCEPT ![r].pc = Rest(r), ![r].seen = None, ![r].at = 0]
          /\ UNCHANGED keys
    /\ UNCHANGED <<now, usedUntil>>

\* Wrong variant: a signer that is still active is kept.
Refresh_KeepsSigner(r) ==
    /\ rep[r].pc = "refresh"
    /\ rep' = [rep EXCEPT ![r].pc = "idle", ![r].serving = TRUE, ![r].active = Active,
                 ![r].current = IF @ \in Active THEN @
                                ELSE IF \E k \in Kids : IsCurrent(k)
                                THEN CHOOSE k \in Kids : IsCurrent(k) ELSE None,
                 ![r].last = now]
    /\ UNCHANGED <<now, keys, lock, usedUntil>>

\* Refresh replaces the cache by the active keys.
Refresh(r) ==
    /\ rep[r].pc = "refresh"
    /\ rep' = [rep EXCEPT ![r].pc = "idle", ![r].serving = TRUE, ![r].active = Active,
                 ![r].current = IF \E k \in Kids : IsCurrent(k)
                                THEN CHOOSE k \in Kids : IsCurrent(k) ELSE None,
                 ![r].last = now]
    /\ UNCHANGED <<now, keys, lock, usedUntil>>

\* Wrong variant: the error is dropped and the cache refreshed all the same.
Fail_Ignored(r) ==
    /\ rep[r].pc \in {"blocked", "insert", "refresh"}
    /\ rep' = [rep EXCEPT ![r].pc = "refresh", ![r].seen = None, ![r].at = 0]
    /\ lock' = IF lock = r THEN None ELSE lock
    /\ UNCHANGED <<now, keys, usedUntil>>

\* A database error ends the tick; the transaction rolls back.
Fail(r) ==
    /\ rep[r].pc \in {"blocked", "insert", "refresh"}
    /\ rep' = [rep EXCEPT ![r].pc = Rest(r), ![r].seen = None, ![r].at = 0]
    /\ lock' = IF lock = r THEN None ELSE lock
    /\ UNCHANGED <<now, keys, usedUntil>>

\* The process ends: its cache is gone, Postgres releases its locks.
Crash(r) ==
    /\ rep[r].pc # "off"
    /\ rep' = [rep EXCEPT ![r] = Off]
    /\ lock' = IF lock = r THEN None ELSE lock
    /\ UNCHANGED <<now, keys, usedUntil>>

\* sign: a token is signed with the cached current key.
Sign(r) ==
    LET k == rep[r].current IN
    /\ rep[r].serving
    /\ k # None
    /\ usedUntil' = [usedUntil EXCEPT ![k] = now + TokenTTL]
    /\ UNCHANGED <<now, keys, lock, rep>>

\* Time passes, but not so much that a serving replica goes without a Refresh
\* for longer than Stale, or that a transaction stays open for longer.
Tick ==
    /\ now < MaxTime
    /\ \A r \in Replicas :
          /\ rep[r].serving => now < rep[r].last + Stale
          /\ rep[r].pc \in {"blocked", "insert"} => now < rep[r].at + Stale
    /\ now' = now + 1
    /\ UNCHANGED <<keys, lock, rep, usedUntil>>

Maintain(r) == RotateSelect(r) \/ RotateUnblock(r) \/ RotateInsert(r) \/ Refresh(r)

Next ==
    \/ \E r \in Replicas : Maintain(r) \/ Fail(r) \/ Crash(r) \/ Sign(r)
    \/ Tick

Spec == Init /\ [][Next]_vars

\* The ticker fires forever on every replica, and the database does not fail
\* each of its transactions: a step that is possible again and again is taken.
Fairness ==
    \A r \in Replicas :
        /\ WF_vars(RotateSelect(r))
        /\ SF_vars(RotateUnblock(r))
        /\ SF_vars(RotateInsert(r))
        /\ SF_vars(Refresh(r))

FairSpec == Spec /\ Fairness

-----------------------------------------------------------------------------
(* Properties.                                                             *)

\* Wrong variant: the cache alone.
Lookup_CacheOnly(r, k) == k \in rep[r].active

\* KeyStore.Lookup: the cache, then the table.
Lookup(r, k) ==
    \/ k \in rep[r].active
    \/ /\ keys[k].state # "none"
       /\ keys[k].state = "retired" => now <= keys[k].retireAt

\* Rotation, in whatever order the replicas' transactions run, leaves exactly
\* one signer: never two, and never none once there has been one.
ExactlyOneSigner ==
    (\E k \in Kids : keys[k] # NoKey) =>
        \E k \in Kids : IsCurrent(k) /\ \A j \in Kids \ {k} : ~IsCurrent(j)

\* A token that has not expired is verified by every replica, whichever replica
\* signed it and however far that replica's cache lagged behind the rotation.
TokensVerifyEverywhere ==
    \A r \in Replicas, k \in Kids :
        rep[r].serving /\ now < usedUntil[k] => Lookup(r, k)

\* A serving replica always has a key to sign with.
ServingReplicaCanSign == \A r \in Replicas : rep[r].serving => rep[r].current # None

\* No replica signs with a retired key forever: its cache catches up with the
\* rotation another replica made, or the process ends.
RetiredSignerIsDropped ==
    \A r \in Replicas, k \in Kids :
        rep[r].current = k /\ keys[k].state = "retired" ~> rep[r].current # k
=============================================================================

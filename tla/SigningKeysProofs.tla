------------------------- MODULE SigningKeysProofs -------------------------
(***************************************************************************)
(* Proofs about modules SigningKeys and TokenDenylist, for every number of *)
(* replicas, keys, tokens, clients and handlers, and all durations that    *)
(* satisfy TimingAssumption.                                               *)
(***************************************************************************)
EXTENDS SigningKeys, TokenDenylist, TLAPS

\* A transaction that waits knows the key whose row it waits for; outside a
\* transaction no key is remembered.
SeenOK ==
    \A r \in Replicas :
        /\ rep[r].pc = "blocked" => rep[r].seen \in Kids
        /\ rep[r].pc \notin {"blocked", "insert"} => rep[r].seen = None

Typed == TypeOK /\ SeenOK

LEMMA InitTyped == Init => Typed
BY TimingAssumption DEF Init, Typed, TypeOK, SeenOK, Key, NoKey, Replica, Off, Kids

\* What a step of replica r does to a well-typed rep, field by field.
LEMMA FoundFields ==
    ASSUME Typed, NEW r \in Replicas, NEW k \in Kids, NEW t \in Nat, Found(r, k, t)
    PROVE  /\ rep'[r] \in Replica
           /\ rep' \in [Replicas -> Replica] /\ lock' \in Replicas \cup {None}
           /\ \A q \in Replicas \ {r} : rep'[q] = rep[q]
           /\ rep'[r].serving = rep[r].serving /\ rep'[r].current = rep[r].current
           /\ rep'[r].last = rep[r].last
           /\ \/ rep'[r].pc = "refresh" /\ rep'[r].seen = None /\ lock' = lock
              \/ rep'[r].pc = "insert" /\ rep'[r].seen = k /\ rep'[r].at = t /\ lock' = r
BY DEF Typed, TypeOK, Found, Replica

LEMMA SelectFields ==
    ASSUME Typed, NEW r \in Replicas, RotateSelect(r)
    PROVE  /\ rep' \in [Replicas -> Replica] /\ lock' \in Replicas \cup {None}
           /\ \A q \in Replicas \ {r} : rep'[q] = rep[q]
           /\ rep'[r].serving = rep[r].serving /\ rep'[r].current = rep[r].current
           /\ rep'[r].last = rep[r].last
           /\ \/ rep'[r].pc = "insert" /\ rep'[r].seen = None /\ rep'[r].at = now /\ lock' = lock
              \/ rep'[r].pc = "blocked" /\ rep'[r].seen \in Kids /\ rep'[r].at = now /\ lock' = lock
              \/ \E k \in Kids :
                    /\ IsCurrent(k)
                    /\ \/ rep'[r].pc = "refresh" /\ rep'[r].seen = None /\ lock' = lock
                       \/ /\ rep'[r].pc = "insert" /\ rep'[r].seen = k /\ rep'[r].at = now
                          /\ lock = None /\ lock' = r
<1>1. now \in Nat /\ rep \in [Replicas -> Replica] /\ rep[r] \in Replica /\ rep[r].seen = None
  BY DEF Typed, TypeOK, SeenOK, RotateSelect, Rest
<1>2. CASE /\ \A k \in Kids : ~IsCurrent(k)
           /\ rep' = [rep EXCEPT ![r].pc = "insert", ![r].at = now]
           /\ UNCHANGED lock
  BY <1>1, <1>2 DEF Typed, TypeOK, Replica
<1>3. ASSUME NEW k \in Kids, IsCurrent(k), UNCHANGED lock,
             rep' = [rep EXCEPT ![r].pc = "blocked", ![r].seen = k, ![r].at = now]
      PROVE  /\ rep' \in [Replicas -> Replica] /\ lock' \in Replicas \cup {None}
             /\ \A q \in Replicas \ {r} : rep'[q] = rep[q]
             /\ rep'[r].serving = rep[r].serving /\ rep'[r].current = rep[r].current
             /\ rep'[r].last = rep[r].last
             /\ rep'[r].pc = "blocked" /\ rep'[r].seen \in Kids /\ rep'[r].at = now
  BY <1>1, <1>3 DEF Typed, TypeOK, Replica
<1>4. ASSUME NEW k \in Kids, IsCurrent(k), lock = None, Found(r, k, now)
      PROVE  /\ rep' \in [Replicas -> Replica] /\ lock' \in Replicas \cup {None}
             /\ \A q \in Replicas \ {r} : rep'[q] = rep[q]
             /\ rep'[r].serving = rep[r].serving /\ rep'[r].current = rep[r].current
             /\ rep'[r].last = rep[r].last
             /\ \/ rep'[r].pc = "refresh" /\ rep'[r].seen = None /\ lock' = lock
                \/ /\ rep'[r].pc = "insert" /\ rep'[r].seen = k /\ rep'[r].at = now
                   /\ lock' = r
  BY <1>1, <1>4, FoundFields
<1> QED BY <1>2, <1>3, <1>4 DEF RotateSelect

LEMMA UnblockFields ==
    ASSUME Typed, NEW r \in Replicas, RotateUnblock(r)
    PROVE  /\ rep' \in [Replicas -> Replica] /\ lock' \in Replicas \cup {None}
           /\ \A q \in Replicas \ {r} : rep'[q] = rep[q]
           /\ rep'[r].serving = rep[r].serving /\ rep'[r].current = rep[r].current
           /\ rep'[r].last = rep[r].last
           /\ rep[r].seen \in Kids /\ lock = None
           /\ \/ rep'[r].pc = "insert" /\ rep'[r].seen = None /\ rep'[r].at = rep[r].at /\ lock' = lock
              \/ /\ IsCurrent(rep[r].seen)
                 /\ \/ rep'[r].pc = "refresh" /\ rep'[r].seen = None /\ lock' = lock
                    \/ /\ rep'[r].pc = "insert" /\ rep'[r].seen = rep[r].seen /\ rep'[r].at = rep[r].at
                       /\ lock' = r
<1>1. rep \in [Replicas -> Replica] /\ rep[r] \in Replica /\ rep[r].seen \in Kids /\ rep[r].at \in Nat
  BY DEF Typed, TypeOK, SeenOK, RotateUnblock, Replica
<1>2. CASE IsCurrent(rep[r].seen) /\ Found(r, rep[r].seen, rep[r].at)
  BY <1>1, <1>2, FoundFields DEF RotateUnblock
<1>3. CASE rep' = [rep EXCEPT ![r].pc = "insert", ![r].seen = None] /\ UNCHANGED lock
  BY <1>1, <1>3 DEF Typed, TypeOK, Replica, RotateUnblock
<1> QED BY <1>2, <1>3 DEF RotateUnblock

LEMMA InsertFields ==
    ASSUME Typed, NEW r \in Replicas, RotateInsert(r)
    PROVE  /\ rep' \in [Replicas -> Replica] /\ keys' \in [Kids -> Key] /\ lock' \in Replicas \cup {None}
           /\ \A q \in Replicas \ {r} : rep'[q] = rep[q]
           /\ rep'[r].serving = rep[r].serving /\ rep'[r].current = rep[r].current
           /\ rep'[r].last = rep[r].last /\ rep'[r].seen = None
           /\ lock' = IF lock = r THEN None ELSE lock
           /\ \/ rep'[r].pc \in {"off", "idle"} /\ keys' = keys
              \/ /\ rep'[r].pc = "refresh" /\ IndexAllows(r)
                 /\ \E new \in Kids :
                       /\ keys[new] = NoKey
                       /\ keys'[new].state = "current"
                       /\ \A k \in Kids \ {new} :
                             IF k = rep[r].seen
                             THEN keys'[k].state = "retired" /\ keys'[k].retireAt = rep[r].at + Overlap
                             ELSE keys'[k] = keys[k]
<1>1. /\ rep \in [Replicas -> Replica] /\ rep[r] \in Replica /\ keys \in [Kids -> Key]
      /\ lock \in Replicas \cup {None} /\ rep[r].at \in Nat /\ Overlap \in Nat
  BY TimingAssumption DEF Typed, TypeOK, Replica
<1>2. lock' = (IF lock = r THEN None ELSE lock) /\ lock' \in Replicas \cup {None}
  BY <1>1 DEF RotateInsert
<1>3. CASE /\ ~IndexAllows(r)
           /\ rep' = [rep EXCEPT ![r].pc = Rest(r), ![r].seen = None, ![r].at = 0]
           /\ UNCHANGED keys
  BY <1>1, <1>2, <1>3 DEF Replica, Rest
<1>4. ASSUME IndexAllows(r), NEW new \in Kids, keys[new] = NoKey,
             keys' = [k \in Kids |->
                     IF k = new
                     THEN [state |-> "current", created |-> rep[r].at, retireAt |-> 0]
                     ELSE IF k = rep[r].seen
                     THEN [keys[k] EXCEPT !.state = "retired", !.retireAt = rep[r].at + Overlap]
                     ELSE keys[k]],
             rep' = [rep EXCEPT ![r].pc = "refresh", ![r].seen = None, ![r].at = 0]
      PROVE  /\ rep' \in [Replicas -> Replica] /\ keys' \in [Kids -> Key]
             /\ \A q \in Replicas \ {r} : rep'[q] = rep[q]
             /\ rep'[r].serving = rep[r].serving /\ rep'[r].current = rep[r].current
             /\ rep'[r].last = rep[r].last /\ rep'[r].seen = None
             /\ rep'[r].pc = "refresh"
             /\ keys'[new].state = "current"
             /\ \A k \in Kids \ {new} :
                   IF k = rep[r].seen
                   THEN keys'[k].state = "retired" /\ keys'[k].retireAt = rep[r].at + Overlap
                   ELSE keys'[k] = keys[k]
  <2>1. /\ rep' \in [Replicas -> Replica]
        /\ \A q \in Replicas \ {r} : rep'[q] = rep[q]
        /\ rep'[r].serving = rep[r].serving /\ rep'[r].current = rep[r].current
        /\ rep'[r].last = rep[r].last /\ rep'[r].seen = None /\ rep'[r].pc = "refresh"
    BY <1>1, <1>4 DEF Replica
  <2>2. ASSUME NEW k \in Kids, k # new, k = rep[r].seen
        PROVE  keys'[k] \in Key /\ keys'[k].state = "retired" /\ keys'[k].retireAt = rep[r].at + Overlap
    <3>1. keys'[k] = [keys[k] EXCEPT !.state = "retired", !.retireAt = rep[r].at + Overlap]
      BY <1>4, <2>2
    <3>2. keys[k] \in Key /\ rep[r].at + Overlap \in Nat
      BY <1>1
    <3> QED BY <3>1, <3>2 DEF Key
  <2>3. [state |-> "current", created |-> rep[r].at, retireAt |-> 0] \in Key
    BY <1>1 DEF Key
  <2>4. keys' \in [Kids -> Key]
    <3>1. \A k \in Kids : keys'[k] \in Key
      BY <1>1, <1>4, <2>2, <2>3
    <3> QED BY <1>4, <3>1
  <2>5. keys'[new].state = "current"
    BY <1>4
  <2>6. \A k \in Kids \ {new} :
                   IF k = rep[r].seen
                   THEN keys'[k].state = "retired" /\ keys'[k].retireAt = rep[r].at + Overlap
                   ELSE keys'[k] = keys[k]
    BY <1>4, <2>2
  <2> QED BY <2>1, <2>4, <2>5, <2>6
<1> QED BY <1>2, <1>3, <1>4 DEF RotateInsert

LEMMA RefreshFields ==
    ASSUME Typed, NEW r \in Replicas, Refresh(r)
    PROVE  /\ rep' \in [Replicas -> Replica]
           /\ \A q \in Replicas \ {r} : rep'[q] = rep[q]
           /\ rep'[r].pc = "idle" /\ rep'[r].seen = None /\ rep'[r].last = now
           /\ (\E k \in Kids : IsCurrent(k)) => rep'[r].current \in Kids /\ IsCurrent(rep'[r].current)
           /\ ~(\E k \in Kids : IsCurrent(k)) => rep'[r].current = None
<1>1. /\ rep \in [Replicas -> Replica] /\ rep[r] \in Replica /\ rep[r].seen = None /\ now \in Nat
  BY DEF Typed, TypeOK, SeenOK, Refresh
<1>2. Active \in SUBSET Kids
  BY DEF Active
<1>3. PICK c \in Kids \cup {None} :
        /\ (\E k \in Kids : IsCurrent(k)) => c \in Kids /\ IsCurrent(c)
        /\ ~(\E k \in Kids : IsCurrent(k)) => c = None
        /\ rep' = [rep EXCEPT ![r].pc = "idle", ![r].serving = TRUE, ![r].active = Active,
                      ![r].current = c, ![r].last = now]
  BY DEF Refresh
<1> QED BY <1>1, <1>2, <1>3 DEF Replica

\* A tick that fails, and a process that ends.
LEMMA FailFields ==
    ASSUME Typed, NEW r \in Replicas, Fail(r) \/ Crash(r)
    PROVE  /\ rep' \in [Replicas -> Replica] /\ lock' \in Replicas \cup {None}
           /\ \A q \in Replicas \ {r} : rep'[q] = rep[q]
           /\ rep'[r].pc \in {"off", "idle"} /\ rep'[r].seen = None
           /\ rep'[r].serving => /\ rep[r].serving
                                 /\ rep'[r].current = rep[r].current /\ rep'[r].last = rep[r].last
           /\ lock' = IF lock = r THEN None ELSE lock
           /\ UNCHANGED <<now, keys, usedUntil>>
<1>1. /\ rep \in [Replicas -> Replica] /\ rep[r] \in Replica /\ lock \in Replicas \cup {None}
  BY DEF Typed, TypeOK
<1>2. CASE Fail(r)
  BY <1>1, <1>2 DEF Fail, Rest, Replica
<1>3. CASE Crash(r)
  <2>1. Off \in Replica
    BY DEF Off, Replica
  <2> QED BY <1>1, <1>3, <2>1 DEF Crash, Off
<1> QED BY <1>2, <1>3

LEMMA NextTyped == Typed /\ [Next]_vars => Typed'
<1> SUFFICES ASSUME Typed, [Next]_vars PROVE Typed'
  OBVIOUS
<1> USE DEF Typed
<1>1. ASSUME NEW r \in Replicas, RotateSelect(r) PROVE Typed'
  <2>1. /\ rep' \in [Replicas -> Replica] /\ lock' \in Replicas \cup {None}
        /\ \A q \in Replicas \ {r} : rep'[q] = rep[q]
        /\ rep'[r].pc = "blocked" => rep'[r].seen \in Kids
        /\ rep'[r].pc \notin {"blocked", "insert"} => rep'[r].seen = None
    BY <1>1, SelectFields
  <2>2. UNCHANGED <<now, keys, usedUntil>>
    BY <1>1, SelectFields DEF RotateSelect
  <2>3. TypeOK'
    BY <2>1, <2>2 DEF TypeOK
  <2> QED BY <2>1, <2>3 DEF SeenOK
<1>2. ASSUME NEW r \in Replicas, RotateUnblock(r) PROVE Typed'
  <2>1. /\ rep' \in [Replicas -> Replica] /\ lock' \in Replicas \cup {None}
        /\ \A q \in Replicas \ {r} : rep'[q] = rep[q]
        /\ rep'[r].pc = "blocked" => rep'[r].seen \in Kids
        /\ rep'[r].pc \notin {"blocked", "insert"} => rep'[r].seen = None
    BY <1>2, UnblockFields
  <2>2. UNCHANGED <<now, keys, usedUntil>>
    BY <1>2, UnblockFields DEF RotateUnblock
  <2>3. TypeOK'
    BY <2>1, <2>2 DEF TypeOK
  <2> QED BY <2>1, <2>3 DEF SeenOK
<1>3. ASSUME NEW r \in Replicas, RotateInsert(r) PROVE Typed'
  <2>1. /\ rep' \in [Replicas -> Replica] /\ keys' \in [Kids -> Key] /\ lock' \in Replicas \cup {None}
        /\ \A q \in Replicas \ {r} : rep'[q] = rep[q]
        /\ rep'[r].seen = None /\ rep'[r].pc \in {"off", "idle", "refresh"}
    BY <1>3, InsertFields
  <2>2. TypeOK'
    BY <1>3, <2>1 DEF TypeOK, RotateInsert
  <2> QED BY <2>1, <2>2 DEF SeenOK
<1>4. ASSUME NEW r \in Replicas, Refresh(r) PROVE Typed'
  <2>1. /\ rep' \in [Replicas -> Replica] /\ \A q \in Replicas \ {r} : rep'[q] = rep[q]
        /\ rep'[r].pc = "idle" /\ rep'[r].seen = None
    BY <1>4, RefreshFields
  <2>2. UNCHANGED <<now, keys, lock, usedUntil>>
    BY <1>4 DEF Refresh
  <2>3. TypeOK'
    BY <2>1, <2>2 DEF TypeOK
  <2> QED BY <2>1, <2>3 DEF SeenOK
<1>5. ASSUME NEW r \in Replicas, Fail(r) \/ Crash(r) PROVE Typed'
  <2>1. /\ rep' \in [Replicas -> Replica] /\ lock' \in Replicas \cup {None}
        /\ \A q \in Replicas \ {r} : rep'[q] = rep[q]
        /\ rep'[r].pc = "blocked" => rep'[r].seen \in Kids
        /\ rep'[r].pc \notin {"blocked", "insert"} => rep'[r].seen = None
    BY <1>5, FailFields
  <2>2. UNCHANGED <<now, keys, usedUntil>>
    BY <1>5, FailFields
  <2>3. TypeOK'
    BY <2>1, <2>2 DEF TypeOK
  <2> QED BY <2>1, <2>3 DEF SeenOK
<1>6. ASSUME NEW r \in Replicas, Sign(r) PROVE Typed'
  <2>1. now + TokenTTL \in Nat
    BY TimingAssumption DEF TypeOK
  <2>2. usedUntil' \in [Kids -> Nat]
    BY <1>6, <2>1 DEF TypeOK, Sign
  <2> QED BY <1>6, <2>2 DEF TypeOK, SeenOK, Sign
<1>7. CASE Tick
  BY <1>7 DEF TypeOK, SeenOK, Tick
<1>8. CASE UNCHANGED vars
  BY <1>8 DEF TypeOK, SeenOK, vars
<1> QED BY <1>1, <1>2, <1>3, <1>4, <1>5, <1>6, <1>7, <1>8 DEF Next, Maintain

\* Every variable keeps its type: a retired key always has an instant at which
\* it ends, and a waiting transaction always knows what it waits for.
THEOREM KeysTyped == Spec => []TypeOK
<1>1. Spec => []Typed
  BY InitTyped, NextTyped, PTL DEF Spec
<1> QED BY <1>1, PTL DEF Typed

-----------------------------------------------------------------------------
(* The signer.  The unique index does the work: a transaction may insert a *)
(* current key only if the one it retires is the only one there is.        *)

SomeSigner == \E k \in Kids : IsCurrent(k)

\* A tick reaches Refresh only once there is a key to be found.
SignerInv ==
    /\ Typed
    /\ ExactlyOneSigner
    /\ \A r \in Replicas : rep[r].pc = "refresh" => SomeSigner
    /\ ServingReplicaCanSign

LEMMA SignerInsert ==
    ASSUME SignerInv, NEW r \in Replicas, RotateInsert(r), Typed'
    PROVE  SignerInv'
<1>1. Typed
  BY DEF SignerInv
<1>2. CASE rep'[r].pc \in {"off", "idle"} /\ keys' = keys
  BY <1>1, <1>2, InsertFields
  DEF SignerInv, ExactlyOneSigner, SomeSigner, IsCurrent, ServingReplicaCanSign
<1>3. ASSUME IndexAllows(r), NEW new \in Kids, keys'[new].state = "current",
             \A k \in Kids \ {new} :
                IF k = rep[r].seen THEN keys'[k].state = "retired" ELSE keys'[k] = keys[k]
      PROVE  SignerInv'
  <2>1. \A k \in Kids \ {new} : keys'[k].state # "current"
    BY <1>3 DEF IndexAllows, IsCurrent
  <2>2. ExactlyOneSigner' /\ SomeSigner'
    BY <1>3, <2>1 DEF ExactlyOneSigner, SomeSigner, IsCurrent
  <2>3. ServingReplicaCanSign'
    BY <1>1, InsertFields DEF SignerInv, ServingReplicaCanSign
  <2> QED BY <2>2, <2>3 DEF SignerInv
<1> QED BY <1>1, <1>2, <1>3, InsertFields

LEMMA SignerNext == SignerInv /\ [Next]_vars => SignerInv'
<1> SUFFICES ASSUME SignerInv, [Next]_vars PROVE SignerInv'
  OBVIOUS
<1>1. Typed /\ Typed'
  BY NextTyped DEF SignerInv
<1>2. ASSUME UNCHANGED keys PROVE ExactlyOneSigner' /\ (SomeSigner => SomeSigner')
  BY <1>2 DEF SignerInv, ExactlyOneSigner, SomeSigner, IsCurrent
<1>3. ASSUME NEW r \in Replicas, RotateSelect(r) PROVE SignerInv'
  <2>1. UNCHANGED keys
    BY <1>3 DEF RotateSelect
  <2> QED BY <1>1, <1>2, <1>3, <2>1, SelectFields DEF SignerInv, ServingReplicaCanSign, SomeSigner
<1>4. ASSUME NEW r \in Replicas, RotateUnblock(r) PROVE SignerInv'
  <2>1. UNCHANGED keys
    BY <1>4 DEF RotateUnblock
  <2> QED BY <1>1, <1>2, <1>4, <2>1, UnblockFields DEF SignerInv, ServingReplicaCanSign, SomeSigner
<1>5. ASSUME NEW r \in Replicas, RotateInsert(r) PROVE SignerInv'
  BY <1>1, <1>5, SignerInsert
<1>6. ASSUME NEW r \in Replicas, Refresh(r) PROVE SignerInv'
  <2>1. UNCHANGED keys /\ SomeSigner
    BY <1>6 DEF Refresh, SignerInv
  <2>2. rep'[r].current # None
    BY <1>1, <1>6, <2>1, RefreshFields, TimingAssumption DEF SomeSigner, Kids
  <2> QED BY <1>1, <1>2, <1>6, <2>1, <2>2, RefreshFields DEF SignerInv, ServingReplicaCanSign
<1>7. ASSUME NEW r \in Replicas, Fail(r) \/ Crash(r) PROVE SignerInv'
  BY <1>1, <1>2, <1>7, FailFields DEF SignerInv, ServingReplicaCanSign
<1>8. CASE UNCHANGED <<keys, rep>>
  BY <1>1, <1>2, <1>8 DEF SignerInv, ServingReplicaCanSign
<1> QED BY <1>3, <1>4, <1>5, <1>6, <1>7, <1>8 DEF Next, Maintain, Sign, Tick, vars

LEMMA SignerInit == Init => SignerInv
BY InitTyped DEF Init, SignerInv, ExactlyOneSigner, ServingReplicaCanSign, Off

\* There is one signing key, whichever way the replicas' transactions race,
\* fail or end.
THEOREM SignerUnique == Spec => []ExactlyOneSigner
BY SignerInit, SignerNext, PTL DEF Spec, SignerInv

\* A replica that serves has a key to sign with: NewKeyStore returns only after
\* a Refresh that found one, and no later Refresh finds none.
THEOREM CanSign == Spec => []ServingReplicaCanSign
BY SignerInit, SignerNext, PTL DEF Spec, SignerInv

-----------------------------------------------------------------------------
(* Tokens.  A key is retired at most Stale after its transaction began, a  *)
(* replica goes on signing with it for at most Stale more, and what it     *)
(* signed last lives for TokenTTL: all of that fits into Overlap.          *)

\* A serving replica was refreshed, and an open transaction begun, recently.
Recent ==
    \A r \in Replicas :
        /\ rep[r].serving => rep[r].last <= now /\ now <= rep[r].last + Stale
        /\ rep[r].pc \in {"blocked", "insert"} => rep[r].at <= now /\ now <= rep[r].at + Stale

\* Who is about to retire a key holds its row lock, and the key is current.
RetirerHoldsLock ==
    \A r \in Replicas :
        rep[r].pc = "insert" /\ rep[r].seen # None => lock = r /\ IsCurrent(rep[r].seen)

\* A cached signer exists, and if it is retired the cache was filled before.
CacheBeforeRetirement ==
    \A r \in Replicas, k \in Kids : rep[r].serving /\ rep[r].current = k =>
        /\ keys[k].state # "none"
        /\ keys[k].state = "retired" => rep[r].last + Overlap <= keys[k].retireAt + Stale

\* No token outlives the overlap of its key.
TokensWithinOverlap ==
    \A k \in Kids :
        /\ keys[k].state = "none" => usedUntil[k] = 0
        /\ keys[k].state = "current" => usedUntil[k] <= now + TokenTTL
        /\ keys[k].state = "retired" => usedUntil[k] <= keys[k].retireAt

TokenInv == Typed /\ Recent /\ RetirerHoldsLock /\ CacheBeforeRetirement /\ TokensWithinOverlap

LEMMA Durations == /\ {Interval, Overlap, TokenTTL, Stale} \subseteq Nat
                   /\ Overlap >= 2 * Stale + TokenTTL
BY TimingAssumption

LEMMA Numbers ==
    ASSUME TypeOK
    PROVE  /\ now \in Nat
           /\ \A r \in Replicas : rep[r].last \in Nat /\ rep[r].at \in Nat
           /\ \A k \in Kids : usedUntil[k] \in Nat /\ keys[k].retireAt \in Nat
                              /\ keys[k].state \in {"none", "current", "retired"}
BY DEF TypeOK, Replica, Key

LEMMA TokenSelect ==
    ASSUME TokenInv, Typed', NEW r \in Replicas, RotateSelect(r) \/ RotateUnblock(r)
    PROVE  TokenInv'
<1> USE DEF TokenInv
<1>1. UNCHANGED <<now, keys, usedUntil>>
  BY DEF RotateSelect, RotateUnblock
<1>2. /\ \A q \in Replicas \ {r} : rep'[q] = rep[q]
      /\ rep'[r].serving = rep[r].serving /\ rep'[r].current = rep[r].current
      /\ rep'[r].last = rep[r].last
      /\ rep'[r].pc \in {"blocked", "insert"} => rep'[r].at <= now /\ now <= rep'[r].at + Stale
    BY SelectFields, UnblockFields, Numbers, Durations DEF Typed, Recent, RotateUnblock
<1>3. \/ lock' = lock /\ (rep'[r].pc = "insert" => rep'[r].seen = None)
      \/ lock = None /\ lock' = r /\ rep'[r].seen \in Kids /\ IsCurrent(rep'[r].seen)
  BY SelectFields, UnblockFields
<1>4. Recent'
  BY <1>1, <1>2 DEF Recent
<1>5. RetirerHoldsLock'
  BY <1>1, <1>2, <1>3, TimingAssumption DEF RetirerHoldsLock, IsCurrent
<1>6. CacheBeforeRetirement' /\ TokensWithinOverlap'
  BY <1>1, <1>2 DEF CacheBeforeRetirement, TokensWithinOverlap
<1> QED BY <1>4, <1>5, <1>6

LEMMA TokenInsert ==
    ASSUME TokenInv, Typed', NEW r \in Replicas, RotateInsert(r)
    PROVE  TokenInv'
<1> USE DEF TokenInv
<1>1. /\ UNCHANGED <<now, usedUntil>> /\ rep[r].pc = "insert"
      /\ TypeOK /\ TypeOK'
  BY DEF RotateInsert, Typed
<1>2. /\ \A q \in Replicas \ {r} : rep'[q] = rep[q]
      /\ rep'[r].serving = rep[r].serving /\ rep'[r].current = rep[r].current
      /\ rep'[r].last = rep[r].last /\ rep'[r].seen = None
      /\ rep'[r].pc \notin {"blocked", "insert"}
      /\ lock' = IF lock = r THEN None ELSE lock
  BY InsertFields
<1>3. Recent'
  BY <1>1, <1>2 DEF Recent
<1>4. CASE keys' = keys
  <2>1. RetirerHoldsLock'
    BY <1>1, <1>2, <1>4, TimingAssumption DEF RetirerHoldsLock, IsCurrent
  <2>2. CacheBeforeRetirement' /\ TokensWithinOverlap'
    BY <1>1, <1>2, <1>4 DEF CacheBeforeRetirement, TokensWithinOverlap
  <2> QED BY <1>3, <2>1, <2>2
<1>5. ASSUME IndexAllows(r), NEW new \in Kids, keys[new] = NoKey, keys'[new].state = "current",
             \A k \in Kids \ {new} :
                IF k = rep[r].seen
                THEN keys'[k].state = "retired" /\ keys'[k].retireAt = rep[r].at + Overlap
                ELSE keys'[k] = keys[k]
      PROVE  TokenInv'
  <2>1. keys[new].state = "none"
    BY <1>5 DEF NoKey
  \* The key that is retired was current until now.
  <2>2. ASSUME NEW k \in Kids, k = rep[r].seen
        PROVE  /\ k # new /\ lock = r /\ keys[k].state = "current"
               /\ keys'[k].state = "retired" /\ keys'[k].retireAt = rep[r].at + Overlap
    <3>1. rep[r].seen # None
      BY <2>2, TimingAssumption DEF Kids
    <3>2. lock = r /\ keys[k].state = "current"
      BY <1>1, <2>2, <3>1 DEF RetirerHoldsLock, IsCurrent
    <3> QED BY <1>5, <2>1, <2>2, <3>2
  <2>3. RetirerHoldsLock'
    <3> SUFFICES ASSUME NEW q \in Replicas, rep'[q].pc = "insert", rep'[q].seen # None PROVE FALSE
      BY DEF RetirerHoldsLock
    <3>1. q # r /\ rep[q].pc = "insert" /\ rep[q].seen # None
      BY <1>2
    <3>2. lock = q /\ IsCurrent(rep[q].seen) /\ rep[q].seen \in Kids
      BY <1>1, <3>1 DEF RetirerHoldsLock, TypeOK, Replica
    <3>3. rep[q].seen = rep[r].seen
      BY <1>5, <3>2 DEF IndexAllows
    <3> QED BY <2>2, <3>1, <3>2, <3>3
  <2>4. CacheBeforeRetirement'
    <3> SUFFICES ASSUME NEW q \in Replicas, NEW k \in Kids, rep'[q].serving, rep'[q].current = k
                 PROVE  /\ keys'[k].state # "none"
                        /\ keys'[k].state = "retired" => rep'[q].last + Overlap <= keys'[k].retireAt + Stale
      BY DEF CacheBeforeRetirement
    <3>1. rep[q].serving /\ rep[q].current = k /\ rep'[q].last = rep[q].last
      BY <1>2
    <3>2. keys[k].state # "none" /\ k # new
      BY <2>1, <3>1 DEF CacheBeforeRetirement
    <3>3. CASE k = rep[r].seen
      <4>1. rep[q].last <= now /\ now <= rep[r].at + Stale
        BY <1>1, <3>1 DEF Recent
      <4> QED BY <1>1, <2>2, <3>1, <3>3, <4>1, Numbers, Durations
    <3>4. CASE k # rep[r].seen
      BY <1>5, <3>1, <3>2, <3>4 DEF CacheBeforeRetirement
    <3> QED BY <3>3, <3>4
  <2>5. TokensWithinOverlap'
    <3> SUFFICES ASSUME NEW k \in Kids
                 PROVE  /\ keys'[k].state = "none" => usedUntil[k] = 0
                        /\ keys'[k].state = "current" => usedUntil[k] <= now + TokenTTL
                        /\ keys'[k].state = "retired" => usedUntil[k] <= keys'[k].retireAt
      BY <1>1 DEF TokensWithinOverlap
    <3>1. CASE k = new
      BY <1>1, <1>5, <2>1, <3>1, Numbers, Durations DEF TokensWithinOverlap
    <3>2. CASE k = rep[r].seen
      <4>1. usedUntil[k] <= now + TokenTTL /\ now <= rep[r].at + Stale
        BY <1>1, <2>2, <3>2 DEF Recent, TokensWithinOverlap
      <4> QED BY <1>1, <2>2, <3>2, <4>1, Numbers, Durations
    <3>3. CASE k # new /\ k # rep[r].seen
      BY <1>5, <3>3 DEF TokensWithinOverlap
    <3> QED BY <3>1, <3>2, <3>3
  <2> QED BY <1>3, <2>3, <2>4, <2>5
<1> QED BY <1>4, <1>5, InsertFields

LEMMA TokenRefresh ==
    ASSUME TokenInv, Typed', NEW r \in Replicas, Refresh(r)
    PROVE  TokenInv'
<1> USE DEF TokenInv
<1>1. UNCHANGED <<now, keys, lock, usedUntil>> /\ TypeOK
  BY DEF Refresh, Typed
<1>2. Recent'
  BY <1>1, RefreshFields, Numbers, Durations DEF Recent
<1>3. RetirerHoldsLock'
  BY <1>1, RefreshFields DEF RetirerHoldsLock, IsCurrent
<1>4. CacheBeforeRetirement'
  <2>1. \A k \in Kids : rep'[r].current = k => IsCurrent(k)
    BY RefreshFields, TimingAssumption DEF Kids
  <2> QED BY <1>1, <2>1, RefreshFields DEF CacheBeforeRetirement, IsCurrent
<1>5. TokensWithinOverlap'
  BY <1>1 DEF TokensWithinOverlap
<1> QED BY <1>2, <1>3, <1>4, <1>5

LEMMA TokenSign ==
    ASSUME TokenInv, Typed', NEW r \in Replicas, Sign(r)
    PROVE  TokenInv'
<1> USE DEF TokenInv
<1> DEFINE k == rep[r].current
<1>1. /\ UNCHANGED <<now, keys, lock, rep>> /\ TypeOK /\ k \in Kids /\ rep[r].serving
  BY DEF Sign, Typed, TypeOK, Replica
<1>2. usedUntil'[k] = now + TokenTTL /\ \A j \in Kids \ {k} : usedUntil'[j] = usedUntil[j]
  BY <1>1 DEF Sign, TypeOK
<1>3. Recent' /\ RetirerHoldsLock' /\ CacheBeforeRetirement'
  BY <1>1 DEF Recent, RetirerHoldsLock, CacheBeforeRetirement, IsCurrent
<1>4. keys[k].state # "none" /\ (keys[k].state = "retired" => now + TokenTTL <= keys[k].retireAt)
  <2>1. /\ now <= rep[r].last + Stale
        /\ keys[k].state # "none"
        /\ keys[k].state = "retired" => rep[r].last + Overlap <= keys[k].retireAt + Stale
    BY <1>1 DEF Recent, CacheBeforeRetirement
  <2> QED BY <1>1, <2>1, Numbers, Durations
<1>5. TokensWithinOverlap'
  BY <1>1, <1>2, <1>4, Numbers, Durations DEF TokensWithinOverlap
<1> QED BY <1>3, <1>5

LEMMA TokenTick == ASSUME TokenInv, Typed', Tick PROVE TokenInv'
<1> USE DEF TokenInv
<1>1. UNCHANGED <<keys, lock, rep, usedUntil>> /\ TypeOK /\ now' = now + 1
  BY DEF Tick, Typed
<1>2. Recent'
  BY <1>1, Numbers, Durations DEF Recent, Tick
<1>3. RetirerHoldsLock' /\ CacheBeforeRetirement'
  BY <1>1 DEF RetirerHoldsLock, CacheBeforeRetirement, IsCurrent
<1>4. TokensWithinOverlap'
  BY <1>1, Numbers, Durations DEF TokensWithinOverlap
<1> QED BY <1>2, <1>3, <1>4

LEMMA TokenNext == TokenInv /\ [Next]_vars => TokenInv'
<1> SUFFICES ASSUME TokenInv, [Next]_vars PROVE TokenInv'
  OBVIOUS
<1>1. Typed /\ Typed'
  BY NextTyped DEF TokenInv
<1>2. ASSUME NEW r \in Replicas, Maintain(r) PROVE TokenInv'
  BY <1>1, <1>2, TokenSelect, TokenInsert, TokenRefresh DEF Maintain
<1>3. ASSUME NEW r \in Replicas, Fail(r) \/ Crash(r) PROVE TokenInv'
  <2>1. RetirerHoldsLock'
    BY <1>1, <1>3, FailFields DEF TokenInv, RetirerHoldsLock, IsCurrent
  <2>2. Recent' /\ CacheBeforeRetirement' /\ TokensWithinOverlap'
    BY <1>1, <1>3, FailFields DEF TokenInv, Recent, CacheBeforeRetirement, TokensWithinOverlap
  <2> QED BY <1>1, <2>1, <2>2 DEF TokenInv
<1>4. ASSUME NEW r \in Replicas, Sign(r) PROVE TokenInv'
  BY <1>1, <1>4, TokenSign
<1>5. CASE Tick
  BY <1>1, <1>5, TokenTick
<1>6. CASE UNCHANGED vars
  BY <1>1, <1>6
  DEF vars, TokenInv, Recent, RetirerHoldsLock, CacheBeforeRetirement, TokensWithinOverlap, IsCurrent
<1> QED BY <1>2, <1>3, <1>4, <1>5, <1>6 DEF Next

\* Every token that has not expired verifies on every serving replica, as long
\* as the overlap leaves room for two stale periods and a token's lifetime:
\* its key is in the table, current or still within its overlap.
THEOREM TokensVerify == Spec => []TokensVerifyEverywhere
<1>1. Init => TokenInv
  BY InitTyped DEF Init, TokenInv, Recent, RetirerHoldsLock, CacheBeforeRetirement, TokensWithinOverlap,
                   Off, NoKey
<1>2. TokenInv => TokensVerifyEverywhere
  <2> SUFFICES ASSUME TokenInv, NEW k \in Kids, now < usedUntil[k]
               PROVE  /\ keys[k].state # "none"
                      /\ keys[k].state = "retired" => now <= keys[k].retireAt
    BY DEF TokensVerifyEverywhere, Lookup
  <2>1. TypeOK
    BY DEF TokenInv, Typed
  <2> QED BY <2>1, Numbers DEF TokenInv, TokensWithinOverlap
<1> QED BY <1>1, <1>2, TokenNext, PTL DEF Spec

-----------------------------------------------------------------------------
(* TokenDenylist: what becomes of the tokens that the keys sign.           *)

\* A handler under way has a token in hand, and it has been signed.
HandlersOK ==
    \A p \in Procs : proc[p].pc # "idle" => proc[p].jti \in Tokens /\ jwt[proc[p].jti] # Unsigned

\* A row denies its token until the token's own exp.
RowsOK == \A j \in Tokens : denied[j] # NoRow => jwt[j] # Unsigned /\ denied[j] = jwt[j].exp

\* A revoked token has its row for as long as it matters.
RevokedHasRow ==
    \A j \in revoked : jwt[j] # Unsigned /\ (now < jwt[j].exp => denied[j] = jwt[j].exp)

DenyInv == DenylistTypeOK /\ HandlersOK /\ RowsOK /\ RevokedHasRow /\ RevokedIsRefused

\* No token is signed at first, so no row and no handler has one.
LEMMA DenyInit == DenylistInit => DenyInv
BY DEF DenylistInit, DenyInv, DenylistTypeOK, HandlersOK, RowsOK, RevokedHasRow, RevokedIsRefused, Claims, Unsigned,
       Process, Idle, NoRow

\* Signing a token touches none that was signed before.
LEMMA IssueKeeps ==
    ASSUME DenyInv, NEW j \in Tokens, NEW c \in Clients, IssueToken(j, c)
    PROVE  DenyInv'
<1> USE DEF DenyInv
<1>1. /\ jwt[j] = Unsigned /\ UNCHANGED <<now, denied, proc, revoked, answers>>
      /\ jwt' = [jwt EXCEPT ![j] = [aud |-> c, exp |-> now + TTL]]
      /\ now + TTL \in Nat
  BY DenylistAssumption DEF IssueToken, DenylistTypeOK
<1>2. DenylistTypeOK'
  BY <1>1 DEF DenylistTypeOK, Claims
<1>3. \A i \in Tokens : jwt[i] # Unsigned => jwt'[i] = jwt[i]
  BY <1>1 DEF DenylistTypeOK
<1> QED BY <1>1, <1>2, <1>3 DEF DenylistTypeOK, HandlersOK, RowsOK, RevokedHasRow, RevokedIsRefused

\* IsRevoked lets a revoked token pass only once it has expired.
LEMMA AcceptKeeps ==
    ASSUME DenyInv, NEW p \in Procs, Accept(p)
    PROVE  DenyInv'
<1> USE DEF DenyInv
<1> DEFINE j == proc[p].jti
           a == [jti |-> j, late |-> j \in revoked, expired |-> now >= jwt[j].exp]
<1>1. /\ j \in Tokens /\ ~IsRevoked(j) /\ answers' = answers \cup {a}
      /\ UNCHANGED <<now, jwt, denied, revoked>>
      /\ proc' = [proc EXCEPT ![p] = Idle]
  BY DEF Accept, HandlersOK
<1>2. now \in Nat /\ jwt[j].exp \in Nat /\ denied[j] \in Nat
  BY <1>1 DEF DenylistTypeOK, Claims
<1>3. a.late => a.expired
  <2>1. ASSUME j \in revoked, ~(now >= jwt[j].exp) PROVE FALSE
    <3>1. now < jwt[j].exp
      BY <1>2, <2>1
    <3>2. denied[j] = jwt[j].exp
      BY <2>1, <3>1 DEF RevokedHasRow
    <3> QED BY <1>1, <1>2, <3>1, <3>2 DEF IsRevoked, NoRow
  <2>2. a.late = (j \in revoked) /\ a.expired = (now >= jwt[j].exp)
    BY Zenon
  <2> HIDE DEF a
  <2> QED BY <2>1, <2>2, Zenon
<1>4. a \in [jti : Tokens, late : BOOLEAN, expired : BOOLEAN]
  BY <1>1
<1>5. DenylistTypeOK' /\ HandlersOK'
  BY <1>1, <1>4 DEF DenylistTypeOK, HandlersOK, Process, Idle
<1>6. RevokedIsRefused'
  BY <1>1, <1>3 DEF RevokedIsRefused
<1> QED BY <1>1, <1>5, <1>6 DEF RowsOK, RevokedHasRow

\* A revocation adds a row until the token's exp, or finds that row there.
LEMMA RevokeKeeps ==
    ASSUME DenyInv, NEW p \in Procs, Revoke(p)
    PROVE  DenyInv'
<1> USE DEF DenyInv
<1> DEFINE j == proc[p].jti
<1>1. /\ j \in Tokens /\ jwt[j] # Unsigned
      /\ denied' = [denied EXCEPT ![j] = IF denied[j] = NoRow THEN jwt[j].exp ELSE denied[j]]
      /\ revoked' = revoked \cup {j}
      /\ proc' = [proc EXCEPT ![p] = Idle]
      /\ UNCHANGED <<now, jwt, answers>>
  BY DEF Revoke, HandlersOK
<1>2. jwt[j].exp \in Nat /\ denied[j] \in Nat
  BY <1>1 DEF DenylistTypeOK, Claims
<1>3. denied'[j] = jwt[j].exp /\ \A i \in Tokens \ {j} : denied'[i] = denied[i]
  BY <1>1 DEF DenylistTypeOK, RowsOK
<1>4. DenylistTypeOK' /\ HandlersOK'
  BY <1>1, <1>2 DEF DenylistTypeOK, HandlersOK, Process, Idle
<1>5. RowsOK' /\ RevokedHasRow'
  BY <1>1, <1>3 DEF DenylistTypeOK, RowsOK, RevokedHasRow
<1> QED BY <1>1, <1>4, <1>5 DEF RevokedIsRefused

\* The sweep takes only rows whose tokens have expired.
LEMMA SweepKeeps == ASSUME DenyInv, DeleteExpired PROVE DenyInv'
<1> USE DEF DenyInv
<1>1. /\ denied' = [j \in Tokens |-> IF denied[j] < now THEN NoRow ELSE denied[j]]
      /\ UNCHANGED <<now, jwt, proc, revoked, answers>>
  BY DEF DeleteExpired
<1>2. DenylistTypeOK'
  BY <1>1 DEF DenylistTypeOK, NoRow
<1>3. \A j \in Tokens : denied'[j] = denied[j] \/ (denied'[j] = NoRow /\ denied[j] < now)
  BY <1>1
<1>4. \A j \in Tokens : now \in Nat /\ jwt[j].exp \in Nat /\ denied[j] \in Nat
  BY DEF DenylistTypeOK, Claims
<1>5. RowsOK' /\ RevokedHasRow'
  BY <1>1, <1>3, <1>4 DEF DenylistTypeOK, RowsOK, RevokedHasRow
<1> QED BY <1>1, <1>2, <1>5 DEF HandlersOK, RevokedIsRefused

\* The invariant is inductive.
LEMMA DenyNext == DenyInv /\ [DenylistNext]_denyVars => DenyInv'
<1> SUFFICES ASSUME DenyInv, [DenylistNext]_denyVars PROVE DenyInv'
  OBVIOUS
<1> USE DEF DenyInv
<1>1. CASE TimePasses
  <2>1. \A j \in Tokens : now \in Nat /\ jwt[j].exp \in Nat
    BY DEF DenylistTypeOK, Claims
  <2> QED BY <1>1, <2>1 DEF TimePasses, DenylistTypeOK, HandlersOK, RowsOK, RevokedHasRow, RevokedIsRefused
<1>2. ASSUME NEW p \in Procs, NEW j \in Tokens, NEW caller \in Clients \cup {Nil}, Parse(p, j, caller)
      PROVE  DenyInv'
  BY <1>2 DEF Parse, DenylistTypeOK, Process, HandlersOK, RowsOK, RevokedHasRow, RevokedIsRefused
<1>3. ASSUME NEW p \in Procs, Refuse(p) \/ RequestFails(p) \/ RevokeFails(p) PROVE DenyInv'
  BY <1>3 DEF Refuse, RequestFails, RevokeFails, DenylistTypeOK, Process, Idle, HandlersOK, RowsOK, RevokedHasRow, RevokedIsRefused
<1>4. ASSUME NEW p \in Procs, RevokeOwn(p) PROVE DenyInv'
  BY <1>4 DEF RevokeOwn, DenylistTypeOK, Process, HandlersOK, RowsOK, RevokedHasRow, RevokedIsRefused
<1>5. CASE UNCHANGED denyVars
  BY <1>5 DEF denyVars, DenylistTypeOK, HandlersOK, RowsOK, RevokedHasRow, RevokedIsRefused
<1> QED BY <1>1, <1>2, <1>3, <1>4, <1>5, IssueKeeps, AcceptKeeps, RevokeKeeps, SweepKeeps DEF DenylistNext

\* Once a revocation is committed, no handler on any replica accepts the token
\* before it expires: the row lives as long as the token, and the sweep takes
\* only rows that deny nothing any more.
THEOREM RevocationHolds == DenylistSpec => []RevokedIsRefused
BY DenyInit, DenyNext, PTL DEF DenylistSpec, DenyInv

\* Every reachable state has the types of the denylist and of the handlers.
THEOREM DenyTypes == DenylistSpec => []DenylistTypeOK
BY DenyInit, DenyNext, PTL DEF DenylistSpec, DenyInv
=============================================================================

---------------------------- MODULE Credentials ----------------------------
(***************************************************************************)
(* The credentials and password_reset_tokens tables and everything that    *)
(* writes them: Authenticate's lazy NT-hash backfill, the two reset-link   *)
(* handlers, the confirmation handler, `admin set-password` and the        *)
(* Samba-privileged LDAP search that hands out group RIDs.                 *)
(*                                                                         *)
(* Handlers of several replicas run concurrently on one Postgres, so each  *)
(* action is one statement (or one row-locking step of a transaction):     *)
(* Postgres makes a statement on one row atomic, and nothing holds between *)
(* two of them.  The rate limiter's answers are in module Lockouts; here a *)
(* login or a reset request that it refuses simply does not start.         *)
(***************************************************************************)
EXTENDS Naturals, FiniteSets, Functions

CONSTANTS
    Users, Groups, Passwords, Replicas, Tokens,
    Procs,      \* request handlers and CLI processes, on any replica
    Null,       \* SQL NULL, and the empty string the code reads it as
    MaxRID      \* bound: the sequence is not drawn from beyond this value

VARIABLES
    cred,       \* credentials: one row per user, NoRow where there is none
    ridSeq,     \* samba_rid_seq: the next value nextval returns
    groupRID,   \* samba_group_rids: NoRID where the group has no row
    snap,       \* the identity snapshot each replica serves
    token,      \* password_reset_tokens
    lock,       \* the process holding the FOR UPDATE lock of a token's row
    proc,       \* the local variables of each process
    search,     \* the latest Samba-privileged LDAP search and its answer
    rewrites,   \* history: password changes a token authorised
    logins      \* history: sessions a token opened

vars == <<cred, ridSeq, groupRID, snap, token, lock, proc, search, rewrites, logins>>

FirstRID == 1000
NoRID == 0

ASSUME ConstAssumption ==
    /\ Null \notin Users /\ Null \notin Passwords /\ Null \notin Tokens /\ Null \notin Procs
    /\ Users \cap Groups = {}
    /\ IsFiniteSet(Groups)
    /\ MaxRID \in Nat

-----------------------------------------------------------------------------
(* Hashes.  An encoded hash is known only by the password it was made from *)
(* and by the algorithm that made it: the two are never interchangeable.   *)

Hash(pw) == <<"argon2id", pw>>
NTHash(pw) == <<"nt", pw>>
Verify(pw, encoded) == encoded = Hash(pw)

Hashes == {Hash(pw) : pw \in Passwords}
NTHashes == {NTHash(pw) : pw \in Passwords}

ASSUME NullAssumption == Null \notin Hashes /\ Null \notin NTHashes

\* password_hash is NOT NULL, so a Null hash stands for the absent row.
Row == [hash : Hashes \cup {Null}, nt : NTHashes \cup {Null}, rid : Nat]
NoRow == [hash |-> Null, nt |-> Null, rid |-> NoRID]

\* What a snapshot declares of a user; hash is the declarative passwordHash.
Declaration ==
    {d \in [state : {"absent", "disabled", "enabled"}, hash : Hashes \cup {Null}] :
        d.state = "absent" => d.hash = Null}

TokenRow == [state : {"none", "unsent", "live", "expired", "used"}, user : Users \cup {Null}]
NoToken == [state |-> "none", user |-> Null]

Process == [pc : {"idle", "get", "backfill", "locked", "consumed", "upsert", "session"},
            user : Users \cup {Null}, pw : Passwords \cup {Null}, tok : Tokens \cup {Null}]
Idle == [pc |-> "idle", user |-> Null, pw |-> Null, tok |-> Null]

Search == [pc : {"idle", "users", "done"},
           users : [Users -> Nat], asked : SUBSET Groups, groups : [Groups -> Nat]]
NoSearch == [pc |-> "idle", users |-> [u \in Users |-> NoRID],
             asked |-> {}, groups |-> [g \in Groups |-> NoRID]]

TypeOK ==
    /\ cred \in [Users -> Row]
    /\ ridSeq \in Nat
    /\ groupRID \in [Groups -> Nat]
    /\ snap \in [Replicas -> [Users -> Declaration]]
    /\ token \in [Tokens -> TokenRow]
    /\ lock \in [Tokens -> Procs \cup {Null}]
    /\ proc \in [Procs -> Process]
    /\ search \in Search
    /\ rewrites \in [Tokens -> Nat]
    /\ logins \in [Tokens -> Nat]

\* Rows that predate migration 00013 have neither an NT hash nor a RID.
LegacyRow == {NoRow} \cup [hash : Hashes, nt : {Null}, rid : {NoRID}]

Init ==
    /\ cred \in [Users -> LegacyRow]
    /\ ridSeq = FirstRID
    /\ groupRID = [g \in Groups |-> NoRID]
    /\ snap = [r \in Replicas |-> [u \in Users |-> [state |-> "enabled", hash |-> Null]]]
    /\ token = [t \in Tokens |-> NoToken]
    /\ lock = [t \in Tokens |-> Null]
    /\ proc = [p \in Procs |-> Idle]
    /\ search = NoSearch
    /\ rewrites = [t \in Tokens |-> 0]
    /\ logins = [t \in Tokens |-> 0]

-----------------------------------------------------------------------------
(* Statements.                                                             *)

HasRow(u) == cred[u].hash # Null

\* Wrong variants: the wrong hash in nt_hash, an nt_hash that is kept, a RID
\* that is not drawn from the sequence, and one that is drawn every time.
Upsert_OneHash(u, pw) ==
    /\ ridSeq < MaxRID
    /\ ridSeq' = ridSeq + 1
    /\ cred' = [cred EXCEPT ![u] =
                  [hash |-> Hash(pw), nt |-> Hash(pw),
                   rid |-> IF cred[u].rid = NoRID THEN ridSeq ELSE cred[u].rid]]

Upsert_KeepsNTHash(u, pw) ==
    /\ ridSeq < MaxRID
    /\ ridSeq' = ridSeq + 1
    /\ cred' = [cred EXCEPT ![u] =
                  [hash |-> Hash(pw), nt |-> IF cred[u].nt = Null THEN NTHash(pw) ELSE cred[u].nt,
                   rid |-> IF cred[u].rid = NoRID THEN ridSeq ELSE cred[u].rid]]

Upsert_ReadsSequence(u, pw) ==
    /\ ridSeq < MaxRID
    /\ UNCHANGED ridSeq
    /\ cred' = [cred EXCEPT ![u] =
                  [hash |-> Hash(pw), nt |-> NTHash(pw),
                   rid |-> IF cred[u].rid = NoRID THEN ridSeq ELSE cred[u].rid]]

Upsert_NewRID(u, pw) ==
    /\ ridSeq < MaxRID
    /\ ridSeq' = ridSeq + 1
    /\ cred' = [cred EXCEPT ![u] = [hash |-> Hash(pw), nt |-> NTHash(pw), rid |-> ridSeq]]

\* INSERT ... ON CONFLICT (username) DO UPDATE.  nextval is evaluated whether
\* or not its value is used.
Upsert(u, pw) ==
    /\ ridSeq < MaxRID
    /\ ridSeq' = ridSeq + 1
    /\ cred' = [cred EXCEPT ![u] =
                  [hash |-> Hash(pw), nt |-> NTHash(pw),
                   rid |-> IF cred[u].rid = NoRID THEN ridSeq ELSE cred[u].rid]]

\* Wrong variant: UPDATE without `nt_hash IS NULL`.
SetNTHashIfMissing_Unguarded(u, pw) ==
    IF HasRow(u)
    THEN /\ ridSeq < MaxRID
         /\ ridSeq' = IF cred[u].rid = NoRID THEN ridSeq + 1 ELSE ridSeq
         /\ cred' = [cred EXCEPT ![u].nt = NTHash(pw),
                                 ![u].rid = IF @ = NoRID THEN ridSeq ELSE @]
    ELSE UNCHANGED <<cred, ridSeq>>

\* UPDATE ... WHERE nt_hash IS NULL: COALESCE draws from the sequence only
\* for a row without a RID.
SetNTHashIfMissing(u, pw) ==
    IF HasRow(u) /\ cred[u].nt = Null
    THEN /\ ridSeq < MaxRID
         /\ ridSeq' = IF cred[u].rid = NoRID THEN ridSeq + 1 ELSE ridSeq
         /\ cred' = [cred EXCEPT ![u].nt = NTHash(pw),
                                 ![u].rid = IF @ = NoRID THEN ridSeq ELSE @]
    ELSE UNCHANGED <<cred, ridSeq>>

-----------------------------------------------------------------------------
(* Authenticator.Authenticate.  Unknown and disabled users, and users with *)
(* a declarative hash, return without touching these tables.               *)

LoginBegin(p, r, u, pw) ==
    /\ proc[p].pc = "idle"
    /\ snap[r][u].state = "enabled"
    /\ snap[r][u].hash = Null
    /\ proc' = [proc EXCEPT ![p] = [pc |-> "get", user |-> u, pw |-> pw, tok |-> Null]]
    /\ UNCHANGED <<cred, ridSeq, groupRID, snap, token, lock, search, rewrites, logins>>

\* Credentials.Get and Verify: no row and a wrong password end the call, and
\* so does a right one unless the row read has no NT hash.
LoginGet(p) ==
    LET row == cred[proc[p].user] IN
    /\ proc[p].pc = "get"
    /\ proc' = [proc EXCEPT ![p] =
                  IF Verify(proc[p].pw, row.hash) /\ row.nt = Null
                  THEN [@ EXCEPT !.pc = "backfill"] ELSE Idle]
    /\ UNCHANGED <<cred, ridSeq, groupRID, snap, token, lock, search, rewrites, logins>>

\* The backfill writes the password of the row read above, however long ago.
LoginBackfill(p) ==
    /\ proc[p].pc = "backfill"
    /\ SetNTHashIfMissing(proc[p].user, proc[p].pw)
    /\ proc' = [proc EXCEPT ![p] = Idle]
    /\ UNCHANGED <<groupRID, snap, token, lock, search, rewrites, logins>>

-----------------------------------------------------------------------------
(* Reset links.  Nobody holds the raw token until the mail is delivered,   *)
(* so creating the row and sending the mail are one step.                  *)

CreateToken(t, u) ==
    /\ token[t] = NoToken
    /\ \E state \in {"live", "unsent"} :
          token' = [token EXCEPT ![t] = [state |-> state, user |-> u]]

\* "Forgot password": skipped for an account that resolves to nobody or whose
\* password is declared.
HandleResetSubmit(r, u, t) ==
    /\ snap[r][u].state # "absent"
    /\ snap[r][u].hash = Null
    /\ CreateToken(t, u)
    /\ UNCHANGED <<cred, ridSeq, groupRID, snap, lock, proc, search, rewrites, logins>>

\* An administrator sends the same link to bootstrap an account.
HandleSendSetupLink(r, admin, u, t) ==
    /\ snap[r][admin].state # "absent"
    /\ snap[r][u].state # "absent"
    /\ snap[r][u].hash = Null
    /\ CreateToken(t, u)
    /\ UNCHANGED <<cred, ridSeq, groupRID, snap, lock, proc, search, rewrites, logins>>

\* expires_at passes.
TokenExpires(t) ==
    /\ token[t].state \in {"live", "unsent"}
    /\ token' = [token EXCEPT ![t].state = "expired"]
    /\ UNCHANGED <<cred, ridSeq, groupRID, snap, lock, proc, search, rewrites, logins>>

-----------------------------------------------------------------------------
(* handleResetConfirmSubmit.                                               *)

\* Wrong variant: SELECT without FOR UPDATE.
ConsumeSelect_NoRowLock(p, t, pw) ==
    /\ proc[p].pc = "idle"
    /\ token[t].state = "live"
    /\ proc' = [proc EXCEPT ![p] =
                  [pc |-> "locked", user |-> token[t].user, pw |-> pw, tok |-> t]]
    /\ UNCHANGED <<cred, ridSeq, groupRID, snap, token, lock, search, rewrites, logins>>

\* Consume: SELECT ... FOR UPDATE waits for the row lock, then reads used_at
\* and expires_at; a used or expired token rolls back.
ConsumeSelect(p, t, pw) ==
    /\ proc[p].pc = "idle"
    /\ lock[t] = Null
    /\ token[t].state = "live"
    /\ lock' = [lock EXCEPT ![t] = p]
    /\ proc' = [proc EXCEPT ![p] =
                  [pc |-> "locked", user |-> token[t].user, pw |-> pw, tok |-> t]]
    /\ UNCHANGED <<cred, ridSeq, groupRID, snap, token, search, rewrites, logins>>

\* Consume: UPDATE ... SET used_at and COMMIT.
ConsumeCommit(p) ==
    /\ proc[p].pc = "locked"
    /\ token' = [token EXCEPT ![proc[p].tok].state = "used"]
    /\ lock' = [lock EXCEPT ![proc[p].tok] = Null]
    /\ proc' = [proc EXCEPT ![p].pc = "consumed"]
    /\ UNCHANGED <<cred, ridSeq, groupRID, snap, search, rewrites, logins>>

\* The account may have become declaratively managed since the form was
\* rendered: the token is spent and nothing is written.
ConfirmRecheck(p, r) ==
    /\ proc[p].pc = "consumed"
    /\ proc' = [proc EXCEPT ![p] =
                  IF snap[r][proc[p].user].hash = Null
                  THEN [@ EXCEPT !.pc = "upsert"] ELSE Idle]
    /\ UNCHANGED <<cred, ridSeq, groupRID, snap, token, lock, search, rewrites, logins>>

\* The new password is written; a reset goes on to open a session.
ConfirmUpsert(p) ==
    /\ proc[p].pc = "upsert"
    /\ proc[p].tok # Null
    /\ Upsert(proc[p].user, proc[p].pw)
    /\ rewrites' = [rewrites EXCEPT ![proc[p].tok] = @ + 1]
    /\ proc' = [proc EXCEPT ![p].pc = "session"]
    /\ UNCHANGED <<groupRID, snap, token, lock, search, logins>>

\* Sessions.Issue: the auto-login after a reset.
ConfirmIssueSession(p) ==
    /\ proc[p].pc = "session"
    /\ logins' = [logins EXCEPT ![proc[p].tok] = @ + 1]
    /\ proc' = [proc EXCEPT ![p] = Idle]
    /\ UNCHANGED <<cred, ridSeq, groupRID, snap, token, lock, search, rewrites>>

-----------------------------------------------------------------------------
(* `admin set-password`: the identity directory is checked only if it is   *)
(* given and loads, so the command may reach Upsert for any user.          *)

AdminSetPassword(p, u, pw) ==
    /\ proc[p].pc = "idle"
    /\ proc' = [proc EXCEPT ![p] = [pc |-> "upsert", user |-> u, pw |-> pw, tok |-> Null]]
    /\ UNCHANGED <<cred, ridSeq, groupRID, snap, token, lock, search, rewrites, logins>>

AdminUpsert(p) ==
    /\ proc[p].pc = "upsert"
    /\ proc[p].tok = Null
    /\ Upsert(proc[p].user, proc[p].pw)
    /\ proc' = [proc EXCEPT ![p] = Idle]
    /\ UNCHANGED <<groupRID, snap, token, lock, search, rewrites, logins>>

\* Wrong variant: no deferred rollback.
Fail_NoRollback(p) ==
    /\ proc[p].pc # "idle"
    /\ proc' = [proc EXCEPT ![p] = Idle]
    /\ UNCHANGED <<cred, ridSeq, groupRID, snap, token, lock, search, rewrites, logins>>

\* A statement fails, the 5 s context expires, or the replica dies: an open
\* transaction rolls back and its row lock goes with it.
Fail(p) ==
    /\ proc[p].pc # "idle"
    /\ lock' = [t \in Tokens |-> IF lock[t] = p THEN Null ELSE lock[t]]
    /\ proc' = [proc EXCEPT ![p] = Idle]
    /\ UNCHANGED <<cred, ridSeq, groupRID, snap, token, search, rewrites, logins>>

-----------------------------------------------------------------------------
(* handleSearch, Samba-privileged: two statements, one answer.             *)

\* AllSambaCredentials: the rows with an NT hash and a RID.  sambaAttrsFor takes
\* them for the users of the snapshot and does not ask how they log in.
SearchUsers(r) ==
    LET exported == {u \in Users : cred[u].nt # Null /\ snap[r][u].state # "absent"} IN
    /\ search' = [NoSearch EXCEPT
                    !.pc = "users",
                    !.users = [u \in Users |-> IF u \in exported THEN cred[u].rid ELSE NoRID]]
    /\ UNCHANGED <<cred, ridSeq, groupRID, snap, token, lock, proc, rewrites, logins>>

\* EnsureRIDs for the declared groups G: one value is drawn for each name, an
\* existing row keeps its own.  The SELECT shares the INSERT's snapshot and
\* reads the table as it was before the statement.
EnsureRIDs(G) ==
    /\ search.pc = "users"
    /\ ridSeq + Cardinality(G) <= MaxRID
    /\ ridSeq' = ridSeq + Cardinality(G)
    /\ \E f \in Injection(G, ridSeq..(ridSeq + Cardinality(G) - 1)) :
          groupRID' = [g \in Groups |->
                          IF g \in G /\ groupRID[g] = NoRID THEN f[g] ELSE groupRID[g]]
    /\ search' = [search EXCEPT
                    !.pc = "done", !.asked = G,
                    !.groups = [g \in Groups |-> IF g \in G THEN groupRID[g] ELSE NoRID]]
    /\ UNCHANGED <<cred, snap, token, lock, proc, rewrites, logins>>

-----------------------------------------------------------------------------
(* The hot reload of module HotReload, as far as one user is concerned.    *)

Declare(r, u, d) ==
    /\ snap' = [snap EXCEPT ![r][u] = d]
    /\ UNCHANGED <<cred, ridSeq, groupRID, token, lock, proc, search, rewrites, logins>>

-----------------------------------------------------------------------------

Step(p) ==
    \/ LoginGet(p) \/ LoginBackfill(p)
    \/ ConsumeCommit(p)
    \/ \E r \in Replicas : ConfirmRecheck(p, r)
    \/ ConfirmUpsert(p) \/ ConfirmIssueSession(p)
    \/ AdminUpsert(p)
    \/ Fail(p)

Next ==
    \/ \E p \in Procs : Step(p)
    \/ \E p \in Procs, u \in Users, pw \in Passwords :
          \/ \E r \in Replicas : LoginBegin(p, r, u, pw)
          \/ AdminSetPassword(p, u, pw)
    \/ \E p \in Procs, t \in Tokens, pw \in Passwords : ConsumeSelect(p, t, pw)
    \/ \E r \in Replicas, u \in Users, t \in Tokens :
          \/ HandleResetSubmit(r, u, t)
          \/ \E admin \in Users : HandleSendSetupLink(r, admin, u, t)
    \/ \E t \in Tokens : TokenExpires(t)
    \/ \E r \in Replicas : SearchUsers(r)
    \/ \E G \in SUBSET Groups : EnsureRIDs(G)
    \/ \E r \in Replicas, u \in Users, d \in Declaration : Declare(r, u, d)

\* Every handler runs under a 5 s context and every transaction is rolled back
\* by a deferred call, so a process that has begun always takes its next step.
Fairness == \A p \in Procs : WF_vars(Step(p))

Spec == Init /\ [][Next]_vars
FairSpec == Spec /\ Fairness

-----------------------------------------------------------------------------
(* Properties.                                                             *)

\* The two hashes of a row are of the same password, although Authenticate's
\* backfill writes a password it verified against a row that may have been
\* replaced since.
NTHashMatchesPassword ==
    \A u \in Users : cred[u].nt # Null =>
        \E pw \in Passwords : cred[u].nt = NTHash(pw) /\ cred[u].hash = Hash(pw)

\* A user that has an NT hash has a RID, so AllSambaCredentials hides nobody
\* whose password Samba could verify; and no two principals, users or groups,
\* ever share a RID, whichever statement drew it from the shared sequence.
RIDsIdentify ==
    /\ \A u \in Users : cred[u].nt # Null => cred[u].rid # NoRID
    /\ \A u, v \in Users : u # v /\ cred[u].rid = cred[v].rid => cred[u].rid = NoRID
    /\ \A g, h \in Groups : g # h /\ groupRID[g] = groupRID[h] => groupRID[g] = NoRID
    /\ \A u \in Users, g \in Groups : cred[u].rid = groupRID[g] => groupRID[g] = NoRID

\* A SID that a search has handed to Samba stays that principal's SID, through
\* every later password change, backfill and search.
PublishedSIDsStand ==
    /\ \A u \in Users : search.users[u] # NoRID => search.users[u] = cred[u].rid
    /\ \A g \in Groups : search.groups[g] # NoRID => search.groups[g] = groupRID[g]

\* A reset link changes at most one password and opens at most one session,
\* however many times it is submitted and on however many replicas.
ResetLinkActsOnce == \A t \in Tokens : rewrites[t] <= 1 /\ logins[t] <= rewrites[t]

\* A reset token's row never stays locked: a handler that dies between the
\* SELECT ... FOR UPDATE and the COMMIT leaves it as it found it.
LocksAreReleased == \A t \in Tokens : lock[t] # Null ~> lock[t] = Null

\* The doc of EnsureRIDs: it "returns the current RID for every name in
\* groupNames, assigning a fresh one ... to any name seen for the first time".
EnsureRIDsReturnsEveryName ==
    search.pc = "done" => \A g \in search.asked : search.groups[g] # NoRID

\* Samba's password follows the one that logins are verified against wherever no
\* hash is declared, and a declared hash changes nothing but the logins of the
\* replicas that serve it: Samba keeps the stored password, which searches go on
\* exporting (module PasswordRecord).
PasswordOf(hash) == IF hash = Null THEN Null ELSE hash[2]
Record == INSTANCE PasswordRecord WITH
    declared <- [r \in Replicas |-> [u \in Users |-> PasswordOf(snap[r][u].hash)]],
    stored <- [u \in Users |-> PasswordOf(cred[u].hash)],
    samba <- [u \in Users |-> PasswordOf(cred[u].nt)],
    None <- Null

KeepsPasswordRecord == Record!Spec
=============================================================================

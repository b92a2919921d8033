------------------------- MODULE CredentialsProofs -------------------------
(***************************************************************************)
(* Proofs about module Credentials, for every number of users, groups,     *)
(* passwords, tokens, replicas and processes.                              *)
(***************************************************************************)
EXTENDS Credentials, FiniteSetTheorems, TLAPS

\* A process that runs knows its user and its password, and a confirmation
\* its token, which has been created; a created token names a user.
ShapeOK ==
    /\ \A p \in Procs : proc[p].pc # "idle" => proc[p].user \in Users /\ proc[p].pw \in Passwords
    /\ \A p \in Procs : proc[p].pc \in {"locked", "consumed", "session"} => proc[p].tok \in Tokens
    /\ \A p \in Procs : proc[p].pc = "locked" => token[proc[p].tok].state # "none"
    /\ \A t \in Tokens : token[t].state # "none" => token[t].user \in Users

Typed == TypeOK /\ ShapeOK

LEMMA DrawIsNat == ASSUME NEW G \in SUBSET Groups PROVE Cardinality(G) \in Nat
BY ConstAssumption, FS_Subset, FS_CardinalityType

LEMMA InitTyped == Init => Typed
BY DEF Init, Typed, TypeOK, ShapeOK, LegacyRow, Row, NoRow, Declaration, TokenRow, NoToken,
       Process, Idle, Search, NoSearch, NoRID, FirstRID

LEMMA UpsertTyped ==
    ASSUME Typed, NEW u \in Users, NEW pw \in Passwords, Upsert(u, pw)
    PROVE  cred' \in [Users -> Row] /\ ridSeq' \in Nat
BY DEF Typed, TypeOK, Upsert, Row, Hashes, NTHashes, NoRID

LEMMA BackfillTyped ==
    ASSUME Typed, NEW u \in Users, NEW pw \in Passwords, SetNTHashIfMissing(u, pw)
    PROVE  cred' \in [Users -> Row] /\ ridSeq' \in Nat
BY SMTT(30) DEF Typed, TypeOK, SetNTHashIfMissing, Row, Hashes, NTHashes, NoRID

LEMMA StepTyped == ASSUME Typed, NEW p \in Procs, Step(p) PROVE Typed'
<1> USE DEF Typed, ShapeOK
<1>1. CASE LoginGet(p)
  BY <1>1 DEF TypeOK, LoginGet, Process, Idle
<1>2. CASE LoginBackfill(p)
  BY <1>2, BackfillTyped DEF TypeOK, LoginBackfill, Process, Idle
<1>3. CASE ConsumeCommit(p)
  <2> DEFINE t == proc[p].tok
  <2>1. t \in Tokens /\ token[t].user \in Users
    BY <1>3 DEF TypeOK, ConsumeCommit
  <2>2. /\ token'[t] \in TokenRow /\ token'[t].user = token[t].user /\ token'[t].state = "used"
        /\ \A s \in Tokens \ {t} : token'[s] = token[s]
    <3>1. token[t] \in TokenRow
      BY <2>1 DEF TypeOK
    <3>2. token'[t] = [token[t] EXCEPT !.state = "used"]
      BY <1>3, <2>1 DEF TypeOK, ConsumeCommit
    <3> QED BY <1>3, <3>1, <3>2 DEF TypeOK, ConsumeCommit, TokenRow
  <2>3. token' \in [Tokens -> TokenRow] /\ lock' \in [Tokens -> Procs \cup {Null}]
    BY <1>3, <2>1, <2>2 DEF TypeOK, ConsumeCommit, TokenRow
  <2>4. /\ proc' \in [Procs -> Process]
        /\ proc'[p] = [proc[p] EXCEPT !.pc = "consumed"]
        /\ \A q \in Procs \ {p} : proc'[q] = proc[q]
    BY <1>3 DEF TypeOK, ConsumeCommit, Process
  <2>5. TypeOK'
    BY <1>3, <2>3, <2>4 DEF TypeOK, ConsumeCommit
  <2> QED BY <1>3, <2>1, <2>2, <2>4, <2>5 DEF TypeOK, ConsumeCommit, Process
<1>4. ASSUME NEW r \in Replicas, ConfirmRecheck(p, r) PROVE Typed'
  BY <1>4, SMTT(30) DEF TypeOK, ConfirmRecheck, Process, Idle
<1>5. CASE ConfirmUpsert(p)
  BY <1>5, UpsertTyped, SMTT(30) DEF TypeOK, ConfirmUpsert, Process
<1>6. CASE ConfirmIssueSession(p)
  BY <1>6 DEF TypeOK, ConfirmIssueSession, Process, Idle
<1>7. CASE AdminUpsert(p)
  BY <1>7, UpsertTyped DEF TypeOK, AdminUpsert, Process, Idle
<1>8. CASE Fail(p)
  BY <1>8 DEF TypeOK, Fail, Process, Idle
<1> QED BY <1>1, <1>2, <1>3, <1>4, <1>5, <1>6, <1>7, <1>8 DEF Step

LEMMA NextTyped == Typed /\ [Next]_vars => Typed'
<1> SUFFICES ASSUME Typed, [Next]_vars PROVE Typed'
  OBVIOUS
<1> USE DEF Typed, ShapeOK
<1>1. ASSUME NEW p \in Procs, Step(p) PROVE Typed'
  BY <1>1, StepTyped
<1>2. ASSUME NEW p \in Procs, NEW u \in Users, NEW pw \in Passwords, NEW r \in Replicas,
             LoginBegin(p, r, u, pw)
      PROVE  Typed'
  BY <1>2 DEF TypeOK, LoginBegin, Process
<1>3. ASSUME NEW p \in Procs, NEW u \in Users, NEW pw \in Passwords, AdminSetPassword(p, u, pw)
      PROVE  Typed'
  BY <1>3 DEF TypeOK, AdminSetPassword, Process
<1>4. ASSUME NEW p \in Procs, NEW t \in Tokens, NEW pw \in Passwords, ConsumeSelect(p, t, pw)
      PROVE  Typed'
  BY <1>4 DEF TypeOK, ConsumeSelect, Process, TokenRow
<1>5. ASSUME NEW r \in Replicas, NEW u \in Users, NEW t \in Tokens, HandleResetSubmit(r, u, t)
      PROVE  Typed'
  BY <1>5 DEF TypeOK, HandleResetSubmit, CreateToken, TokenRow, NoToken
<1>6. ASSUME NEW r \in Replicas, NEW u \in Users, NEW t \in Tokens, NEW admin \in Users,
             HandleSendSetupLink(r, admin, u, t)
      PROVE  Typed'
  BY <1>6 DEF TypeOK, HandleSendSetupLink, CreateToken, TokenRow, NoToken
<1>7. ASSUME NEW t \in Tokens, TokenExpires(t) PROVE Typed'
  BY <1>7 DEF TypeOK, TokenExpires, TokenRow
<1>8. ASSUME NEW r \in Replicas, SearchUsers(r) PROVE Typed'
  BY <1>8 DEF TypeOK, SearchUsers, Search, NoSearch, NoRID, Row
<1>9. ASSUME NEW G \in SUBSET Groups, EnsureRIDs(G) PROVE Typed'
  <2>1. Cardinality(G) \in Nat
    BY DrawIsNat
  <2>2. ridSeq' \in Nat /\ search' \in Search
    <3>1. [g \in Groups |-> IF g \in G THEN groupRID[g] ELSE NoRID] \in [Groups -> Nat]
      BY DEF TypeOK, NoRID
    <3>2. search' \in Search
      BY <1>9, <3>1 DEF TypeOK, EnsureRIDs, Search
    <3> QED BY <1>9, <2>1, <3>2 DEF TypeOK, EnsureRIDs
  <2>3. groupRID' \in [Groups -> Nat]
    <3>1. PICK f \in Injection(G, ridSeq..(ridSeq + Cardinality(G) - 1)) :
             groupRID' = [g \in Groups |->
                            IF g \in G /\ groupRID[g] = NoRID THEN f[g] ELSE groupRID[g]]
      BY <1>9 DEF EnsureRIDs
    <3>2. \A g \in G : f[g] \in Nat
      BY <2>1 DEF Injection, TypeOK
    <3> QED BY <3>1, <3>2 DEF TypeOK
  <2> QED BY <1>9, <2>2, <2>3 DEF TypeOK, EnsureRIDs
<1>10. ASSUME NEW r \in Replicas, NEW u \in Users, NEW d \in Declaration, Declare(r, u, d)
       PROVE  Typed'
  BY <1>10 DEF TypeOK, Declare
<1>11. CASE UNCHANGED vars
  BY <1>11 DEF TypeOK, vars
<1> QED BY <1>1, <1>2, <1>3, <1>4, <1>5, <1>6, <1>7, <1>8, <1>9, <1>10, <1>11 DEF Next

\* Every variable keeps its type: in particular every row the statements write
\* is a row of its table, and a running handler always knows whose it is.
THEOREM TypeCorrect == Spec => []TypeOK
<1>1. Spec => []Typed
  BY InitTyped, NextTyped, PTL DEF Spec
<1> QED BY <1>1, PTL DEF Typed

-----------------------------------------------------------------------------
(* The NT hash.  NTHashMatchesPassword alone is not inductive: what makes  *)
(* a late backfill harmless is that a row still without an NT hash is      *)
(* still the row the login verified.                                       *)

BackfillFresh ==
    \A p \in Procs :
        proc[p].pc = "backfill" /\ cred[proc[p].user].nt = Null
            => cred[proc[p].user].hash = Hash(proc[p].pw)

NTInv == Typed /\ NTHashMatchesPassword /\ BackfillFresh

LEMMA HashFacts ==
    ASSUME NEW pw \in Passwords
    PROVE  /\ Hash(pw) # Null /\ NTHash(pw) # Null
           /\ \A q \in Passwords : (Hash(pw) = Hash(q) => pw = q) /\ (NTHash(pw) = NTHash(q) => pw = q)
BY NullAssumption DEF Hashes, NTHashes, Hash, NTHash

LEMMA UpsertRow ==
    ASSUME Typed, NEW u \in Users, NEW pw \in Passwords, Upsert(u, pw)
    PROVE  /\ cred'[u].hash = Hash(pw) /\ cred'[u].nt = NTHash(pw)
           /\ cred'[u].rid = IF cred[u].rid = NoRID THEN ridSeq ELSE cred[u].rid
           /\ \A v \in Users \ {u} : cred'[v] = cred[v]
BY DEF Typed, TypeOK, Upsert, Row

LEMMA BackfillRow ==
    ASSUME Typed, NEW u \in Users, NEW pw \in Passwords, SetNTHashIfMissing(u, pw)
    PROVE  /\ cred'[u].hash = cred[u].hash
           /\ cred[u].nt # Null \/ cred[u].hash = Null
                 => cred'[u].nt = cred[u].nt /\ cred'[u].rid = cred[u].rid /\ ridSeq' = ridSeq
           /\ cred[u].nt = Null /\ cred[u].hash # Null
                 => /\ cred'[u].nt = NTHash(pw)
                    /\ cred'[u].rid = IF cred[u].rid = NoRID THEN ridSeq ELSE cred[u].rid
                    /\ ridSeq' = IF cred[u].rid = NoRID THEN ridSeq + 1 ELSE ridSeq
           /\ \A v \in Users \ {u} : cred'[v] = cred[v]
<1>1. CASE HasRow(u) /\ cred[u].nt = Null
  <2>1. cred[u] \in Row
    BY DEF Typed, TypeOK
  <2>2. cred' = [cred EXCEPT ![u] = [cred[u] EXCEPT !.nt = NTHash(pw),
                                       !.rid = IF cred[u].rid = NoRID THEN ridSeq ELSE cred[u].rid]]
    BY <1>1, <2>1 DEF SetNTHashIfMissing, Typed, TypeOK, Row
  <2>3. cred'[u] = [cred[u] EXCEPT !.nt = NTHash(pw),
                       !.rid = IF cred[u].rid = NoRID THEN ridSeq ELSE cred[u].rid]
    BY <2>2 DEF Typed, TypeOK
  <2> QED BY <1>1, <2>1, <2>2, <2>3 DEF SetNTHashIfMissing, Typed, TypeOK, Row, HasRow
<1>2. CASE ~(HasRow(u) /\ cred[u].nt = Null)
  BY <1>2 DEF SetNTHashIfMissing, HasRow
<1> QED BY <1>1, <1>2

\* The steps that write no credential and begin no backfill.
Quiet ==
    /\ UNCHANGED cred
    /\ \A p \in Procs : proc'[p].pc = "backfill" => proc'[p] = proc[p]

LEMMA NTQuiet == NTInv /\ Quiet /\ Typed' => NTInv'
BY DEF NTInv, Quiet, NTHashMatchesPassword, BackfillFresh

\* A password change leaves no older backfill anything to write.
LEMMA NTUpsert ==
    ASSUME NTInv, Typed', NEW u \in Users, NEW pw \in Passwords, Upsert(u, pw),
           \A p \in Procs : proc'[p].pc = "backfill" => proc'[p] = proc[p]
    PROVE  NTInv'
<1>1. /\ cred'[u].hash = Hash(pw) /\ cred'[u].nt = NTHash(pw)
      /\ \A v \in Users \ {u} : cred'[v] = cred[v]
  BY UpsertRow DEF NTInv
<1>2. NTHashMatchesPassword'
  BY <1>1 DEF NTInv, NTHashMatchesPassword
<1>3. BackfillFresh'
  BY <1>1, HashFacts DEF NTInv, BackfillFresh, Typed, ShapeOK
<1> QED BY <1>2, <1>3 DEF NTInv

LEMMA NTBackfill ==
    ASSUME NTInv, Typed', NEW p \in Procs, LoginBackfill(p)
    PROVE  NTInv'
<1> DEFINE u == proc[p].user
           pw == proc[p].pw
<1>1. u \in Users /\ pw \in Passwords /\ SetNTHashIfMissing(u, pw) /\ Typed
  BY DEF LoginBackfill, NTInv, Typed, ShapeOK
<1>2. /\ cred'[u].hash = cred[u].hash
      /\ cred[u].nt # Null \/ cred[u].hash = Null => cred'[u].nt = cred[u].nt
      /\ cred[u].nt = Null /\ cred[u].hash # Null => cred'[u].nt = NTHash(pw)
      /\ \A v \in Users \ {u} : cred'[v] = cred[v]
  BY <1>1, BackfillRow
<1>3. cred[u].nt = Null => cred[u].hash = Hash(pw)
  BY DEF NTInv, BackfillFresh, LoginBackfill
<1>4. NTHashMatchesPassword'
  BY <1>1, <1>2, <1>3, HashFacts DEF NTInv, NTHashMatchesPassword
<1>5. BackfillFresh'
  <2>1. \A q \in Procs : proc'[q].pc = "backfill" => proc'[q] = proc[q] /\ proc[q].user \in Users
    BY <1>1 DEF LoginBackfill, Typed, ShapeOK, TypeOK, Idle
  <2>2. \A v \in Users : cred'[v].nt = Null => cred[v].nt = Null /\ cred'[v].hash = cred[v].hash
    BY <1>1, <1>2, <1>3, HashFacts
  <2> QED BY <2>1, <2>2 DEF NTInv, BackfillFresh
<1> QED BY <1>4, <1>5 DEF NTInv

LEMMA NTGet ==
    ASSUME NTInv, Typed', NEW p \in Procs, LoginGet(p)
    PROVE  NTInv'
<1>1. \A q \in Procs : proc'[q].pc = "backfill" =>
         \/ proc'[q] = proc[q]
         \/ /\ q = p
            /\ proc'[q].user = proc[q].user /\ proc'[q].pw = proc[q].pw
            /\ cred[proc[q].user].hash = Hash(proc[q].pw)
  BY DEF LoginGet, NTInv, Typed, TypeOK, Process, Idle, Verify
<1> QED BY <1>1 DEF NTInv, NTHashMatchesPassword, BackfillFresh, LoginGet

LEMMA NTNext == NTInv /\ [Next]_vars => NTInv'
<1> SUFFICES ASSUME NTInv, [Next]_vars PROVE NTInv'
  OBVIOUS
<1>1. Typed /\ Typed'
  BY NextTyped DEF NTInv
<1>2. ASSUME NEW p \in Procs, Step(p) PROVE NTInv'
  <2>1. CASE LoginGet(p)
    BY <1>1, <2>1, NTGet
  <2>2. CASE LoginBackfill(p)
    BY <1>1, <2>2, NTBackfill
  <2>3. CASE ConfirmUpsert(p)
    <3>1. proc[p].user \in Users /\ proc[p].pw \in Passwords /\ Upsert(proc[p].user, proc[p].pw)
      BY <1>1, <2>3 DEF ConfirmUpsert, Typed, ShapeOK
    <3>2. \A q \in Procs : proc'[q].pc = "backfill" => proc'[q] = proc[q]
      BY <1>1, <2>3 DEF ConfirmUpsert, Typed, TypeOK, Process
    <3> QED BY <1>1, <3>1, <3>2, NTUpsert
  <2>4. CASE AdminUpsert(p)
    <3>1. proc[p].user \in Users /\ proc[p].pw \in Passwords /\ Upsert(proc[p].user, proc[p].pw)
      BY <1>1, <2>4 DEF AdminUpsert, Typed, ShapeOK
    <3>2. \A q \in Procs : proc'[q].pc = "backfill" => proc'[q] = proc[q]
      BY <1>1, <2>4 DEF AdminUpsert, Typed, TypeOK, Idle
    <3> QED BY <1>1, <3>1, <3>2, NTUpsert
  <2>5. CASE ConsumeCommit(p) \/ (\E r \in Replicas : ConfirmRecheck(p, r))
             \/ ConfirmIssueSession(p) \/ Fail(p)
    BY <1>1, <2>5, NTQuiet
       DEF Quiet, ConsumeCommit, ConfirmRecheck, ConfirmIssueSession, Fail, Typed, TypeOK, Process, Idle
  <2> QED BY <1>2, <2>1, <2>2, <2>3, <2>4, <2>5 DEF Step
<1>3. ASSUME NEW p \in Procs, NEW u \in Users, NEW pw \in Passwords,
             (\E r \in Replicas : LoginBegin(p, r, u, pw)) \/ AdminSetPassword(p, u, pw)
      PROVE  NTInv'
  BY <1>1, <1>3, NTQuiet DEF Quiet, LoginBegin, AdminSetPassword, Typed, TypeOK
<1>4. ASSUME NEW p \in Procs, NEW t \in Tokens, NEW pw \in Passwords, ConsumeSelect(p, t, pw)
      PROVE  NTInv'
  BY <1>1, <1>4, NTQuiet DEF Quiet, ConsumeSelect, Typed, TypeOK
<1>5. CASE UNCHANGED <<cred, proc>>
  BY <1>1, <1>5, NTQuiet DEF Quiet
<1> QED BY <1>2, <1>3, <1>4, <1>5 DEF Next, vars, HandleResetSubmit, HandleSendSetupLink,
           TokenExpires, SearchUsers, EnsureRIDs, Declare

\* The two hashes of a row are of one password: no interleaving of logins,
\* resets and `admin set-password` leaves an account whose stored NT hash is of
\* another password than its stored Argon2id hash.
THEOREM NTHashCorrect == Spec => []NTHashMatchesPassword
<1>1. Init => NTInv
  BY InitTyped DEF Init, NTInv, NTHashMatchesPassword, BackfillFresh, LegacyRow, NoRow, Idle
<1> QED BY <1>1, NTNext, PTL DEF Spec, NTInv

-----------------------------------------------------------------------------
(* Refinement of PasswordRecord.                                           *)

DeclaredOf == [r \in Replicas |-> [u \in Users |-> PasswordOf(snap[r][u].hash)]]
StoredOf == [u \in Users |-> PasswordOf(cred[u].hash)]
SambaOf == [u \in Users |-> PasswordOf(cred[u].nt)]

LEMMA PasswordsOf ==
    /\ PasswordOf(Null) = Null
    /\ \A pw \in Passwords : PasswordOf(Hash(pw)) = pw /\ PasswordOf(NTHash(pw)) = pw
BY HashFacts DEF PasswordOf, Hash, NTHash

LEMMA RefInit == Init => Record!Init
<1> SUFFICES ASSUME Init PROVE Record!Init
  OBVIOUS
<1>1. \A u \in Users : cred[u] = NoRow \/ (cred[u].nt = Null /\ \E pw \in Passwords : cred[u].hash = Hash(pw))
  BY DEF Init, LegacyRow, Hashes
<1>2. \A u \in Users : StoredOf[u] \in Passwords \cup {Null} /\ SambaOf[u] = Null
  BY <1>1, PasswordsOf DEF StoredOf, SambaOf, NoRow
<1>3. DeclaredOf = [r \in Replicas |-> [u \in Users |-> Null]]
  BY PasswordsOf DEF Init, DeclaredOf
<1> QED BY <1>2, <1>3 DEF Record!Init, DeclaredOf, StoredOf, SambaOf

LEMMA RefUpsert ==
    ASSUME Typed, NEW u \in Users, NEW pw \in Passwords, Upsert(u, pw), UNCHANGED snap
    PROVE  Record!SetPassword(u, pw)
<1>1. /\ cred'[u].hash = Hash(pw) /\ cred'[u].nt = NTHash(pw)
      /\ \A v \in Users \ {u} : cred'[v] = cred[v]
  BY UpsertRow
<1>2. PasswordOf(Hash(pw)) = pw /\ PasswordOf(NTHash(pw)) = pw
  BY PasswordsOf
<1>3. StoredOf' = [StoredOf EXCEPT ![u] = pw] /\ SambaOf' = [SambaOf EXCEPT ![u] = pw]
  BY <1>1, <1>2 DEF StoredOf, SambaOf
<1> QED BY <1>3 DEF Record!SetPassword, StoredOf, SambaOf

LEMMA RefBackfill ==
    ASSUME NTInv, NEW p \in Procs, LoginBackfill(p)
    PROVE  Record!Next \/ UNCHANGED Record!vars
<1> SUFFICES ASSUME NEW u \in Users, NEW pw \in Passwords, u = proc[p].user, pw = proc[p].pw
             PROVE  Record!Next \/ UNCHANGED Record!vars
  BY DEF LoginBackfill, NTInv, Typed, ShapeOK
<1>1. SetNTHashIfMissing(u, pw) /\ Typed /\ UNCHANGED snap
  BY DEF LoginBackfill, NTInv
<1>2. cred[u].nt = Null => cred[u].hash = Hash(pw)
  BY DEF NTInv, BackfillFresh, LoginBackfill
<1>3. /\ PasswordOf(Hash(pw)) = pw /\ PasswordOf(NTHash(pw)) = pw /\ PasswordOf(Null) = Null
      /\ Hash(pw) # Null /\ NTHash(pw) # Null
  BY PasswordsOf, HashFacts
<1>4. CASE cred[u].nt = Null
  <2>1. /\ cred'[u].hash = cred[u].hash /\ cred'[u].nt = NTHash(pw)
        /\ \A v \in Users \ {u} : cred'[v] = cred[v]
    BY <1>1, <1>2, <1>3, <1>4, BackfillRow
  <2>2. /\ StoredOf' = StoredOf /\ SambaOf' = [SambaOf EXCEPT ![u] = StoredOf[u]]
        /\ StoredOf[u] = pw /\ SambaOf[u] = Null
    BY <1>1, <1>2, <1>3, <1>4, <2>1 DEF StoredOf, SambaOf
  <2>3. Record!Learn(u)
    BY <1>1, <2>2, ConstAssumption DEF Record!Learn, StoredOf, SambaOf
  <2> QED BY <1>1, <2>3 DEF Record!Next
<1>5. CASE cred[u].nt # Null
  <2>1. UNCHANGED cred
    BY <1>1, <1>5 DEF SetNTHashIfMissing
  <2> QED BY <1>1, <2>1 DEF Record!vars
<1> QED BY <1>4, <1>5

LEMMA RefNext == NTInv /\ [Next]_vars => [Record!Next]_Record!vars
<1> SUFFICES ASSUME NTInv, [Next]_vars PROVE Record!Next \/ UNCHANGED Record!vars
  OBVIOUS
<1>1. ASSUME UNCHANGED <<cred, snap>> PROVE UNCHANGED Record!vars
  BY <1>1 DEF Record!vars
<1>2. ASSUME NEW p \in Procs, ConfirmUpsert(p) \/ AdminUpsert(p) PROVE Record!Next
  <2>1. /\ proc[p].user \in Users /\ proc[p].pw \in Passwords
        /\ Upsert(proc[p].user, proc[p].pw) /\ UNCHANGED snap
    BY <1>2 DEF ConfirmUpsert, AdminUpsert, NTInv, Typed, ShapeOK
  <2> QED BY <2>1, RefUpsert DEF Record!Next, NTInv
<1>3. ASSUME NEW p \in Procs, LoginBackfill(p) PROVE Record!Next \/ UNCHANGED Record!vars
  BY <1>3, RefBackfill
<1>4. ASSUME NEW r \in Replicas, NEW u \in Users, NEW d \in Declaration, Declare(r, u, d)
      PROVE  Record!Next
  <2>1. PasswordOf(d.hash) \in Passwords \cup {Null}
    BY PasswordsOf DEF Declaration, Hashes
  <2>2. DeclaredOf' = [DeclaredOf EXCEPT ![r][u] = PasswordOf(d.hash)]
    BY <1>4 DEF Declare, DeclaredOf, NTInv, Typed, TypeOK
  <2>3. Record!Declare(r, u, PasswordOf(d.hash))
    BY <1>4, <2>2 DEF Record!Declare, Declare, DeclaredOf
  <2> QED BY <2>1, <2>3 DEF Record!Next
<1>5. \/ UNCHANGED <<cred, snap>>
      \/ \E r \in Replicas, u \in Users, d \in Declaration : Declare(r, u, d)
      \/ \E p \in Procs : LoginBackfill(p) \/ ConfirmUpsert(p) \/ AdminUpsert(p)
  BY DEF Next, Step, vars, LoginBegin, LoginGet, HandleResetSubmit, HandleSendSetupLink, TokenExpires,
         ConsumeSelect, ConsumeCommit, ConfirmRecheck, ConfirmIssueSession, AdminSetPassword, Fail,
         SearchUsers, EnsureRIDs
<1> QED BY <1>1, <1>2, <1>3, <1>4, <1>5

\* What the invariant says to the two readers.
LEMMA RefAgree == NTInv => Record!Agreement
<1> SUFFICES ASSUME NTInv, NEW r \in Replicas, NEW u \in Users,
                    DeclaredOf[r][u] = Null, SambaOf[u] # Null
             PROVE  SambaOf[u] = StoredOf[u]
  BY DEF Record!Agreement, Record!Current, DeclaredOf, StoredOf, SambaOf
<1>1. cred[u].nt # Null
  BY PasswordsOf DEF SambaOf
<1>2. PICK pw \in Passwords : cred[u].nt = NTHash(pw) /\ cred[u].hash = Hash(pw)
  BY <1>1 DEF NTInv, NTHashMatchesPassword
<1> QED BY <1>2, PasswordsOf DEF SambaOf, StoredOf

\* The credential store implements PasswordRecord.  Whatever the order of its
\* statements, a password change reaches both hashes at once, and a late backfill
\* teaches Samba the stored password and no older one.  A declared hash changes what
\* the logins of its replica are verified against, and nothing of what Samba accepts.
THEOREM RecordKept == Spec => KeepsPasswordRecord
<1>1. Init => NTInv
  BY InitTyped DEF Init, NTInv, NTHashMatchesPassword, BackfillFresh, LegacyRow, NoRow, Idle
<1> QED BY <1>1, NTNext, RefInit, RefNext, PTL DEF Spec, KeepsPasswordRecord, Record!Spec

\* What Samba accepts (sambaAttrsFor's NT hash) is the password that a login must
\* present (Authenticate) on every replica that declares no hash for the account.
THEOREM ReadersAgree == Spec => []Record!Agreement
<1>1. Init => NTInv
  BY InitTyped DEF Init, NTInv, NTHashMatchesPassword, BackfillFresh, LegacyRow, NoRow, Idle
<1> QED BY <1>1, NTNext, RefAgree, PTL DEF Spec

-----------------------------------------------------------------------------
(***************************************************************************)
(* A reset link acts once: the proof, for every number of tokens, replicas *)
(* and handlers, that module Credentials keeps ResetLinkActsOnce.          *)
(***************************************************************************)

\* Process p is past Consume with token t.
Spends(p, t) == proc[p].tok = t /\ proc[p].pc \in {"consumed", "upsert", "session"}

\* Who reads an unspent token holds its row lock.
LockedByReader ==
    \A p \in Procs : proc[p].pc = "locked" =>
        lock[proc[p].tok] = p /\ token[proc[p].tok].state # "used"

\* A token nobody has spent has done nothing.
UnspentIsUnused ==
    \A t \in Tokens : token[t].state # "used" =>
        rewrites[t] = 0 /\ logins[t] = 0 /\ \A p \in Procs : ~Spends(p, t)

OneSpender == \A t \in Tokens : \A p, q \in Procs : Spends(p, t) /\ Spends(q, t) => p = q

\* What the spender of a token has done so far.
SpenderAccounts ==
    \A t \in Tokens, p \in Procs : Spends(p, t) =>
        /\ logins[t] = 0
        /\ rewrites[t] = IF proc[p].pc = "session" THEN 1 ELSE 0

OnceInv ==
    Typed /\ LockedByReader /\ UnspentIsUnused /\ OneSpender /\ SpenderAccounts /\ ResetLinkActsOnce

\* A step of p that leaves the tables of this invariant alone, or ends p.
LEMMA OnceQuiet ==
    ASSUME OnceInv, Typed', UNCHANGED <<token, rewrites, logins>>,
           \A q \in Procs : \/ proc'[q] = proc[q]
                            \/ proc'[q].pc \notin {"locked", "consumed", "upsert", "session"}
                            \/ proc'[q].pc = "upsert" /\ proc'[q].tok = Null
                            \/ proc[q].pc = "consumed" /\ proc'[q] = [proc[q] EXCEPT !.pc = "upsert"],
           \A q \in Procs : proc'[q].pc = "locked" => lock'[proc'[q].tok] = lock[proc'[q].tok]
    PROVE  OnceInv'
<1> USE ConstAssumption DEF OnceInv, Typed, TypeOK, ShapeOK
<1>1. \A q \in Procs : proc[q] \in Process /\ proc'[q] \in Process
  OBVIOUS
<1>2. \A q \in Procs, t \in Tokens :
        Spends(q, t)' => Spends(q, t) /\ (proc'[q].pc = "session" <=> proc[q].pc = "session")
  BY <1>1 DEF Spends, Process
<1>3. \A q \in Procs : proc'[q].pc = "locked" => proc'[q] = proc[q]
  BY <1>1 DEF Process
<1>4. LockedByReader'
  BY <1>3 DEF LockedByReader
<1>5. UnspentIsUnused' /\ OneSpender'
  BY <1>2 DEF UnspentIsUnused, OneSpender
<1>6. SpenderAccounts'
  BY <1>2 DEF SpenderAccounts
<1> QED BY <1>4, <1>5, <1>6 DEF ResetLinkActsOnce

LEMMA OnceSelect ==
    ASSUME OnceInv, Typed', NEW p \in Procs, NEW t \in Tokens, NEW pw \in Passwords,
           ConsumeSelect(p, t, pw)
    PROVE  OnceInv'
<1> USE ConstAssumption DEF OnceInv, Typed, TypeOK, ShapeOK
<1>1. /\ proc'[p].pc = "locked" /\ proc'[p].tok = t /\ lock'[t] = p /\ token[t].state = "live"
      /\ lock[t] = Null
      /\ \A q \in Procs \ {p} : proc'[q] = proc[q]
      /\ \A s \in Tokens \ {t} : lock'[s] = lock[s]
      /\ UNCHANGED <<token, rewrites, logins>>
  BY DEF ConsumeSelect
<1>2. \A q \in Procs, s \in Tokens : Spends(q, s)' => q # p /\ Spends(q, s)
  BY <1>1 DEF Spends
<1>3. LockedByReader'
  BY <1>1 DEF LockedByReader
<1>4. UnspentIsUnused' /\ OneSpender'
  BY <1>1, <1>2 DEF UnspentIsUnused, OneSpender
<1>5. SpenderAccounts'
  BY <1>1, <1>2 DEF SpenderAccounts
<1> QED BY <1>1, <1>3, <1>4, <1>5 DEF ResetLinkActsOnce

LEMMA OnceCommit ==
    ASSUME OnceInv, Typed', NEW p \in Procs, ConsumeCommit(p)
    PROVE  OnceInv'
<1> USE ConstAssumption DEF OnceInv, Typed, TypeOK, ShapeOK
<1> DEFINE t == proc[p].tok
<1>1. t \in Tokens /\ lock[t] = p /\ token[t].state # "used"
  BY DEF ConsumeCommit, LockedByReader
<1>2. /\ proc'[p].pc = "consumed" /\ proc'[p].tok = t
      /\ \A q \in Procs \ {p} : proc'[q] = proc[q]
      /\ \A s \in Tokens \ {t} : lock'[s] = lock[s] /\ token'[s] = token[s]
      /\ token'[t].state = "used"
      /\ UNCHANGED <<rewrites, logins>>
  BY <1>1 DEF ConsumeCommit, TokenRow, Process
<1>3. \A q \in Procs, s \in Tokens : Spends(q, s)' => (q = p /\ s = t) \/ (q # p /\ s # t /\ Spends(q, s))
  BY <1>1, <1>2 DEF Spends, UnspentIsUnused
<1>4. LockedByReader'
  <2> SUFFICES ASSUME NEW q \in Procs, proc'[q].pc = "locked"
               PROVE  lock'[proc'[q].tok] = q /\ token'[proc'[q].tok].state # "used"
    BY DEF LockedByReader
  <2>1. q # p /\ proc[q].pc = "locked" /\ proc'[q] = proc[q]
    BY <1>2
  <2>2. proc[q].tok \in Tokens /\ lock[proc[q].tok] = q
    BY <2>1 DEF LockedByReader
  <2>3. proc[q].tok # t
    BY <1>1, <2>1, <2>2
  <2> QED BY <1>2, <2>1, <2>2, <2>3 DEF LockedByReader
<1>5. UnspentIsUnused'
  BY <1>1, <1>2, <1>3 DEF UnspentIsUnused
<1>6. OneSpender'
  BY <1>3 DEF OneSpender
<1>7. SpenderAccounts'
  <2>1. rewrites[t] = 0 /\ logins[t] = 0
    BY <1>1 DEF UnspentIsUnused
  <2> QED BY <1>1, <1>2, <1>3, <2>1 DEF SpenderAccounts
<1> QED BY <1>2, <1>4, <1>5, <1>6, <1>7 DEF ResetLinkActsOnce

LEMMA OnceUpsert ==
    ASSUME OnceInv, Typed', NEW p \in Procs, ConfirmUpsert(p)
    PROVE  OnceInv'
<1> USE ConstAssumption DEF OnceInv, Typed, TypeOK, ShapeOK
<1> DEFINE t == proc[p].tok
<1>1. t \in Tokens /\ Spends(p, t)
  BY DEF ConfirmUpsert, Spends, Process
<1>2. token[t].state = "used" /\ rewrites[t] = 0 /\ logins[t] = 0
  BY <1>1 DEF UnspentIsUnused, SpenderAccounts, ConfirmUpsert
<1>3. /\ proc'[p].pc = "session" /\ proc'[p].tok = t
      /\ \A q \in Procs \ {p} : proc'[q] = proc[q]
      /\ \A s \in Tokens \ {t} : rewrites'[s] = rewrites[s]
      /\ rewrites'[t] = 1
      /\ UNCHANGED <<token, lock, logins>>
  BY <1>1, <1>2 DEF ConfirmUpsert, Process
<1>4. \A q \in Procs, s \in Tokens : Spends(q, s)' => Spends(q, s) /\ (q = p <=> s = t)
  BY <1>1, <1>3 DEF Spends, OneSpender
<1>5. LockedByReader'
  BY <1>3 DEF LockedByReader
<1>6. UnspentIsUnused' /\ OneSpender'
  BY <1>2, <1>3, <1>4 DEF UnspentIsUnused, OneSpender
<1>7. SpenderAccounts'
  BY <1>2, <1>3, <1>4 DEF SpenderAccounts
<1>8. ResetLinkActsOnce'
  <2>1. \A s \in Tokens : rewrites'[s] <= 1 /\ logins'[s] <= rewrites'[s]
    BY <1>2, <1>3 DEF ResetLinkActsOnce
  <2> QED BY <2>1 DEF ResetLinkActsOnce
<1> QED BY <1>5, <1>6, <1>7, <1>8

LEMMA OnceSession ==
    ASSUME OnceInv, Typed', NEW p \in Procs, ConfirmIssueSession(p)
    PROVE  OnceInv'
<1> USE ConstAssumption DEF OnceInv, Typed, TypeOK, ShapeOK
<1> DEFINE t == proc[p].tok
<1>1. t \in Tokens /\ Spends(p, t)
  BY DEF ConfirmIssueSession, Spends, Process
<1>2. token[t].state = "used" /\ rewrites[t] = 1 /\ logins[t] = 0
  BY <1>1 DEF UnspentIsUnused, SpenderAccounts, ConfirmIssueSession
<1>3. /\ proc'[p].pc = "idle"
      /\ \A q \in Procs \ {p} : proc'[q] = proc[q]
      /\ \A s \in Tokens \ {t} : logins'[s] = logins[s]
      /\ logins'[t] = 1
      /\ UNCHANGED <<token, lock, rewrites>>
  BY <1>1, <1>2 DEF ConfirmIssueSession, Process, Idle
<1>4. \A q \in Procs, s \in Tokens : Spends(q, s)' => Spends(q, s) /\ q # p /\ s # t
  BY <1>1, <1>3 DEF Spends, OneSpender
<1>5. LockedByReader'
  <2>1. ASSUME NEW q \in Procs, proc'[q].pc = "locked" PROVE proc'[q] = proc[q]
    BY <1>3, <2>1
  <2> QED BY <1>3, <2>1, SMTT(30) DEF LockedByReader
<1>6. UnspentIsUnused' /\ OneSpender'
  BY <1>2, <1>3, <1>4 DEF UnspentIsUnused, OneSpender
<1>7. SpenderAccounts'
  BY <1>2, <1>3, <1>4 DEF SpenderAccounts
<1> QED BY <1>2, <1>3, <1>5, <1>6, <1>7 DEF ResetLinkActsOnce

\* A token is created or expires: it was not used and is not used now.
LEMMA OnceToken ==
    ASSUME OnceInv, Typed', NEW t \in Tokens, token[t].state # "used", token'[t].state # "used",
           \A s \in Tokens \ {t} : token'[s] = token[s],
           UNCHANGED <<proc, lock, rewrites, logins>>
    PROVE  OnceInv'
<1> USE DEF OnceInv, Typed, TypeOK, ShapeOK
<1>1. LockedByReader'
  BY DEF LockedByReader
<1>2. UnspentIsUnused' /\ OneSpender'
  BY DEF UnspentIsUnused, OneSpender, Spends
<1>3. SpenderAccounts'
  BY DEF SpenderAccounts, Spends
<1> QED BY <1>1, <1>2, <1>3 DEF ResetLinkActsOnce

LEMMA OnceNext == OnceInv /\ [Next]_vars => OnceInv'
<1> SUFFICES ASSUME OnceInv, [Next]_vars PROVE OnceInv'
  OBVIOUS
<1>1. Typed /\ Typed'
  BY NextTyped DEF OnceInv
<1> USE <1>1
<1>2. ASSUME NEW p \in Procs, Step(p) PROVE OnceInv'
  <2>1. CASE LoginGet(p)
    BY <2>1, OnceQuiet DEF LoginGet, Idle, Typed, TypeOK, Process
  <2>2. CASE LoginBackfill(p)
    BY <2>2, OnceQuiet DEF LoginBackfill, Idle, Typed, TypeOK, Process
  <2>3. CASE ConsumeCommit(p)
    BY <2>3, OnceCommit
  <2>4. ASSUME NEW r \in Replicas, ConfirmRecheck(p, r) PROVE OnceInv'
    BY <2>4, OnceQuiet DEF ConfirmRecheck, Idle, Typed, TypeOK, Process
  <2>5. CASE ConfirmUpsert(p)
    BY <2>5, OnceUpsert
  <2>6. CASE ConfirmIssueSession(p)
    BY <2>6, OnceSession
  <2>7. CASE AdminUpsert(p)
    BY <2>7, OnceQuiet DEF AdminUpsert, Idle, Typed, TypeOK, Process
  <2>8. CASE Fail(p)
    <3>1. \A q \in Procs : proc'[q] = proc[q] \/ proc'[q].pc = "idle"
      BY <2>8 DEF Fail, Idle, Typed, TypeOK
    <3>2. \A q \in Procs : proc'[q].pc = "locked" => lock'[proc'[q].tok] = lock[proc'[q].tok]
      BY <2>8 DEF Fail, Idle, OnceInv, LockedByReader, Typed, TypeOK, ShapeOK
    <3> QED BY <2>8, <3>1, <3>2, OnceQuiet DEF Fail
  <2> QED BY <1>2, <2>1, <2>2, <2>3, <2>4, <2>5, <2>6, <2>7, <2>8 DEF Step
<1>3. ASSUME NEW p \in Procs, NEW u \in Users, NEW pw \in Passwords, NEW r \in Replicas,
             LoginBegin(p, r, u, pw)
      PROVE  OnceInv'
  BY <1>3, OnceQuiet DEF LoginBegin, Typed, TypeOK
<1>4. ASSUME NEW p \in Procs, NEW u \in Users, NEW pw \in Passwords, AdminSetPassword(p, u, pw)
      PROVE  OnceInv'
  BY <1>4, OnceQuiet DEF AdminSetPassword, Typed, TypeOK
<1>5. ASSUME NEW p \in Procs, NEW t \in Tokens, NEW pw \in Passwords, ConsumeSelect(p, t, pw)
      PROVE  OnceInv'
  BY <1>5, OnceSelect
<1>6. ASSUME NEW t \in Tokens, NEW u \in Users, CreateToken(t, u),
             UNCHANGED <<proc, lock, rewrites, logins>>
      PROVE  OnceInv'
  <2>1. token[t].state # "used" /\ token'[t].state # "used" /\ \A s \in Tokens \ {t} : token'[s] = token[s]
    BY <1>6 DEF CreateToken, NoToken, Typed, TypeOK
  <2> QED BY <1>6, <2>1, OnceToken
<1>7. ASSUME NEW t \in Tokens, TokenExpires(t) PROVE OnceInv'
  <2>1. token[t].state # "used" /\ token'[t].state # "used" /\ \A s \in Tokens \ {t} : token'[s] = token[s]
    BY <1>7 DEF TokenExpires, TokenRow, Typed, TypeOK
  <2> QED BY <1>7, <2>1, OnceToken DEF TokenExpires
<1>8. CASE UNCHANGED <<proc, token, lock, rewrites, logins>>
  BY <1>8, OnceQuiet
<1> QED
  BY <1>2, <1>3, <1>4, <1>5, <1>6, <1>7, <1>8
  DEF Next, vars, HandleResetSubmit, HandleSendSetupLink, SearchUsers, EnsureRIDs, Declare

\* A reset link changes at most one password and opens at most one session, on
\* any number of replicas: Consume's row lock and used_at make one handler its
\* spender, and the spender writes and logs in once.
THEOREM LinkActsOnce == Spec => []ResetLinkActsOnce
<1>1. Init => OnceInv
  BY InitTyped DEF Init, OnceInv, LockedByReader, UnspentIsUnused, OneSpender, SpenderAccounts, Spends,
                   ResetLinkActsOnce, Idle, NoToken
<1> QED BY <1>1, OnceNext, PTL DEF Spec, OnceInv

-----------------------------------------------------------------------------
(***************************************************************************)
(* RIDs identify: the proof that module Credentials keeps RIDsIdentify and *)
(* PublishedSIDsStand, for every number of users, groups and handlers.     *)
(***************************************************************************)

\* The sequence is ahead of every value it has handed out.
SequenceAhead ==
    /\ ridSeq > NoRID
    /\ \A u \in Users : cred[u].rid < ridSeq
    /\ \A g \in Groups : groupRID[g] < ridSeq

RIDInv == Typed /\ SequenceAhead /\ RIDsIdentify /\ PublishedSIDsStand

\* What the two statements on credentials do to RIDs: a row without one draws
\* the next value, a row that has one keeps it.
UserDraws(u) ==
    /\ ridSeq' >= ridSeq
    /\ \/ cred'[u].rid = cred[u].rid /\ cred'[u].rid # NoRID
       \/ cred[u].rid = NoRID /\ cred'[u].rid = ridSeq /\ ridSeq' > ridSeq
    /\ \A v \in Users \ {u} : cred'[v] = cred[v]

LEMMA RIDUserDraws ==
    ASSUME RIDInv, Typed', NEW u \in Users, UserDraws(u), UNCHANGED <<groupRID, search>>
    PROVE  RIDInv'
<1> USE DEF RIDInv, NoRID
<1>1. /\ cred \in [Users -> Row] /\ cred' \in [Users -> Row] /\ ridSeq \in Nat /\ ridSeq' \in Nat
      /\ groupRID \in [Groups -> Nat]
  BY DEF Typed, TypeOK
<1>2. \A v \in Users : cred[v].rid \in Nat /\ cred'[v].rid \in Nat
  BY <1>1 DEF Row
<1>3. SequenceAhead'
  BY <1>1, <1>2 DEF SequenceAhead, UserDraws
<1>4. RIDsIdentify'
  BY <1>1, <1>2 DEF RIDsIdentify, SequenceAhead, UserDraws
<1>5. PublishedSIDsStand'
  BY <1>1, <1>2 DEF PublishedSIDsStand, UserDraws
<1> QED BY <1>3, <1>4, <1>5

LEMMA RIDUpsert ==
    ASSUME RIDInv, Typed', NEW u \in Users, NEW pw \in Passwords, Upsert(u, pw),
           UNCHANGED <<groupRID, search>>
    PROVE  RIDInv'
<1>1. UserDraws(u)
  BY UpsertRow DEF UserDraws, Upsert, RIDInv, Typed, TypeOK, SequenceAhead, NoRID
<1> QED BY <1>1, RIDUserDraws

LEMMA RIDBackfill ==
    ASSUME RIDInv, Typed', NEW u \in Users, NEW pw \in Passwords, SetNTHashIfMissing(u, pw),
           UNCHANGED <<groupRID, search>>
    PROVE  RIDInv'
<1>1. CASE HasRow(u) /\ cred[u].nt = Null
  <2>1. cred[u] \in Row /\ ridSeq \in Nat
    BY DEF RIDInv, Typed, TypeOK
  <2>2. cred'[u].rid = IF cred[u].rid = NoRID THEN ridSeq ELSE cred[u].rid
    BY <1>1, <2>1 DEF SetNTHashIfMissing, Row, RIDInv, Typed, TypeOK
  <2>3. UserDraws(u)
    BY <1>1, <2>1, <2>2 DEF SetNTHashIfMissing, UserDraws, RIDInv, Typed, TypeOK, SequenceAhead, NoRID
  <2> QED BY <2>3, RIDUserDraws
<1>2. CASE ~(HasRow(u) /\ cred[u].nt = Null)
  BY <1>2 DEF SetNTHashIfMissing, RIDInv, SequenceAhead, RIDsIdentify, PublishedSIDsStand
<1> QED BY <1>1, <1>2

LEMMA RIDGroupDraws ==
    ASSUME RIDInv, Typed', NEW G \in SUBSET Groups, EnsureRIDs(G)
    PROVE  RIDInv'
<1> USE DEF RIDInv, NoRID
<1> DEFINE n == Cardinality(G)
<1>1. /\ cred \in [Users -> Row] /\ ridSeq \in Nat /\ groupRID \in [Groups -> Nat] /\ n \in Nat
      /\ search \in Search
  BY DrawIsNat DEF Typed, TypeOK
<1>2. \A u \in Users : cred[u].rid \in Nat
  BY <1>1 DEF Row
<1>3. PICK f \in Injection(G, ridSeq..(ridSeq + n - 1)) :
         groupRID' = [g \in Groups |-> IF g \in G /\ groupRID[g] = NoRID THEN f[g] ELSE groupRID[g]]
  BY DEF EnsureRIDs
<1>4. /\ \A g \in G : f[g] \in Nat /\ f[g] >= ridSeq /\ f[g] < ridSeq + n
      /\ \A g, h \in G : f[g] = f[h] => g = h
  BY <1>1, <1>3 DEF Injection, IsInjective
<1>5. \A g \in Groups :
        \/ groupRID'[g] = groupRID[g]
        \/ g \in G /\ groupRID[g] = 0 /\ groupRID'[g] = f[g]
  BY <1>3
<1>6. ridSeq' = ridSeq + n /\ UNCHANGED cred
  BY DEF EnsureRIDs
<1>7. SequenceAhead'
  BY <1>1, <1>2, <1>4, <1>5, <1>6 DEF SequenceAhead
<1>8. RIDsIdentify'
  <2>1. \A g, h \in Groups : g # h /\ groupRID'[g] = groupRID'[h] => groupRID'[g] = 0
    BY <1>1, <1>4, <1>5 DEF RIDsIdentify, SequenceAhead
  <2>2. \A u \in Users, g \in Groups : cred[u].rid = groupRID'[g] => groupRID'[g] = 0
    BY <1>1, <1>2, <1>4, <1>5 DEF RIDsIdentify, SequenceAhead
  <2> QED BY <1>6, <2>1, <2>2 DEF RIDsIdentify
<1>9. PublishedSIDsStand'
  <2>1. search'.users = search.users /\ \A g \in Groups : search'.groups[g] \in {0, groupRID[g]}
    BY <1>1 DEF EnsureRIDs, Search
  <2>2. \A g \in Groups : groupRID[g] # 0 => groupRID'[g] = groupRID[g]
    BY <1>5
  <2> QED BY <1>6, <2>1, <2>2 DEF PublishedSIDsStand
<1> QED BY <1>7, <1>8, <1>9

LEMMA RIDNext == RIDInv /\ [Next]_vars => RIDInv'
<1> SUFFICES ASSUME RIDInv, [Next]_vars PROVE RIDInv'
  OBVIOUS
<1>1. Typed /\ Typed'
  BY NextTyped DEF RIDInv
<1>2. ASSUME NEW p \in Procs, LoginBackfill(p) PROVE RIDInv'
  <2>1. proc[p].user \in Users /\ proc[p].pw \in Passwords
    BY <1>1, <1>2 DEF LoginBackfill, Typed, ShapeOK
  <2> QED BY <1>1, <1>2, <2>1, RIDBackfill DEF LoginBackfill
<1>3. ASSUME NEW p \in Procs, ConfirmUpsert(p) \/ AdminUpsert(p) PROVE RIDInv'
  <2>1. proc[p].user \in Users /\ proc[p].pw \in Passwords
    BY <1>1, <1>3 DEF ConfirmUpsert, AdminUpsert, Typed, ShapeOK
  <2> QED BY <1>1, <1>3, <2>1, RIDUpsert DEF ConfirmUpsert, AdminUpsert
<1>4. ASSUME NEW G \in SUBSET Groups, EnsureRIDs(G) PROVE RIDInv'
  BY <1>1, <1>4, RIDGroupDraws
<1>5. ASSUME NEW r \in Replicas, SearchUsers(r) PROVE RIDInv'
  <2>1. /\ \A u \in Users : search'.users[u] \in {NoRID, cred[u].rid}
        /\ \A g \in Groups : search'.groups[g] = NoRID
    BY <1>1, <1>5 DEF SearchUsers, NoSearch, NoRID
  <2>2. UNCHANGED <<cred, ridSeq, groupRID>>
    BY <1>5 DEF SearchUsers
  <2> QED BY <1>1, <2>1, <2>2 DEF RIDInv, SequenceAhead, RIDsIdentify, PublishedSIDsStand
<1>6. CASE UNCHANGED <<cred, ridSeq, groupRID, search>>
  BY <1>1, <1>6 DEF RIDInv, SequenceAhead, RIDsIdentify, PublishedSIDsStand
<1>7. \/ UNCHANGED <<cred, ridSeq, groupRID, search>>
      \/ \E r \in Replicas : SearchUsers(r)
      \/ \E p \in Procs : LoginBackfill(p) \/ ConfirmUpsert(p) \/ AdminUpsert(p)
      \/ \E G \in SUBSET Groups : EnsureRIDs(G)
  BY DEF Next, Step, vars, LoginBegin, LoginGet, HandleResetSubmit, HandleSendSetupLink, TokenExpires,
         ConsumeSelect, ConsumeCommit, ConfirmRecheck, ConfirmIssueSession, AdminSetPassword, Fail, Declare
<1> QED BY <1>2, <1>3, <1>4, <1>5, <1>6, <1>7

LEMMA RIDInit == Init => RIDInv
<1> SUFFICES ASSUME Init PROVE RIDInv
  OBVIOUS
<1>1. /\ \A u \in Users : cred[u].nt = Null /\ cred[u].rid = NoRID
      /\ \A g \in Groups : groupRID[g] = NoRID
  BY DEF Init, LegacyRow, NoRow
<1>2. PublishedSIDsStand
  BY DEF Init, NoSearch, PublishedSIDsStand
<1> QED BY <1>1, <1>2, InitTyped DEF Init, RIDInv, SequenceAhead, RIDsIdentify, NoRID, FirstRID

\* No two principals share a RID, and who has an NT hash has one: the sequence
\* stays ahead of every RID in either table, whichever statement draws.
THEOREM RIDsUnique == Spec => []RIDsIdentify
BY RIDInit, RIDNext, PTL DEF Spec, RIDInv

\* A SID handed to Samba never changes: no statement replaces a RID.
THEOREM SIDsStand == Spec => []PublishedSIDsStand
BY RIDInit, RIDNext, PTL DEF Spec, RIDInv
=============================================================================

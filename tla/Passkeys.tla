------------------------------ MODULE Passkeys ------------------------------
(***************************************************************************)
(* Passkeys: the tables webauthn_ceremonies and webauthn_credentials, and  *)
(* the handlers under /webauthn that register, use and delete passkeys.    *)
(*                                                                         *)
(* Handlers run concurrently on any replica.  An action is one statement,  *)
(* or the part of a transaction up to or after its SELECT ... FOR UPDATE.  *)
(* A browser presents any ceremony it started, under whichever session it  *)
(* has by then; an authenticator or its clone signs with any counter.      *)
(***************************************************************************)
EXTENDS Naturals, FiniteSets

CONSTANTS
    Users,
    Keys,       \* credential ids: drawn by authenticators, never drawn again
    Ceremonies, \* ids: drawn from 192 random bits, never drawn again
    Procs,      \* request handlers, on any replica
    MaxCount,   \* bound: the signature counters of authenticators
    None        \* a user, a key, a ceremony or a process there is none of

VARIABLES
    enabled,    \* the users that are declared and enabled in the snapshot
    sess,       \* the users with a live web session
    cer,        \* webauthn_ceremonies
    cred,       \* webauthn_credentials
    lock,       \* the handler whose transaction locks the ceremony's row
    proc,       \* the local variables of each handler
    acts,       \* history: passkeys and sessions the ceremony has led to
    made        \* history: the ceremony that registered the passkey

vars == <<enabled, sess, cer, cred, lock, proc, acts, made>>

ASSUME PasskeyAssumption ==
    /\ MaxCount \in Nat
    /\ None \notin Users \cup Keys \cup Ceremonies \cup Procs

Counts == 0..MaxCount

\* SessionData.UserID: the user who registers, or nobody for a login.  A row
\* keeps its contents when it is deleted: its id is never drawn again.
Ceremony == [state : {"none", "live", "expired", "gone"}, user : Users \cup {None}]
NoCeremony == [state |-> "none", user |-> None]

Passkey == [state : {"none", "live", "deleted"}, user : Users \cup {None}, count : Counts, warning : BOOLEAN]
NoPasskey == [state |-> "none", user |-> None, count |-> 0, warning |-> FALSE]
Registered(u) == [NoPasskey EXCEPT !.state = "live", !.user = u]

\* then: what follows Consume; read: the passkey's row as loadUser found it; count: the counter signed.
Process == [pc : {"idle", "save", "consume", "consumed", "create", "verify", "check", "update", "issue", "delete"},
            then : {"none", "create", "verify"}, user : Users \cup {None},
            cer : Ceremonies \cup {None}, key : Keys \cup {None}, count : Counts, read : Passkey]
Idle == [pc |-> "idle", then |-> "none", user |-> None, cer |-> None, key |-> None,
         count |-> 0, read |-> NoPasskey]

TypeOK ==
    /\ enabled \subseteq Users
    /\ sess \subseteq Users
    /\ cer \in [Ceremonies -> Ceremony]
    /\ cred \in [Keys -> Passkey]
    /\ lock \in [Ceremonies -> Procs \cup {None}]
    /\ proc \in [Procs -> Process]
    /\ acts \in [Ceremonies -> Nat]
    /\ made \in [Keys -> Ceremonies \cup {None}]

Init ==
    /\ enabled = Users
    /\ sess = {}
    /\ cer = [x \in Ceremonies |-> NoCeremony]
    /\ cred \in [Keys -> {NoPasskey} \cup {Registered(u) : u \in Users}]
    /\ lock = [x \in Ceremonies |-> None]
    /\ proc = [p \in Procs |-> Idle]
    /\ acts = [x \in Ceremonies |-> 0]
    /\ made = [k \in Keys |-> None]

Goto(p, pc) == proc' = [proc EXCEPT ![p].pc = pc]
Finish(p) == proc' = [proc EXCEPT ![p] = Idle]
Acted(p) == acts' = [acts EXCEPT ![proc[p].cer] = @ + 1]

-----------------------------------------------------------------------------
(* /webauthn/register/start and /webauthn/login/start.                     *)

\* CurrentUser; the passkeys the user has already only advise the browser.
RegisterStart(p, u) ==
    /\ proc[p].pc = "idle"
    /\ u \in sess
    /\ proc' = [proc EXCEPT ![p] = [Idle EXCEPT !.pc = "save", !.user = u]]
    /\ UNCHANGED <<enabled, sess, cer, cred, lock, acts, made>>

LoginStart(p) ==
    /\ proc[p].pc = "idle"
    /\ proc' = [proc EXCEPT ![p] = [Idle EXCEPT !.pc = "save"]]
    /\ UNCHANGED <<enabled, sess, cer, cred, lock, acts, made>>

\* WebAuthnCeremonyStore.Save: the DELETE of expired rows waits for the ones
\* that are locked.
SaveCeremony(p, x) ==
    LET old == {y \in Ceremonies : cer[y].state = "expired"} IN
    /\ proc[p].pc = "save"
    /\ cer[x] = NoCeremony
    /\ \A y \in old : lock[y] = None
    /\ cer' = [y \in Ceremonies |->
                 IF y = x THEN [state |-> "live", user |-> proc[p].user]
                 ELSE IF y \in old THEN [cer[y] EXCEPT !.state = "gone"]
                 ELSE cer[y]]
    /\ Finish(p)
    /\ UNCHANGED <<enabled, sess, cred, lock, acts, made>>

Expire(x) ==
    /\ cer[x].state = "live"
    /\ cer' = [cer EXCEPT ![x].state = "expired"]
    /\ UNCHANGED <<enabled, sess, cred, lock, proc, acts, made>>

-----------------------------------------------------------------------------
(* The cookie's ceremony, at the start of both finish handlers.            *)

\* The browser may have changed accounts since it started the ceremony.
RegisterFinish(p, u, x, k) ==
    /\ proc[p].pc = "idle"
    /\ u \in sess
    /\ cer[x].state # "none"
    /\ proc' = [proc EXCEPT ![p] = [Idle EXCEPT !.pc = "consume", !.then = "create",
                                                !.user = u, !.cer = x, !.key = k]]
    /\ UNCHANGED <<enabled, sess, cer, cred, lock, acts, made>>

\* The request comes without a session, and the user handle is the browser's
\* word.  An authenticator without a counter signs 0.
LoginFinish(p, u, x, k, n) ==
    /\ proc[p].pc = "idle"
    /\ cer[x].state # "none"
    /\ cred[k].state # "none"
    /\ proc' = [proc EXCEPT ![p] = [Idle EXCEPT !.pc = "consume", !.then = "verify",
                                                !.user = u, !.cer = x, !.key = k, !.count = n]]
    /\ UNCHANGED <<enabled, sess, cer, cred, lock, acts, made>>

\* Wrong variant: SELECT without FOR UPDATE.
ConsumeSelect_NoRowLock(p) ==
    /\ proc[p].pc = "consume"
    /\ cer[proc[p].cer].state \in {"live", "expired"}
    /\ Goto(p, "consumed")
    /\ UNCHANGED <<enabled, sess, cer, cred, lock, acts, made>>

\* Wrong variant: an expired ceremony does not end the request.
ConsumeCommit_NoBranch(p) ==
    LET x == proc[p].cer IN
    /\ proc[p].pc = "consumed"
    /\ cer' = [cer EXCEPT ![x].state = "gone"]
    /\ lock' = [lock EXCEPT ![x] = None]
    /\ Goto(p, IF cer[x].state = "expired" THEN "none" ELSE proc[p].then)
    /\ UNCHANGED <<enabled, sess, cred, acts, made>>

\* Consume: SELECT ... FOR UPDATE waits for the lock; a row that is gone by
\* then ends the request.
ConsumeSelect(p) ==
    /\ proc[p].pc = "consume"
    /\ lock[proc[p].cer] = None
    /\ cer[proc[p].cer].state \in {"live", "expired"}
    /\ lock' = [lock EXCEPT ![proc[p].cer] = p]
    /\ Goto(p, "consumed")
    /\ UNCHANGED <<enabled, sess, cer, cred, acts, made>>

\* Consume: DELETE and COMMIT, and only then the look at the clock.
ConsumeCommit(p) ==
    LET x == proc[p].cer IN
    /\ proc[p].pc = "consumed"
    /\ cer' = [cer EXCEPT ![x].state = "gone"]
    /\ lock' = [lock EXCEPT ![x] = None]
    /\ IF cer[x].state = "expired" THEN Finish(p)
       ELSE Goto(p, proc[p].then)
    /\ UNCHANGED <<enabled, sess, cred, acts, made>>

-----------------------------------------------------------------------------
(* /webauthn/register/finish and /webauthn/register/delete.                *)

\* Wrong variant: the library is not given the session's user to compare.
SameUser_NotCompared(p) == cer[proc[p].cer].user # None

\* FinishRegistration refuses a ceremony that is not the user's.
SameUser(p) == cer[proc[p].cer].user = proc[p].user

RegisterCreate(p) ==
    LET k == proc[p].key IN
    /\ proc[p].pc = "create"
    /\ SameUser(p)
    /\ cred[k] = NoPasskey
    /\ cred' = [cred EXCEPT ![k] = Registered(proc[p].user)]
    /\ made' = [made EXCEPT ![k] = proc[p].cer]
    /\ Acted(p)
    /\ Finish(p)
    /\ UNCHANGED <<enabled, sess, cer, lock>>

HandleDelete(p, u, k) ==
    /\ proc[p].pc = "idle"
    /\ u \in sess
    /\ proc' = [proc EXCEPT ![p] = [Idle EXCEPT !.pc = "delete", !.user = u, !.key = k]]
    /\ UNCHANGED <<enabled, sess, cer, cred, lock, acts, made>>

DeleteCredential(p) ==
    LET k == proc[p].key IN
    /\ proc[p].pc = "delete"
    /\ cred[k].state = "live" /\ cred[k].user = proc[p].user
    /\ cred' = [cred EXCEPT ![k].state = "deleted"]
    /\ Finish(p)
    /\ UNCHANGED <<enabled, sess, cer, lock, acts, made>>

-----------------------------------------------------------------------------
(* /webauthn/login/finish.                                                 *)

\* Wrong variant: the credential is looked up without the user.
Listed_AnyUser(p) == cred[proc[p].key].state = "live"

\* loadUser: the passkeys of the user the handle names.
Listed(p) == cred[proc[p].key].state = "live" /\ cred[proc[p].key].user = proc[p].user

\* FinishPasskeyLogin refuses a registration's ceremony, and a key that is not
\* among the user's.
LoginVerify(p) ==
    /\ proc[p].pc = "verify"
    /\ cer[proc[p].cer].user = None
    /\ Listed(p)
    /\ proc' = [proc EXCEPT ![p].pc = "check", ![p].read = cred[proc[p].key]]
    /\ UNCHANGED <<enabled, sess, cer, cred, lock, acts, made>>

\* The declaration is asked for only after the assertion has been verified.
LoginCheck(p) ==
    /\ proc[p].pc = "check"
    /\ proc[p].user \in enabled
    /\ Goto(p, "update")
    /\ UNCHANGED <<enabled, sess, cer, cred, lock, acts, made>>

\* Authenticator.UpdateCounter on the row that was read.
Updated(row, n) ==
    IF n <= row.count /\ (n # 0 \/ row.count # 0) THEN [row EXCEPT !.warning = TRUE] ELSE [row EXCEPT !.count = n]

\* Wrong variant: an upsert.
UpdateCredential_Upsert(p) ==
    /\ proc[p].pc = "update"
    /\ cred' = [cred EXCEPT ![proc[p].key] = Updated(proc[p].read, proc[p].count)]
    /\ Goto(p, "issue")
    /\ UNCHANGED <<enabled, sess, cer, lock, acts, made>>

\* UPDATE ... WHERE credential_id: a passkey deleted meanwhile stays deleted;
\* that, or the statement's failure, is logged and the login goes on.
UpdateCredential(p) ==
    LET k == proc[p].key IN
    /\ proc[p].pc = "update"
    /\ \/ /\ cred[k].state = "live"
          /\ cred' = [cred EXCEPT ![k] = Updated(proc[p].read, proc[p].count)]
       \/ UNCHANGED cred
    /\ Goto(p, "issue")
    /\ UNCHANGED <<enabled, sess, cer, lock, acts, made>>

LoginIssue(p) ==
    /\ proc[p].pc = "issue"
    /\ sess' = sess \cup {proc[p].user}
    /\ Acted(p)
    /\ Finish(p)
    /\ UNCHANGED <<enabled, cer, cred, lock, made>>

-----------------------------------------------------------------------------
(* Password logins, the end of sessions, reloads and failures.             *)

OtherLogin(u) ==
    /\ sess' = sess \cup {u}
    /\ UNCHANGED <<enabled, cer, cred, lock, proc, acts, made>>

SessionEnds(u) ==
    /\ sess' = sess \ {u}
    /\ UNCHANGED <<enabled, cer, cred, lock, proc, acts, made>>

Reload ==
    /\ enabled' \in SUBSET Users
    /\ UNCHANGED <<sess, cer, cred, lock, proc, acts, made>>

\* The request is refused where it stands, a statement fails, or the replica
\* dies: the open transaction rolls back.
Fail(p) ==
    /\ proc[p].pc # "idle"
    /\ lock' = [x \in Ceremonies |-> IF lock[x] = p THEN None ELSE lock[x]]
    /\ Finish(p)
    /\ UNCHANGED <<enabled, sess, cer, cred, acts, made>>

-----------------------------------------------------------------------------

Next ==
    \/ \E x \in Ceremonies : Expire(x)
    \/ \E u \in Users : OtherLogin(u) \/ SessionEnds(u)
    \/ Reload
    \/ \E p \in Procs :
          \/ LoginStart(p)
          \/ \E u \in Users : RegisterStart(p, u)
          \/ \E x \in Ceremonies : SaveCeremony(p, x)
          \/ \E u \in Users, x \in Ceremonies, k \in Keys :
                RegisterFinish(p, u, x, k) \/ \E n \in Counts : LoginFinish(p, u, x, k, n)
          \/ ConsumeSelect(p) \/ ConsumeCommit(p)
          \/ RegisterCreate(p)
          \/ \E u \in Users, k \in Keys : HandleDelete(p, u, k)
          \/ DeleteCredential(p)
          \/ LoginVerify(p) \/ LoginCheck(p) \/ UpdateCredential(p) \/ LoginIssue(p)
          \/ Fail(p)

Spec == Init /\ [][Next]_vars

-----------------------------------------------------------------------------
(* Properties.                                                             *)

\* A ceremony leads to one passkey or one session at most: "a given challenge
\* must never be presentable twice" (Consume), whichever replicas get it.
CeremonyActsOnce == \A x \in Ceremonies : acts[x] <= 1

\* A passkey belongs to the user whose session started its registration, even
\* if the browser had changed accounts before it finished; and a login that
\* passed belongs to the owner of the passkey, through a login's ceremony.
PasskeyKeepsOwner ==
    /\ \A k \in Keys : made[k] # None => cred[k].user = cer[made[k]].user
    /\ \A p \in Procs : proc[p].pc \in {"check", "update", "issue"} =>
          /\ cred[proc[p].key].user = proc[p].user
          /\ cer[proc[p].cer].user = None

\* A deleted passkey never comes back, not even through a login that read it
\* before it was deleted, and no login gets past the verification with it.
DeletedPasskeyIsDead ==
    [][\A k \in Keys : cred[k].state = "deleted" =>
          /\ cred'[k] = cred[k]
          /\ \A p \in Procs : proc[p].pc = "verify" /\ proc[p].key = k => proc'[p].pc # "check"]_vars
=============================================================================

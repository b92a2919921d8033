------------------------------ MODULE LoginMFA ------------------------------
(***************************************************************************)
(* Password logins and the emailed code: the tables mfa_email_challenges   *)
(* and user_mfa_settings, and the handlers of /login, /login/mfa,          *)
(* /login/mfa/resend and /account/mfa that read and write them.            *)
(*                                                                         *)
(* Handlers run concurrently on any replica.  An action is one statement,  *)
(* or the part of a transaction up to or after its SELECT ... FOR UPDATE.  *)
(* Every challenge draws its own six digits; a guess is right or wrong for *)
(* the challenge whose id the cookie holds.  return_to is copied from row  *)
(* to row and is left out.                                                 *)
(***************************************************************************)
EXTENDS Naturals, FiniteSets

CONSTANTS
    Users,
    Challenges, \* ids: drawn from 128 random bits, never drawn again
    Procs,      \* request handlers, on any replica
    maxMFAAttempts,
    None        \* a process or a challenge there is none of

VARIABLES
    enabled,    \* the users a login accepts: declared and enabled in the snapshot
    requires,   \* the users for whom the snapshot requires a code
    settings,   \* user_mfa_settings: the users who switched MFA on
    chal,       \* mfa_email_challenges
    lock,       \* the handler whose transaction locks the row
    cookies,    \* the challenge ids some browser was sent
    sess,       \* the users with a live web session
    proc,       \* the local variables of each handler
    answered,   \* history: guesses at the challenge's code whose outcome was committed
    opened      \* history: web sessions the challenge has opened

vars == <<enabled, requires, settings, chal, lock, cookies, sess, proc, answered, opened>>

ASSUME MFAAssumption ==
    /\ maxMFAAttempts \in Nat \ {0}
    /\ None \notin Users \cup Challenges \cup Procs

\* A row keeps its contents when it is deleted: its id is never drawn again.
Row == [state : {"none", "live", "expired", "deleted"}, consumed : BOOLEAN,
        user : Users \cup {None}, attempts : 0..maxMFAAttempts]
NoRow == [state |-> "none", consumed |-> FALSE, user |-> None, attempts |-> 0]

\* held: what has required a code of the user ever since the login began.
Sources == {"declaration", "preference"}
Process == [pc : {"idle", "policy", "preference", "create", "mail", "issue",
                  "verify", "wrong", "right", "verified", "delete", "set"},
            user : Users \cup {None}, chal : Challenges \cup {None},
            flag : BOOLEAN, held : SUBSET Sources]
Idle == [pc |-> "idle", user |-> None, chal |-> None, flag |-> FALSE, held |-> {}]

TypeOK ==
    /\ enabled \subseteq Users
    /\ requires \subseteq Users
    /\ settings \subseteq Users
    /\ chal \in [Challenges -> Row]
    /\ lock \in [Challenges -> Procs \cup {None}]
    /\ cookies \subseteq Challenges
    /\ sess \subseteq Users
    /\ proc \in [Procs -> Process]
    /\ answered \in [Challenges -> Nat]
    /\ opened \in [Challenges -> Nat]

Init ==
    /\ enabled = Users
    /\ requires \in SUBSET Users
    /\ settings = {}
    /\ chal = [c \in Challenges |-> NoRow]
    /\ lock = [c \in Challenges |-> None]
    /\ cookies = {}
    /\ sess = {}
    /\ proc = [p \in Procs |-> Idle]
    /\ answered = [c \in Challenges |-> 0]
    /\ opened = [c \in Challenges |-> 0]

Goto(p, pc) == proc' = [proc EXCEPT ![p].pc = pc]
Finish(p) == proc' = [proc EXCEPT ![p] = Idle]

-----------------------------------------------------------------------------
(* The tables.                                                             *)

InTime(c) == chal[c].state = "live"

\* EmailChallengeStore.Create: the DELETE of expired rows waits for the ones
\* that are locked.
Create(c, u) ==
    LET old == {d \in Challenges : chal[d].state = "expired"} IN
    /\ chal[c] = NoRow
    /\ \A d \in old : lock[d] = None
    /\ chal' = [d \in Challenges |->
                  IF d = c THEN [NoRow EXCEPT !.state = "live", !.user = u]
                  ELSE IF d \in old THEN [chal[d] EXCEPT !.state = "deleted"]
                  ELSE chal[d]]

\* EmailChallengeStore.Peek: a plain SELECT.
Peek(c) == InTime(c) /\ ~chal[c].consumed

Expire(c) ==
    /\ InTime(c)
    /\ chal' = [chal EXCEPT ![c].state = "expired"]
    /\ UNCHANGED <<enabled, requires, settings, lock, cookies, sess, proc, answered, opened>>

\* SessionManager.Issue: rows and cookies of sessions are in OIDCGrants.
Issue(u) == sess' = sess \cup {u}

-----------------------------------------------------------------------------
(* POST /login.                                                            *)

\* A browser with a live session is sent on, unless the request says
\* prompt=login, so the form may always be posted.  Authenticate accepts.
LoginSubmit(p, u) ==
    /\ proc[p].pc = "idle"
    /\ u \in enabled
    /\ proc' = [proc EXCEPT ![p] = [Idle EXCEPT !.pc = "policy", !.user = u,
                   !.held = {x \in Sources : \/ x = "declaration" /\ u \in requires
                                             \/ x = "preference" /\ u \in settings}]]
    /\ UNCHANGED <<enabled, requires, settings, chal, lock, cookies, sess, answered, opened>>

\* Wrong variant: what is not declared is not required.
RequiredByDeclaration_Only(p) ==
    /\ proc[p].pc = "policy"
    /\ Goto(p, IF proc[p].user \in requires THEN "create" ELSE "issue")
    /\ UNCHANGED <<enabled, requires, settings, chal, lock, cookies, sess, answered, opened>>

\* MFAPolicy.Required: the declaration, in the snapshot of the moment.
RequiredByDeclaration(p) ==
    /\ proc[p].pc = "policy"
    /\ Goto(p, IF proc[p].user \in requires THEN "create" ELSE "preference")
    /\ UNCHANGED <<enabled, requires, settings, chal, lock, cookies, sess, answered, opened>>

\* MFAPolicy.Required: the user's own row, if the declaration does not say so.
RequiredByPreference(p) ==
    /\ proc[p].pc = "preference"
    /\ Goto(p, IF proc[p].user \in settings THEN "create" ELSE "issue")
    /\ UNCHANGED <<enabled, requires, settings, chal, lock, cookies, sess, answered, opened>>

LoginIssue(p) ==
    /\ proc[p].pc = "issue"
    /\ Issue(proc[p].user)
    /\ Finish(p)
    /\ UNCHANGED <<enabled, requires, settings, chal, lock, cookies, answered, opened>>

\* startMFAChallenge, and the second half of handleResend: the row first.
ChallengeCreate(p, c) ==
    /\ proc[p].pc = "create"
    /\ Create(c, proc[p].user)
    /\ proc' = [proc EXCEPT ![p].pc = "mail", ![p].chal = c]
    /\ UNCHANGED <<enabled, requires, settings, lock, cookies, sess, answered, opened>>

\* The cookie is set only when the mail server took the message; otherwise the
\* request ends (Fail) and the row is left to expire.
ChallengeMail(p) ==
    /\ proc[p].pc = "mail"
    /\ cookies' = cookies \cup {proc[p].chal}
    /\ Finish(p)
    /\ UNCHANGED <<enabled, requires, settings, chal, lock, sess, answered, opened>>

-----------------------------------------------------------------------------
(* POST /login/mfa.                                                        *)

\* Verify begins its transaction, whose now() decides about expiry.
VerifyBegin(p, c, right) ==
    /\ proc[p].pc = "idle"
    /\ c \in cookies
    /\ InTime(c)
    /\ proc' = [proc EXCEPT ![p] = [Idle EXCEPT !.pc = "verify", !.chal = c, !.flag = right]]
    /\ UNCHANGED <<enabled, requires, settings, chal, lock, cookies, sess, answered, opened>>

\* Wrong variant: SELECT without FOR UPDATE.
VerifySelect_NoRowLock(p) ==
    LET c == proc[p].chal IN
    /\ proc[p].pc = "verify"
    /\ chal[c].state # "deleted" /\ ~chal[c].consumed /\ chal[c].attempts < maxMFAAttempts
    /\ Goto(p, IF proc[p].flag THEN "right" ELSE "wrong")
    /\ UNCHANGED <<enabled, requires, settings, chal, lock, cookies, sess, answered, opened>>

\* Wrong variant: the limit is checked with > instead of >=.
VerifySelect_OffByOne(p) ==
    LET c == proc[p].chal IN
    /\ proc[p].pc = "verify"
    /\ lock[c] = None
    /\ chal[c].state # "deleted" /\ ~chal[c].consumed /\ chal[c].attempts <= maxMFAAttempts
    /\ lock' = [lock EXCEPT ![c] = p]
    /\ Goto(p, IF proc[p].flag THEN "right" ELSE "wrong")
    /\ UNCHANGED <<enabled, requires, settings, chal, cookies, sess, answered, opened>>

\* SELECT ... FOR UPDATE waits for the lock and then asks of the row what it
\* has become; a row that does not qualify, or has no attempts left, ends the
\* request (Fail).  The codes are compared.
VerifySelect(p) ==
    LET c == proc[p].chal IN
    /\ proc[p].pc = "verify"
    /\ lock[c] = None
    /\ chal[c].state # "deleted" /\ ~chal[c].consumed /\ chal[c].attempts < maxMFAAttempts
    /\ lock' = [lock EXCEPT ![c] = p]
    /\ Goto(p, IF proc[p].flag THEN "right" ELSE "wrong")
    /\ UNCHANGED <<enabled, requires, settings, chal, cookies, sess, answered, opened>>

\* UPDATE ... SET attempts = attempts + 1, and COMMIT.
VerifyWrong(p) ==
    /\ proc[p].pc = "wrong"
    /\ chal' = [chal EXCEPT ![proc[p].chal].attempts = @ + 1]
    /\ lock' = [lock EXCEPT ![proc[p].chal] = None]
    /\ answered' = [answered EXCEPT ![proc[p].chal] = @ + 1]
    /\ Finish(p)
    /\ UNCHANGED <<enabled, requires, settings, cookies, sess, opened>>

\* UPDATE ... SET consumed_at, and COMMIT.
VerifyRight(p) ==
    /\ proc[p].pc = "right"
    /\ chal' = [chal EXCEPT ![proc[p].chal].consumed = TRUE]
    /\ lock' = [lock EXCEPT ![proc[p].chal] = None]
    /\ answered' = [answered EXCEPT ![proc[p].chal] = @ + 1]
    /\ Goto(p, "verified")
    /\ UNCHANGED <<enabled, requires, settings, cookies, sess, opened>>

\* The user is the row's; the snapshot is not asked again.
VerifyIssue(p) ==
    /\ proc[p].pc = "verified"
    /\ Issue(chal[proc[p].chal].user)
    /\ opened' = [opened EXCEPT ![proc[p].chal] = @ + 1]
    /\ Finish(p)
    /\ UNCHANGED <<enabled, requires, settings, chal, lock, cookies, answered>>

-----------------------------------------------------------------------------
(* POST /login/mfa/resend.                                                 *)

ResendPeek(p, c) ==
    /\ proc[p].pc = "idle"
    /\ c \in cookies
    /\ Peek(c)
    /\ proc' = [proc EXCEPT ![p] = [Idle EXCEPT !.pc = "delete", !.user = chal[c].user, !.chal = c]]
    /\ UNCHANGED <<enabled, requires, settings, chal, lock, cookies, sess, answered, opened>>

\* The DELETE waits for the row lock.  Its failure is logged and ignored.
ResendDelete(p) ==
    /\ proc[p].pc = "delete"
    /\ \/ /\ lock[proc[p].chal] = None
          /\ chal' = [chal EXCEPT ![proc[p].chal].state = "deleted"]
       \/ UNCHANGED chal
    /\ Goto(p, "create")
    /\ UNCHANGED <<enabled, requires, settings, lock, cookies, sess, answered, opened>>

-----------------------------------------------------------------------------
(* POST /account/mfa, /logout, the other logins, reloads and failures.     *)

\* CurrentUser, then the upsert of the user's row.
HandleSettings(p, u, on) ==
    /\ proc[p].pc = "idle"
    /\ u \in sess
    /\ proc' = [proc EXCEPT ![p] = [Idle EXCEPT !.pc = "set", !.user = u, !.flag = on]]
    /\ UNCHANGED <<enabled, requires, settings, chal, lock, cookies, sess, answered, opened>>

\* What has held for the logins under way, after a change.
StillHeld(requires_, settings_) ==
    [p \in Procs |-> [proc[p] EXCEPT
        !.held = {x \in @ : \/ x = "declaration" /\ proc[p].user \in requires_
                            \/ x = "preference" /\ proc[p].user \in settings_}]]

SetEnabled(p) ==
    LET u == proc[p].user  new == IF proc[p].flag THEN settings \cup {u} ELSE settings \ {u} IN
    /\ proc[p].pc = "set"
    /\ settings' = new
    /\ proc' = [StillHeld(requires, new) EXCEPT ![p] = Idle]
    /\ UNCHANGED <<enabled, requires, chal, lock, cookies, sess, answered, opened>>

\* A reload may declare and disable anyone, and require MFA of anyone.
Reload ==
    /\ enabled' \in SUBSET Users
    /\ requires' \in SUBSET Users
    /\ proc' = StillHeld(requires', settings)
    /\ UNCHANGED <<settings, chal, lock, cookies, sess, answered, opened>>

\* A password reset or a passkey opens a session without a code.
OtherLogin(u) ==
    /\ Issue(u)
    /\ UNCHANGED <<enabled, requires, settings, chal, lock, cookies, proc, answered, opened>>

\* The user's last session is revoked or expires.
SessionEnds(u) ==
    /\ sess' = sess \ {u}
    /\ UNCHANGED <<enabled, requires, settings, chal, lock, cookies, proc, answered, opened>>

\* The request is refused where it stands, a statement or the mail server
\* fails, or the replica dies: the open transaction rolls back.
Fail(p) ==
    /\ proc[p].pc # "idle"
    /\ lock' = [c \in Challenges |-> IF lock[c] = p THEN None ELSE lock[c]]
    /\ Finish(p)
    /\ UNCHANGED <<enabled, requires, settings, chal, cookies, sess, answered, opened>>

-----------------------------------------------------------------------------

Next ==
    \/ \E c \in Challenges : Expire(c)
    \/ \E u \in Users : OtherLogin(u) \/ SessionEnds(u)
    \/ Reload
    \/ \E p \in Procs :
          \/ \E u \in Users : LoginSubmit(p, u)
          \/ RequiredByDeclaration(p) \/ RequiredByPreference(p) \/ LoginIssue(p)
          \/ \E c \in Challenges : ChallengeCreate(p, c)
          \/ ChallengeMail(p)
          \/ \E c \in Challenges, right \in BOOLEAN : VerifyBegin(p, c, right)
          \/ VerifySelect(p) \/ VerifyWrong(p) \/ VerifyRight(p) \/ VerifyIssue(p)
          \/ \E c \in Challenges : ResendPeek(p, c)
          \/ ResendDelete(p)
          \/ \E u \in Users, on \in BOOLEAN : HandleSettings(p, u, on)
          \/ SetEnabled(p)
          \/ Fail(p)

Spec == Init /\ [][Next]_vars

-----------------------------------------------------------------------------
(* Properties.                                                             *)

\* A code can be guessed at maxMFAAttempts times, the right guess included,
\* however many requests with the same cookie run at once.
CodeGuessBudget == \A c \in Challenges : answered[c] <= maxMFAAttempts

\* A mailed code opens at most one web session, whichever replicas two copies
\* of the right answer reach.
CodeOpensOneSession == \A c \in Challenges : opened[c] <= 1

\* Once a resend has deleted a challenge, or its code has been accepted, its code
\* is dead: no request that had read the row before gets an answer from it.
SupersededCodeIsDead ==
    [][\A c \in Challenges : chal[c].state = "deleted" \/ chal[c].consumed =>
          answered'[c] = answered[c]]_vars

\* The password alone opens no session when the declaration, or the user's own
\* switch, has required a code since the login began, whatever reloads and
\* other requests do meanwhile.
PasswordAloneNotEnough ==
    \A p \in Procs : proc[p].pc = "issue" => proc[p].held = {}
=============================================================================

----------------------------- MODULE OIDCGrants -----------------------------
(***************************************************************************)
(* Authorization codes, refresh tokens and web sessions: the tables        *)
(* oidc_authorization_codes and sessions, and the handlers of /authorize,  *)
(* /token, /revoke, /login and /logout that read and write them.           *)
(*                                                                         *)
(* Handlers run concurrently on any replica.  An action is one statement,  *)
(* or the part of a transaction up to or after its SELECT ... FOR UPDATE.  *)
(* A request may present any code, any secret a session ever had and any   *)
(* client it can authenticate as; what a reload withdraws only refuses     *)
(* requests.  The username, the scope and the nonce are copied from row to *)
(* row and are left out.                                                   *)
(***************************************************************************)
EXTENDS Naturals, FiniteSets

CONSTANTS
    Clients,
    Public,     \* the clients declared public: they have no secret
    URIs, Verifiers, Codes, Sessions,
    Procs,      \* request handlers, on any replica
    WebUI,      \* the client_id of a session made by the login page
    None,       \* an empty form value, a row or a process there is none of
    MaxSecret   \* bound: secrets one session has had

VARIABLES
    code,       \* oidc_authorization_codes
    sess,       \* sessions
    lock,       \* the handler whose transaction locks the row
    proc,       \* the local variables of each handler
    opened,     \* history: the token request that opened the session
    spent       \* history: token responses each refresh secret has earned

vars == <<code, sess, lock, proc, opened, spent>>

ASSUME GrantAssumption ==
    /\ WebUI \notin Clients /\ Public \subseteq Clients
    /\ None \notin Clients \cup URIs \cup Verifiers \cup Codes \cup Sessions \cup Procs
    /\ None # WebUI
    /\ Codes \cap Sessions = {}
    /\ MaxSecret \in Nat \ {0}

\* A challenge of another method, which a confidential client may name, is
\* like one that no verifier at hand matches.
S256(v) == <<"S256", v>>
Challenges == {S256(v) : v \in Verifiers} \cup {None}

\* A row keeps its contents when it is swept: its code is never drawn again.
CodeRow == [state : {"none", "live", "expired", "swept"}, used : BOOLEAN,
            client : Clients \cup {None}, uri : URIs \cup {None}, challenge : Challenges]
NoCode == [state |-> "none", used |-> FALSE, client |-> None, uri |-> None, challenge |-> None]

\* Secret n is the n-th the session has had; 0 stands for a made-up one.
Secrets == 0..MaxSecret
SessionRow == [state : {"none", "live", "revoked"}, expired : BOOLEAN,
               client : Clients \cup {WebUI, None}, secret : Secrets]
NoSession == [state |-> "none", expired |-> FALSE, client |-> None, secret |-> 0]

Request == [code : Codes \cup {None}, uri : URIs \cup {None}, verifier : Verifiers \cup {None}]
NoRequest == [code |-> None, uri |-> None, verifier |-> None]

Process == [pc : {"idle", "insert", "redeem", "check", "create", "rotate", "reuse", "rotated", "revoke"},
            client : Clients \cup {None}, req : Request, challenge : Challenges,
            sess : Sessions \cup {None}, secret : Secrets]
Idle == [pc |-> "idle", client |-> None, req |-> NoRequest, challenge |-> None,
         sess |-> None, secret |-> 0]

TypeOK ==
    /\ code \in [Codes -> CodeRow]
    /\ sess \in [Sessions -> SessionRow]
    /\ lock \in [Codes \cup Sessions -> Procs \cup {None}]
    /\ proc \in [Procs -> Process]
    /\ opened \in [Sessions -> Request]
    /\ spent \in [Sessions -> [Secrets -> Nat]]

Init ==
    /\ code = [k \in Codes |-> NoCode]
    /\ sess = [s \in Sessions |-> NoSession]
    /\ lock = [x \in Codes \cup Sessions |-> None]
    /\ proc = [p \in Procs |-> Idle]
    /\ opened = [s \in Sessions |-> NoRequest]
    /\ spent = [s \in Sessions |-> [n \in Secrets |-> 0]]

-----------------------------------------------------------------------------
(* The sessions table.                                                     *)

Live(s) == sess[s].state = "live" /\ ~sess[s].expired

\* SessionManager.lookup of the cookie "<s>.<secret n>": no client is asked for.
CookieValid(s, n) == Live(s) /\ sess[s].secret = n

\* Wrong variant: two columns are swapped.
Create_SwappedColumns(s, c) ==
    /\ sess[s] = NoSession
    /\ sess' = [sess EXCEPT ![s] = [state |-> "live", expired |-> FALSE, client |-> 1, secret |-> c]]

Create(s, c) ==
    /\ sess[s] = NoSession
    /\ sess' = [sess EXCEPT ![s] = [state |-> "live", expired |-> FALSE, client |-> c, secret |-> 1]]

\* UPDATE ... SET revoked_at waits for the row lock and asks for nothing else.
Revoke(s) ==
    /\ lock[s] = None
    /\ sess' = [sess EXCEPT ![s].state = "revoked"]

SessionExpires(s) ==
    /\ Live(s)
    /\ sess' = [sess EXCEPT ![s].expired = TRUE]
    /\ UNCHANGED <<code, lock, proc, opened, spent>>

\* SessionManager.Issue, at the end of every kind of login.
Issue(s) ==
    /\ Create(s, WebUI)
    /\ UNCHANGED <<code, lock, proc, opened, spent>>

-----------------------------------------------------------------------------
(* /authorize.                                                             *)

\* The client and, for a public one, the PKCE challenge are checked, then the
\* cookie; a request that needs a fresh login ends here.
AuthorizeLookup(p, c, uri, challenge, s, n) ==
    /\ proc[p].pc = "idle"
    /\ c \in Public => challenge # None
    /\ CookieValid(s, n)
    /\ proc' = [proc EXCEPT ![p] = [Idle EXCEPT !.pc = "insert", !.client = c,
                                                !.req.uri = uri, !.challenge = challenge]]
    /\ UNCHANGED <<code, sess, lock, opened, spent>>

AuthorizeInsert(p, k) ==
    /\ proc[p].pc = "insert"
    /\ code[k] = NoCode
    /\ code' = [code EXCEPT ![k] = [state |-> "live", used |-> FALSE, client |-> proc[p].client,
                                    uri |-> proc[p].req.uri, challenge |-> proc[p].challenge]]
    /\ proc' = [proc EXCEPT ![p] = Idle]
    /\ UNCHANGED <<sess, lock, opened, spent>>

CodeExpires(k) ==
    /\ code[k].state = "live"
    /\ code' = [code EXCEPT ![k].state = "expired"]
    /\ UNCHANGED <<sess, lock, proc, opened, spent>>

\* The sweep of maintainOIDCState: the DELETE waits for rows that are locked.
DeleteExpired ==
    LET old == {k \in Codes : code[k].state = "expired"} IN
    /\ \A k \in old : lock[k] = None
    /\ code' = [k \in Codes |-> IF k \in old THEN [code[k] EXCEPT !.state = "swept"] ELSE code[k]]
    /\ UNCHANGED <<sess, lock, proc, opened, spent>>

-----------------------------------------------------------------------------
(* /token, grant_type=authorization_code.                                  *)

\* Wrong variant: SELECT without FOR UPDATE.
RedeemSelect_NoRowLock(p, c, req) ==
    /\ proc[p].pc = "idle"
    /\ code[req.code].state = "live"
    /\ ~code[req.code].used
    /\ proc' = [proc EXCEPT ![p] = [Idle EXCEPT !.pc = "redeem", !.client = c, !.req = req]]
    /\ UNCHANGED <<code, sess, lock, opened, spent>>

\* Redeem: SELECT ... FOR UPDATE; a used or expired code rolls back.
RedeemSelect(p, c, req) ==
    /\ proc[p].pc = "idle"
    /\ lock[req.code] = None
    /\ code[req.code].state = "live"
    /\ ~code[req.code].used
    /\ lock' = [lock EXCEPT ![req.code] = p]
    /\ proc' = [proc EXCEPT ![p] = [Idle EXCEPT !.pc = "redeem", !.client = c, !.req = req]]
    /\ UNCHANGED <<code, sess, opened, spent>>

\* Redeem: UPDATE ... SET used_at and COMMIT.
RedeemCommit(p) ==
    /\ proc[p].pc = "redeem"
    /\ code' = [code EXCEPT ![proc[p].req.code].used = TRUE]
    /\ lock' = [lock EXCEPT ![proc[p].req.code] = None]
    /\ proc' = [proc EXCEPT ![p].pc = "check"]
    /\ UNCHANGED <<sess, opened, spent>>

\* The request against the code's row: client, redirect_uri and PKCE.
Redeems(c, req) ==
    LET row == code[req.code] IN
    /\ row.client = c
    /\ row.uri = req.uri
    /\ IF row.challenge = None THEN req.verifier = None ELSE row.challenge = S256(req.verifier)

\* The code is spent before the request is compared with it.
CodeCheck(p) ==
    /\ proc[p].pc = "check"
    /\ proc' = [proc EXCEPT ![p] = IF Redeems(@.client, @.req) THEN [@ EXCEPT !.pc = "create"] ELSE Idle]
    /\ UNCHANGED <<code, sess, lock, opened, spent>>

\* A new session, whose first secret is the refresh token.
IssueRefreshToken(s, c) == Create(s, c)

\* The tokens are issued and sent in a response that the client
\* may never receive.
CodeCreate(p, s) ==
    /\ proc[p].pc = "create"
    /\ IssueRefreshToken(s, proc[p].client)
    /\ opened' = [opened EXCEPT ![s] = proc[p].req]
    /\ proc' = [proc EXCEPT ![p] = Idle]
    /\ UNCHANGED <<code, lock, spent>>

-----------------------------------------------------------------------------
(* /token, grant_type=refresh_token.                                       *)

\* Wrong variant: SELECT without FOR UPDATE.
RotateSelect_NoRowLock(p, c, s, n) ==
    /\ proc[p].pc = "idle"
    /\ Live(s)
    /\ sess[s].secret = n => n < MaxSecret
    /\ proc' = [proc EXCEPT ![p] = [Idle EXCEPT !.pc = IF sess[s].secret = n THEN "rotate" ELSE "reuse",
                                                !.client = c, !.sess = s, !.secret = n]]
    /\ UNCHANGED <<code, sess, lock, opened, spent>>

\* Wrong variant: revoked_at is not looked at.
RotateSelect_IgnoresRevoked(p, c, s, n) ==
    /\ proc[p].pc = "idle"
    /\ lock[s] = None
    /\ sess[s].state # "none" /\ ~sess[s].expired
    /\ sess[s].secret = n => n < MaxSecret
    /\ lock' = [lock EXCEPT ![s] = p]
    /\ proc' = [proc EXCEPT ![p] = [Idle EXCEPT !.pc = IF sess[s].secret = n THEN "rotate" ELSE "reuse",
                                                !.client = c, !.sess = s, !.secret = n]]
    /\ UNCHANGED <<code, sess, opened, spent>>

\* RotateRefreshToken: SELECT ... FOR UPDATE; a revoked or expired session
\* rolls back, a secret that is not the row's leads to "reuse".
RotateSelect(p, c, s, n) ==
    /\ proc[p].pc = "idle"
    /\ lock[s] = None
    /\ Live(s)
    /\ sess[s].secret = n => n < MaxSecret
    /\ lock' = [lock EXCEPT ![s] = p]
    /\ proc' = [proc EXCEPT ![p] = [Idle EXCEPT !.pc = IF sess[s].secret = n THEN "rotate" ELSE "reuse",
                                                !.client = c, !.sess = s, !.secret = n]]
    /\ UNCHANGED <<code, sess, opened, spent>>

\* RotateRefreshToken: the new secret and the new expiry, and COMMIT.
RotateCommit(p) ==
    /\ proc[p].pc = "rotate"
    /\ sess' = [sess EXCEPT ![proc[p].sess].secret = @ + 1, ![proc[p].sess].expired = FALSE]
    /\ lock' = [lock EXCEPT ![proc[p].sess] = None]
    /\ proc' = [proc EXCEPT ![p].pc = "rotated"]
    /\ UNCHANGED <<code, opened, spent>>

\* RotateRefreshToken: the session is revoked, and COMMIT.
ReuseCommit(p) ==
    /\ proc[p].pc = "reuse"
    /\ sess' = [sess EXCEPT ![proc[p].sess].state = "revoked"]
    /\ lock' = [lock EXCEPT ![proc[p].sess] = None]
    /\ proc' = [proc EXCEPT ![p] = Idle]
    /\ UNCHANGED <<code, opened, spent>>

\* The session has been rotated whether or not it is the caller's, and whether
\* or not the response arrives.
RefreshRespond(p) ==
    LET s == proc[p].sess  n == proc[p].secret IN
    /\ proc[p].pc = "rotated"
    /\ \/ /\ sess[s].client # proc[p].client
          /\ UNCHANGED spent
       \/ /\ sess[s].client = proc[p].client
          /\ spent' = [spent EXCEPT ![s][n] = @ + 1]
    /\ proc' = [proc EXCEPT ![p] = Idle]
    /\ UNCHANGED <<code, sess, lock, opened>>

-----------------------------------------------------------------------------
(* /revoke, /logout and /end_session: read the row, then revoke it.        *)

RevokeLookup(p, c, s, n) ==
    /\ proc[p].pc = "idle"
    /\ sess[s].client = c
    /\ sess[s].secret = n
    /\ proc' = [proc EXCEPT ![p] = [Idle EXCEPT !.pc = "revoke", !.sess = s]]
    /\ UNCHANGED <<code, sess, lock, opened, spent>>

ClearLookup(p, s, n) ==
    /\ proc[p].pc = "idle"
    /\ CookieValid(s, n)
    /\ proc' = [proc EXCEPT ![p] = [Idle EXCEPT !.pc = "revoke", !.sess = s]]
    /\ UNCHANGED <<code, sess, lock, opened, spent>>

RevokeUpdate(p) ==
    /\ proc[p].pc = "revoke"
    /\ Revoke(proc[p].sess)
    /\ proc' = [proc EXCEPT ![p] = Idle]
    /\ UNCHANGED <<code, lock, opened, spent>>

\* A statement or the random source fails, the caller hangs up, or the replica
\* dies: the open transaction rolls back.
Fail(p) ==
    /\ proc[p].pc # "idle"
    /\ lock' = [x \in Codes \cup Sessions |-> IF lock[x] = p THEN None ELSE lock[x]]
    /\ proc' = [proc EXCEPT ![p] = Idle]
    /\ UNCHANGED <<code, sess, opened, spent>>

-----------------------------------------------------------------------------

Next ==
    \/ \E s \in Sessions : Issue(s) \/ SessionExpires(s)
    \/ \E k \in Codes : CodeExpires(k)
    \/ DeleteExpired
    \/ \E p \in Procs :
          \/ \E k \in Codes : AuthorizeInsert(p, k)
          \/ RedeemCommit(p) \/ CodeCheck(p)
          \/ \E s \in Sessions : CodeCreate(p, s)
          \/ RotateCommit(p) \/ ReuseCommit(p) \/ RefreshRespond(p)
          \/ RevokeUpdate(p) \/ Fail(p)
          \/ \E c \in Clients, s \in Sessions, n \in Secrets :
                \/ \E uri \in URIs, challenge \in Challenges : AuthorizeLookup(p, c, uri, challenge, s, n)
                \/ RotateSelect(p, c, s, n)
                \/ RevokeLookup(p, c, s, n)
          \/ \E c \in Clients, req \in {r \in Request : r.code # None} : RedeemSelect(p, c, req)
          \/ \E s \in Sessions, n \in Secrets : ClearLookup(p, s, n)

Spec == Init /\ [][Next]_vars

-----------------------------------------------------------------------------
(* Properties.                                                             *)

\* A code is exchanged for tokens at most once, whichever replicas two copies
\* of the token request reach, and only for the client it was minted for, with
\* the redirect_uri and the PKCE verifier of the authorization request; a code
\* of a public client is always bound to one.
CodeOpensOneSession ==
    /\ \A s, t \in Sessions : s # t /\ opened[s].code = opened[t].code => opened[s].code = None
    /\ \A s \in Sessions : opened[s].code # None =>
          /\ Redeems(sess[s].client, opened[s])
          /\ sess[s].client \in Public => code[opened[s].code].challenge # None

\* A refresh token earns at most one token response: of two concurrent requests
\* with the same secret, one rotates it and the other finds it reused.
SecretEarnsOnce == \A s \in Sessions, n \in Secrets : spent[s][n] <= 1

\* Revocation is final: a rotation that was under way when /revoke or /logout
\* read the row neither survives it nor brings the session back.
RevocationIsFinal ==
    [][\A s \in Sessions : sess[s].state = "revoked" =>
          sess'[s].state = "revoked" /\ sess'[s].secret = sess[s].secret]_vars
=============================================================================

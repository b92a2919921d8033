--------------------------- MODULE TokenDenylist ---------------------------
(***************************************************************************)
(* Access and ID tokens after they are signed: parseAccessOrIDToken as     *)
(* /userinfo, /introspect and /end_session use it, /revoke, and the        *)
(* oidc_revoked_tokens table with its sweep.                               *)
(*                                                                         *)
(* A request reads the clock when jwt.Parse verifies the signature and the *)
(* exp claim, and again in IsRevoked, one database round trip later.  Time *)
(* passes between them, as it does before a /revoke writes its row.  The   *)
(* key lookup of jwt.Parse is module SigningKeys; here it may fail.  One   *)
(* clock serves Postgres and the replicas.                                 *)
(***************************************************************************)
EXTENDS Clock

CONSTANTS
    Clients,
    Tokens,     \* jti claims: random, never drawn twice
    Procs,      \* request handlers, on any replica
    Nil,        \* no client, no token
    TTL         \* lifetime of a token: exp - iat

VARIABLES
    jwt,        \* the claims of each token that has been signed
    denied,     \* oidc_revoked_tokens: expires_at by jti, NoRow where there is none
    proc,       \* the local variables of each handler
    revoked,    \* history: tokens whose revocation has been committed
    answers     \* history: [jti, late, expired] of each token accepted

denyVars == <<now, jwt, denied, proc, revoked, answers>>

ASSUME DenylistAssumption ==
    /\ Nil \notin Clients \cup Tokens
    /\ TTL \in Nat \ {0}
    /\ MaxTime \in Nat

NoRow == 0
Claims == [aud : Clients \cup {Nil}, exp : Nat]
Unsigned == [aud |-> Nil, exp |-> 0]

Process == [pc : {"idle", "parsed", "revoke"}, jti : Tokens \cup {Nil},
            \* the caller, if the request is a /revoke
            caller : Clients \cup {Nil}]
Idle == [pc |-> "idle", jti |-> Nil, caller |-> Nil]

DenylistTypeOK ==
    /\ now \in Nat
    /\ jwt \in [Tokens -> Claims]
    /\ denied \in [Tokens -> Nat]
    /\ proc \in [Procs -> Process]
    /\ revoked \subseteq Tokens
    /\ answers \subseteq [jti : Tokens, late : BOOLEAN, expired : BOOLEAN]

DenylistInit ==
    /\ now = 1
    /\ jwt = [j \in Tokens |-> Unsigned]
    /\ denied = [j \in Tokens |-> NoRow]
    /\ proc = [p \in Procs |-> Idle]
    /\ revoked = {}
    /\ answers = {}

-----------------------------------------------------------------------------

TimePasses ==
    /\ now < MaxTime
    /\ now' = now + 1
    /\ UNCHANGED <<jwt, denied, proc, revoked, answers>>

\* issueTokens and the client-credentials grant: a fresh jti for each token.
IssueToken(j, c) ==
    /\ jwt[j] = Unsigned
    /\ jwt' = [jwt EXCEPT ![j] = [aud |-> c, exp |-> now + TTL]]
    /\ UNCHANGED <<now, denied, proc, revoked, answers>>

\* Wrong variant: the token and the caller are swapped.
Parse_SwappedArguments(p, j, caller) ==
    /\ proc[p].pc = "idle"
    /\ jwt[j] # Unsigned
    /\ now < jwt[j].exp
    /\ proc' = [proc EXCEPT ![p] = [pc |-> "parsed", jti |-> caller, caller |-> j]]
    /\ UNCHANGED <<now, jwt, denied, revoked, answers>>

\* jwt.Parse: a token that has expired, or whose key is unknown, is refused.
Parse(p, j, caller) ==
    /\ proc[p].pc = "idle"
    /\ jwt[j] # Unsigned
    /\ now < jwt[j].exp
    /\ proc' = [proc EXCEPT ![p] = [pc |-> "parsed", jti |-> j, caller |-> caller]]
    /\ UNCHANGED <<now, jwt, denied, revoked, answers>>

\* A row past its expires_at denies nothing.
IsRevoked(j) == denied[j] # NoRow /\ now < denied[j]

\* The token is denied, or a /revoke is not its audience's.
Refuse(p) ==
    LET j == proc[p].jti  caller == proc[p].caller IN
    /\ proc[p].pc = "parsed"
    /\ IsRevoked(j) \/ (caller # Nil /\ jwt[j].aud # caller)
    /\ proc' = [proc EXCEPT ![p] = Idle]
    /\ UNCHANGED <<now, jwt, denied, revoked, answers>>

\* /userinfo, /introspect or /end_session answers with the claims.
Accept(p) ==
    LET j == proc[p].jti IN
    /\ proc[p].pc = "parsed"
    /\ proc[p].caller = Nil
    /\ ~IsRevoked(j)
    /\ answers' = answers \cup
          {[jti |-> j, late |-> j \in revoked, expired |-> now >= jwt[j].exp]}
    /\ proc' = [proc EXCEPT ![p] = Idle]
    /\ UNCHANGED <<now, jwt, denied, revoked>>

\* /revoke goes on for the client the token was issued to.
RevokeOwn(p) ==
    LET j == proc[p].jti IN
    /\ proc[p].pc = "parsed"
    /\ proc[p].caller = jwt[j].aud
    /\ ~IsRevoked(j)
    /\ proc' = [proc EXCEPT ![p].pc = "revoke"]
    /\ UNCHANGED <<now, jwt, denied, revoked, answers>>

\* INSERT ... ON CONFLICT DO NOTHING, until the token's own exp.
Revoke(p) ==
    LET j == proc[p].jti IN
    /\ proc[p].pc = "revoke"
    /\ denied' = [denied EXCEPT ![j] = IF @ = NoRow THEN jwt[j].exp ELSE @]
    /\ revoked' = revoked \cup {j}
    /\ proc' = [proc EXCEPT ![p] = Idle]
    /\ UNCHANGED <<now, jwt, answers>>

\* Wrong variant: rows are swept a moment before the token expires.
DeleteExpired_Early ==
    /\ denied' = [j \in Tokens |-> IF denied[j] <= now + 1 THEN NoRow ELSE denied[j]]
    /\ UNCHANGED <<now, jwt, proc, revoked, answers>>

\* The maintenance sweep of any replica.
DeleteExpired ==
    /\ denied' = [j \in Tokens |-> IF denied[j] < now THEN NoRow ELSE denied[j]]
    /\ UNCHANGED <<now, jwt, proc, revoked, answers>>

\* The request dies, or IsRevoked gets no answer: the token is refused.
RequestFails(p) ==
    /\ proc[p].pc = "parsed"
    /\ proc' = [proc EXCEPT ![p] = Idle]
    /\ UNCHANGED <<now, jwt, denied, revoked, answers>>

\* The INSERT fails.  handleRevoke discards the error and answers 200 all the
\* same: nothing is denied, and the client cannot tell.
RevokeFails(p) ==
    /\ proc[p].pc = "revoke"
    /\ proc' = [proc EXCEPT ![p] = Idle]
    /\ UNCHANGED <<now, jwt, denied, revoked, answers>>

DenylistNext ==
    \/ TimePasses
    \/ DeleteExpired
    \/ \E j \in Tokens, c \in Clients : IssueToken(j, c)
    \/ \E p \in Procs, j \in Tokens, caller \in Clients \cup {Nil} : Parse(p, j, caller)
    \/ \E p \in Procs :
          \/ Refuse(p) \/ Accept(p) \/ RequestFails(p)
          \/ RevokeOwn(p) \/ Revoke(p) \/ RevokeFails(p)

DenylistSpec == DenylistInit /\ [][DenylistNext]_denyVars

-----------------------------------------------------------------------------
(* Properties.                                                             *)

\* Once a revocation is committed, no replica accepts the token before it
\* expires, whatever the sweep has deleted and whatever revocation was repeated.
\* The 200 of /revoke is no sign of a commit (RevokeFails).
RevokedIsRefused == \A a \in answers : a.late => a.expired
=============================================================================

-------------------------- MODULE OIDCGrantsProofs --------------------------
(***************************************************************************)
(* Proofs about module OIDCGrants, for every number of clients, codes,     *)
(* sessions and handlers, and every bound on the secrets of a session.     *)
(***************************************************************************)
EXTENDS OIDCGrants, TLAPS

\* What a handler's local variables hold, from where it is.
Placed(r) ==
    /\ r.pc \in {"redeem", "check", "create"} => r.client \in Clients /\ r.req.code \in Codes
    /\ r.pc = "insert" => r.client \in Clients /\ (r.client \in Public => r.challenge # None)
    /\ r.pc \in {"rotate", "reuse", "rotated", "revoke"} => r.sess \in Sessions

ShapeOK == \A p \in Procs : Placed(proc[p])

\* Who is about to spend a code holds its row, and the code is unused.
RedeemerHoldsRow ==
    \A p \in Procs : proc[p].pc = "redeem" =>
        lock[proc[p].req.code] = p /\ ~code[proc[p].req.code].used

\* Who is about to rotate or to revoke a session for reuse holds its row, which
\* is neither revoked nor given another secret meanwhile.
RotatorHoldsRow ==
    \A p \in Procs :
        /\ proc[p].pc \in {"rotate", "reuse"} =>
              lock[proc[p].sess] = p /\ sess[proc[p].sess].state = "live"
        /\ proc[p].pc = "rotate" =>
              sess[proc[p].sess].secret = proc[p].secret /\ proc[p].secret < MaxSecret

HoldInv == TypeOK /\ ShapeOK /\ RedeemerHoldsRow /\ RotatorHoldsRow

LEMMA IdleTyped ==
    /\ Idle \in Process /\ Idle.pc = "idle" /\ Placed(Idle)
    /\ NoRequest \in Request /\ NoRequest.code = None
    /\ NoCode \in CodeRow /\ NoSession \in SessionRow
BY GrantAssumption
   DEF Idle, Process, NoRequest, Request, NoCode, CodeRow, NoSession, SessionRow,
       Challenges, Secrets, Placed

LEMMA HoldInit == Init => HoldInv
<1> SUFFICES ASSUME Init PROVE HoldInv
  OBVIOUS
<1>1. TypeOK
  BY IdleTyped DEF Init, TypeOK
<1>2. \A p \in Procs : proc[p].pc = "idle" /\ Placed(proc[p])
  BY IdleTyped DEF Init
<1> QED BY <1>1, <1>2 DEF HoldInv, ShapeOK, RedeemerHoldsRow, RotatorHoldsRow

-----------------------------------------------------------------------------
(* Who holds a row keeps it.                                               *)

\* The rows that handler q has locked are still locked by it, and hold what it
\* has read there.
Undisturbed(q) ==
    /\ \A k \in Codes : lock[k] = q => lock'[k] = q /\ (~code[k].used => ~code'[k].used)
    /\ \A s \in Sessions : lock[s] = q /\ sess[s].state = "live" =>
          /\ lock'[s] = q
          /\ sess'[s].state = sess[s].state /\ sess'[s].secret = sess[s].secret

\* Every handler goes on where it was with its rows undisturbed, or moves to a
\* step that holds no row.
LEMMA HoldQuiet ==
    ASSUME HoldInv, TypeOK',
           \A q \in Procs :
              \/ proc'[q] = proc[q] /\ Undisturbed(q)
              \/ Placed(proc'[q]) /\ proc'[q].pc \notin {"redeem", "rotate", "reuse"}
    PROVE  HoldInv'
<1> USE DEF HoldInv
<1>1. ShapeOK'
  BY DEF ShapeOK, Placed
<1>2. RedeemerHoldsRow'
  <2> SUFFICES ASSUME NEW q \in Procs, proc'[q].pc = "redeem"
               PROVE  lock'[proc'[q].req.code] = q /\ ~code'[proc'[q].req.code].used
    BY DEF RedeemerHoldsRow
  <2>1. proc'[q] = proc[q] /\ Undisturbed(q) /\ proc[q].req.code \in Codes
    BY DEF ShapeOK, Placed
  <2>2. lock[proc[q].req.code] = q /\ ~code[proc[q].req.code].used
    BY <2>1 DEF RedeemerHoldsRow
  <2> QED BY <2>1, <2>2, Zenon DEF Undisturbed
<1>3. RotatorHoldsRow'
  <2> SUFFICES ASSUME NEW q \in Procs, proc'[q].pc \in {"rotate", "reuse"}
               PROVE  /\ lock'[proc'[q].sess] = q /\ sess'[proc'[q].sess].state = "live"
                      /\ proc'[q].pc = "rotate" =>
                            sess'[proc'[q].sess].secret = proc'[q].secret /\ proc'[q].secret < MaxSecret
    BY DEF RotatorHoldsRow
  <2>1. proc'[q] = proc[q] /\ Undisturbed(q) /\ proc[q].sess \in Sessions
    BY DEF ShapeOK, Placed
  <2> QED BY <2>1 DEF RotatorHoldsRow, Undisturbed
<1> QED BY <1>1, <1>2, <1>3

\* A handler that does nothing is undisturbed by a step that leaves the locks
\* and the locked rows alone.
LEMMA NothingMoves ==
    ASSUME UNCHANGED <<code, sess, lock>>
    PROVE  \A q \in Procs : Undisturbed(q)
BY DEF Undisturbed

\* Handlers that begin a request with a plain read, or end one without writing.
LEMMA HoldReads ==
    ASSUME HoldInv, NEW p \in Procs, NEW r \in Process, proc' = [proc EXCEPT ![p] = r],
           UNCHANGED <<code, sess, lock, opened>>, spent' \in [Sessions -> [Secrets -> Nat]],
           Placed(r), r.pc \notin {"redeem", "rotate", "reuse"}
    PROVE  HoldInv'
<1>1. TypeOK' /\ proc'[p] = r /\ \A q \in Procs \ {p} : proc'[q] = proc[q]
  BY DEF HoldInv, TypeOK
<1> QED BY <1>1, HoldQuiet, NothingMoves

-----------------------------------------------------------------------------
(* The steps that neither spend a code nor earn a token response.          *)

\* A code keeps what it was minted with, or is minted just now.
SameGrant(k) ==
    /\ code'[k].used = code[k].used /\ code'[k].client = code[k].client
    /\ code'[k].uri = code[k].uri /\ code'[k].challenge = code[k].challenge

Minted(k) ==
    /\ code[k] = NoCode /\ ~code'[k].used
    /\ code'[k].client \in Public => code'[k].challenge # None

KeepsSessions ==
    \A s \in Sessions :
        /\ sess'[s].state = "none" => sess[s].state = "none"
        /\ sess'[s].client = sess[s].client \/ sess[s].state = "none"
        /\ sess[s].secret <= sess'[s].secret

CodesQuiet ==
    /\ UNCHANGED opened
    /\ \A k \in Codes : SameGrant(k) \/ Minted(k)
    /\ \A q \in Procs : proc'[q] = proc[q] \/ proc'[q].pc \notin {"check", "create"}

SecretsQuiet ==
    /\ UNCHANGED spent
    /\ \A q \in Procs : proc'[q] = proc[q] \/ proc'[q].pc # "rotated"

QuietStep == HoldInv' /\ KeepsSessions /\ CodesQuiet /\ SecretsQuiet

LEMMA SessionsSame ==
    ASSUME TypeOK, UNCHANGED sess
    PROVE  KeepsSessions
<1>1. \A s \in Sessions : sess[s].secret \in Nat
  BY DEF TypeOK, SessionRow, Secrets
<1> QED BY <1>1 DEF KeepsSessions

\* /authorize, /revoke and /logout read the session first.
LEMMA ReadQuiet ==
    ASSUME HoldInv, NEW p \in Procs, NEW r \in Process, Placed(r), r.pc \in {"insert", "revoke"},
           proc' = [proc EXCEPT ![p] = r], UNCHANGED <<code, sess, lock, opened, spent>>
    PROVE  QuietStep
<1>1. HoldInv'
  BY HoldReads DEF HoldInv, TypeOK
<1>2. proc'[p] = r /\ \A q \in Procs \ {p} : proc'[q] = proc[q]
  BY DEF HoldInv, TypeOK
<1>3. CodesQuiet /\ SecretsQuiet
  BY <1>2 DEF CodesQuiet, SecretsQuiet, SameGrant
<1> QED BY <1>1, <1>3, SessionsSame DEF QuietStep, HoldInv

LEMMA LookupQuiet ==
    ASSUME HoldInv, NEW p \in Procs, NEW s \in Sessions, NEW n \in Secrets,
           \/ \E c \in Clients, uri \in URIs, challenge \in Challenges :
                 AuthorizeLookup(p, c, uri, challenge, s, n)
           \/ \E c \in Clients : RevokeLookup(p, c, s, n)
           \/ ClearLookup(p, s, n)
    PROVE  QuietStep
<1>1. ASSUME NEW c \in Clients, NEW uri \in URIs, NEW challenge \in Challenges,
             AuthorizeLookup(p, c, uri, challenge, s, n)
      PROVE  QuietStep
  <2> DEFINE r == [Idle EXCEPT !.pc = "insert", !.client = c, !.req.uri = uri, !.challenge = challenge]
  <2>1. r \in Process /\ r.pc = "insert" /\ r.client = c /\ r.challenge = challenge
    BY IdleTyped DEF Process, Request
  <2>2. Placed(r)
    BY <1>1, <2>1 DEF AuthorizeLookup, Placed
  <2> QED BY <1>1, <2>1, <2>2, ReadQuiet DEF AuthorizeLookup
<1>2. ASSUME (\E c \in Clients : RevokeLookup(p, c, s, n)) \/ ClearLookup(p, s, n)
      PROVE  QuietStep
  <2> DEFINE r == [Idle EXCEPT !.pc = "revoke", !.sess = s]
  <2>1. r \in Process /\ r.pc = "revoke" /\ r.sess = s
    BY IdleTyped DEF Process
  <2>2. Placed(r)
    BY <2>1 DEF Placed
  <2> QED BY <1>2, <2>1, <2>2, ReadQuiet DEF RevokeLookup, ClearLookup
<1> QED BY <1>1, <1>2

\* The steps of the database alone, and of a login.
LEMMA ClockQuiet ==
    ASSUME HoldInv,
           \/ \E s \in Sessions : Issue(s) \/ SessionExpires(s)
           \/ \E k \in Codes : CodeExpires(k)
           \/ DeleteExpired
    PROVE  QuietStep
<1>1. TypeOK /\ \A s \in Sessions : sess[s] \in SessionRow /\ sess[s].secret \in Nat
  BY DEF HoldInv, TypeOK, SessionRow, Secrets
<1>2. ASSUME TypeOK', UNCHANGED <<lock, proc, opened, spent>>, KeepsSessions, \A k \in Codes : SameGrant(k),
             \A s \in Sessions : sess[s].state = "live" => sess'[s].state = sess[s].state /\ sess'[s].secret = sess[s].secret
      PROVE  QuietStep
  <2>1. \A q \in Procs : proc'[q] = proc[q] /\ Undisturbed(q)
    <3> SUFFICES ASSUME NEW q \in Procs PROVE Undisturbed(q)
      BY <1>2
    <3>1. q # None
      BY GrantAssumption
    <3>2. \A k \in Codes : lock[k] = q => lock'[k] = q /\ (~code[k].used => ~code'[k].used)
      BY <1>2, Zenon DEF SameGrant
    <3> QED BY <1>2, <3>1, <3>2 DEF Undisturbed
  <2>2. HoldInv'
    BY <1>2, <2>1, HoldQuiet
  <2> QED BY <1>2, <2>2 DEF QuietStep, CodesQuiet, SecretsQuiet
<1>3. ASSUME NEW t \in Sessions, NEW x \in SessionRow, sess' = [sess EXCEPT ![t] = x],
             UNCHANGED <<code, lock, proc, opened, spent>>, x.state = "live", sess[t].secret <= x.secret,
             \/ sess[t].state = "none"
             \/ sess[t].state = "live" /\ sess[t].client = x.client /\ sess[t].secret = x.secret
      PROVE  QuietStep
  <2>1. sess' \in [Sessions -> SessionRow] /\ sess'[t] = x /\ \A s \in Sessions \ {t} : sess'[s] = sess[s]
    BY <1>1, <1>3 DEF TypeOK
  <2>2. TypeOK' /\ \A k \in Codes : SameGrant(k)
    BY <1>1, <1>3, <2>1 DEF TypeOK, SameGrant
  <2>3. KeepsSessions
    BY <1>1, <1>3, <2>1 DEF KeepsSessions
  <2> QED BY <1>2, <1>3, <2>1, <2>2, <2>3
<1>4. ASSUME NEW t \in Sessions, Issue(t) PROVE QuietStep
  <2> DEFINE x == [state |-> "live", expired |-> FALSE, client |-> WebUI, secret |-> 1]
  <2>1. sess[t].state = "none" /\ sess[t].secret = 0
    BY <1>4 DEF Issue, Create, NoSession
  <2>2. sess' = [sess EXCEPT ![t] = x] /\ UNCHANGED <<code, lock, proc, opened, spent>>
    BY <1>4 DEF Issue, Create
  <2>3. x.state = "live" /\ x.secret = 1
    OBVIOUS
  <2>4. x \in SessionRow
    BY GrantAssumption DEF SessionRow, Secrets
  <2> HIDE DEF x
  <2>5. sess[t].secret <= x.secret
    BY <2>1, <2>3
  <2> QED BY <1>3, <2>1, <2>2, <2>3, <2>4, <2>5
<1>5. ASSUME NEW t \in Sessions, SessionExpires(t) PROVE QuietStep
  <2> DEFINE x == [sess[t] EXCEPT !.expired = TRUE]
  <2>1. x \in SessionRow /\ x.state = sess[t].state /\ x.client = sess[t].client /\ x.secret = sess[t].secret
    BY <1>1 DEF SessionRow
  <2>2. sess' = [sess EXCEPT ![t] = x] /\ UNCHANGED <<code, lock, proc, opened, spent>>
    BY <1>1, <1>5 DEF SessionExpires
  <2>3. sess[t].state = "live"
    BY <1>5 DEF SessionExpires, Live
  <2> HIDE DEF x
  <2>4. sess[t].secret <= x.secret
    BY <1>1, <2>1
  <2> QED BY <1>3, <2>1, <2>2, <2>3, <2>4
<1>6. ASSUME UNCHANGED <<sess, lock, proc, opened, spent>>, code' \in [Codes -> CodeRow],
             \A k \in Codes : code'[k].used = code[k].used /\ code'[k].client = code[k].client
                              /\ code'[k].uri = code[k].uri /\ code'[k].challenge = code[k].challenge
      PROVE  QuietStep
  BY <1>1, <1>2, <1>6, SessionsSame DEF TypeOK, SameGrant
<1>7. ASSUME NEW k \in Codes, CodeExpires(k) PROVE QuietStep
  BY <1>1, <1>6, <1>7 DEF CodeExpires, TypeOK, CodeRow
<1>8. CASE DeleteExpired
  BY <1>1, <1>6, <1>8 DEF DeleteExpired, TypeOK, CodeRow
<1> QED BY <1>4, <1>5, <1>7, <1>8

-----------------------------------------------------------------------------
(* The steps of a handler that take, use or release a row.                 *)

\* Only the rows that p holds, or nobody does, are touched.
LEMMA OneMoves ==
    ASSUME HoldInv, NEW p \in Procs, NEW r \in Process, proc' = [proc EXCEPT ![p] = r],
           code' \in [Codes -> CodeRow], sess' \in [Sessions -> SessionRow],
           lock' \in [Codes \cup Sessions -> Procs \cup {None}],
           opened' \in [Sessions -> Request], spent' \in [Sessions -> [Secrets -> Nat]],
           Placed(r), r.pc \notin {"redeem", "rotate", "reuse"},
           \A q \in Procs \ {p} : Undisturbed(q)
    PROVE  HoldInv'
<1>1. TypeOK' /\ proc'[p] = r /\ \A q \in Procs \ {p} : proc'[q] = proc[q]
  BY DEF HoldInv, TypeOK
<1> QED BY <1>1, HoldQuiet

\* A step of p that takes a row no one holds.
LEMMA OneTakes ==
    ASSUME HoldInv, NEW p \in Procs, NEW r \in Process, proc' = [proc EXCEPT ![p] = r],
           NEW x \in Codes \cup Sessions, lock[x] = None, lock' = [lock EXCEPT ![x] = p],
           UNCHANGED <<code, sess, opened, spent>>, Placed(r),
           \/ r.pc = "redeem" /\ r.req.code = x /\ ~code[x].used
           \/ /\ r.pc \in {"rotate", "reuse"} /\ r.sess = x /\ sess[x].state = "live"
              /\ r.pc = "rotate" => sess[x].secret = r.secret /\ r.secret < MaxSecret
    PROVE  QuietStep
<1>1. TypeOK /\ ShapeOK /\ RedeemerHoldsRow /\ RotatorHoldsRow
  BY DEF HoldInv
<1>2. TypeOK' /\ proc'[p] = r /\ \A q \in Procs \ {p} : proc'[q] = proc[q]
  BY <1>1 DEF TypeOK
<1>3. lock'[x] = p /\ \A y \in Codes \cup Sessions : y # x => lock'[y] = lock[y]
  BY <1>1 DEF TypeOK
<1>4. \A q \in Procs : q # None
  BY GrantAssumption
<1>5. ShapeOK'
  BY <1>1, <1>2 DEF ShapeOK, Placed
<1>6. \A q \in Procs : proc'[q].pc = "redeem" =>
         \/ proc'[q].req.code = x /\ q = p
         \/ proc'[q] = proc[q] /\ proc[q].req.code \in Codes /\ proc[q].req.code # x
  BY <1>1, <1>2, <1>4 DEF ShapeOK, Placed, RedeemerHoldsRow
<1>7. RedeemerHoldsRow'
  <2> SUFFICES ASSUME NEW q \in Procs, proc'[q].pc = "redeem"
               PROVE  lock'[proc'[q].req.code] = q /\ ~code'[proc'[q].req.code].used
    BY DEF RedeemerHoldsRow
  <2>1. CASE proc'[q].req.code = x /\ q = p
    <3>1. ~code[x].used
      BY <1>2, <2>1
    <3> QED BY <1>3, <2>1, <3>1, Zenon
  <2>2. CASE proc'[q] = proc[q] /\ proc[q].req.code \in Codes /\ proc[q].req.code # x
    <3>1. lock[proc[q].req.code] = q /\ ~code[proc[q].req.code].used
      BY <1>1, <2>2 DEF RedeemerHoldsRow
    <3>2. lock'[proc[q].req.code] = q
      BY <1>3, <2>2, <3>1
    <3> QED BY <2>2, <3>1, <3>2, Zenon
  <2> QED BY <1>6, <2>1, <2>2
<1>8. RotatorHoldsRow'
  <2> SUFFICES ASSUME NEW q \in Procs, proc'[q].pc \in {"rotate", "reuse"}
               PROVE  /\ lock'[proc'[q].sess] = q /\ sess'[proc'[q].sess].state = "live"
                      /\ proc'[q].pc = "rotate" =>
                            sess'[proc'[q].sess].secret = proc'[q].secret /\ proc'[q].secret < MaxSecret
    BY DEF RotatorHoldsRow
  <2>1. CASE q = p
    BY <1>2, <1>3, <2>1
  <2>2. CASE q # p
    <3>1. proc'[q] = proc[q] /\ proc[q].sess \in Sessions
      BY <1>1, <1>2, <2>2 DEF ShapeOK, Placed
    <3>2. lock[proc[q].sess] = q /\ proc[q].sess # x
      BY <1>1, <1>4, <3>1 DEF RotatorHoldsRow
    <3> QED BY <1>1, <1>3, <3>1, <3>2 DEF RotatorHoldsRow
  <2> QED BY <2>1, <2>2
<1>9. CodesQuiet /\ SecretsQuiet
  BY <1>2 DEF CodesQuiet, SecretsQuiet, SameGrant
<1> QED BY <1>1, <1>2, <1>5, <1>7, <1>8, <1>9, SessionsSame DEF QuietStep, HoldInv

LEMMA SelectQuiet ==
    ASSUME HoldInv, NEW p \in Procs, NEW c \in Clients,
           \/ \E req \in {r \in Request : r.code # None} : RedeemSelect(p, c, req)
           \/ \E s \in Sessions, n \in Secrets : RotateSelect(p, c, s, n)
    PROVE  QuietStep
<1>1. ASSUME NEW req \in Request, req.code # None, RedeemSelect(p, c, req) PROVE QuietStep
  <2> DEFINE r == [Idle EXCEPT !.pc = "redeem", !.client = c, !.req = req]
  <2>1. r \in Process /\ r.pc = "redeem" /\ r.client = c /\ r.req = req
    BY IdleTyped DEF Process
  <2>2. req.code \in Codes
    BY <1>1 DEF Request
  <2>3. proc' = [proc EXCEPT ![p] = r] /\ lock[req.code] = None /\ lock' = [lock EXCEPT ![req.code] = p]
        /\ ~code[req.code].used /\ UNCHANGED <<code, sess, opened, spent>>
    BY <1>1, Zenon DEF RedeemSelect
  <2> HIDE DEF r
  <2>4. Placed(r)
    BY <2>1, <2>2 DEF Placed
  <2> QED BY <2>1, <2>2, <2>3, <2>4, OneTakes
<1>2. ASSUME NEW s \in Sessions, NEW n \in Secrets, RotateSelect(p, c, s, n) PROVE QuietStep
  <2> DEFINE r == [Idle EXCEPT !.pc = IF sess[s].secret = n THEN "rotate" ELSE "reuse",
                               !.client = c, !.sess = s, !.secret = n]
  <2>1. r \in Process /\ r.pc \in {"rotate", "reuse"} /\ r.sess = s /\ r.secret = n
        /\ (r.pc = "rotate" => sess[s].secret = n)
    BY IdleTyped DEF Process
  <2>2. proc' = [proc EXCEPT ![p] = r] /\ lock[s] = None /\ lock' = [lock EXCEPT ![s] = p]
        /\ sess[s].state = "live" /\ UNCHANGED <<code, sess, opened, spent>>
        /\ (sess[s].secret = n => n < MaxSecret)
    BY <1>2 DEF RotateSelect, Live
  <2> HIDE DEF r
  <2>3. Placed(r)
    BY <2>1 DEF Placed
  <2> QED BY <2>1, <2>2, <2>3, OneTakes
<1> QED BY <1>1, <1>2

\* A handler ends: what it locked is released, what others locked is not touched.
LEMMA EndQuiet ==
    ASSUME HoldInv, NEW p \in Procs,
           \/ \E k \in Codes : AuthorizeInsert(p, k)
           \/ ReuseCommit(p) \/ RevokeUpdate(p) \/ Fail(p)
    PROVE  QuietStep
<1>1. TypeOK /\ ShapeOK /\ RedeemerHoldsRow /\ RotatorHoldsRow /\ proc[p] \in Process
  BY DEF HoldInv, TypeOK
<1>2. \A q \in Procs : q # None
  BY GrantAssumption
<1>3. ASSUME proc' = [proc EXCEPT ![p] = Idle], UNCHANGED <<opened, spent>>,
             code' \in [Codes -> CodeRow], sess' \in [Sessions -> SessionRow],
             lock' \in [Codes \cup Sessions -> Procs \cup {None}],
             KeepsSessions, \A k \in Codes : SameGrant(k) \/ Minted(k),
             \A q \in Procs \ {p} : Undisturbed(q)
      PROVE  QuietStep
  <2>1. HoldInv'
    BY <1>1, <1>3, IdleTyped, OneMoves DEF TypeOK
  <2>2. proc'[p].pc = "idle" /\ \A q \in Procs \ {p} : proc'[q] = proc[q]
    BY <1>1, <1>3, IdleTyped DEF TypeOK
  <2> QED BY <1>3, <2>1, <2>2 DEF QuietStep, CodesQuiet, SecretsQuiet
<1>4. ASSUME NEW k \in Codes, AuthorizeInsert(p, k) PROVE QuietStep
  <2> DEFINE x == [state |-> "live", used |-> FALSE, client |-> proc[p].client,
                   uri |-> proc[p].req.uri, challenge |-> proc[p].challenge]
  <2>1. proc[p].client \in Clients /\ (proc[p].client \in Public => proc[p].challenge # None)
    BY <1>1, <1>4 DEF AuthorizeInsert, ShapeOK, Placed
  <2>2. x \in CodeRow /\ x.client = proc[p].client /\ x.challenge = proc[p].challenge
    BY <1>1, <2>1 DEF CodeRow, Process, Request
  <2>3. ~x.used
    OBVIOUS
  <2>4. code[k] = NoCode /\ code' = [code EXCEPT ![k] = x] /\ proc' = [proc EXCEPT ![p] = Idle]
        /\ UNCHANGED <<sess, lock, opened, spent>>
    BY <1>4 DEF AuthorizeInsert
  <2> HIDE DEF x
  <2>5. code' \in [Codes -> CodeRow] /\ code'[k] = x /\ \A j \in Codes \ {k} : code'[j] = code[j]
    BY <1>1, <2>2, <2>4 DEF TypeOK
  <2>6. Minted(k)
    <3>1. ~code'[k].used
      BY <2>3, <2>5, Zenon
    <3> QED BY <2>1, <2>2, <2>4, <2>5, <3>1 DEF Minted
  <2>7. \A j \in Codes : SameGrant(j) \/ Minted(j)
    BY <2>5, <2>6 DEF SameGrant
  <2>8. \A j \in Codes : ~code[j].used => ~code'[j].used
    BY <2>3, <2>5, Zenon
  <2>9. \A q \in Procs : Undisturbed(q)
    BY <2>4, <2>8 DEF Undisturbed
  <2> QED BY <1>1, <1>3, <2>4, <2>5, <2>7, <2>9, SessionsSame DEF TypeOK
<1>5. ASSUME NEW s \in Sessions, sess' = [sess EXCEPT ![s].state = "revoked"],
             UNCHANGED <<code, opened, spent>>, proc' = [proc EXCEPT ![p] = Idle],
             \/ lock[s] = None /\ lock' = lock
             \/ lock[s] = p /\ lock' = [lock EXCEPT ![s] = None]
      PROVE  QuietStep
  <2>1. sess' \in [Sessions -> SessionRow] /\ \A t \in Sessions \ {s} : sess'[t] = sess[t]
    BY <1>1, <1>5 DEF TypeOK, SessionRow
  <2>2. sess'[s].state = "revoked" /\ sess'[s].client = sess[s].client /\ sess'[s].secret = sess[s].secret
    BY <1>1, <1>5 DEF TypeOK, SessionRow
  <2>3. KeepsSessions
    <3>1. \A t \in Sessions : sess[t].secret \in Nat
      BY <1>1 DEF TypeOK, SessionRow, Secrets
    <3> QED BY <2>1, <2>2, <3>1 DEF KeepsSessions
  <2>4. lock' \in [Codes \cup Sessions -> Procs \cup {None}]
        /\ \A y \in Codes \cup Sessions : y # s => lock'[y] = lock[y]
    BY <1>1, <1>5 DEF TypeOK
  <2>5. s \notin Codes
    BY GrantAssumption
  <2>6. \A q \in Procs \ {p} : Undisturbed(q)
    BY <1>2, <1>5, <2>1, <2>4, <2>5 DEF Undisturbed
  <2>7. \A k \in Codes : SameGrant(k)
    BY <1>5 DEF SameGrant
  <2> QED BY <1>1, <1>3, <1>5, <2>1, <2>3, <2>4, <2>6, <2>7 DEF TypeOK
<1>6. CASE ReuseCommit(p)
  BY <1>1, <1>5, <1>6 DEF ReuseCommit, ShapeOK, Placed, RotatorHoldsRow
<1>7. CASE RevokeUpdate(p)
  <2> DEFINE s == proc[p].sess
  <2>1. s \in Sessions
    BY <1>1, <1>7 DEF RevokeUpdate, ShapeOK, Placed
  <2>2. lock[s] = None /\ lock' = lock /\ UNCHANGED <<code, opened, spent>>
        /\ sess' = [sess EXCEPT ![s].state = "revoked"] /\ proc' = [proc EXCEPT ![p] = Idle]
    BY <1>7 DEF RevokeUpdate, Revoke
  <2> HIDE DEF s
  <2> QED BY <1>5, <2>1, <2>2
<1>8. CASE Fail(p)
  <2>1. lock' \in [Codes \cup Sessions -> Procs \cup {None}]
        /\ \A x \in Codes \cup Sessions : lock[x] # p => lock'[x] = lock[x]
    BY <1>1, <1>8 DEF Fail, TypeOK
  <2>2. \A q \in Procs \ {p} : Undisturbed(q)
    BY <1>8, <2>1 DEF Fail, Undisturbed
  <2>3. \A k \in Codes : SameGrant(k)
    BY <1>8 DEF Fail, SameGrant
  <2> QED BY <1>1, <1>3, <1>8, <2>1, <2>2, <2>3, SessionsSame DEF Fail, TypeOK
<1> QED BY <1>4, <1>6, <1>7, <1>8

\* A committed rotation gives the session its next secret.
LEMMA RotateCommitStep ==
    ASSUME HoldInv, NEW p \in Procs, RotateCommit(p)
    PROVE  /\ HoldInv' /\ KeepsSessions /\ CodesQuiet /\ UNCHANGED spent
           /\ proc[p].sess \in Sessions /\ proc[p].secret \in Secrets
           /\ sess[proc[p].sess].state = "live"
           /\ sess[proc[p].sess].secret = proc[p].secret /\ sess'[proc[p].sess].secret = proc[p].secret + 1
           /\ \A t \in Sessions \ {proc[p].sess} : sess'[t] = sess[t]
           /\ proc'[p].pc = "rotated" /\ proc'[p].sess = proc[p].sess /\ proc'[p].secret = proc[p].secret
           /\ \A q \in Procs \ {p} : proc'[q] = proc[q]
<1> DEFINE s == proc[p].sess
           r == [proc[p] EXCEPT !.pc = "rotated"]
           x == [sess[s] EXCEPT !.secret = @ + 1, !.expired = FALSE]
<1>1. TypeOK /\ ShapeOK /\ proc[p] \in Process /\ proc[p].pc = "rotate" /\ s \in Sessions
  BY DEF HoldInv, TypeOK, RotateCommit, ShapeOK, Placed
<1>2. lock[s] = p /\ sess[s].state = "live" /\ sess[s].secret = proc[p].secret /\ proc[p].secret < MaxSecret
  BY <1>1 DEF HoldInv, RotatorHoldsRow
<1>3. r \in Process /\ r.pc = "rotated" /\ r.sess = s /\ r.secret = proc[p].secret /\ proc[p].secret \in Secrets
  BY <1>1 DEF Process
<1>4. sess[s] \in SessionRow
  BY <1>1 DEF TypeOK
<1>5. x \in SessionRow /\ x.state = "live" /\ x.client = sess[s].client /\ x.secret = proc[p].secret + 1
  <2>1. sess[s].secret + 1 \in Secrets
    BY <1>2, <1>3, GrantAssumption DEF Secrets
  <2> QED BY <1>2, <1>4, <2>1 DEF SessionRow
<1>6. /\ sess' = [sess EXCEPT ![s] = x] /\ proc' = [proc EXCEPT ![p] = r]
      /\ lock' = [lock EXCEPT ![s] = None] /\ UNCHANGED <<code, opened, spent>>
  BY <1>1 DEF RotateCommit, TypeOK
<1> HIDE DEF r, x, s
<1>7. sess' \in [Sessions -> SessionRow] /\ sess'[s] = x /\ \A t \in Sessions \ {s} : sess'[t] = sess[t]
  BY <1>1, <1>5, <1>6 DEF TypeOK
<1>8. lock' \in [Codes \cup Sessions -> Procs \cup {None}]
      /\ \A y \in Codes \cup Sessions : y # s => lock'[y] = lock[y]
  BY <1>1, <1>6 DEF TypeOK
<1>9. proc'[p] = r /\ \A q \in Procs \ {p} : proc'[q] = proc[q]
  BY <1>1, <1>6 DEF TypeOK
<1>10. s \notin Codes /\ Placed(r)
  BY <1>1, <1>3, GrantAssumption DEF Placed
<1>11. \A q \in Procs \ {p} : Undisturbed(q)
  BY <1>2, <1>6, <1>7, <1>8, <1>10 DEF Undisturbed
<1>12. HoldInv'
  BY <1>1, <1>3, <1>6, <1>7, <1>8, <1>10, <1>11, OneMoves DEF TypeOK
<1>13. KeepsSessions
  <2>1. \A t \in Sessions : sess[t].secret \in Nat
    BY <1>1 DEF TypeOK, SessionRow, Secrets
  <2> QED BY <1>2, <1>5, <1>7, <2>1 DEF KeepsSessions
<1>14. CodesQuiet
  BY <1>3, <1>6, <1>9 DEF CodesQuiet, SameGrant
<1> QED BY <1>1, <1>2, <1>3, <1>5, <1>6, <1>7, <1>9, <1>12, <1>13, <1>14 DEF s

\* A token response is counted for the secret that was presented.
LEMMA RefreshRespondStep ==
    ASSUME HoldInv, NEW p \in Procs, RefreshRespond(p)
    PROVE  /\ HoldInv' /\ KeepsSessions /\ CodesQuiet /\ UNCHANGED sess
           /\ proc[p].pc = "rotated" /\ proc[p].sess \in Sessions /\ proc[p].secret \in Secrets
           /\ \/ UNCHANGED spent
              \/ /\ spent'[proc[p].sess][proc[p].secret] = spent[proc[p].sess][proc[p].secret] + 1
                 /\ \A s \in Sessions, n \in Secrets :
                       s # proc[p].sess \/ n # proc[p].secret => spent'[s][n] = spent[s][n]
           /\ proc'[p].pc = "idle" /\ \A q \in Procs \ {p} : proc'[q] = proc[q]
<1>1. TypeOK /\ proc[p] \in Process /\ proc[p].pc = "rotated" /\ proc[p].sess \in Sessions
  BY DEF HoldInv, TypeOK, RefreshRespond, ShapeOK, Placed
<1>2. proc[p].secret \in Secrets
  BY <1>1 DEF Process
<1>3. proc' = [proc EXCEPT ![p] = Idle] /\ UNCHANGED <<code, sess, lock, opened>>
  BY DEF RefreshRespond
<1>4. /\ spent' \in [Sessions -> [Secrets -> Nat]]
      /\ \/ UNCHANGED spent
         \/ /\ spent'[proc[p].sess][proc[p].secret] = spent[proc[p].sess][proc[p].secret] + 1
            /\ \A s \in Sessions, n \in Secrets :
                  s # proc[p].sess \/ n # proc[p].secret => spent'[s][n] = spent[s][n]
  <2>1. CASE UNCHANGED spent
    BY <1>1, <2>1 DEF TypeOK
  <2>2. CASE spent' = [spent EXCEPT ![proc[p].sess][proc[p].secret] = @ + 1]
    BY <1>1, <1>2, <2>2 DEF TypeOK
  <2> QED BY <2>1, <2>2 DEF RefreshRespond
<1>5. HoldInv'
  BY <1>3, <1>4, IdleTyped, HoldReads
<1>6. proc'[p].pc = "idle" /\ \A q \in Procs \ {p} : proc'[q] = proc[q]
  BY <1>1, <1>3, IdleTyped DEF TypeOK
<1>7. CodesQuiet
  BY <1>3, <1>6 DEF CodesQuiet, SameGrant
<1> QED BY <1>1, <1>2, <1>3, <1>4, <1>5, <1>6, <1>7, SessionsSame

\* A committed redemption marks the code used and leaves the rest of its row.
LEMMA RedeemCommitStep ==
    ASSUME HoldInv, NEW p \in Procs, RedeemCommit(p)
    PROVE  /\ HoldInv' /\ KeepsSessions /\ SecretsQuiet /\ UNCHANGED <<sess, opened>>
           /\ proc[p].req.code \in Codes
           /\ ~code[proc[p].req.code].used /\ code'[proc[p].req.code].used
           /\ \A k \in Codes : /\ code'[k].client = code[k].client /\ code'[k].uri = code[k].uri
                               /\ code'[k].challenge = code[k].challenge
           /\ \A k \in Codes \ {proc[p].req.code} : code'[k] = code[k]
           /\ proc'[p].pc = "check" /\ proc'[p].req = proc[p].req
           /\ \A q \in Procs \ {p} : proc'[q] = proc[q]
<1> DEFINE k == proc[p].req.code
           r == [proc[p] EXCEPT !.pc = "check"]
           x == [code[k] EXCEPT !.used = TRUE]
<1>1. TypeOK /\ ShapeOK /\ proc[p] \in Process /\ proc[p].pc = "redeem" /\ k \in Codes /\ proc[p].client \in Clients
  BY DEF HoldInv, TypeOK, RedeemCommit, ShapeOK, Placed
<1>2. lock[k] = p /\ ~code[k].used
  BY <1>1 DEF HoldInv, RedeemerHoldsRow
<1>3. r \in Process /\ r.pc = "check" /\ r.req = proc[p].req /\ r.client = proc[p].client
  BY <1>1 DEF Process
<1>4. code[k] \in CodeRow
  BY <1>1 DEF TypeOK
<1>5. x \in CodeRow /\ x.client = code[k].client /\ x.uri = code[k].uri /\ x.challenge = code[k].challenge
  BY <1>4 DEF CodeRow
<1>6. x.used
  BY <1>4 DEF CodeRow
<1>7. /\ code' = [code EXCEPT ![k] = x] /\ proc' = [proc EXCEPT ![p] = r]
      /\ lock' = [lock EXCEPT ![k] = None] /\ UNCHANGED <<sess, opened, spent>>
  BY <1>1 DEF RedeemCommit, TypeOK
<1> HIDE DEF r, x
<1>8. code' \in [Codes -> CodeRow] /\ code'[k] = x /\ \A j \in Codes \ {k} : code'[j] = code[j]
  BY <1>1, <1>5, <1>7 DEF TypeOK
<1>9. lock' \in [Codes \cup Sessions -> Procs \cup {None}]
      /\ \A y \in Codes \cup Sessions : y # k => lock'[y] = lock[y]
  BY <1>1, <1>7 DEF TypeOK
<1>10. proc'[p] = r /\ \A q \in Procs \ {p} : proc'[q] = proc[q]
  BY <1>1, <1>7 DEF TypeOK
<1>11. k \notin Sessions /\ Placed(r)
  BY <1>1, <1>3, GrantAssumption DEF Placed
<1>12. \A q \in Procs \ {p} : Undisturbed(q)
  <2> SUFFICES ASSUME NEW q \in Procs \ {p} PROVE Undisturbed(q)
    OBVIOUS
  <2>1. \A j \in Codes : lock[j] = q => j # k
    BY <1>2
  <2>2. \A j \in Codes : lock[j] = q => lock'[j] = q /\ code'[j] = code[j]
    BY <1>8, <1>9, <2>1
  <2>3. \A j \in Codes : lock[j] = q => lock'[j] = q /\ (~code[j].used => ~code'[j].used)
    BY <2>2, Zenon
  <2> QED BY <1>7, <1>9, <1>11, <2>3 DEF Undisturbed
<1>13. HoldInv'
  BY <1>1, <1>3, <1>7, <1>8, <1>9, <1>11, <1>12, OneMoves DEF TypeOK
<1>14. code'[k].used
  BY <1>6, <1>8, Zenon
<1>15. SecretsQuiet
  BY <1>3, <1>7, <1>10 DEF SecretsQuiet
<1>16. \A j \in Codes : code'[j].client = code[j].client /\ code'[j].uri = code[j].uri
                        /\ code'[j].challenge = code[j].challenge
  BY <1>5, <1>8
<1>17. KeepsSessions /\ UNCHANGED <<sess, opened>>
  BY <1>1, <1>7, SessionsSame
<1>18. proc'[p].pc = "check" /\ proc'[p].req = proc[p].req /\ \A q \in Procs \ {p} : proc'[q] = proc[q]
  BY <1>3, <1>10
<1> QED BY <1>1, <1>2, <1>8, <1>13, <1>14, <1>15, <1>16, <1>17, <1>18, Zenon

\* The comparison with the code's row lets the request through or ends it.
LEMMA CodeCheckStep ==
    ASSUME HoldInv, NEW p \in Procs, CodeCheck(p)
    PROVE  /\ HoldInv' /\ KeepsSessions /\ SecretsQuiet /\ UNCHANGED <<code, sess, opened>>
           /\ proc[p].pc = "check"
           /\ \/ proc'[p].pc = "idle"
              \/ /\ proc'[p].pc = "create" /\ proc'[p].req = proc[p].req
                 /\ proc'[p].client = proc[p].client /\ Redeems(proc[p].client, proc[p].req)
           /\ \A q \in Procs \ {p} : proc'[q] = proc[q]
<1> DEFINE c == [proc[p] EXCEPT !.pc = "create"]
           r == IF Redeems(proc[p].client, proc[p].req) THEN c ELSE Idle
<1>1. TypeOK /\ proc[p] \in Process /\ proc[p].pc = "check" /\ Placed(proc[p])
  BY DEF HoldInv, TypeOK, CodeCheck, ShapeOK
<1>2. c \in Process /\ c.pc = "create" /\ c.req = proc[p].req /\ c.client = proc[p].client
  BY <1>1 DEF Process
<1>3. proc' = [proc EXCEPT ![p] = r] /\ UNCHANGED <<code, sess, lock, opened, spent>>
  BY DEF CodeCheck
<1> HIDE DEF c
<1>4. Placed(c)
  BY <1>1, <1>2 DEF Placed
<1>5. r \in Process /\ Placed(r) /\ r.pc \in {"idle", "create"}
      /\ (r.pc = "create" => r = c /\ Redeems(proc[p].client, proc[p].req))
  BY <1>2, <1>4, IdleTyped
<1> HIDE DEF r
<1>6. HoldInv'
  BY <1>1, <1>3, <1>5, HoldReads DEF TypeOK
<1>7. proc'[p] = r /\ \A q \in Procs \ {p} : proc'[q] = proc[q]
  BY <1>1, <1>3 DEF TypeOK
<1>8. SecretsQuiet
  BY <1>3, <1>5, <1>7 DEF SecretsQuiet
<1> QED BY <1>1, <1>2, <1>3, <1>5, <1>6, <1>7, <1>8, SessionsSame

\* The session is new, belongs to the client and remembers the request.
LEMMA CodeCreateStep ==
    ASSUME HoldInv, NEW p \in Procs, NEW s \in Sessions, CodeCreate(p, s)
    PROVE  /\ HoldInv' /\ KeepsSessions /\ SecretsQuiet /\ UNCHANGED code
           /\ proc[p].pc = "create" /\ proc[p].req.code \in Codes
           /\ sess[s].state = "none" /\ sess'[s].state = "live" /\ sess'[s].client = proc[p].client
           /\ \A t \in Sessions \ {s} : sess'[t] = sess[t] /\ opened'[t] = opened[t]
           /\ opened'[s] = proc[p].req
           /\ proc'[p].pc = "idle" /\ \A q \in Procs \ {p} : proc'[q] = proc[q]
<1> DEFINE x == [state |-> "live", expired |-> FALSE, client |-> proc[p].client, secret |-> 1]
<1>1. TypeOK /\ proc[p] \in Process /\ proc[p].pc = "create"
      /\ proc[p].req.code \in Codes /\ proc[p].client \in Clients
  BY DEF HoldInv, TypeOK, CodeCreate, ShapeOK, Placed
<1>2. x \in SessionRow
  BY <1>1, GrantAssumption DEF SessionRow, Secrets
<1>3. x.state = "live" /\ x.client = proc[p].client /\ x.secret = 1
  OBVIOUS
<1>4. sess[s].state = "none" /\ sess[s].secret = 0
  BY DEF CodeCreate, IssueRefreshToken, Create, NoSession
<1>5. /\ sess' = [sess EXCEPT ![s] = x] /\ proc' = [proc EXCEPT ![p] = Idle]
      /\ opened' = [opened EXCEPT ![s] = proc[p].req] /\ UNCHANGED <<code, lock, spent>>
  BY DEF CodeCreate, IssueRefreshToken, Create
<1> HIDE DEF x
<1>6. sess' \in [Sessions -> SessionRow] /\ sess'[s] = x /\ \A t \in Sessions \ {s} : sess'[t] = sess[t]
  BY <1>1, <1>2, <1>5 DEF TypeOK
<1>7. /\ opened' \in [Sessions -> Request] /\ opened'[s] = proc[p].req
      /\ \A t \in Sessions \ {s} : opened'[t] = opened[t]
  BY <1>1, <1>5 DEF TypeOK, Process
<1>8. proc'[p].pc = "idle" /\ \A q \in Procs \ {p} : proc'[q] = proc[q]
  BY <1>1, <1>5, IdleTyped DEF TypeOK
<1>9. \A q \in Procs : Undisturbed(q)
  BY <1>4, <1>5, <1>6 DEF Undisturbed
<1>10. HoldInv'
  BY <1>1, <1>5, <1>6, <1>7, <1>9, IdleTyped, OneMoves DEF TypeOK
<1>11. KeepsSessions
  <2>1. \A t \in Sessions : sess[t].secret \in Nat
    BY <1>1 DEF TypeOK, SessionRow, Secrets
  <2> QED BY <1>3, <1>4, <1>6, <2>1 DEF KeepsSessions
<1>12. SecretsQuiet
  BY <1>5, <1>8 DEF SecretsQuiet
<1> QED BY <1>1, <1>3, <1>4, <1>5, <1>6, <1>7, <1>8, <1>10, <1>11, <1>12

\* The steps with no part in spending a code or in earning a response.
LEMMA MostStepsQuiet ==
    ASSUME HoldInv, Next,
           \A p \in Procs : /\ ~RedeemCommit(p) /\ ~CodeCheck(p) /\ \A s \in Sessions : ~CodeCreate(p, s)
                            /\ ~RotateCommit(p) /\ ~RefreshRespond(p)
    PROVE  QuietStep
<1>1. ASSUME NEW p \in Procs, NEW s \in Sessions, NEW n \in Secrets,
             \/ \E c \in Clients, uri \in URIs, challenge \in Challenges :
                   AuthorizeLookup(p, c, uri, challenge, s, n)
             \/ \E c \in Clients : RevokeLookup(p, c, s, n)
             \/ ClearLookup(p, s, n)
      PROVE  QuietStep
  BY <1>1, LookupQuiet
<1>2. ASSUME NEW p \in Procs, NEW c \in Clients,
             \/ \E req \in {r \in Request : r.code # None} : RedeemSelect(p, c, req)
             \/ \E s \in Sessions, n \in Secrets : RotateSelect(p, c, s, n)
      PROVE  QuietStep
  BY <1>2, SelectQuiet
<1>3. ASSUME NEW p \in Procs,
             \/ \E k \in Codes : AuthorizeInsert(p, k)
             \/ ReuseCommit(p) \/ RevokeUpdate(p) \/ Fail(p)
      PROVE  QuietStep
  BY <1>3, EndQuiet
<1> QED BY <1>1, <1>2, <1>3, ClockQuiet DEF Next

LEMMA HoldNext == HoldInv /\ [Next]_vars => HoldInv'
<1> SUFFICES ASSUME HoldInv, [Next]_vars PROVE HoldInv'
  OBVIOUS
<1>1. CASE UNCHANGED vars
  BY <1>1, HoldQuiet, NothingMoves DEF vars, HoldInv, TypeOK
<1>2. CASE Next
  BY <1>2, MostStepsQuiet, RedeemCommitStep, CodeCheckStep, CodeCreateStep, RotateCommitStep,
     RefreshRespondStep DEF QuietStep
<1> QED BY <1>1, <1>2

\* Every reachable state has the types of the tables and of the handlers' local
\* variables: no secret outgrows its session's, no row is of another kind.
THEOREM GrantTypes == Spec => []TypeOK
<1>1. HoldInv => TypeOK
  BY DEF HoldInv
<1> QED BY <1>1, HoldInit, HoldNext, PTL DEF Spec

\* Revocation is final: a rotation under way when the session is revoked holds
\* the row, so the revocation comes after it; one that comes later is refused.
THEOREM RevocationStands == Spec => RevocationIsFinal
<1> DEFINE A == \A s \in Sessions : sess[s].state = "revoked" =>
                    sess'[s].state = "revoked" /\ sess'[s].secret = sess[s].secret
<1>1. HoldInv /\ [Next]_vars => [A]_vars
  <2> SUFFICES ASSUME HoldInv, Next PROVE A
    BY DEF vars
  <2> SUFFICES ASSUME NEW s \in Sessions, sess[s].state = "revoked"
               PROVE  sess'[s].state = "revoked" /\ sess'[s].secret = sess[s].secret
    OBVIOUS
  <2>1. TypeOK /\ sess[s] \in SessionRow
    BY DEF HoldInv, TypeOK
  <2>2. ASSUME NEW p \in Procs, RotateCommit(p) PROVE sess'[s] = sess[s]
    BY <2>2, RotateCommitStep
  <2>3. ASSUME NEW t \in Sessions, Issue(t) PROVE sess'[s] = sess[s]
    BY <2>1, <2>3 DEF Issue, Create, NoSession, TypeOK
  <2>4. ASSUME NEW t \in Sessions, SessionExpires(t) PROVE sess'[s] = sess[s]
    BY <2>1, <2>4 DEF SessionExpires, Live, TypeOK
  <2>5. ASSUME NEW p \in Procs, NEW t \in Sessions, CodeCreate(p, t) PROVE sess'[s] = sess[s]
    BY <2>5, CodeCreateStep
  <2>6. ASSUME NEW t, sess' = [sess EXCEPT ![t].state = "revoked"]
        PROVE  sess'[s].state = "revoked" /\ sess'[s].secret = sess[s].secret
    BY <2>1, <2>6 DEF TypeOK, SessionRow
  <2>7. ASSUME NEW p \in Procs, ReuseCommit(p) \/ RevokeUpdate(p)
        PROVE  sess'[s].state = "revoked" /\ sess'[s].secret = sess[s].secret
    BY <2>6, <2>7 DEF ReuseCommit, RevokeUpdate, Revoke
  <2>8. CASE UNCHANGED sess
    BY <2>8
  <2>9. ASSUME NEW p \in Procs,
               \/ \E k \in Codes : AuthorizeInsert(p, k)
               \/ RedeemCommit(p) \/ CodeCheck(p) \/ RefreshRespond(p) \/ Fail(p)
        PROVE  UNCHANGED sess
    BY <2>9 DEF AuthorizeInsert, RedeemCommit, CodeCheck, RefreshRespond, Fail
  <2>10. ASSUME NEW p \in Procs, NEW c \in Clients, NEW t \in Sessions, NEW n \in Secrets,
               \/ \E uri \in URIs, challenge \in Challenges : AuthorizeLookup(p, c, uri, challenge, t, n)
               \/ RotateSelect(p, c, t, n) \/ RevokeLookup(p, c, t, n)
        PROVE  UNCHANGED sess
    BY <2>10 DEF AuthorizeLookup, RotateSelect, RevokeLookup
  <2>11. ASSUME NEW p \in Procs,
               \/ \E c \in Clients, req \in {r \in Request : r.code # None} : RedeemSelect(p, c, req)
               \/ \E t \in Sessions, n \in Secrets : ClearLookup(p, t, n)
        PROVE  UNCHANGED sess
    BY <2>11 DEF RedeemSelect, ClearLookup
  <2>12. ASSUME (\E k \in Codes : CodeExpires(k)) \/ DeleteExpired
        PROVE  UNCHANGED sess
    BY <2>12 DEF CodeExpires, DeleteExpired
  <2> QED BY <2>2, <2>3, <2>4, <2>5, <2>7, <2>8, <2>9, <2>10, <2>11, <2>12 DEF Next
<1> QED BY <1>1, HoldInit, HoldNext, PTL DEF Spec, RevocationIsFinal

-----------------------------------------------------------------------------
(* A refresh secret earns one response.                                    *)

Earns(p, s, n) == proc[p].pc = "rotated" /\ proc[p].sess = s /\ proc[p].secret = n

\* A secret the session still has, or has yet to get, has earned nothing; who
\* rotated one away is alone, and has not been answered yet.
OneEarner ==
    \A s \in Sessions, n \in Secrets :
        /\ sess[s].secret <= n => spent[s][n] = 0 /\ \A p \in Procs : ~Earns(p, s, n)
        /\ \A p \in Procs : Earns(p, s, n) => spent[s][n] = 0
        /\ \A p, q \in Procs : Earns(p, s, n) /\ Earns(q, s, n) => p = q

EarnInv == HoldInv /\ OneEarner /\ SecretEarnsOnce

LEMMA EarnQuiet ==
    ASSUME EarnInv, HoldInv', KeepsSessions, SecretsQuiet
    PROVE  EarnInv'
<1>1. \A s \in Sessions : sess[s].secret \in Nat /\ sess'[s].secret \in Nat
  BY DEF EarnInv, HoldInv, TypeOK, SessionRow, Secrets
<1>2. \A s \in Sessions, n \in Secrets : n \in Nat /\ (sess'[s].secret <= n => sess[s].secret <= n)
  BY <1>1, GrantAssumption DEF KeepsSessions, Secrets
<1>3. \A q \in Procs, s \in Sessions, n \in Secrets : Earns(q, s, n)' => Earns(q, s, n)
  BY DEF SecretsQuiet, Earns
<1>4. OneEarner'
  BY <1>2, <1>3 DEF EarnInv, OneEarner, SecretsQuiet
<1>5. SecretEarnsOnce'
  BY DEF EarnInv, SecretEarnsOnce, SecretsQuiet
<1> QED BY <1>4, <1>5 DEF EarnInv

LEMMA EarnNext == EarnInv /\ [Next]_vars => EarnInv'
<1> SUFFICES ASSUME EarnInv, [Next]_vars PROVE EarnInv'
  OBVIOUS
<1>1. HoldInv /\ HoldInv' /\ TypeOK
  BY HoldNext DEF EarnInv, HoldInv
<1>2. \A s \in Sessions : sess[s].secret \in Nat
  BY <1>1 DEF TypeOK, SessionRow, Secrets
<1>3. \A n \in Secrets : n \in Nat
  BY GrantAssumption DEF Secrets
<1>4. CASE UNCHANGED vars
  <2>1. KeepsSessions
    BY <1>1, <1>4, SessionsSame DEF vars
  <2>2. SecretsQuiet
    BY <1>4 DEF vars, SecretsQuiet
  <2> QED BY <1>1, <2>1, <2>2, EarnQuiet
<1>5. ASSUME NEW p \in Procs, RotateCommit(p) PROVE EarnInv'
  <2> DEFINE t == proc[p].sess
             m == proc[p].secret
  <2>1. /\ t \in Sessions /\ m \in Secrets /\ sess[t].secret = m /\ sess'[t].secret = m + 1
        /\ UNCHANGED spent /\ \A s \in Sessions \ {t} : sess'[s] = sess[s]
    BY <1>1, <1>5, RotateCommitStep
  <2>2. \A q \in Procs, s \in Sessions, n \in Secrets :
           Earns(q, s, n)' => Earns(q, s, n) \/ (q = p /\ s = t /\ n = m)
    BY <1>1, <1>5, RotateCommitStep DEF Earns
  <2>3. spent[t][m] = 0 /\ \A q \in Procs : ~Earns(q, t, m)
    BY <1>2, <2>1 DEF EarnInv, OneEarner
  <2> HIDE DEF t, m
  <2>4. \A s \in Sessions, n \in Secrets : sess'[s].secret <= n => sess[s].secret <= n /\ ~(s = t /\ n = m)
    BY <1>2, <1>3, <2>1
  <2>5. OneEarner'
    BY <2>1, <2>2, <2>3, <2>4 DEF EarnInv, OneEarner
  <2> QED BY <1>1, <2>1, <2>5 DEF EarnInv, SecretEarnsOnce
<1>6. ASSUME NEW p \in Procs, RefreshRespond(p) PROVE EarnInv'
  <2> DEFINE t == proc[p].sess
             m == proc[p].secret
  <2>1. /\ t \in Sessions /\ m \in Secrets /\ UNCHANGED sess /\ Earns(p, t, m)
        /\ \/ UNCHANGED spent
           \/ /\ spent'[t][m] = spent[t][m] + 1
              /\ \A s \in Sessions, n \in Secrets : s # t \/ n # m => spent'[s][n] = spent[s][n]
    BY <1>1, <1>6, RefreshRespondStep DEF Earns
  <2>2. \A q \in Procs, s \in Sessions, n \in Secrets : Earns(q, s, n)' => Earns(q, s, n) /\ q # p
    BY <1>1, <1>6, RefreshRespondStep DEF Earns
  <2>3. spent[t][m] = 0 /\ ~(sess[t].secret <= m) /\ \A q \in Procs : Earns(q, t, m) => q = p
    BY <2>1 DEF EarnInv, OneEarner
  <2> HIDE DEF t, m
  <2>4. \A s \in Sessions, n \in Secrets : spent'[s][n] = spent[s][n] \/ (s = t /\ n = m /\ spent'[s][n] = 1)
    BY <2>1, <2>3
  <2>5. OneEarner'
    BY <2>1, <2>2, <2>3, <2>4 DEF EarnInv, OneEarner
  <2>6. SecretEarnsOnce'
    BY <2>4 DEF EarnInv, SecretEarnsOnce
  <2> QED BY <1>1, <2>5, <2>6 DEF EarnInv
<1>7. ASSUME NEW p \in Procs, RedeemCommit(p) \/ CodeCheck(p) \/ \E s \in Sessions : CodeCreate(p, s)
      PROVE  EarnInv'
  BY <1>1, <1>7, RedeemCommitStep, CodeCheckStep, CodeCreateStep, EarnQuiet
<1>8. ASSUME Next,
             \A p \in Procs : /\ ~RedeemCommit(p) /\ ~CodeCheck(p) /\ \A s \in Sessions : ~CodeCreate(p, s)
                              /\ ~RotateCommit(p) /\ ~RefreshRespond(p)
      PROVE  EarnInv'
  BY <1>1, <1>8, MostStepsQuiet, EarnQuiet DEF QuietStep
<1> QED BY <1>4, <1>5, <1>6, <1>7, <1>8

LEMMA EarnInit == Init => EarnInv
<1> SUFFICES ASSUME Init PROVE EarnInv
  OBVIOUS
<1>1. \A p \in Procs : proc[p].pc = "idle"
  BY IdleTyped DEF Init
<1>2. \A s \in Sessions, n \in Secrets : spent[s][n] = 0
  BY DEF Init
<1> QED BY <1>1, <1>2, HoldInit DEF EarnInv, OneEarner, SecretEarnsOnce, Earns

\* A refresh token earns at most one token response, however many requests
\* present it at once and on whichever replicas.
THEOREM SecretsEarnOnce == Spec => []SecretEarnsOnce
<1>1. EarnInv => SecretEarnsOnce
  BY DEF EarnInv
<1> QED BY <1>1, EarnInit, EarnNext, PTL DEF Spec

-----------------------------------------------------------------------------
(* A code opens one session.                                               *)

Free(k) == ~code[k].used

\* Redeems, of a row.
Matches(row, c, req) ==
    /\ row.client = c
    /\ row.uri = req.uri
    /\ IF row.challenge = None THEN req.verifier = None ELSE row.challenge = S256(req.verifier)

Spends(p, k) == proc[p].pc \in {"check", "create"} /\ proc[p].req.code = k

\* A code that is not used has opened nothing and nobody is past its redemption;
\* who redeemed one is alone, and has opened nothing with it yet.
OneSpender ==
    \A k \in Codes :
        /\ Free(k) => \A p \in Procs : ~Spends(p, k)
        /\ Free(k) => \A s \in Sessions : opened[s].code # k
        /\ \A p \in Procs, s \in Sessions : Spends(p, k) => opened[s].code # k
        /\ \A p, q \in Procs : Spends(p, k) /\ Spends(q, k) => p = q

\* A code minted for a public client carries a challenge.
BoundOK == \A k \in Codes : code[k].client \in Public => code[k].challenge # None

\* Who goes on to create the session has presented what the code asks for.
CheckedOK ==
    \A p \in Procs : proc[p].pc = "create" =>
        Matches(code[proc[p].req.code], proc[p].client, proc[p].req)

\* Only a session that exists was opened.
UnopenedOK == \A s \in Sessions : sess[s].state = "none" => opened[s].code = None

\* A session belongs to the client its code was minted for.
OpenedOK ==
    \A s \in Sessions : opened[s].code # None =>
        Matches(code[opened[s].code], sess[s].client, opened[s])

OneEach ==
    \A s, t \in Sessions : s # t /\ opened[s].code = opened[t].code => opened[s].code = None

SpendInv == HoldInv /\ OneSpender /\ BoundOK /\ CheckedOK /\ UnopenedOK /\ OpenedOK /\ OneEach

LEMMA OpenedCode ==
    ASSUME HoldInv
    PROVE  /\ \A s \in Sessions : opened[s].code \in Codes \cup {None}
           /\ \A p \in Procs : proc[p].pc \in {"check", "create"} => proc[p].req.code \in Codes
           /\ None \notin Codes
BY GrantAssumption DEF HoldInv, TypeOK, Request, ShapeOK, Placed

LEMMA SpendOpens == SpendInv => CodeOpensOneSession
<1> SUFFICES ASSUME SpendInv PROVE CodeOpensOneSession
  OBVIOUS
<1>1. ASSUME NEW s \in Sessions, opened[s].code # None
      PROVE  /\ Redeems(sess[s].client, opened[s])
             /\ sess[s].client \in Public => code[opened[s].code].challenge # None
  <2>1. opened[s].code \in Codes /\ Redeems(sess[s].client, opened[s])
    BY <1>1, OpenedCode DEF SpendInv, OpenedOK, Matches, Redeems
  <2>2. code[opened[s].code].client = sess[s].client
    BY <2>1 DEF Redeems
  <2> QED BY <2>1, <2>2 DEF SpendInv, BoundOK
<1> QED BY <1>1 DEF SpendInv, OneEach, CodeOpensOneSession

\* What was presented still matches a code whose row says the same.
LEMMA MatchKept ==
    ASSUME NEW row, NEW new, NEW c, NEW req, Matches(row, c, req),
           new.client = row.client, new.uri = row.uri, new.challenge = row.challenge
    PROVE  Matches(new, c, req)
BY DEF Matches

\* Every step but RedeemCommit, CodeCheck and CodeCreate.
LEMMA SpendQuiet ==
    ASSUME SpendInv, HoldInv', KeepsSessions, CodesQuiet
    PROVE  SpendInv'
<1>1. /\ \A s \in Sessions : opened[s].code \in Codes \cup {None} /\ opened'[s] = opened[s]
      /\ \A p \in Procs : proc[p].pc \in {"check", "create"} => proc[p].req.code \in Codes
      /\ None \notin Codes
  BY OpenedCode DEF SpendInv, CodesQuiet
<1>2. \A q \in Procs : proc'[q].pc \in {"check", "create"} => proc'[q] = proc[q]
  BY DEF CodesQuiet
<1>3. \A k \in Codes : SameGrant(k) \/ (Free(k) /\ Minted(k))
  <2> SUFFICES ASSUME NEW k \in Codes, Minted(k) PROVE Free(k)
    BY DEF CodesQuiet
  <2>1. code[k].used = FALSE
    BY DEF Minted, NoCode
  <2> QED BY <2>1, Zenon DEF Free
<1>4. \A k \in Codes : Free(k)' => Free(k)
  <2> SUFFICES ASSUME NEW k \in Codes, Free(k)' PROVE Free(k)
    OBVIOUS
  <2>1. CASE SameGrant(k)
    BY <2>1, Zenon DEF Free, SameGrant
  <2> QED BY <1>3, <2>1
<1>5. \A q \in Procs, k \in Codes : Spends(q, k)' => Spends(q, k) /\ ~Free(k)
  BY <1>2 DEF Spends, SpendInv, OneSpender
<1>6. OneSpender'
  BY <1>1, <1>4, <1>5 DEF SpendInv, OneSpender
<1>7. BoundOK'
  BY <1>3 DEF SpendInv, BoundOK, SameGrant, Minted
<1>8. CheckedOK'
  <2> SUFFICES ASSUME NEW q \in Procs, proc'[q].pc = "create"
               PROVE  Matches(code'[proc'[q].req.code], proc'[q].client, proc'[q].req)
    BY DEF CheckedOK
  <2> DEFINE k == proc[q].req.code
  <2>1. proc'[q] = proc[q] /\ k \in Codes /\ Spends(q, k)
    BY <1>1, <1>2 DEF Spends
  <2>2. ~Free(k) /\ SameGrant(k)
    BY <1>3, <2>1 DEF SpendInv, OneSpender
  <2>3. Matches(code[k], proc[q].client, proc[q].req)
    BY <2>1 DEF SpendInv, CheckedOK
  <2> QED BY <2>1, <2>2, <2>3, MatchKept DEF SameGrant
<1>9. UnopenedOK'
  BY <1>1 DEF SpendInv, UnopenedOK, KeepsSessions
<1>10. OpenedOK'
  <2> SUFFICES ASSUME NEW s \in Sessions, opened'[s].code # None
               PROVE  Matches(code'[opened'[s].code], sess'[s].client, opened'[s])
    BY DEF OpenedOK
  <2> DEFINE k == opened[s].code
  <2>1. opened'[s] = opened[s] /\ k \in Codes /\ sess[s].state # "none"
    BY <1>1 DEF SpendInv, UnopenedOK
  <2>2. ~Free(k) /\ SameGrant(k) /\ sess'[s].client = sess[s].client
    BY <1>3, <2>1 DEF SpendInv, OneSpender, KeepsSessions
  <2>3. Matches(code[k], sess[s].client, opened[s])
    BY <1>1, <2>1 DEF SpendInv, OpenedOK
  <2> QED BY <2>1, <2>2, <2>3, MatchKept DEF SameGrant
<1>11. OneEach'
  BY <1>1 DEF SpendInv, OneEach
<1> QED BY <1>6, <1>7, <1>8, <1>9, <1>10, <1>11 DEF SpendInv

\* The code is spent: its one redeemer takes it from being free to being used.
LEMMA SpendRedeem ==
    ASSUME SpendInv, NEW p \in Procs, RedeemCommit(p)
    PROVE  SpendInv'
<1>1. HoldInv /\ HoldInv' /\ proc[p].req.code \in Codes
  BY RedeemCommitStep DEF SpendInv
<1>k. PICK k \in Codes : k = proc[p].req.code
  BY <1>1
<1>2. /\ UNCHANGED <<sess, opened>>
      /\ \A j \in Codes \ {k} : code'[j] = code[j]
      /\ proc'[p].pc = "check" /\ proc'[p].req = proc[p].req
      /\ \A q \in Procs \ {p} : proc'[q] = proc[q]
  BY <1>1, <1>k, RedeemCommitStep
<1>3. Free(k) /\ ~Free(k)'
  <2>1. ~code[k].used /\ code'[k].used
    BY <1>1, <1>k, RedeemCommitStep, Zenon
  <2> QED BY <2>1, Zenon DEF Free
<1>4. \A j \in Codes : code'[j].client = code[j].client /\ code'[j].uri = code[j].uri
                       /\ code'[j].challenge = code[j].challenge
  BY <1>1, RedeemCommitStep
<1>5. \A j \in Codes : Free(j)' => Free(j) /\ j # k
  <2> SUFFICES ASSUME NEW j \in Codes, Free(j)' PROVE Free(j) /\ j # k
    OBVIOUS
  <2>1. j # k
    BY <1>3
  <2>2. code'[j] = code[j]
    BY <1>2, <2>1
  <2> QED BY <2>1, <2>2, Zenon DEF Free
<1>6. \A q \in Procs, j \in Codes : Spends(q, j)' => Spends(q, j) \/ (q = p /\ j = k)
  BY <1>k, <1>2 DEF Spends
<1>7. /\ \A s \in Sessions : opened[s].code \in Codes \cup {None}
      /\ \A q \in Procs : proc[q].pc \in {"check", "create"} => proc[q].req.code \in Codes
      /\ None \notin Codes
  BY OpenedCode DEF SpendInv
<1>8. OneSpender'
  BY <1>2, <1>3, <1>5, <1>6 DEF SpendInv, OneSpender
<1>9. BoundOK'
  BY <1>4 DEF SpendInv, BoundOK
<1>10. CheckedOK'
  <2> SUFFICES ASSUME NEW q \in Procs, proc'[q].pc = "create"
               PROVE  Matches(code'[proc'[q].req.code], proc'[q].client, proc'[q].req)
    BY DEF CheckedOK
  <2>1. proc'[q] = proc[q] /\ proc[q].req.code \in Codes
    BY <1>2, <1>7
  <2>2. Matches(code[proc[q].req.code], proc[q].client, proc[q].req)
    BY <2>1 DEF SpendInv, CheckedOK
  <2> QED BY <1>4, <2>1, <2>2, MatchKept
<1>11. OpenedOK'
  <2> SUFFICES ASSUME NEW s \in Sessions, opened[s].code # None
               PROVE  Matches(code'[opened[s].code], sess[s].client, opened[s])
    BY <1>2 DEF OpenedOK
  <2>1. opened[s].code \in Codes /\ Matches(code[opened[s].code], sess[s].client, opened[s])
    BY <1>7 DEF SpendInv, OpenedOK
  <2> QED BY <1>4, <2>1, MatchKept
<1>12. UnopenedOK' /\ OneEach'
  BY <1>2 DEF SpendInv, UnopenedOK, OneEach
<1> QED BY <1>1, <1>8, <1>9, <1>10, <1>11, <1>12 DEF SpendInv

\* The spender is compared with the row, and goes on only if it matches.
LEMMA SpendCheck ==
    ASSUME SpendInv, NEW p \in Procs, CodeCheck(p)
    PROVE  SpendInv'
<1>1. HoldInv /\ HoldInv' /\ UNCHANGED <<code, sess, opened>> /\ proc[p].pc = "check"
  BY CodeCheckStep DEF SpendInv
<1>2. /\ \/ proc'[p].pc = "idle"
         \/ /\ proc'[p].pc = "create" /\ proc'[p].req = proc[p].req
            /\ proc'[p].client = proc[p].client /\ Matches(code[proc[p].req.code], proc[p].client, proc[p].req)
      /\ \A q \in Procs \ {p} : proc'[q] = proc[q]
  BY <1>1, CodeCheckStep DEF Redeems, Matches
<1>3. \A q \in Procs, j \in Codes : Spends(q, j)' => Spends(q, j)
  BY <1>1, <1>2 DEF Spends
<1>4. \A j \in Codes : Free(j)' => Free(j)
  BY <1>1, Zenon DEF Free
<1>5. OneSpender'
  BY <1>1, <1>3, <1>4 DEF SpendInv, OneSpender
<1>6. CheckedOK'
  BY <1>1, <1>2 DEF SpendInv, CheckedOK
<1>7. BoundOK' /\ UnopenedOK' /\ OneEach' /\ OpenedOK'
  BY <1>1 DEF SpendInv, BoundOK, UnopenedOK, OneEach, OpenedOK
<1> QED BY <1>1, <1>5, <1>6, <1>7 DEF SpendInv

\* The one spender of a code opens the one session.
LEMMA SpendCreate ==
    ASSUME SpendInv, NEW p \in Procs, NEW s \in Sessions, CodeCreate(p, s)
    PROVE  SpendInv'
<1>1. /\ HoldInv /\ HoldInv' /\ UNCHANGED code
      /\ proc[p].pc = "create" /\ proc[p].req.code \in Codes
      /\ sess[s].state = "none" /\ sess'[s].state = "live" /\ sess'[s].client = proc[p].client
      /\ \A t \in Sessions \ {s} : sess'[t] = sess[t] /\ opened'[t] = opened[t]
      /\ opened'[s] = proc[p].req
      /\ proc'[p].pc = "idle" /\ \A q \in Procs \ {p} : proc'[q] = proc[q]
  BY CodeCreateStep DEF SpendInv
<1>2. PICK k \in Codes : k = proc[p].req.code
  BY <1>1
<1>3. Spends(p, k) /\ Matches(code[k], proc[p].client, proc[p].req)
  BY <1>1, <1>2 DEF Spends, SpendInv, CheckedOK
<1>4. ~Free(k) /\ (\A t \in Sessions : opened[t].code # k) /\ \A q \in Procs : Spends(q, k) => q = p
  BY <1>3 DEF SpendInv, OneSpender
<1>5. \A q \in Procs, j \in Codes : Spends(q, j)' => Spends(q, j) /\ j # k
  BY <1>1, <1>4 DEF Spends
<1>6. \A j \in Codes : Free(j)' => Free(j) /\ j # k
  <2>1. \A j \in Codes : Free(j)' => Free(j)
    BY <1>1, Zenon DEF Free
  <2> QED BY <1>4, <2>1
<1>7. \A t \in Sessions : opened'[t].code = opened[t].code \/ (t = s /\ opened'[t].code = k)
  BY <1>1, <1>2
<1>8. OneSpender'
  BY <1>5, <1>6, <1>7 DEF SpendInv, OneSpender
<1>9. BoundOK'
  BY <1>1 DEF SpendInv, BoundOK
<1>10. CheckedOK'
  BY <1>1 DEF SpendInv, CheckedOK
<1>11. UnopenedOK'
  BY <1>1 DEF SpendInv, UnopenedOK
<1>12. OpenedOK'
  BY <1>1, <1>2, <1>3 DEF SpendInv, OpenedOK
<1>13. OneEach'
  BY <1>1, <1>2, <1>4 DEF SpendInv, OneEach
<1> QED BY <1>1, <1>8, <1>9, <1>10, <1>11, <1>12, <1>13 DEF SpendInv

LEMMA SpendNext == SpendInv /\ [Next]_vars => SpendInv'
<1> SUFFICES ASSUME SpendInv, [Next]_vars PROVE SpendInv'
  OBVIOUS
<1>1. HoldInv /\ HoldInv' /\ TypeOK
  BY HoldNext DEF SpendInv, HoldInv
<1>2. CASE UNCHANGED vars
  <2>1. KeepsSessions /\ CodesQuiet
    BY <1>1, <1>2, SessionsSame DEF vars, CodesQuiet, SameGrant
  <2> QED BY <1>1, <2>1, SpendQuiet
<1>3. ASSUME NEW p \in Procs, RedeemCommit(p) \/ CodeCheck(p) \/ \E s \in Sessions : CodeCreate(p, s)
      PROVE  SpendInv'
  BY <1>3, SpendRedeem, SpendCheck, SpendCreate
<1>4. ASSUME NEW p \in Procs, RotateCommit(p) \/ RefreshRespond(p)
      PROVE  SpendInv'
  BY <1>1, <1>4, RotateCommitStep, RefreshRespondStep, SpendQuiet
<1>5. ASSUME Next,
             \A p \in Procs : /\ ~RedeemCommit(p) /\ ~CodeCheck(p) /\ \A s \in Sessions : ~CodeCreate(p, s)
                              /\ ~RotateCommit(p) /\ ~RefreshRespond(p)
      PROVE  SpendInv'
  BY <1>1, <1>5, MostStepsQuiet, SpendQuiet DEF QuietStep
<1> QED BY <1>2, <1>3, <1>4, <1>5

LEMMA SpendInit == Init => SpendInv
<1> SUFFICES ASSUME Init PROVE SpendInv
  OBVIOUS
<1>1. \A p \in Procs : proc[p].pc = "idle"
  BY IdleTyped DEF Init
<1>2. \A s \in Sessions : opened[s].code = None
  BY IdleTyped DEF Init
<1>3. \A k \in Codes : code[k].client = None
  BY DEF Init, NoCode
<1>4. None \notin Codes /\ None \notin Public
  BY GrantAssumption
<1>5. OneSpender /\ CheckedOK
  BY <1>1, <1>2, <1>4 DEF OneSpender, CheckedOK, Spends
<1> QED BY <1>2, <1>3, <1>4, <1>5, HoldInit DEF SpendInv, BoundOK, UnopenedOK, OpenedOK, OneEach

\* A code is exchanged at most once, by the client, with the redirect_uri and
\* the verifier it was minted for, and a public client's only with a verifier.
THEOREM CodeSpentOnce == Spec => []CodeOpensOneSession
BY SpendInit, SpendNext, SpendOpens, PTL DEF Spec
=============================================================================

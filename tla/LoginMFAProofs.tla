-------------------------- MODULE LoginMFAProofs --------------------------
(***************************************************************************)
(* Proofs about module LoginMFA, for every number of users, challenges and *)
(* handlers, and every limit on the guesses at a code.                     *)
(***************************************************************************)
EXTENDS LoginMFA, TLAPS

\* A handler knows its user or its challenge from where it is, a row that was
\* created names a user.
ShapeOK ==
    /\ \A p \in Procs : proc[p].pc \in {"policy", "preference", "create", "issue", "delete", "set"} =>
          proc[p].user \in Users
    /\ \A p \in Procs : proc[p].pc \in {"mail", "verify", "wrong", "right", "verified", "delete"} =>
          proc[p].chal \in Challenges
    /\ \A p \in Procs : proc[p].pc \in {"verify", "delete"} => chal[proc[p].chal].state # "none"
    /\ \A c \in Challenges : chal[c] = NoRow \/ (chal[c].state # "none" /\ chal[c].user \in Users)

\* Who compares a code holds the lock of its row, which is neither deleted nor
\* consumed and has an attempt left.
ComparerHoldsRow ==
    \A p \in Procs : proc[p].pc \in {"wrong", "right"} =>
        /\ lock[proc[p].chal] = p
        /\ chal[proc[p].chal].state \in {"live", "expired"}
        /\ ~chal[proc[p].chal].consumed
        /\ chal[proc[p].chal].attempts < maxMFAAttempts

\* The columns of a row count the guesses; the right one was within the limit.
GuessesCounted ==
    \A c \in Challenges :
        /\ ~chal[c].consumed => answered[c] = chal[c].attempts
        /\ chal[c].consumed => answered[c] = chal[c].attempts + 1 /\ chal[c].attempts < maxMFAAttempts

\* Process p has had its code accepted and has not opened the session yet.
Accepted(p, c) == proc[p].pc = "verified" /\ proc[p].chal = c

\* A code that nobody has consumed has opened nothing; who consumed it is alone
\* and has not opened a session yet.
OneAccepted ==
    \A c \in Challenges :
        /\ ~chal[c].consumed => opened[c] = 0 /\ \A p \in Procs : ~Accepted(p, c)
        /\ \A p \in Procs : Accepted(p, c) => opened[c] = 0
        /\ \A p, q \in Procs : Accepted(p, c) /\ Accepted(q, c) => p = q

CodeInv ==
    TypeOK /\ ShapeOK /\ ComparerHoldsRow /\ GuessesCounted /\ OneAccepted /\ CodeOpensOneSession

LEMMA CodeInit == Init => CodeInv
BY MFAAssumption DEF Init, CodeInv, TypeOK, ShapeOK, ComparerHoldsRow, GuessesCounted, OneAccepted, Accepted,
    CodeOpensOneSession, Row, NoRow, Process, Idle, Sources

-----------------------------------------------------------------------------
(* Statements that leave the challenges alone.                             *)

\* A step of p after which it is neither comparing codes nor past a right one.
LEMMA CodeQuiet ==
    ASSUME CodeInv, UNCHANGED <<chal, lock, answered, opened>>,
           enabled' \subseteq Users, requires' \subseteq Users, settings' \subseteq Users,
           cookies' \subseteq Challenges, sess' \subseteq Users,
           NEW p \in Procs, NEW r \in Process, proc' = [proc EXCEPT ![p] = r],
           r.pc \in {"policy", "preference", "create", "issue", "delete", "set"} => r.user \in Users,
           r.pc \in {"mail", "verify", "delete"} => r.chal \in Challenges,
           r.pc \in {"verify", "delete"} => chal[r.chal].state # "none",
           r.pc \notin {"wrong", "right", "verified"}
    PROVE  CodeInv'
<1> USE DEF CodeInv
<1>1. TypeOK'
  BY DEF TypeOK
<1>2. proc'[p] = r /\ \A q \in Procs \ {p} : proc'[q] = proc[q]
  BY DEF TypeOK
<1>3. ShapeOK'
  BY <1>2 DEF ShapeOK
<1>4. ComparerHoldsRow'
  BY <1>2 DEF ComparerHoldsRow
<1>5. GuessesCounted' /\ CodeOpensOneSession'
  BY DEF GuessesCounted, CodeOpensOneSession
<1>6. OneAccepted'
  BY <1>2 DEF OneAccepted, Accepted
<1> QED BY <1>1, <1>3, <1>4, <1>5, <1>6

LEMMA LoginKeeps ==
    ASSUME CodeInv, NEW p \in Procs,
           \/ \E u \in Users : LoginSubmit(p, u)
           \/ RequiredByDeclaration(p) \/ RequiredByPreference(p) \/ LoginIssue(p) \/ ChallengeMail(p)
    PROVE  CodeInv'
<1> USE DEF CodeInv
<1>1. ASSUME NEW u \in Users, LoginSubmit(p, u) PROVE CodeInv'
  <2> DEFINE h == {x \in Sources : \/ x = "declaration" /\ u \in requires
                                   \/ x = "preference" /\ u \in settings}
             r == [Idle EXCEPT !.pc = "policy", !.user = u, !.held = h]
  <2>1. h \in SUBSET Sources
    OBVIOUS
  <2>2. proc' = [proc EXCEPT ![p] = r]
    BY <1>1 DEF LoginSubmit
  <2> HIDE DEF h
  <2>3. r \in Process /\ r.pc = "policy" /\ r.user = u
    BY <2>1 DEF Process, Idle
  <2> HIDE DEF r
  <2> QED BY <1>1, <2>2, <2>3, CodeQuiet DEF LoginSubmit, TypeOK
<1>2. CASE RequiredByDeclaration(p) \/ RequiredByPreference(p)
  <2> DEFINE pc == IF RequiredByDeclaration(p)
                   THEN IF proc[p].user \in requires THEN "create" ELSE "preference"
                   ELSE IF proc[p].user \in settings THEN "create" ELSE "issue"
             r == [proc[p] EXCEPT !.pc = pc]
  <2>1. proc' = [proc EXCEPT ![p] = r]
    BY <1>2 DEF RequiredByDeclaration, RequiredByPreference, Goto, TypeOK
  <2>2. r \in Process /\ r.pc \in {"create", "preference", "issue"} /\ r.user \in Users
    BY <1>2 DEF RequiredByDeclaration, RequiredByPreference, TypeOK, ShapeOK, Process
  <2> HIDE DEF r
  <2> QED BY <1>2, <2>1, <2>2, CodeQuiet DEF RequiredByDeclaration, RequiredByPreference, TypeOK
<1>3. Idle \in Process /\ Idle.pc = "idle"
  BY DEF Process, Idle
<1>4. CASE LoginIssue(p)
  BY <1>3, <1>4, CodeQuiet DEF LoginIssue, Issue, Finish, TypeOK, ShapeOK
<1>5. CASE ChallengeMail(p)
  BY <1>3, <1>5, CodeQuiet DEF ChallengeMail, Finish, TypeOK, ShapeOK
<1> QED BY <1>1, <1>2, <1>4, <1>5

\* A request on an idle handler: one that answers a challenge, asks for another
\* or changes the user's own switch.
LEMMA BeginKeeps ==
    ASSUME CodeInv, NEW p \in Procs,
           \/ \E c \in Challenges, right \in BOOLEAN : VerifyBegin(p, c, right)
           \/ \E c \in Challenges : ResendPeek(p, c)
           \/ \E u \in Users, on \in BOOLEAN : HandleSettings(p, u, on)
    PROVE  CodeInv'
<1> USE DEF CodeInv
<1>1. ASSUME NEW c \in Challenges, NEW right \in BOOLEAN, VerifyBegin(p, c, right) PROVE CodeInv'
  <2> DEFINE r == [Idle EXCEPT !.pc = "verify", !.chal = c, !.flag = right]
  <2>1. proc' = [proc EXCEPT ![p] = r]
    BY <1>1 DEF VerifyBegin
  <2>2. r \in Process /\ r.pc = "verify" /\ r.chal = c
    BY DEF Process, Idle
  <2>3. chal[c].state # "none"
    BY <1>1 DEF VerifyBegin, InTime
  <2> HIDE DEF r
  <2> QED BY <1>1, <2>1, <2>2, <2>3, CodeQuiet DEF VerifyBegin, TypeOK
<1>2. ASSUME NEW c \in Challenges, ResendPeek(p, c) PROVE CodeInv'
  <2> DEFINE u == chal[c].user
             r == [Idle EXCEPT !.pc = "delete", !.user = u, !.chal = c]
  <2>1. proc' = [proc EXCEPT ![p] = r]
    BY <1>2 DEF ResendPeek
  <2>2. u \in Users /\ chal[c].state # "none"
    <3>1. chal[c].state = "live"
      BY <1>2 DEF ResendPeek, Peek, InTime
    <3> QED BY <3>1 DEF ShapeOK, NoRow
  <2> HIDE DEF u
  <2>3. r \in Process /\ r.pc = "delete" /\ r.user \in Users /\ r.chal = c
    BY <2>2 DEF Process, Idle
  <2> HIDE DEF r
  <2> QED BY <1>2, <2>1, <2>2, <2>3, CodeQuiet DEF ResendPeek, TypeOK
<1>3. ASSUME NEW u \in Users, NEW on \in BOOLEAN, HandleSettings(p, u, on) PROVE CodeInv'
  <2> DEFINE r == [Idle EXCEPT !.pc = "set", !.user = u, !.flag = on]
  <2>1. proc' = [proc EXCEPT ![p] = r]
    BY <1>3 DEF HandleSettings
  <2>2. r \in Process /\ r.pc = "set" /\ r.user = u
    BY DEF Process, Idle
  <2> HIDE DEF r
  <2> QED BY <1>3, <2>1, <2>2, CodeQuiet DEF HandleSettings, TypeOK
<1> QED BY <1>1, <1>2, <1>3

-----------------------------------------------------------------------------
(* Steps in which handlers end, and steps of the surroundings.             *)

\* Every handler stays where it is or ends; a lock that is let go was that of
\* a handler that ends.
LEMMA CodeSame ==
    ASSUME CodeInv, UNCHANGED <<chal, cookies, answered, opened>>,
           enabled' \subseteq Users, requires' \subseteq Users, settings' \subseteq Users, sess' \subseteq Users,
           lock' \in [Challenges -> Procs \cup {None}], proc' \in [Procs -> Process],
           \A q \in Procs :
              \/ proc'[q].pc = "idle"
              \/ /\ proc'[q].pc = proc[q].pc /\ proc'[q].user = proc[q].user /\ proc'[q].chal = proc[q].chal
                 /\ \A c \in Challenges : lock[c] = q => lock'[c] = q
    PROVE  CodeInv'
<1> USE DEF CodeInv
<1>1. TypeOK'
  BY DEF TypeOK
<1>2. ShapeOK'
  BY DEF ShapeOK
<1>3. ComparerHoldsRow'
  BY DEF ComparerHoldsRow, ShapeOK
<1>4. GuessesCounted' /\ CodeOpensOneSession'
  BY DEF GuessesCounted, CodeOpensOneSession
<1>5. OneAccepted'
  BY DEF OneAccepted, Accepted
<1> QED BY <1>1, <1>2, <1>3, <1>4, <1>5

\* What StillHeld does to a handler.
LEMMA StillHeldShape ==
    ASSUME TypeOK, NEW req \in SUBSET Users, NEW set \in SUBSET Users
    PROVE  /\ StillHeld(req, set) \in [Procs -> Process]
           /\ \A q \in Procs :
                 /\ StillHeld(req, set)[q].pc = proc[q].pc
                 /\ StillHeld(req, set)[q].user = proc[q].user
                 /\ StillHeld(req, set)[q].chal = proc[q].chal
                 /\ \A x \in StillHeld(req, set)[q].held :
                       /\ x \in proc[q].held
                       /\ x = "declaration" => proc[q].user \in req
                       /\ x = "preference" => proc[q].user \in set
<1> DEFINE H(q) == {x \in proc[q].held : \/ x = "declaration" /\ proc[q].user \in req
                                         \/ x = "preference" /\ proc[q].user \in set}
<1>1. StillHeld(req, set) = [q \in Procs |-> [proc[q] EXCEPT !.held = H(q)]]
  BY DEF StillHeld
<1>2. \A q \in Procs : proc[q] \in Process /\ H(q) \in SUBSET Sources
  BY DEF TypeOK, Process
<1> HIDE DEF H
<1>3. \A q \in Procs : /\ [proc[q] EXCEPT !.held = H(q)] \in Process
                       /\ [proc[q] EXCEPT !.held = H(q)].pc = proc[q].pc
                       /\ [proc[q] EXCEPT !.held = H(q)].user = proc[q].user
                       /\ [proc[q] EXCEPT !.held = H(q)].chal = proc[q].chal
                       /\ [proc[q] EXCEPT !.held = H(q)].held = H(q)
  BY <1>2 DEF Process
<1>4. /\ StillHeld(req, set) \in [Procs -> Process]
      /\ \A q \in Procs : /\ StillHeld(req, set)[q].pc = proc[q].pc
                          /\ StillHeld(req, set)[q].user = proc[q].user
                          /\ StillHeld(req, set)[q].chal = proc[q].chal
                          /\ StillHeld(req, set)[q].held = H(q)
  BY <1>1, <1>3
<1>5. \A q \in Procs : \A x \in H(q) : /\ x \in proc[q].held
                                       /\ x = "declaration" => proc[q].user \in req
                                       /\ x = "preference" => proc[q].user \in set
  BY DEF H
<1> QED BY <1>4, <1>5

LEMMA SurroundingsKeep ==
    ASSUME CodeInv,
           \/ \E u \in Users : OtherLogin(u) \/ SessionEnds(u)
           \/ Reload
           \/ \E p \in Procs : SetEnabled(p) \/ Fail(p)
           \/ UNCHANGED vars
    PROVE  CodeInv'
<1> USE DEF CodeInv
<1>1. CASE \E u \in Users : OtherLogin(u) \/ SessionEnds(u)
  BY <1>1, CodeSame DEF OtherLogin, SessionEnds, Issue, TypeOK
<1>2. CASE Reload
  <2>1. /\ enabled' \in SUBSET Users /\ requires' \in SUBSET Users /\ settings \in SUBSET Users
        /\ proc' = StillHeld(requires', settings)
        /\ UNCHANGED <<settings, chal, lock, cookies, sess, answered, opened>>
    BY <1>2 DEF Reload, TypeOK
  <2>2. /\ proc' \in [Procs -> Process]
        /\ \A q \in Procs : /\ proc'[q].pc = proc[q].pc /\ proc'[q].user = proc[q].user
                            /\ proc'[q].chal = proc[q].chal
    BY <2>1, StillHeldShape
  <2> QED BY <2>1, <2>2, CodeSame DEF TypeOK
<1>3. Idle \in Process /\ Idle.pc = "idle"
  BY DEF Process, Idle
<1>4. ASSUME NEW p \in Procs, SetEnabled(p) PROVE CodeInv'
  <2> DEFINE new == IF proc[p].flag THEN settings \cup {proc[p].user} ELSE settings \ {proc[p].user}
  <2>1. new \in SUBSET Users
    BY <1>4 DEF SetEnabled, ShapeOK, TypeOK
  <2>2. /\ settings' = new /\ proc' = [StillHeld(requires, new) EXCEPT ![p] = Idle]
        /\ UNCHANGED <<enabled, requires, chal, lock, cookies, sess, answered, opened>>
    BY <1>4 DEF SetEnabled
  <2> HIDE DEF new
  <2>3. /\ proc' \in [Procs -> Process] /\ proc'[p].pc = "idle"
        /\ \A q \in Procs \ {p} : proc'[q] = StillHeld(requires, new)[q]
    BY <1>3, <2>1, <2>2, StillHeldShape DEF TypeOK
  <2>4. \A q \in Procs \ {p} : /\ proc'[q].pc = proc[q].pc /\ proc'[q].user = proc[q].user
                               /\ proc'[q].chal = proc[q].chal
    <3>1. TypeOK /\ requires \in SUBSET Users
      BY DEF TypeOK
    <3>2. \A q \in Procs : /\ StillHeld(requires, new)[q].pc = proc[q].pc
                           /\ StillHeld(requires, new)[q].user = proc[q].user
                           /\ StillHeld(requires, new)[q].chal = proc[q].chal
      BY <2>1, <3>1, StillHeldShape
    <3> QED BY <2>3, <3>2
  <2> QED BY <2>1, <2>2, <2>3, <2>4, CodeSame DEF TypeOK
<1>5. ASSUME NEW p \in Procs, Fail(p) PROVE CodeInv'
  <2>1. /\ proc' \in [Procs -> Process] /\ proc'[p].pc = "idle"
        /\ \A q \in Procs \ {p} : proc'[q] = proc[q]
        /\ UNCHANGED <<enabled, requires, settings, chal, cookies, sess, answered, opened>>
    BY <1>3, <1>5 DEF Fail, Finish, TypeOK
  <2>2. /\ lock' \in [Challenges -> Procs \cup {None}]
        /\ \A c \in Challenges : lock[c] # p => lock'[c] = lock[c]
    BY <1>5 DEF Fail, TypeOK
  <2> QED BY <2>1, <2>2, CodeSame DEF TypeOK
<1>6. CASE UNCHANGED vars
  BY <1>6, CodeSame DEF vars, TypeOK
<1> QED BY <1>1, <1>2, <1>4, <1>5, <1>6

-----------------------------------------------------------------------------
(* Rows are created, expire and are deleted.                               *)

\* Rows that nobody holds may go; p is not at work on one afterwards.
LEMMA CodeRows ==
    ASSUME CodeInv, UNCHANGED <<enabled, requires, settings, lock, cookies, sess, answered, opened>>,
           chal' \in [Challenges -> Row],
           \A c \in Challenges :
              /\ chal'[c].consumed = chal[c].consumed /\ chal'[c].attempts = chal[c].attempts
              /\ chal'[c] = NoRow \/ (chal'[c].state # "none" /\ chal'[c].user \in Users)
              /\ chal[c].state # "none" => chal'[c].state # "none"
              /\ lock[c] # None /\ chal[c].state \in {"live", "expired"} => chal'[c].state \in {"live", "expired"},
           proc' \in [Procs -> Process],
           \A q \in Procs :
              \/ proc'[q] = proc[q]
              \/ proc'[q].pc = "mail" /\ proc'[q].chal \in Challenges
              \/ proc'[q].pc = "create" /\ proc'[q].user \in Users
    PROVE  CodeInv'
<1> USE DEF CodeInv
<1>1. TypeOK'
  BY DEF TypeOK
<1>2. ShapeOK'
  BY DEF ShapeOK
<1>3. ComparerHoldsRow'
  BY MFAAssumption DEF ComparerHoldsRow, ShapeOK
<1>4. GuessesCounted' /\ CodeOpensOneSession'
  BY DEF GuessesCounted, CodeOpensOneSession
<1>5. OneAccepted'
  BY DEF OneAccepted, Accepted
<1> QED BY <1>1, <1>2, <1>3, <1>4, <1>5

LEMMA RowsKeep ==
    ASSUME CodeInv,
           \/ \E c \in Challenges : Expire(c)
           \/ \E p \in Procs, c \in Challenges : ChallengeCreate(p, c)
           \/ \E p \in Procs : ResendDelete(p)
    PROVE  CodeInv'
<1> USE DEF CodeInv
<1>1. ASSUME NEW c \in Challenges, Expire(c) PROVE CodeInv'
  <2>1. chal[c] \in Row /\ chal[c].state = "live" /\ chal' = [chal EXCEPT ![c].state = "expired"]
    BY <1>1 DEF Expire, InTime, TypeOK
  <2>2. /\ chal' \in [Challenges -> Row] /\ chal'[c].state = "expired"
        /\ chal'[c].consumed = chal[c].consumed /\ chal'[c].attempts = chal[c].attempts
        /\ chal'[c].user = chal[c].user
        /\ \A d \in Challenges \ {c} : chal'[d] = chal[d]
    BY <2>1 DEF TypeOK, Row
  <2>3. chal[c].user \in Users
    BY <2>1 DEF ShapeOK, NoRow
  <2> QED BY <1>1, <2>1, <2>2, <2>3, CodeRows DEF Expire, TypeOK, ShapeOK
<1>2. ASSUME NEW p \in Procs, NEW c \in Challenges, ChallengeCreate(p, c) PROVE CodeInv'
  <2> DEFINE u == proc[p].user
             old == {d \in Challenges : chal[d].state = "expired"}
             new == [NoRow EXCEPT !.state = "live", !.user = u]
             r == [proc[p] EXCEPT !.pc = "mail", !.chal = c]
  <2>1. u \in Users /\ chal[c] = NoRow /\ \A d \in old : lock[d] = None
    BY <1>2 DEF ChallengeCreate, Create, ShapeOK
  <2>2. /\ new \in Row /\ new.state = "live" /\ new.user = u
        /\ new.consumed = NoRow.consumed /\ new.attempts = NoRow.attempts
    <3>1. NoRow \in Row
      BY MFAAssumption DEF NoRow, Row
    <3> QED BY <2>1, <3>1 DEF Row
  <2>3. chal' = [d \in Challenges |-> IF d = c THEN new
                                      ELSE IF d \in old THEN [chal[d] EXCEPT !.state = "deleted"] ELSE chal[d]]
    BY <1>2 DEF ChallengeCreate, Create
  <2>4. \A d \in Challenges :
           LET x == [chal[d] EXCEPT !.state = "deleted"] IN
           /\ x \in Row /\ x.state = "deleted" /\ x.user = chal[d].user
           /\ x.consumed = chal[d].consumed /\ x.attempts = chal[d].attempts
    BY DEF TypeOK, Row
  <2>5. r \in Process /\ r.pc = "mail" /\ r.chal = c
    BY DEF TypeOK, Process
  <2>6. proc' = [proc EXCEPT ![p] = r]
    BY <1>2 DEF ChallengeCreate, TypeOK
  <2>7. NoRow.consumed = FALSE /\ NoRow.attempts = 0 /\ NoRow.state = "none"
    BY DEF NoRow
  <2> HIDE DEF new, r
  <2>8. chal' \in [Challenges -> Row]
    BY <2>2, <2>3, <2>4 DEF TypeOK
  <2>9. \A d \in Challenges :
           /\ chal'[d].consumed = chal[d].consumed /\ chal'[d].attempts = chal[d].attempts
           /\ chal'[d] = NoRow \/ (chal'[d].state # "none" /\ chal'[d].user \in Users)
           /\ chal[d].state # "none" => chal'[d].state # "none"
           /\ lock[d] # None /\ chal[d].state \in {"live", "expired"} => chal'[d].state \in {"live", "expired"}
    BY <2>1, <2>2, <2>3, <2>4, <2>7 DEF ShapeOK
  <2>10. /\ proc' \in [Procs -> Process]
         /\ \A q \in Procs : proc'[q] = proc[q] \/ (proc'[q].pc = "mail" /\ proc'[q].chal \in Challenges)
    BY <2>5, <2>6 DEF TypeOK
  <2> QED BY <1>2, <2>8, <2>9, <2>10, CodeRows DEF ChallengeCreate
<1>3. ASSUME NEW p \in Procs, ResendDelete(p) PROVE CodeInv'
  <2> DEFINE c == proc[p].chal
             r == [proc[p] EXCEPT !.pc = "create"]
             x == [chal[c] EXCEPT !.state = "deleted"]
  <2>1. c \in Challenges /\ proc[p].user \in Users /\ chal[c].user \in Users
    BY <1>3 DEF ResendDelete, ShapeOK, NoRow
  <2>2. r \in Process /\ r.pc = "create" /\ r.user \in Users
    BY <2>1 DEF TypeOK, Process
  <2>3. proc' = [proc EXCEPT ![p] = r]
    BY <1>3 DEF ResendDelete, Goto, TypeOK
  <2>4. /\ x \in Row /\ x.state = "deleted" /\ x.user = chal[c].user
        /\ x.consumed = chal[c].consumed /\ x.attempts = chal[c].attempts
    BY <2>1 DEF TypeOK, Row
  <2>5. UNCHANGED chal \/ (lock[c] = None /\ chal' = [chal EXCEPT ![c] = x])
    BY <1>3 DEF ResendDelete, TypeOK
  <2> HIDE DEF r, x
  <2>6. /\ proc' \in [Procs -> Process]
        /\ \A q \in Procs : proc'[q] = proc[q] \/ (proc'[q].pc = "create" /\ proc'[q].user \in Users)
    BY <2>2, <2>3 DEF TypeOK
  <2> QED BY <1>3, <2>1, <2>4, <2>5, <2>6, CodeRows DEF ResendDelete, TypeOK, ShapeOK
<1> QED BY <1>1, <1>2, <1>3

-----------------------------------------------------------------------------
(* Verify, under the row lock, and the session it earns.                   *)

LEMMA SelectKeeps == ASSUME CodeInv, NEW p \in Procs, VerifySelect(p) PROVE CodeInv'
<1> USE DEF CodeInv
<1> DEFINE c == proc[p].chal
           r == [proc[p] EXCEPT !.pc = IF proc[p].flag THEN "right" ELSE "wrong"]
<1>1. c \in Challenges /\ lock[c] = None /\ chal[c].state # "none"
  BY DEF VerifySelect, ShapeOK
<1>2. chal[c].state # "deleted" /\ ~chal[c].consumed /\ chal[c].attempts < maxMFAAttempts
  BY DEF VerifySelect
<1>3. r \in Process /\ r.pc \in {"right", "wrong"} /\ r.chal = c
  BY DEF TypeOK, Process
<1>4. /\ proc' = [proc EXCEPT ![p] = r] /\ lock' = [lock EXCEPT ![c] = p]
      /\ UNCHANGED <<enabled, requires, settings, chal, cookies, sess, answered, opened>>
  BY DEF VerifySelect, Goto, TypeOK
<1> HIDE DEF r, c
<1>5. /\ proc'[p] = r /\ \A q \in Procs \ {p} : proc'[q] = proc[q]
      /\ lock'[c] = p /\ \A d \in Challenges \ {c} : lock'[d] = lock[d]
  BY <1>1, <1>4 DEF TypeOK
<1>6. TypeOK'
  BY <1>1, <1>3, <1>4 DEF TypeOK
<1>7. ShapeOK'
  BY <1>1, <1>3, <1>4, <1>5 DEF ShapeOK
<1>8. chal[c].state \in {"live", "expired"}
  BY <1>1, <1>2 DEF TypeOK, Row
<1>9. ComparerHoldsRow'
  BY <1>1, <1>2, <1>3, <1>4, <1>5, <1>8, MFAAssumption DEF ComparerHoldsRow, ShapeOK
<1>10. OneAccepted'
  BY <1>3, <1>4, <1>5 DEF OneAccepted, Accepted
<1> QED BY <1>4, <1>6, <1>7, <1>9, <1>10 DEF GuessesCounted, CodeOpensOneSession

\* Another handler that compares the code of c would hold the lock p holds.
LEMMA OneComparer ==
    ASSUME CodeInv, NEW p \in Procs, NEW q \in Procs, proc[p].pc \in {"wrong", "right"},
           proc[q].pc \in {"wrong", "right"}, proc[p].chal = proc[q].chal
    PROVE  p = q
BY DEF CodeInv, ComparerHoldsRow

LEMMA WrongKeeps == ASSUME CodeInv, NEW p \in Procs, VerifyWrong(p) PROVE CodeInv'
<1> USE DEF CodeInv
<1> DEFINE c == proc[p].chal
           x == [chal[c] EXCEPT !.attempts = chal[c].attempts + 1]
<1>1. proc[p].pc = "wrong" /\ c \in Challenges
  BY DEF VerifyWrong, ShapeOK
<1>2. /\ lock[c] = p /\ chal[c].state \in {"live", "expired"} /\ ~chal[c].consumed
      /\ chal[c].attempts \in Nat /\ chal[c].attempts < maxMFAAttempts
  BY <1>1 DEF ComparerHoldsRow, TypeOK, Row
<1>3. /\ x \in Row /\ x.state = chal[c].state /\ x.consumed = chal[c].consumed /\ x.user = chal[c].user
      /\ x.attempts = chal[c].attempts + 1
  BY <1>1, <1>2, MFAAssumption DEF TypeOK, Row
<1>4. /\ chal' = [chal EXCEPT ![c] = x] /\ lock' = [lock EXCEPT ![c] = None]
      /\ answered' = [answered EXCEPT ![c] = answered[c] + 1] /\ proc' = [proc EXCEPT ![p] = Idle]
      /\ UNCHANGED <<enabled, requires, settings, cookies, sess, opened>>
  BY <1>1 DEF VerifyWrong, Finish, TypeOK
<1>5. Idle \in Process /\ Idle.pc = "idle"
  BY DEF Process, Idle
<1>6. \A q \in Procs \ {p} : proc[q].pc \in {"wrong", "right"} => proc[q].chal # c
  BY <1>1, OneComparer
<1> HIDE DEF x, c
<1>7. /\ proc'[p] = Idle /\ \A q \in Procs \ {p} : proc'[q] = proc[q]
      /\ chal'[c] = x /\ answered'[c] = answered[c] + 1
      /\ \A d \in Challenges \ {c} : chal'[d] = chal[d] /\ lock'[d] = lock[d] /\ answered'[d] = answered[d]
  BY <1>1, <1>4 DEF TypeOK
<1>8. TypeOK'
  BY <1>1, <1>3, <1>4, <1>5 DEF TypeOK
<1>9. ShapeOK'
  <2>1. chal[c].user \in Users
    BY <1>1, <1>2 DEF ShapeOK, NoRow
  <2> QED BY <1>1, <1>2, <1>3, <1>5, <1>7, <2>1 DEF ShapeOK
<1>10. ComparerHoldsRow'
  BY <1>1, <1>5, <1>6, <1>7 DEF ComparerHoldsRow, ShapeOK
<1>11. GuessesCounted'
  <2>1. ~chal'[c].consumed
    BY <1>2, <1>3, <1>7, Zenon
  <2>2. answered'[c] = chal'[c].attempts
    BY <1>1, <1>2, <1>3, <1>7 DEF GuessesCounted
  <2> QED BY <1>7, <2>1, <2>2 DEF GuessesCounted
<1>12. OneAccepted'
  BY <1>1, <1>3, <1>4, <1>5, <1>7 DEF OneAccepted, Accepted
<1> QED BY <1>4, <1>8, <1>9, <1>10, <1>11, <1>12 DEF CodeOpensOneSession

LEMMA RightKeeps == ASSUME CodeInv, NEW p \in Procs, VerifyRight(p) PROVE CodeInv'
<1> USE DEF CodeInv
<1> DEFINE c == proc[p].chal
           x == [chal[c] EXCEPT !.consumed = TRUE]
           r == [proc[p] EXCEPT !.pc = "verified"]
<1>1. proc[p].pc = "right" /\ c \in Challenges
  BY DEF VerifyRight, ShapeOK
<1>2. /\ lock[c] = p /\ chal[c].state \in {"live", "expired"} /\ ~chal[c].consumed
      /\ chal[c].attempts \in Nat /\ chal[c].attempts < maxMFAAttempts
  BY <1>1 DEF ComparerHoldsRow, TypeOK, Row
<1>3. /\ x \in Row /\ x.state = chal[c].state /\ x.consumed /\ x.user = chal[c].user
      /\ x.attempts = chal[c].attempts
  <2>1. chal[c] \in Row
    BY <1>1 DEF TypeOK
  <2>2. x.consumed
    BY <2>1, Zenon DEF Row
  <2>3. /\ x \in Row /\ x.state = chal[c].state /\ x.user = chal[c].user
        /\ x.attempts = chal[c].attempts
    BY <2>1 DEF Row
  <2> QED BY <2>2, <2>3
<1>4. r \in Process /\ r.pc = "verified" /\ r.chal = c
  BY DEF TypeOK, Process
<1>5. /\ chal' = [chal EXCEPT ![c] = x] /\ lock' = [lock EXCEPT ![c] = None]
      /\ answered' = [answered EXCEPT ![c] = answered[c] + 1] /\ proc' = [proc EXCEPT ![p] = r]
      /\ UNCHANGED <<enabled, requires, settings, cookies, sess, opened>>
  BY <1>1 DEF VerifyRight, Goto, TypeOK
<1>6. \A q \in Procs \ {p} : proc[q].pc \in {"wrong", "right"} => proc[q].chal # c
  BY <1>1, OneComparer
<1> HIDE DEF x, c, r
<1>7. /\ proc'[p] = r /\ \A q \in Procs \ {p} : proc'[q] = proc[q]
      /\ chal'[c] = x /\ answered'[c] = answered[c] + 1
      /\ \A d \in Challenges \ {c} : chal'[d] = chal[d] /\ lock'[d] = lock[d] /\ answered'[d] = answered[d]
  BY <1>1, <1>5 DEF TypeOK
<1>8. TypeOK'
  BY <1>1, <1>3, <1>4, <1>5 DEF TypeOK
<1>9. ShapeOK'
  <2>1. chal[c].user \in Users
    BY <1>1, <1>2 DEF ShapeOK, NoRow
  <2> QED BY <1>1, <1>2, <1>3, <1>4, <1>7, <2>1 DEF ShapeOK
<1>10. ComparerHoldsRow'
  BY <1>1, <1>4, <1>6, <1>7 DEF ComparerHoldsRow, ShapeOK
<1>11. GuessesCounted'
  <2>1. chal'[c].consumed
    BY <1>3, <1>7, Zenon
  <2>2. answered'[c] = chal'[c].attempts + 1 /\ chal'[c].attempts < maxMFAAttempts
    BY <1>1, <1>2, <1>3, <1>7 DEF GuessesCounted
  <2> QED BY <1>7, <2>1, <2>2 DEF GuessesCounted
<1>12. OneAccepted'
  BY <1>1, <1>2, <1>3, <1>4, <1>5, <1>7 DEF OneAccepted, Accepted
<1> QED BY <1>5, <1>8, <1>9, <1>10, <1>11, <1>12 DEF CodeOpensOneSession

LEMMA IssueKeeps == ASSUME CodeInv, NEW p \in Procs, VerifyIssue(p) PROVE CodeInv'
<1> USE DEF CodeInv
<1> DEFINE c == proc[p].chal
<1>1. c \in Challenges /\ Accepted(p, c)
  BY DEF VerifyIssue, ShapeOK, Accepted
<1>2. chal[c].consumed /\ opened[c] = 0 /\ \A q \in Procs \ {p} : ~Accepted(q, c)
  BY <1>1 DEF OneAccepted
<1>3. chal[c].user \in Users
  BY <1>1, <1>2 DEF ShapeOK, NoRow
<1>4. /\ sess' = sess \cup {chal[c].user} /\ opened' = [opened EXCEPT ![c] = opened[c] + 1]
      /\ proc' = [proc EXCEPT ![p] = Idle]
      /\ UNCHANGED <<enabled, requires, settings, chal, lock, cookies, answered>>
  BY DEF VerifyIssue, Issue, Finish
<1>5. Idle \in Process /\ Idle.pc = "idle"
  BY DEF Process, Idle
<1> HIDE DEF c
<1>6. /\ proc'[p] = Idle /\ \A q \in Procs \ {p} : proc'[q] = proc[q]
      /\ opened'[c] = 1 /\ \A d \in Challenges \ {c} : opened'[d] = opened[d]
  BY <1>1, <1>2, <1>4 DEF TypeOK
<1>7. TypeOK'
  BY <1>1, <1>3, <1>4, <1>5 DEF TypeOK
<1>8. ShapeOK' /\ ComparerHoldsRow'
  BY <1>4, <1>5, <1>6 DEF ShapeOK, ComparerHoldsRow
<1>9. OneAccepted'
  BY <1>1, <1>2, <1>4, <1>5, <1>6 DEF OneAccepted, Accepted
<1>10. CodeOpensOneSession'
  BY <1>1, <1>6 DEF CodeOpensOneSession
<1> QED BY <1>4, <1>7, <1>8, <1>9, <1>10 DEF GuessesCounted

LEMMA CodeNext == CodeInv /\ [Next]_vars => CodeInv'
BY LoginKeeps, BeginKeeps, SurroundingsKeep, RowsKeep, SelectKeeps, WrongKeeps, RightKeeps, IssueKeeps
DEF Next

\* The tables and the handlers of the two login steps keep their types.
THEOREM MFATypes == Spec => []TypeOK
BY CodeInit, CodeNext, PTL DEF Spec, CodeInv

\* An emailed code is open to maxMFAAttempts guesses, however many requests
\* answer it at once and on how many replicas: attempts are counted under the
\* row lock that the comparison was made under.
THEOREM GuessesBounded == Spec => []CodeGuessBudget
<1>1. CodeInv => CodeGuessBudget
  <2> SUFFICES ASSUME CodeInv, NEW c \in Challenges PROVE answered[c] <= maxMFAAttempts
    BY DEF CodeGuessBudget
  <2>1. chal[c].attempts \in 0..maxMFAAttempts /\ maxMFAAttempts \in Nat
    BY MFAAssumption DEF CodeInv, TypeOK, Row
  <2>2. CASE chal[c].consumed
    BY <2>1, <2>2 DEF CodeInv, GuessesCounted
  <2>3. CASE ~chal[c].consumed
    BY <2>1, <2>3 DEF CodeInv, GuessesCounted
  <2> QED BY <2>2, <2>3
<1> QED BY <1>1, CodeInit, CodeNext, PTL DEF Spec

\* A mailed code opens at most one web session: consumed_at is set under the
\* row lock, so one handler at most gets past Verify with it.
THEOREM OneSessionPerCode == Spec => []CodeOpensOneSession
BY CodeInit, CodeNext, PTL DEF Spec, CodeInv

\* Only the two ends of Verify count a guess, and their row was neither deleted
\* nor consumed.
LEMMA DeadCodeUnanswered ==
    ASSUME CodeInv, [Next]_vars, NEW c \in Challenges, chal[c].state = "deleted" \/ chal[c].consumed
    PROVE  answered'[c] = answered[c]
<1>1. ASSUME NEW p \in Procs, VerifyWrong(p) \/ VerifyRight(p) PROVE answered'[c] = answered[c]
  <2>1. proc[p].pc \in {"wrong", "right"} /\ proc[p].chal # c
    BY <1>1 DEF CodeInv, ComparerHoldsRow, VerifyWrong, VerifyRight
  <2> QED BY <1>1, <2>1 DEF CodeInv, TypeOK, VerifyWrong, VerifyRight
<1>2. CASE UNCHANGED answered
  BY <1>2
<1> QED
  BY <1>1, <1>2
  DEF Next, vars, Expire, OtherLogin, SessionEnds, Reload, LoginSubmit, RequiredByDeclaration,
      RequiredByPreference, LoginIssue, ChallengeCreate, ChallengeMail, VerifyBegin, VerifySelect, VerifyIssue,
      ResendPeek, ResendDelete, HandleSettings, SetEnabled, Fail

\* A code that a resend has deleted, or that has been accepted, answers nobody
\* any more, not even a request that had begun before.
THEOREM SupersededIsDead == Spec => SupersededCodeIsDead
<1>1. CodeInv /\ [Next]_vars =>
        [\A c \in Challenges : chal[c].state = "deleted" \/ chal[c].consumed => answered'[c] = answered[c]]_vars
  BY DeadCodeUnanswered
<1> QED BY <1>1, CodeInit, CodeNext, PTL DEF Spec, SupersededCodeIsDead

-----------------------------------------------------------------------------
(* A password is not enough.                                               *)

\* What a login remembers as required is required now.
HeldIsCurrent ==
    \A p \in Procs : /\ "declaration" \in proc[p].held => proc[p].user \in requires
                     /\ "preference" \in proc[p].held => proc[p].user \in settings

\* Past the look at the snapshot, the declaration has not required a code all
\* the time; past the look at the user's row, nothing has.
PolicyRead == \A p \in Procs : proc[p].pc = "preference" => "declaration" \notin proc[p].held

HeldInv == CodeInv /\ HeldIsCurrent /\ PolicyRead /\ PasswordAloneNotEnough

\* Handlers that remember less, or nothing, and do not get on with the policy.
LEMMA HeldFewer ==
    ASSUME HeldInv, CodeInv',
           \A q \in Procs :
              \/ proc'[q] = proc[q] /\ UNCHANGED <<requires, settings>>
              \/ proc'[q].held = {}
              \/ /\ proc'[q].pc = proc[q].pc \/ proc'[q].pc \notin {"preference", "issue"}
                 /\ \A x \in proc'[q].held :
                       /\ x \in proc[q].held
                       /\ x = "declaration" => proc'[q].user \in requires'
                       /\ x = "preference" => proc'[q].user \in settings'
    PROVE  HeldInv'
<1>1. HeldIsCurrent'
  BY DEF HeldInv, HeldIsCurrent
<1>2. PolicyRead'
  BY DEF HeldInv, PolicyRead
<1>3. PasswordAloneNotEnough'
  BY DEF HeldInv, PasswordAloneNotEnough
<1> QED BY <1>1, <1>2, <1>3 DEF HeldInv

LEMMA HeldNext == HeldInv /\ [Next]_vars => HeldInv'
<1> SUFFICES ASSUME HeldInv, [Next]_vars PROVE HeldInv'
  OBVIOUS
<1>1. CodeInv /\ CodeInv' /\ TypeOK
  BY CodeNext DEF HeldInv, CodeInv
<1>2. Idle.held = {}
  BY DEF Idle
<1>3. ASSUME NEW p \in Procs, NEW u \in Users, LoginSubmit(p, u) PROVE HeldInv'
  <2>1. /\ proc'[p].pc = "policy" /\ proc'[p].user = u
        /\ "declaration" \in proc'[p].held => u \in requires
        /\ "preference" \in proc'[p].held => u \in settings
        /\ \A q \in Procs \ {p} : proc'[q] = proc[q]
        /\ UNCHANGED <<requires, settings>>
    BY <1>1, <1>3 DEF LoginSubmit, TypeOK, Idle
  <2> QED BY <1>1, <2>1 DEF HeldInv, HeldIsCurrent, PolicyRead, PasswordAloneNotEnough
<1>4. ASSUME NEW p \in Procs, RequiredByDeclaration(p) PROVE HeldInv'
  <2>1. /\ proc'[p].pc = IF proc[p].user \in requires THEN "create" ELSE "preference"
        /\ proc'[p].user = proc[p].user /\ proc'[p].held = proc[p].held
        /\ \A q \in Procs \ {p} : proc'[q] = proc[q]
        /\ UNCHANGED <<requires, settings>>
    BY <1>1, <1>4 DEF RequiredByDeclaration, Goto, TypeOK, Process
  <2> QED BY <1>1, <2>1 DEF HeldInv, HeldIsCurrent, PolicyRead, PasswordAloneNotEnough
<1>5. ASSUME NEW p \in Procs, RequiredByPreference(p) PROVE HeldInv'
  <2>1. /\ proc[p].pc = "preference"
        /\ proc'[p].pc = IF proc[p].user \in settings THEN "create" ELSE "issue"
        /\ proc'[p].user = proc[p].user /\ proc'[p].held = proc[p].held
        /\ \A q \in Procs \ {p} : proc'[q] = proc[q]
        /\ UNCHANGED <<requires, settings>>
    BY <1>1, <1>5 DEF RequiredByPreference, Goto, TypeOK, Process
  <2>2. proc[p].held \subseteq {"declaration", "preference"}
    BY <1>1 DEF TypeOK, Process, Sources
  <2>3. proc'[p].pc = "issue" => proc'[p].held = {}
    BY <2>1, <2>2 DEF HeldInv, HeldIsCurrent, PolicyRead
  <2> QED BY <1>1, <2>1, <2>3 DEF HeldInv, HeldIsCurrent, PolicyRead, PasswordAloneNotEnough
<1>6. ASSUME NEW p \in Procs, UNCHANGED <<requires, settings>>, \A q \in Procs \ {p} : proc'[q] = proc[q],
             \/ proc'[p].held = {}
             \/ /\ proc'[p].pc \notin {"preference", "issue"}
                /\ proc'[p].user = proc[p].user /\ proc'[p].held = proc[p].held
      PROVE  HeldInv'
  BY <1>1, <1>6, HeldFewer DEF HeldInv, HeldIsCurrent
<1>7. ASSUME NEW p \in Procs,
             \/ LoginIssue(p) \/ ChallengeMail(p) \/ VerifyWrong(p) \/ VerifyIssue(p) \/ Fail(p)
      PROVE  HeldInv'
  BY <1>1, <1>2, <1>6, <1>7
  DEF LoginIssue, ChallengeMail, VerifyWrong, VerifyIssue, Fail, Finish, TypeOK
<1>8. ASSUME NEW p \in Procs,
             \/ \E c \in Challenges, right \in BOOLEAN : VerifyBegin(p, c, right)
             \/ \E c \in Challenges : ResendPeek(p, c)
             \/ \E u \in Users, on \in BOOLEAN : HandleSettings(p, u, on)
      PROVE  HeldInv'
  <2>1. proc'[p].held = {} /\ UNCHANGED <<requires, settings>> /\ \A q \in Procs \ {p} : proc'[q] = proc[q]
    <3> DEFINE Fresh == proc'[p].held = {} /\ UNCHANGED <<requires, settings>> /\ \A q \in Procs \ {p} : proc'[q] = proc[q]
    <3>1. ASSUME NEW c \in Challenges, NEW right \in BOOLEAN, VerifyBegin(p, c, right) PROVE Fresh
      BY <1>1, <3>1 DEF VerifyBegin, TypeOK, Idle
    <3>2. ASSUME NEW c \in Challenges, ResendPeek(p, c) PROVE Fresh
      BY <1>1, <3>2 DEF ResendPeek, TypeOK, Idle
    <3>3. ASSUME NEW u \in Users, NEW on \in BOOLEAN, HandleSettings(p, u, on) PROVE Fresh
      BY <1>1, <3>3 DEF HandleSettings, TypeOK, Idle
    <3> QED BY <1>8, <3>1, <3>2, <3>3
  <2> QED BY <1>6, <2>1
<1>9. ASSUME NEW p \in Procs,
             \/ \E c \in Challenges : ChallengeCreate(p, c)
             \/ VerifySelect(p) \/ VerifyRight(p) \/ ResendDelete(p)
      PROVE  HeldInv'
  <2>1. /\ proc'[p].pc \notin {"preference", "issue"}
        /\ proc'[p].user = proc[p].user /\ proc'[p].held = proc[p].held
        /\ UNCHANGED <<requires, settings>> /\ \A q \in Procs \ {p} : proc'[q] = proc[q]
    <3> DEFINE Moved == /\ proc'[p].pc \notin {"preference", "issue"}
                        /\ proc'[p].user = proc[p].user /\ proc'[p].held = proc[p].held
                        /\ UNCHANGED <<requires, settings>> /\ \A q \in Procs \ {p} : proc'[q] = proc[q]
    <3>1. ASSUME NEW c \in Challenges, ChallengeCreate(p, c) PROVE Moved
      BY <1>1, <3>1 DEF ChallengeCreate, TypeOK, Process
    <3>2. CASE VerifySelect(p)
      BY <1>1, <3>2 DEF VerifySelect, Goto, TypeOK, Process
    <3>3. CASE VerifyRight(p)
      BY <1>1, <3>3 DEF VerifyRight, Goto, TypeOK, Process
    <3>4. CASE ResendDelete(p)
      BY <1>1, <3>4 DEF ResendDelete, Goto, TypeOK, Process
    <3> QED BY <1>9, <3>1, <3>2, <3>3, <3>4
  <2> QED BY <1>6, <2>1
<1>10. CASE Reload
  <2>1. requires' \in SUBSET Users /\ settings \in SUBSET Users /\ settings' = settings
        /\ proc' = StillHeld(requires', settings)
    BY <1>1, <1>10 DEF Reload, TypeOK
  <2>2. \A q \in Procs :
           /\ proc'[q].pc = proc[q].pc /\ proc'[q].user = proc[q].user
           /\ \A x \in proc'[q].held : /\ x \in proc[q].held
                                       /\ x = "declaration" => proc[q].user \in requires'
                                       /\ x = "preference" => proc[q].user \in settings
    BY <1>1, <2>1, StillHeldShape
  <2> QED BY <1>1, <2>1, <2>2, HeldFewer
<1>11. ASSUME NEW p \in Procs, SetEnabled(p) PROVE HeldInv'
  <2>1. /\ requires \in SUBSET Users /\ settings' \in SUBSET Users /\ requires' = requires
        /\ proc' = [StillHeld(requires, settings') EXCEPT ![p] = Idle]
    BY <1>1, <1>11 DEF SetEnabled, TypeOK, CodeInv
  <2>2. /\ StillHeld(requires, settings') \in [Procs -> Process]
        /\ \A q \in Procs :
              LET r == StillHeld(requires, settings')[q] IN
              /\ r.pc = proc[q].pc /\ r.user = proc[q].user
              /\ \A x \in r.held : /\ x \in proc[q].held
                                   /\ x = "declaration" => proc[q].user \in requires
                                   /\ x = "preference" => proc[q].user \in settings'
    BY <1>1, <2>1, StillHeldShape
  <2>3. proc'[p] = Idle /\ \A q \in Procs \ {p} : proc'[q] = StillHeld(requires, settings')[q]
    BY <2>1, <2>2
  <2> QED BY <1>1, <1>2, <2>1, <2>2, <2>3, HeldFewer
<1>12. CASE UNCHANGED <<proc, requires, settings>>
  BY <1>1, <1>12, HeldFewer
<1> QED
  BY <1>3, <1>4, <1>5, <1>7, <1>8, <1>9, <1>10, <1>11, <1>12
  DEF Next, vars, Expire, OtherLogin, SessionEnds

\* The password alone opens no session while the declaration or the user's own
\* switch keeps requiring a code: the policy reads its two sources at two
\* moments, and each of them is read while it is in force.
THEOREM CodeIsRequired == Spec => []PasswordAloneNotEnough
<1>1. Init => HeldInv
  BY CodeInit DEF Init, Idle, HeldInv, HeldIsCurrent, PolicyRead, PasswordAloneNotEnough
<1> QED BY <1>1, HeldNext, PTL DEF Spec, HeldInv
=============================================================================

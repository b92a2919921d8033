-------------------------- MODULE PasskeysProofs --------------------------
(***************************************************************************)
(* Proofs about module Passkeys, for every number of users, passkeys,      *)
(* ceremonies and handlers, and every bound on the signature counters.     *)
(***************************************************************************)
EXTENDS Passkeys, TLAPS

\* A handler past Consume, and one that has a ceremony in hand at all.
Using == {"create", "verify", "check", "update", "issue"}
Finishing == Using \cup {"consume", "consumed"}

\* A handler knows its user, its ceremony and its passkey from where it is.
ShapeOK ==
    /\ \A p \in Procs : proc[p].pc \in Finishing =>
          /\ proc[p].user \in Users /\ proc[p].key \in Keys
          /\ proc[p].cer \in Ceremonies /\ cer[proc[p].cer].state # "none"
    /\ \A p \in Procs : proc[p].pc \in {"consume", "consumed"} => proc[p].then \in {"create", "verify"}
    /\ \A p \in Procs : proc[p].pc = "delete" => proc[p].user \in Users /\ proc[p].key \in Keys

\* Who is about to delete a ceremony holds its row, which is still there.
ConsumerHoldsRow ==
    \A p \in Procs : proc[p].pc = "consumed" =>
        lock[proc[p].cer] = p /\ cer[proc[p].cer].state \in {"live", "expired"}

Uses(p, x) == proc[p].pc \in Using /\ proc[p].cer = x

\* A ceremony that is there has led to nothing; its consumer is alone and has
\* not acted yet.
OneConsumer ==
    \A x \in Ceremonies :
        /\ cer[x].state # "gone" => acts[x] = 0 /\ \A p \in Procs : ~Uses(p, x)
        /\ \A p \in Procs : Uses(p, x) => acts[x] = 0
        /\ \A p, q \in Procs : Uses(p, x) /\ Uses(q, x) => p = q

\* A passkey that a ceremony registered is there, and so is the ceremony.
MadeOK ==
    \A k \in Keys : made[k] # None => cred[k].state # "none" /\ cer[made[k]].state # "none"

\* A login past the verification works on a passkey that exists, and writes
\* back a row of its own user.
LoginOK ==
    \A p \in Procs :
        /\ proc[p].pc \in {"check", "update", "issue"} => cred[proc[p].key].state # "none"
        /\ proc[p].pc \in {"check", "update"} =>
              proc[p].read.state = "live" /\ proc[p].read.user = proc[p].user

PasskeyInv ==
    /\ TypeOK /\ ShapeOK /\ ConsumerHoldsRow /\ OneConsumer /\ MadeOK /\ LoginOK
    /\ CeremonyActsOnce /\ PasskeyKeepsOwner

LEMMA IdleTyped == Idle \in Process /\ Idle.pc = "idle" /\ NoPasskey \in Passkey
BY PasskeyAssumption DEF Idle, Process, NoPasskey, Passkey, Counts

LEMMA RegisteredRow ==
    ASSUME NEW u \in Users
    PROVE  Registered(u) \in Passkey /\ Registered(u).state = "live" /\ Registered(u).user = u
BY IdleTyped DEF Registered, Passkey

LEMMA PasskeyInit == Init => PasskeyInv
<1> SUFFICES ASSUME Init PROVE PasskeyInv
  OBVIOUS
<1>1. TypeOK
  BY IdleTyped, RegisteredRow DEF Init, TypeOK, Ceremony, NoCeremony
<1>2. \A p \in Procs : proc[p].pc = "idle"
  BY IdleTyped DEF Init
<1>3. ShapeOK /\ ConsumerHoldsRow /\ LoginOK
  BY <1>2 DEF ShapeOK, ConsumerHoldsRow, LoginOK, Finishing, Using
<1>4. OneConsumer /\ CeremonyActsOnce
  BY <1>2 DEF Init, OneConsumer, CeremonyActsOnce, Uses, Using
<1>5. MadeOK /\ PasskeyKeepsOwner
  BY <1>2 DEF Init, MadeOK, PasskeyKeepsOwner
<1> QED BY <1>1, <1>3, <1>4, <1>5 DEF PasskeyInv

-----------------------------------------------------------------------------
(* Steps that write neither table.                                         *)

\* Handlers stay where they are, end, or begin a request on an idle handler.
LEMMA PasskeyQuiet ==
    ASSUME PasskeyInv, UNCHANGED <<cer, cred, acts, made>>,
           enabled' \subseteq Users, sess' \subseteq Users,
           lock' \in [Ceremonies -> Procs \cup {None}], proc' \in [Procs -> Process],
           \A q \in Procs :
              \/ /\ proc'[q] = proc[q]
                 /\ \A x \in Ceremonies : lock[x] = q => lock'[x] = q
              \/ proc'[q].pc \in {"idle", "save"}
              \/ proc'[q].pc = "delete" /\ proc'[q].user \in Users /\ proc'[q].key \in Keys
              \/ /\ proc'[q].pc = "consume" /\ proc'[q].then \in {"create", "verify"}
                 /\ proc'[q].user \in Users /\ proc'[q].key \in Keys
                 /\ proc'[q].cer \in Ceremonies /\ cer[proc'[q].cer].state # "none"
    PROVE  PasskeyInv'
<1> USE DEF PasskeyInv
<1>1. TypeOK'
  BY DEF TypeOK
<1>2. \A q \in Procs : proc'[q].pc \in Using \cup {"consumed"} => proc'[q] = proc[q]
  BY DEF Using
<1>3. ShapeOK'
  BY DEF ShapeOK, Finishing, Using
<1>4. ConsumerHoldsRow'
  BY <1>2 DEF ConsumerHoldsRow, ShapeOK, Finishing
<1>5. OneConsumer' /\ CeremonyActsOnce'
  BY <1>2 DEF OneConsumer, CeremonyActsOnce, Uses
<1>6. MadeOK' /\ LoginOK' /\ PasskeyKeepsOwner'
  BY <1>2 DEF MadeOK, LoginOK, PasskeyKeepsOwner, Using
<1> QED BY <1>1, <1>3, <1>4, <1>5, <1>6

LEMMA StartKeeps ==
    ASSUME PasskeyInv, NEW p \in Procs,
           \/ LoginStart(p)
           \/ \E u \in Users : RegisterStart(p, u)
           \/ \E u \in Users, k \in Keys : HandleDelete(p, u, k)
           \/ \E u \in Users, x \in Ceremonies, k \in Keys :
                RegisterFinish(p, u, x, k) \/ \E n \in Counts : LoginFinish(p, u, x, k, n)
    PROVE  PasskeyInv'
<1> USE DEF PasskeyInv
<1>1. TypeOK
  OBVIOUS
<1>2. ASSUME NEW r \in Process, proc' = [proc EXCEPT ![p] = r], UNCHANGED <<enabled, sess, cer, cred, lock, acts, made>>,
             \/ r.pc = "save"
             \/ r.pc = "delete" /\ r.user \in Users /\ r.key \in Keys
             \/ /\ r.pc = "consume" /\ r.then \in {"create", "verify"} /\ r.user \in Users /\ r.key \in Keys
                /\ r.cer \in Ceremonies /\ cer[r.cer].state # "none"
      PROVE  PasskeyInv'
  <2>1. proc' \in [Procs -> Process] /\ proc'[p] = r /\ \A q \in Procs \ {p} : proc'[q] = proc[q]
    BY <1>1, <1>2 DEF TypeOK
  <2> QED BY <1>1, <1>2, <2>1, PasskeyQuiet DEF TypeOK
<1>3. CASE LoginStart(p)
  <2> DEFINE r == [Idle EXCEPT !.pc = "save"]
  <2>1. r \in Process /\ r.pc = "save"
    BY IdleTyped DEF Process
  <2> QED BY <1>2, <1>3, <2>1 DEF LoginStart
<1>4. ASSUME NEW u \in Users, RegisterStart(p, u) PROVE PasskeyInv'
  <2> DEFINE r == [Idle EXCEPT !.pc = "save", !.user = u]
  <2>1. r \in Process /\ r.pc = "save"
    BY IdleTyped DEF Process
  <2> QED BY <1>2, <1>4, <2>1 DEF RegisterStart
<1>5. ASSUME NEW u \in Users, NEW k \in Keys, HandleDelete(p, u, k) PROVE PasskeyInv'
  <2> DEFINE r == [Idle EXCEPT !.pc = "delete", !.user = u, !.key = k]
  <2>1. r \in Process /\ r.pc = "delete" /\ r.user = u /\ r.key = k
    BY IdleTyped DEF Process
  <2> QED BY <1>2, <1>5, <2>1 DEF HandleDelete
<1>6. ASSUME NEW u \in Users, NEW x \in Ceremonies, NEW k \in Keys, RegisterFinish(p, u, x, k) PROVE PasskeyInv'
  <2> DEFINE r == [Idle EXCEPT !.pc = "consume", !.then = "create", !.user = u, !.cer = x, !.key = k]
  <2>1. r \in Process /\ r.pc = "consume" /\ r.then = "create" /\ r.user = u /\ r.cer = x /\ r.key = k
    BY IdleTyped DEF Process
  <2>2. cer[x].state # "none" /\ proc' = [proc EXCEPT ![p] = r] /\ UNCHANGED <<enabled, sess, cer, cred, lock, acts, made>>
    BY <1>6 DEF RegisterFinish
  <2> HIDE DEF r
  <2> QED BY <1>2, <2>1, <2>2
<1>7. ASSUME NEW u \in Users, NEW x \in Ceremonies, NEW k \in Keys, NEW n \in Counts, LoginFinish(p, u, x, k, n)
      PROVE  PasskeyInv'
  <2> DEFINE r == [Idle EXCEPT !.pc = "consume", !.then = "verify", !.user = u, !.cer = x, !.key = k, !.count = n]
  <2>1. r \in Process /\ r.pc = "consume" /\ r.then = "verify" /\ r.user = u /\ r.cer = x /\ r.key = k
    BY IdleTyped DEF Process
  <2>2. cer[x].state # "none" /\ proc' = [proc EXCEPT ![p] = r] /\ UNCHANGED <<enabled, sess, cer, cred, lock, acts, made>>
    BY <1>7 DEF LoginFinish
  <2> HIDE DEF r
  <2> QED BY <1>2, <2>1, <2>2
<1> QED BY <1>3, <1>4, <1>5, <1>6, <1>7

LEMMA SurroundingsKeep ==
    ASSUME PasskeyInv,
           \/ \E u \in Users : OtherLogin(u) \/ SessionEnds(u)
           \/ Reload
           \/ \E p \in Procs : Fail(p)
           \/ UNCHANGED vars
    PROVE  PasskeyInv'
<1> USE DEF PasskeyInv
<1>1. CASE \E u \in Users : OtherLogin(u) \/ SessionEnds(u)
  BY <1>1, PasskeyQuiet DEF OtherLogin, SessionEnds, TypeOK
<1>2. CASE Reload
  BY <1>2, PasskeyQuiet DEF Reload, TypeOK
<1>3. ASSUME NEW p \in Procs, Fail(p) PROVE PasskeyInv'
  <2>1. /\ proc' \in [Procs -> Process] /\ proc'[p].pc = "idle"
        /\ \A q \in Procs \ {p} : proc'[q] = proc[q]
        /\ UNCHANGED <<enabled, sess, cer, cred, acts, made>>
    BY <1>3, IdleTyped DEF Fail, Finish, TypeOK
  <2>2. /\ lock' \in [Ceremonies -> Procs \cup {None}]
        /\ \A x \in Ceremonies : lock[x] # p => lock'[x] = lock[x]
    BY <1>3 DEF Fail, TypeOK
  <2> QED BY <2>1, <2>2, PasskeyQuiet DEF TypeOK
<1>4. CASE UNCHANGED vars
  BY <1>4, PasskeyQuiet DEF vars, TypeOK
<1> QED BY <1>1, <1>2, <1>3, <1>4

-----------------------------------------------------------------------------
(* Ceremonies: they are saved, expire, are swept and are consumed.         *)

\* A row that nobody holds may go; the user of one that is there never changes.
LEMMA CeremonyRows ==
    ASSUME PasskeyInv, UNCHANGED <<enabled, sess, cred, lock, acts, made>>,
           cer' \in [Ceremonies -> Ceremony],
           \A x \in Ceremonies :
              /\ cer[x].state # "none" => cer'[x].state # "none" /\ cer'[x].user = cer[x].user
              /\ cer[x].state = "gone" => cer'[x].state = "gone"
              /\ lock[x] # None /\ cer[x].state \in {"live", "expired"} => cer'[x].state \in {"live", "expired"},
           proc' \in [Procs -> Process],
           \A q \in Procs : proc'[q] = proc[q] \/ proc'[q].pc = "idle"
    PROVE  PasskeyInv'
<1> USE DEF PasskeyInv
<1>1. TypeOK'
  BY DEF TypeOK
<1>2. ShapeOK'
  BY DEF ShapeOK, Finishing, Using
<1>3. ConsumerHoldsRow'
  BY PasskeyAssumption DEF ConsumerHoldsRow, ShapeOK, Finishing
<1>4. OneConsumer' /\ CeremonyActsOnce'
  BY DEF OneConsumer, CeremonyActsOnce, Uses, Using
<1>5. MadeOK' /\ LoginOK'
  BY DEF MadeOK, LoginOK, TypeOK
<1>6. PasskeyKeepsOwner'
  BY DEF PasskeyKeepsOwner, MadeOK, ShapeOK, Finishing, Using, TypeOK
<1> QED BY <1>1, <1>2, <1>3, <1>4, <1>5, <1>6

LEMMA ExpireKeeps == ASSUME PasskeyInv, NEW x \in Ceremonies, Expire(x) PROVE PasskeyInv'
<1> USE DEF PasskeyInv
<1> DEFINE e == [cer[x] EXCEPT !.state = "expired"]
<1>1. /\ cer[x].state = "live" /\ cer' = [cer EXCEPT ![x] = e]
      /\ UNCHANGED <<enabled, sess, cred, lock, proc, acts, made>>
  BY DEF Expire, TypeOK
<1>2. e \in Ceremony /\ e.state = "expired" /\ e.user = cer[x].user
  BY DEF TypeOK, Ceremony
<1> HIDE DEF e
<1>3. cer' \in [Ceremonies -> Ceremony] /\ cer'[x] = e /\ \A y \in Ceremonies \ {x} : cer'[y] = cer[y]
  BY <1>1, <1>2 DEF TypeOK
<1> QED BY <1>1, <1>2, <1>3, CeremonyRows DEF TypeOK

LEMMA SaveKeeps ==
    ASSUME PasskeyInv, NEW p \in Procs, NEW x \in Ceremonies, SaveCeremony(p, x)
    PROVE  PasskeyInv'
<1> USE DEF PasskeyInv
<1> DEFINE old == {y \in Ceremonies : cer[y].state = "expired"}
           row == [state |-> "live", user |-> proc[p].user]
           Swept(y) == [cer[y] EXCEPT !.state = "gone"]
<1>1. /\ cer[x] = NoCeremony /\ (\A y \in old : lock[y] = None) /\ proc' = [proc EXCEPT ![p] = Idle]
      /\ cer' = [y \in Ceremonies |-> IF y = x THEN row ELSE IF y \in old THEN Swept(y) ELSE cer[y]]
      /\ UNCHANGED <<enabled, sess, cred, lock, acts, made>>
  BY DEF SaveCeremony, Finish
<1>2. cer[x].state = "none"
  BY <1>1 DEF NoCeremony
<1>3. row \in Ceremony /\ row.state = "live"
  BY DEF TypeOK, Process, Ceremony
<1>4. \A y \in Ceremonies : Swept(y) \in Ceremony /\ Swept(y).state = "gone" /\ Swept(y).user = cer[y].user
  BY DEF TypeOK, Ceremony
<1> HIDE DEF row, Swept
<1>5. cer' \in [Ceremonies -> Ceremony]
  BY <1>1, <1>3, <1>4 DEF TypeOK
<1>6. \A y \in Ceremonies :
         /\ cer[y].state # "none" => cer'[y].state # "none" /\ cer'[y].user = cer[y].user
         /\ cer[y].state = "gone" => cer'[y].state = "gone"
         /\ lock[y] # None /\ cer[y].state \in {"live", "expired"} => cer'[y].state \in {"live", "expired"}
  BY <1>1, <1>2, <1>3, <1>4
<1>7. proc' \in [Procs -> Process] /\ \A q \in Procs : proc'[q] = proc[q] \/ proc'[q].pc = "idle"
  BY <1>1, IdleTyped DEF TypeOK
<1> QED BY <1>1, <1>5, <1>6, <1>7, CeremonyRows

LEMMA ConsumeSelectKeeps == ASSUME PasskeyInv, NEW p \in Procs, ConsumeSelect(p) PROVE PasskeyInv'
<1> USE DEF PasskeyInv
<1> DEFINE x == proc[p].cer
           r == [proc[p] EXCEPT !.pc = "consumed"]
<1>1. /\ proc[p].pc = "consume" /\ lock[x] = None /\ cer[x].state \in {"live", "expired"}
      /\ lock' = [lock EXCEPT ![x] = p] /\ proc' = [proc EXCEPT ![p] = r]
      /\ UNCHANGED <<enabled, sess, cer, cred, acts, made>>
  BY DEF ConsumeSelect, Goto, TypeOK
<1>2. x \in Ceremonies /\ proc[p].user \in Users /\ proc[p].key \in Keys /\ proc[p].then \in {"create", "verify"}
  BY <1>1 DEF ShapeOK, Finishing
<1>3. /\ r \in Process /\ r.pc = "consumed" /\ r.cer = x /\ r.then = proc[p].then
      /\ r.user = proc[p].user /\ r.key = proc[p].key
  BY DEF TypeOK, Process
<1> HIDE DEF r, x
<1>4. /\ proc'[p] = r /\ \A q \in Procs \ {p} : proc'[q] = proc[q]
      /\ lock'[x] = p /\ \A y \in Ceremonies \ {x} : lock'[y] = lock[y]
  BY <1>1, <1>2 DEF TypeOK
<1>5. TypeOK'
  BY <1>1, <1>2, <1>3 DEF TypeOK
<1>6. ShapeOK'
  BY <1>1, <1>2, <1>3, <1>4 DEF ShapeOK, Finishing, Using
<1>7. ConsumerHoldsRow'
  BY <1>1, <1>2, <1>3, <1>4, PasskeyAssumption DEF ConsumerHoldsRow, ShapeOK, Finishing
<1>8. OneConsumer' /\ CeremonyActsOnce'
  BY <1>1, <1>3, <1>4 DEF OneConsumer, CeremonyActsOnce, Uses, Using
<1>9. MadeOK' /\ LoginOK' /\ PasskeyKeepsOwner'
  BY <1>1, <1>3, <1>4 DEF MadeOK, LoginOK, PasskeyKeepsOwner
<1> QED BY <1>5, <1>6, <1>7, <1>8, <1>9

LEMMA ConsumeCommitKeeps == ASSUME PasskeyInv, NEW p \in Procs, ConsumeCommit(p) PROVE PasskeyInv'
<1> USE DEF PasskeyInv
<1> DEFINE x == proc[p].cer
           gone == [cer[x] EXCEPT !.state = "gone"]
           r == IF cer[x].state = "expired" THEN Idle ELSE [proc[p] EXCEPT !.pc = proc[p].then]
<1>1. /\ proc[p].pc = "consumed" /\ x \in Ceremonies /\ proc[p].then \in {"create", "verify"}
      /\ proc[p].user \in Users /\ proc[p].key \in Keys
  BY DEF ConsumeCommit, ShapeOK, Finishing
<1>2. lock[x] = p /\ cer[x].state \in {"live", "expired"}
  BY <1>1 DEF ConsumerHoldsRow
<1>3. /\ cer' = [cer EXCEPT ![x] = gone] /\ lock' = [lock EXCEPT ![x] = None] /\ proc' = [proc EXCEPT ![p] = r]
      /\ UNCHANGED <<enabled, sess, cred, acts, made>>
  BY <1>1 DEF ConsumeCommit, Finish, Goto, TypeOK
<1>4. gone \in Ceremony /\ gone.state = "gone" /\ gone.user = cer[x].user
  BY <1>1 DEF TypeOK, Ceremony
<1>5. /\ r \in Process
      /\ \/ r.pc = "idle"
         \/ r.pc \in {"create", "verify"} /\ r.cer = x /\ r.user = proc[p].user /\ r.key = proc[p].key
  BY <1>1, IdleTyped DEF TypeOK, Process
<1> HIDE DEF gone, r, x
<1>6. /\ proc'[p] = r /\ \A q \in Procs \ {p} : proc'[q] = proc[q]
      /\ cer'[x] = gone /\ \A y \in Ceremonies \ {x} : cer'[y] = cer[y] /\ lock'[y] = lock[y]
  BY <1>1, <1>3 DEF TypeOK
<1>7. TypeOK'
  BY <1>1, <1>3, <1>4, <1>5 DEF TypeOK
<1>8. \A y \in Ceremonies : cer'[y].user = cer[y].user /\ (cer[y].state # "none" => cer'[y].state # "none")
  BY <1>1, <1>4, <1>6
<1>9. ShapeOK'
  BY <1>1, <1>4, <1>5, <1>6, <1>8 DEF ShapeOK, Finishing, Using
<1>10. ConsumerHoldsRow'
  BY <1>1, <1>2, <1>5, <1>6 DEF ConsumerHoldsRow, ShapeOK, Finishing
<1>11. OneConsumer'
  <2>1. acts[x] = 0 /\ \A q \in Procs : ~Uses(q, x)
    BY <1>1, <1>2 DEF OneConsumer
  <2>2. \A q \in Procs, y \in Ceremonies : Uses(q, y)' => (q = p /\ y = x) \/ (q # p /\ y # x /\ Uses(q, y))
    BY <1>1, <1>5, <1>6, <2>1 DEF Uses, Using
  <2> QED BY <1>1, <1>3, <1>4, <1>6, <2>1, <2>2 DEF OneConsumer
<1>12. MadeOK' /\ LoginOK' /\ CeremonyActsOnce'
  BY <1>3, <1>5, <1>6, <1>8 DEF MadeOK, LoginOK, CeremonyActsOnce, TypeOK
<1>13. PasskeyKeepsOwner'
  BY <1>3, <1>5, <1>6, <1>8 DEF PasskeyKeepsOwner, TypeOK, ShapeOK, Finishing, Using
<1> QED BY <1>7, <1>9, <1>10, <1>11, <1>12, <1>13

-----------------------------------------------------------------------------
(* Passkeys: they are registered, deleted and used.                        *)

LEMMA RegisterKeeps == ASSUME PasskeyInv, NEW p \in Procs, RegisterCreate(p) PROVE PasskeyInv'
<1> USE DEF PasskeyInv
<1> DEFINE k == proc[p].key
           x == proc[p].cer
           u == proc[p].user
<1>1. proc[p].pc = "create" /\ x \in Ceremonies /\ k \in Keys /\ u \in Users /\ cer[x].state # "none"
  BY DEF RegisterCreate, ShapeOK, Finishing, Using
<1>2. /\ cer[x].user = u /\ cred[k] = NoPasskey
      /\ cred' = [cred EXCEPT ![k] = Registered(u)] /\ made' = [made EXCEPT ![k] = x]
      /\ acts' = [acts EXCEPT ![x] = acts[x] + 1] /\ proc' = [proc EXCEPT ![p] = Idle]
      /\ UNCHANGED <<enabled, sess, cer, lock>>
  BY DEF RegisterCreate, SameUser, Acted, Finish
<1>3. Uses(p, x) /\ acts[x] = 0 /\ cer[x].state = "gone" /\ \A q \in Procs \ {p} : ~Uses(q, x)
  BY <1>1 DEF OneConsumer, Uses, Using
<1>4. cred[k].state = "none"
  BY <1>2 DEF NoPasskey
<1>5. Registered(u) \in Passkey /\ Registered(u).state = "live" /\ Registered(u).user = u
  BY <1>1, RegisteredRow
<1> HIDE DEF k, x, u
<1>6. /\ proc'[p] = Idle /\ \A q \in Procs \ {p} : proc'[q] = proc[q]
      /\ cred'[k] = Registered(u) /\ made'[k] = x
      /\ \A l \in Keys \ {k} : cred'[l] = cred[l] /\ made'[l] = made[l]
      /\ acts'[x] = 1 /\ \A y \in Ceremonies \ {x} : acts'[y] = acts[y]
  BY <1>1, <1>2, <1>3 DEF TypeOK
<1>7. TypeOK'
  BY <1>1, <1>2, <1>5, IdleTyped DEF TypeOK
<1>8. ShapeOK' /\ ConsumerHoldsRow'
  BY <1>2, <1>6, IdleTyped DEF ShapeOK, ConsumerHoldsRow, Finishing, Using
<1>9. OneConsumer' /\ CeremonyActsOnce'
  <2>1. \A q \in Procs, y \in Ceremonies : Uses(q, y)' => q # p /\ y # x /\ Uses(q, y)
    BY <1>3, <1>6, IdleTyped DEF Uses, Using
  <2> QED BY <1>1, <1>2, <1>3, <1>6, <2>1 DEF OneConsumer, CeremonyActsOnce
<1>10. MadeOK'
  BY <1>1, <1>2, <1>5, <1>6 DEF MadeOK
\* A login past the verification has a passkey that was there before.
<1>11. \A q \in Procs : proc'[q].pc \in {"check", "update", "issue"} =>
          q # p /\ proc'[q] = proc[q] /\ proc[q].key \in Keys /\ proc[q].key # k
  BY <1>4, <1>6, IdleTyped DEF LoginOK, ShapeOK, Finishing, Using
<1>12. LoginOK'
  BY <1>6, <1>11 DEF LoginOK
<1>13. PasskeyKeepsOwner'
  BY <1>1, <1>2, <1>5, <1>6, <1>11 DEF PasskeyKeepsOwner
<1> QED BY <1>7, <1>8, <1>9, <1>10, <1>12, <1>13

\* A row is written that keeps its owner and is not taken away; handlers end,
\* or get on with a login.
LEMMA PasskeyRows ==
    ASSUME PasskeyInv, UNCHANGED <<enabled, sess, cer, lock, acts, made>>,
           cred' \in [Keys -> Passkey],
           \A k \in Keys : cred[k].state # "none" => cred'[k].state # "none" /\ cred'[k].user = cred[k].user,
           proc' \in [Procs -> Process],
           \A q \in Procs :
              \/ proc'[q] = proc[q]
              \/ proc'[q].pc = "idle"
              \/ /\ proc[q].pc \in Using /\ proc'[q].pc \in Using
                 /\ proc'[q].user = proc[q].user /\ proc'[q].key = proc[q].key /\ proc'[q].cer = proc[q].cer
                 /\ proc'[q].pc \in {"check", "update", "issue"} =>
                       /\ cred[proc[q].key].state # "none" /\ cred[proc[q].key].user = proc[q].user
                       /\ cer[proc[q].cer].user = None
                 /\ proc'[q].pc \in {"check", "update"} =>
                       proc'[q].read.state = "live" /\ proc'[q].read.user = proc[q].user
    PROVE  PasskeyInv'
<1> USE DEF PasskeyInv
<1>1. TypeOK'
  BY DEF TypeOK
<1>2. \A q \in Procs, x \in Ceremonies : Uses(q, x)' => Uses(q, x)
  BY DEF Uses, Using
<1>3. ShapeOK' /\ ConsumerHoldsRow'
  BY DEF ShapeOK, ConsumerHoldsRow, Finishing, Using
<1>4. OneConsumer' /\ CeremonyActsOnce'
  BY <1>2 DEF OneConsumer, CeremonyActsOnce
<1>5. MadeOK'
  BY DEF MadeOK
<1>6. LoginOK'
  BY DEF LoginOK, ShapeOK, Finishing, Using
<1>7. PasskeyKeepsOwner'
  BY DEF PasskeyKeepsOwner, MadeOK, LoginOK, ShapeOK, Finishing, Using
<1> QED BY <1>1, <1>3, <1>4, <1>5, <1>6, <1>7

LEMMA DeleteKeeps == ASSUME PasskeyInv, NEW p \in Procs, DeleteCredential(p) PROVE PasskeyInv'
<1> USE DEF PasskeyInv
<1> DEFINE k == proc[p].key
           d == [cred[k] EXCEPT !.state = "deleted"]
<1>1. k \in Keys
  BY DEF DeleteCredential, ShapeOK
<1>2. /\ cred' = [cred EXCEPT ![k] = d] /\ proc' = [proc EXCEPT ![p] = Idle]
      /\ UNCHANGED <<enabled, sess, cer, lock, acts, made>>
  BY <1>1 DEF DeleteCredential, Finish, TypeOK
<1>3. d \in Passkey /\ d.state = "deleted" /\ d.user = cred[k].user
  BY <1>1 DEF TypeOK, Passkey
<1> HIDE DEF d, k
<1> QED BY <1>1, <1>2, <1>3, IdleTyped, PasskeyRows DEF TypeOK

\* What the login writes back is the row it read, but for counter and warning.
LEMMA UpdatedRow ==
    ASSUME NEW row \in Passkey, NEW n \in Counts
    PROVE  Updated(row, n) \in Passkey /\ Updated(row, n).state = row.state /\ Updated(row, n).user = row.user
<1> DEFINE warned == [row EXCEPT !.warning = TRUE]
           counted == [row EXCEPT !.count = n]
<1>1. warned \in Passkey /\ warned.state = row.state /\ warned.user = row.user
  BY DEF Passkey
<1>2. counted \in Passkey /\ counted.state = row.state /\ counted.user = row.user
  BY DEF Passkey
<1>3. Updated(row, n) \in {warned, counted}
  BY DEF Updated
<1> QED BY <1>1, <1>2, <1>3

LEMMA LoginKeeps ==
    ASSUME PasskeyInv, NEW p \in Procs, LoginVerify(p) \/ LoginCheck(p) \/ UpdateCredential(p)
    PROVE  PasskeyInv'
<1> USE DEF PasskeyInv
<1> DEFINE k == proc[p].key
<1>1. proc[p].pc \in Using /\ k \in Keys /\ proc[p].cer \in Ceremonies
  BY DEF LoginVerify, LoginCheck, UpdateCredential, ShapeOK, Finishing, Using
<1>2. CASE LoginVerify(p)
  <2> DEFINE r == [proc[p] EXCEPT !.pc = "check", !.read = cred[k]]
  <2>1. /\ proc' = [proc EXCEPT ![p] = r] /\ UNCHANGED <<enabled, sess, cer, cred, lock, acts, made>>
        /\ cer[proc[p].cer].user = None /\ cred[k].state = "live" /\ cred[k].user = proc[p].user
    BY <1>2 DEF LoginVerify, Listed, TypeOK
  <2>2. /\ r \in Process /\ r.pc = "check" /\ r.user = proc[p].user /\ r.key = k /\ r.cer = proc[p].cer
        /\ r.read = cred[k]
    BY <1>1 DEF TypeOK, Process
  <2> HIDE DEF r
  <2>3. proc' \in [Procs -> Process] /\ proc'[p] = r /\ \A q \in Procs \ {p} : proc'[q] = proc[q]
    BY <2>1, <2>2 DEF TypeOK
  <2> QED BY <1>1, <2>1, <2>2, <2>3, PasskeyRows DEF TypeOK, Using
<1>3. ASSUME proc[p].pc \in {"check", "update"}
      PROVE  /\ cred[k].state # "none" /\ cred[k].user = proc[p].user /\ cer[proc[p].cer].user = None
             /\ proc[p].read.state = "live" /\ proc[p].read.user = proc[p].user
  BY <1>3 DEF LoginOK, PasskeyKeepsOwner
<1>4. CASE LoginCheck(p)
  <2> DEFINE r == [proc[p] EXCEPT !.pc = "update"]
  <2>1. /\ proc[p].pc = "check" /\ proc' = [proc EXCEPT ![p] = r]
        /\ UNCHANGED <<enabled, sess, cer, cred, lock, acts, made>>
    BY <1>4 DEF LoginCheck, Goto, TypeOK
  <2>2. /\ r \in Process /\ r.pc = "update" /\ r.user = proc[p].user /\ r.key = k /\ r.cer = proc[p].cer
        /\ r.read = proc[p].read
    BY <1>1 DEF TypeOK, Process
  <2> HIDE DEF r
  <2>3. proc' \in [Procs -> Process] /\ proc'[p] = r /\ \A q \in Procs \ {p} : proc'[q] = proc[q]
    BY <2>1, <2>2 DEF TypeOK
  <2> QED BY <1>1, <1>3, <2>1, <2>2, <2>3, PasskeyRows DEF TypeOK, Using
<1>5. CASE UpdateCredential(p)
  <2> DEFINE r == [proc[p] EXCEPT !.pc = "issue"]
             row == Updated(proc[p].read, proc[p].count)
  <2>1. /\ proc[p].pc = "update" /\ proc' = [proc EXCEPT ![p] = r]
        /\ cred' = [cred EXCEPT ![k] = row] \/ UNCHANGED cred
        /\ UNCHANGED <<enabled, sess, cer, lock, acts, made>>
    BY <1>5 DEF UpdateCredential, Goto, TypeOK
  <2>2. r \in Process /\ r.pc = "issue" /\ r.user = proc[p].user /\ r.key = k /\ r.cer = proc[p].cer
    BY <1>1 DEF TypeOK, Process
  <2>3. row \in Passkey /\ row.state = "live" /\ row.user = cred[k].user
    <3>1. proc[p].read \in Passkey /\ proc[p].count \in Counts
      BY DEF TypeOK, Process
    <3> QED BY <1>3, <2>1, <3>1, UpdatedRow
  <2> HIDE DEF r, row
  <2>4. proc' \in [Procs -> Process] /\ proc'[p] = r /\ \A q \in Procs \ {p} : proc'[q] = proc[q]
    BY <2>1, <2>2 DEF TypeOK
  <2>5. /\ cred' \in [Keys -> Passkey]
        /\ \A l \in Keys : cred[l].state # "none" => cred'[l].state # "none" /\ cred'[l].user = cred[l].user
    BY <1>1, <2>1, <2>3 DEF TypeOK
  <2> QED BY <1>1, <1>3, <2>1, <2>2, <2>4, <2>5, PasskeyRows DEF Using
<1> QED BY <1>2, <1>4, <1>5

LEMMA IssueKeeps == ASSUME PasskeyInv, NEW p \in Procs, LoginIssue(p) PROVE PasskeyInv'
<1> USE DEF PasskeyInv
<1> DEFINE x == proc[p].cer
<1>1. proc[p].pc = "issue" /\ x \in Ceremonies /\ proc[p].user \in Users
  BY DEF LoginIssue, ShapeOK, Finishing, Using
<1>2. /\ sess' = sess \cup {proc[p].user} /\ acts' = [acts EXCEPT ![x] = acts[x] + 1]
      /\ proc' = [proc EXCEPT ![p] = Idle] /\ UNCHANGED <<enabled, cer, cred, lock, made>>
  BY DEF LoginIssue, Acted, Finish
<1>3. acts[x] = 0 /\ cer[x].state = "gone" /\ \A q \in Procs \ {p} : ~Uses(q, x)
  BY <1>1 DEF OneConsumer, Uses, Using
<1> HIDE DEF x
<1>4. /\ proc'[p] = Idle /\ \A q \in Procs \ {p} : proc'[q] = proc[q]
      /\ acts'[x] = 1 /\ \A y \in Ceremonies \ {x} : acts'[y] = acts[y]
  BY <1>1, <1>2, <1>3 DEF TypeOK
<1>5. TypeOK'
  BY <1>1, <1>2, <1>3, IdleTyped DEF TypeOK
<1>6. ShapeOK' /\ ConsumerHoldsRow'
  BY <1>2, <1>4, IdleTyped DEF ShapeOK, ConsumerHoldsRow, Finishing, Using
<1>7. OneConsumer' /\ CeremonyActsOnce'
  <2>1. \A q \in Procs, y \in Ceremonies : Uses(q, y)' => q # p /\ y # x /\ Uses(q, y)
    BY <1>3, <1>4, IdleTyped DEF Uses, Using
  <2> QED BY <1>1, <1>2, <1>3, <1>4, <2>1 DEF OneConsumer, CeremonyActsOnce
<1>8. MadeOK' /\ LoginOK' /\ PasskeyKeepsOwner'
  BY <1>2, <1>4, IdleTyped DEF MadeOK, LoginOK, PasskeyKeepsOwner
<1> QED BY <1>5, <1>6, <1>7, <1>8

LEMMA PasskeyNext == PasskeyInv /\ [Next]_vars => PasskeyInv'
BY StartKeeps, SurroundingsKeep, ExpireKeeps, SaveKeeps, ConsumeSelectKeeps, ConsumeCommitKeeps,
   RegisterKeeps, DeleteKeeps, LoginKeeps, IssueKeeps
DEF Next

-----------------------------------------------------------------------------

\* The tables and the handlers of passkeys keep their types.
THEOREM PasskeyTypes == Spec => []TypeOK
BY PasskeyInit, PasskeyNext, PTL DEF Spec, PasskeyInv

\* A ceremony leads to one passkey or one session at most, whichever replicas
\* its answers reach: Consume deletes the row under its lock, so one handler at
\* most gets past it.
THEOREM OneActPerCeremony == Spec => []CeremonyActsOnce
BY PasskeyInit, PasskeyNext, PTL DEF Spec, PasskeyInv

\* A passkey stays with the user whose session began its registration, and who
\* gets past the verification with it is that user, through a login's ceremony.
THEOREM OwnerKept == Spec => []PasskeyKeepsOwner
BY PasskeyInit, PasskeyNext, PTL DEF Spec, PasskeyInv

\* Only a registration writes a row that is not there, and the other two
\* statements write rows that are live.
LEMMA DeletedStays ==
    ASSUME PasskeyInv, [Next]_vars, NEW k \in Keys, cred[k].state = "deleted"
    PROVE  cred'[k] = cred[k]
<1> USE DEF PasskeyInv
<1>1. ASSUME NEW p \in Procs, RegisterCreate(p) \/ DeleteCredential(p) \/ UpdateCredential(p)
      PROVE  cred'[k] = cred[k]
  <2>1. CASE UNCHANGED cred
    BY <2>1
  <2>2. CASE ~UNCHANGED cred
    <3>1. cred[proc[p].key].state \in {"none", "live"} /\ proc[p].key # k
      BY <1>1, <2>2 DEF RegisterCreate, DeleteCredential, UpdateCredential, NoPasskey
    <3> QED BY <1>1, <3>1 DEF RegisterCreate, DeleteCredential, UpdateCredential, TypeOK
  <2> QED BY <2>1, <2>2
<1>2. CASE UNCHANGED cred
  BY <1>2
<1> QED
  BY <1>1, <1>2
  DEF Next, vars, Expire, OtherLogin, SessionEnds, Reload, LoginStart, RegisterStart, SaveCeremony, RegisterFinish,
      LoginFinish, ConsumeSelect, ConsumeCommit, HandleDelete, LoginVerify, LoginCheck, LoginIssue, Fail

\* A step takes one handler at most on.
LEMMA OneMoves ==
    ASSUME PasskeyInv, [Next]_vars, NEW p \in Procs, proc'[p] # proc[p]
    PROVE  \/ proc'[p].pc = "idle"
           \/ proc[p].pc = "idle"
           \/ ConsumeSelect(p) \/ ConsumeCommit(p) \/ LoginVerify(p) \/ LoginCheck(p) \/ UpdateCredential(p)
<1> USE DEF PasskeyInv
<1>1. ASSUME NEW q \in Procs, q # p,
             \/ LoginStart(q) \/ ConsumeSelect(q) \/ ConsumeCommit(q) \/ RegisterCreate(q) \/ DeleteCredential(q)
             \/ LoginVerify(q) \/ LoginCheck(q) \/ UpdateCredential(q) \/ LoginIssue(q) \/ Fail(q)
             \/ \E u \in Users : RegisterStart(q, u)
             \/ \E x \in Ceremonies : SaveCeremony(q, x)
             \/ \E u \in Users, k \in Keys : HandleDelete(q, u, k)
             \/ \E u \in Users, x \in Ceremonies, k \in Keys :
                  RegisterFinish(q, u, x, k) \/ \E n \in Counts : LoginFinish(q, u, x, k, n)
      PROVE  FALSE
  BY <1>1
  DEF TypeOK, LoginStart, ConsumeSelect, ConsumeCommit, RegisterCreate, DeleteCredential, LoginVerify, LoginCheck,
      UpdateCredential, LoginIssue, Fail, RegisterStart, SaveCeremony, HandleDelete, RegisterFinish, LoginFinish,
      Goto, Finish
<1>2. CASE UNCHANGED proc
  BY <1>2
<1>3. CASE RegisterCreate(p) \/ DeleteCredential(p) \/ LoginIssue(p) \/ Fail(p)
           \/ \E x \in Ceremonies : SaveCeremony(p, x)
  BY <1>3, IdleTyped DEF TypeOK, RegisterCreate, DeleteCredential, LoginIssue, Fail, SaveCeremony, Finish
<1>4. CASE \/ LoginStart(p)
           \/ \E u \in Users : RegisterStart(p, u)
           \/ \E u \in Users, k \in Keys : HandleDelete(p, u, k)
           \/ \E u \in Users, x \in Ceremonies, k \in Keys :
                RegisterFinish(p, u, x, k) \/ \E n \in Counts : LoginFinish(p, u, x, k, n)
  BY <1>4 DEF LoginStart, RegisterStart, HandleDelete, RegisterFinish, LoginFinish
<1> QED BY <1>1, <1>2, <1>3, <1>4 DEF Next, vars, Expire, OtherLogin, SessionEnds, Reload

\* A deleted passkey stays deleted, and no login gets past the verification
\* with it: the update asks for a row that is still there.
THEOREM DeletionHolds == Spec => DeletedPasskeyIsDead
<1> DEFINE Dead == \A k \in Keys : cred[k].state = "deleted" =>
                      /\ cred'[k] = cred[k]
                      /\ \A p \in Procs : proc[p].pc = "verify" /\ proc[p].key = k => proc'[p].pc # "check"
<1>1. PasskeyInv /\ [Next]_vars => Dead
  <2> SUFFICES ASSUME PasskeyInv, [Next]_vars, NEW k \in Keys, cred[k].state = "deleted", NEW p \in Procs,
                      proc[p].pc = "verify", proc[p].key = k
               PROVE  proc'[p].pc # "check"
    BY DeletedStays
  <2>1. ~LoginVerify(p)
    BY DEF LoginVerify, Listed
  <2>2. proc'[p] # proc[p] => proc'[p].pc = "idle"
    BY <2>1, OneMoves DEF ConsumeSelect, ConsumeCommit, LoginCheck, UpdateCredential
  <2> QED BY <2>2
<1>2. PasskeyInv /\ [Next]_vars => [Dead]_vars
  BY <1>1
<1> QED BY <1>2, PasskeyInit, PasskeyNext, PTL DEF Spec, DeletedPasskeyIsDead
=============================================================================

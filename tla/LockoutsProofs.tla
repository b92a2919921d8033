--------------------------- MODULE LockoutsProofs ---------------------------
(***************************************************************************)
(* Proofs about module Lockouts, for every number of accounts, addresses   *)
(* and attempts, every pair of parameters and every width of a duration    *)
(* that LockoutAssumption allows.                                          *)
(***************************************************************************)
EXTENDS Lockouts, SequenceTheorems, TLAPS

-----------------------------------------------------------------------------
(* The backoff.                                                            *)

AllParams == {UserParams, IPParams}

LEMMA ParamsOK ==
    /\ \A k : Params(k) \in AllParams
    /\ \A p \in AllParams :
          /\ p.threshold \in Int /\ p.base \in Nat \ {0} /\ p.max \in Nat \ {0} /\ p.window \in Nat
          /\ p.max < 2^(Width - 1) /\ p.max <= MaxBackoff /\ p.window <= MaxWindow
          /\ MaxBackoff \in Nat /\ MaxWindow \in Nat
<1>1. \A k : Params(k) \in AllParams
  BY DEF Params, AllParams
<1>2. \A p \in AllParams :
         /\ p.threshold \in Int /\ p.base \in Nat \ {0} /\ p.max \in Nat /\ p.window \in Nat
         /\ p.max >= p.base /\ p.max < 2^(Width - 1)
  BY LockoutAssumption DEF AllParams
<1>3. \A p \in AllParams : p.max <= MaxBackoff /\ p.window <= MaxWindow /\ MaxBackoff \in Nat /\ MaxWindow \in Nat
  BY <1>2 DEF AllParams, MaxBackoff, MaxWindow, Later
<1> QED BY <1>1, <1>2, <1>3

\* A number that fits is not changed by wrapping around.
LEMMA WrapFits ==
    ASSUME NEW x \in Nat, x < 2^(Width - 1)
    PROVE  Wrap(x) = x
<1>1. 2^(Width - 1) \in Nat /\ 2^Width \in Nat /\ x < 2^Width
  BY PowerAssumption
<1>2. x % 2^Width = x
  <2> DEFINE M == 2^Width
  <2>1. M \in Nat /\ x < M
    BY <1>1
  <2> HIDE DEF M
  <2>2. x % M = x
    BY <2>1
  <2> QED BY <2>2 DEF M
<1> QED BY <1>1, <1>2 DEF Wrap

LEMMA WrapInt ==
    ASSUME NEW x \in Int
    PROVE  Wrap(x) \in Int
<1> DEFINE M == 2^Width
           H == 2^(Width - 1)
<1>1. M \in Nat \ {0} /\ H \in Nat
  BY PowerAssumption
<1> HIDE DEF M, H
<1>2. x % M \in Int
  BY <1>1
<1>3. Wrap(x) = IF (x % M) >= H THEN (x % M) - M ELSE x % M
  BY DEF Wrap, M, H
<1> QED BY <1>1, <1>2, <1>3

LEMMA ProductInt ==
    ASSUME NEW n \in 0..MaxCount, NEW p \in AllParams
    PROVE  Product(n, p) \in Int
<1>1. 2^n \in Int
  BY PowerAssumption
<1>2. Wrap(2^n) \in Int /\ p.base \in Int
  BY <1>1, WrapInt, ParamsOK
<1> DEFINE z == Wrap(2^n)
<1>3. p.base * z \in Int
  <2> HIDE DEF z
  <2> QED BY <1>2 DEF z
<1> QED BY <1>3, WrapInt DEF Product

\* A doubling that fits is what Go computes.
LEMMA ProductFits ==
    ASSUME NEW n \in 0..MaxCount, NEW p \in AllParams, p.base * 2^n < 2^(Width - 1)
    PROVE  Product(n, p) = p.base * 2^n
<1> DEFINE P == 2^n
           b == p.base
           H == 2^(Width - 1)
<1>1. P \in Nat \ {0} /\ b \in Nat \ {0} /\ H \in Nat /\ b * P < H
  BY PowerAssumption, ParamsOK
<1> HIDE DEF P, b, H
<1>2. P <= b * P /\ b * P \in Nat
  BY <1>1
<1>3. P < H
  BY <1>1, <1>2
<1>4. Wrap(P) = P /\ Wrap(b * P) = b * P
  BY <1>1, <1>2, <1>3, WrapFits DEF H
<1> QED BY <1>4 DEF Product, P, b

LEMMA BackoffRange ==
    ASSUME NEW c \in 0..MaxCount, NEW p \in AllParams
    PROVE  ComputeBackoff(c, p) \in 0..p.max
<1>1. p.threshold \in Int /\ p.max \in Nat \ {0} /\ MaxCount \in Nat
  BY ParamsOK, LockoutAssumption
<1>2. CASE p.threshold <= 0 \/ c <= p.threshold
  BY <1>1, <1>2 DEF ComputeBackoff
<1>3. CASE ~(p.threshold <= 0 \/ c <= p.threshold)
  <2>1. c - p.threshold - 1 \in 0..MaxCount
    BY <1>1, <1>3
  <2> DEFINE x == Product(c - p.threshold - 1, p)
  <2>2. x \in Int
    BY <2>1, ProductInt
  <2>3. ComputeBackoff(c, p) = IF x > p.max \/ x <= 0 THEN p.max ELSE x
    BY <1>3 DEF ComputeBackoff
  <2> HIDE DEF x
  <2> QED BY <1>1, <2>2, <2>3
<1> QED BY <1>2, <1>3

\* One failure more never computes a shorter backoff: below the cap it doubles,
\* at the cap and past the overflow it stays there.
LEMMA BackoffGrows ==
    ASSUME NEW c \in 0..MaxCount, c + 1 \in 0..MaxCount, NEW p \in AllParams
    PROVE  ComputeBackoff(c, p) <= ComputeBackoff(c + 1, p)
<1> DEFINE n == c - p.threshold - 1
           H == 2^(Width - 1)
<1>1. /\ p.threshold \in Int /\ p.max \in Nat \ {0} /\ MaxCount \in Nat /\ p.base \in Nat \ {0}
      /\ p.max < H /\ H \in Nat
  BY ParamsOK, LockoutAssumption, PowerAssumption
<1>2. ComputeBackoff(c, p) \in 0..p.max /\ ComputeBackoff(c + 1, p) \in 0..p.max
  BY BackoffRange
<1>3. CASE p.threshold <= 0 \/ c <= p.threshold
  <2>1. ComputeBackoff(c, p) = 0
    BY <1>3 DEF ComputeBackoff
  <2> QED BY <1>1, <1>2, <2>1
<1>4. CASE ~(p.threshold <= 0 \/ c <= p.threshold)
  <2>1. n \in 0..MaxCount /\ n + 1 \in 0..MaxCount /\ (c + 1) - p.threshold - 1 = n + 1
    BY <1>1, <1>4
  <2> DEFINE x == Product(n, p)
             y == Product(n + 1, p)
             P == 2^n
             Q == 2^(n + 1)
  <2>2. x \in Int /\ y \in Int
    BY <2>1, ProductInt
  <2>3. ComputeBackoff(c, p) = IF x > p.max \/ x <= 0 THEN p.max ELSE x
    BY <1>4 DEF ComputeBackoff
  <2>4. ComputeBackoff(c + 1, p) = IF y > p.max \/ y <= 0 THEN p.max ELSE y
    <3>1. ~(p.threshold <= 0 \/ c + 1 <= p.threshold)
      BY <1>1, <1>4
    <3> QED BY <2>1, <3>1 DEF ComputeBackoff
  <2>5. P \in Nat \ {0} /\ Q = 2 * P
    BY <2>1, PowerAssumption
  <2>6. y \in 1..p.max => y = p.base * Q
    BY <2>1, LockoutAssumption DEF AllParams
  <2>7. p.base * P < H => x = p.base * P
    BY <2>1, ProductFits
  <2> HIDE DEF n, x, y, P, Q, H
  <2>8. CASE y > p.max \/ y <= 0
    BY <1>2, <2>4, <2>8
  <2>9. CASE y \in 1..p.max
    <3> DEFINE z == p.base * P
    <3>1. z \in Nat \ {0} /\ p.base * Q = 2 * z
      BY <1>1, <2>5
    <3>2. y = 2 * z
      BY <2>6, <2>9, <3>1
    <3> HIDE DEF z
    <3>3. z < H /\ z <= p.max /\ z <= y
      BY <1>1, <2>9, <3>1, <3>2
    <3>4. x = z
      BY <2>7, <3>3 DEF z
    <3> QED BY <1>1, <2>2, <2>3, <2>4, <2>9, <3>1, <3>3, <3>4
  <2> QED BY <1>1, <2>2, <2>8, <2>9
<1> QED BY <1>3, <1>4

-----------------------------------------------------------------------------
(* The inductive invariant.                                                *)

Todo == {<<>>} \cup {<<k>> : k \in Keys} \cup (Accounts \X IPs)

LEMMA PairIsConcat ==
    ASSUME NEW a \in Keys, NEW b \in Keys
    PROVE  <<a>> \o <<b>> = <<a, b>>
<1> DEFINE s == <<a>> \o <<b>>
           t == <<a, b>>
<1>1. <<a>> \in Seq(Keys) /\ <<b>> \in Seq(Keys) /\ t \in Seq(Keys)
  OBVIOUS
<1>2. s \in Seq(Keys) /\ Len(s) = 2 /\ s[1] = a /\ s[2] = b
  BY <1>1
<1>3. Len(t) = 2 /\ t[1] = a /\ t[2] = b
  OBVIOUS
<1> HIDE DEF s, t
<1>4. s = t
  BY <1>1, <1>2, <1>3, SeqEqual
<1> QED BY <1>4 DEF s, t

LEMMA TodoOK ==
    /\ <<>> \in Todo
    /\ \A t \in Todo : t # <<>> => Head(t) \in Keys /\ Tail(t) \in Todo
    /\ \A a \in Accounts, b \in IPs \cup {None} : IfEnabled(a) \o IfEnabled(b) \in Todo
<1>1. ASSUME NEW k \in Keys
      PROVE  Head(<<k>>) \in Keys /\ Tail(<<k>>) \in Todo
  <2>1. Head(<<k>>) = k /\ Tail(<<k>>) = <<>>
    OBVIOUS
  <2> QED BY <2>1 DEF Todo
<1>2. ASSUME NEW a \in Accounts, NEW b \in IPs
      PROVE  Head(<<a, b>>) \in Keys /\ Tail(<<a, b>>) \in Todo
  <2>1. Head(<<a, b>>) = a /\ Tail(<<a, b>>) = <<b>>
    OBVIOUS
  <2> QED BY <2>1 DEF Todo, Keys
<1>3. ASSUME NEW t \in Todo, t # <<>> PROVE Head(t) \in Keys /\ Tail(t) \in Todo
  <2>1. CASE t \in {<<k>> : k \in Keys}
    BY <1>1, <2>1
  <2>2. CASE t \in Accounts \X IPs
    <3>1. PICK a \in Accounts, b \in IPs : t = <<a, b>>
      BY <2>2
    <3> QED BY <1>2, <3>1
  <2> QED BY <1>3, <2>1, <2>2 DEF Todo
<1>4. ASSUME NEW a \in Accounts, NEW b \in IPs \cup {None}
      PROVE  IfEnabled(a) \o IfEnabled(b) \in Todo
  <2>1. a \in Keys /\ (Enabled(b) => b \in IPs /\ b \in Keys)
    BY <1>4 DEF Keys, Enabled
  <2>2. CASE Enabled(a) /\ Enabled(b)
    <3>1. <<a>> \o <<b>> = <<a, b>>
      BY <2>1, <2>2, PairIsConcat
    <3>2. <<a, b>> \in Todo
      BY <2>1, <2>2 DEF Todo
    <3> QED BY <2>2, <3>1, <3>2 DEF IfEnabled
  <2>3. CASE Enabled(a) /\ ~Enabled(b)
    <3>1. <<a>> \o <<>> = <<a>> /\ <<a>> \in Todo
      BY <2>1 DEF Todo
    <3> QED BY <2>3, <3>1 DEF IfEnabled
  <2>4. CASE ~Enabled(a) /\ Enabled(b)
    <3>1. <<>> \o <<b>> = <<b>> /\ <<b>> \in Todo
      BY <2>1, <2>4 DEF Todo
    <3> QED BY <2>4, <3>1 DEF IfEnabled
  <2>5. CASE ~Enabled(a) /\ ~Enabled(b)
    <3>1. <<>> \o <<>> = <<>> /\ <<>> \in Todo
      BY DEF Todo
    <3> QED BY <2>5, <3>1 DEF IfEnabled
  <2> QED BY <2>2, <2>3, <2>4, <2>5
<1> QED BY <1>3, <1>4 DEF Todo

\* RecordFailure's SELECT returned a row.
Found(r) == r.found

\* What an attempt holds for key k under the lock of row x: it counted one more
\* than the row or, the window having lapsed, from one, and the lockout in force
\* ends no later than one computed when it read its clock.
Current(r, x, k) ==
    /\ x.count > 0
    /\ r.count = x.count + 1 \/ (x.age > Params(k).window /\ r.count = 1)
    /\ x.left = 0 \/ x.left + r.age <= ComputeBackoff(x.count, Params(k))

\* An attempt knows its account, and what it has to write.
Placed(r) ==
    /\ r.pc = "check" => r.user \in Accounts
    /\ r.pc \in {"fail", "write", "reset"} => r.todo # <<>>

ShapeOK == \A p \in Procs : Placed(proc[p])

\* A lockout is no longer than the count calls for.
RowOK == \A k \in Keys : row[k].left <= ComputeBackoff(row[k].count, Params(k))

WriterOK ==
    \A p \in Procs : proc[p].pc = "write" =>
        \/ ~Found(proc[p]) /\ proc[p].count = 1
        \/ Found(proc[p]) /\ lock[Key(p)] = p /\ Current(proc[p], row[Key(p)], Key(p))

LockoutInv == TypeOK /\ ShapeOK /\ RowOK /\ WriterOK

LEMMA IdleTyped == Idle \in Process /\ Idle.pc = "idle" /\ NoRow \in Row /\ NoRow.count = 0 /\ NoRow.left = 0
<1>1. MaxBackoff \in Nat /\ MaxWindow \in Nat /\ MaxCount \in Nat /\ Slow \in Nat
  BY ParamsOK, LockoutAssumption
<1>2. NoRow \in Row /\ NoRow.count = 0 /\ NoRow.left = 0
  BY <1>1 DEF NoRow, Row
<1>3. Idle \in Process /\ Idle.pc = "idle"
  BY <1>1 DEF Idle, Process
<1> QED BY <1>2, <1>3

\* An attempt that writes, or has to, has a key to write.
LEMMA KeyOK ==
    ASSUME TypeOK, NEW p \in Procs, proc[p].todo # <<>>
    PROVE  Key(p) \in Keys /\ Tail(proc[p].todo) \in Todo
<1>1. proc[p].todo \in Todo
  BY DEF TypeOK, Process, Todo
<1> QED BY <1>1, TodoOK DEF Key

LEMMA LockoutInit == Init => LockoutInv
<1> SUFFICES ASSUME Init PROVE LockoutInv
  OBVIOUS
<1>1. TypeOK
  BY IdleTyped DEF Init, TypeOK
<1>2. \A p \in Procs : proc[p].pc = "idle"
  BY IdleTyped DEF Init
<1>3. \A k \in Keys : row[k].left = 0 /\ row[k].count = 0
  BY IdleTyped DEF Init
<1>4. RowOK
  <2> SUFFICES ASSUME NEW k \in Keys PROVE row[k].left <= ComputeBackoff(row[k].count, Params(k))
    BY DEF RowOK
  <2>1. ComputeBackoff(0, Params(k)) \in 0..Params(k).max /\ Params(k).max \in Nat
    BY BackoffRange, ParamsOK, LockoutAssumption
  <2> QED BY <1>3, <2>1
<1> QED BY <1>1, <1>2, <1>4 DEF LockoutInv, ShapeOK, Placed, WriterOK

\* Every attempt goes on where it was, with the rows it locked as they were, or
\* is not between its SELECT and its INSERT.
LEMMA LockoutQuiet ==
    ASSUME LockoutInv, TypeOK', RowOK',
           \A q \in Procs :
              \/ /\ proc'[q] = proc[q]
                 /\ \A k \in Keys : lock[k] = q => lock'[k] = q /\ row'[k] = row[k]
              \/ Placed(proc'[q]) /\ proc'[q].pc # "write"
    PROVE  LockoutInv'
<1> USE DEF LockoutInv
<1>1. ShapeOK'
  BY DEF ShapeOK
<1>2. WriterOK'
  <2> SUFFICES ASSUME NEW q \in Procs, proc'[q].pc = "write"
               PROVE  \/ ~Found(proc'[q]) /\ proc'[q].count = 1
                      \/ /\ Found(proc'[q]) /\ lock'[Head(proc'[q].todo)] = q
                         /\ Current(proc'[q], row'[Head(proc'[q].todo)], Head(proc'[q].todo))
    BY DEF WriterOK, Key
  <2>1. /\ proc'[q] = proc[q] /\ proc[q].todo # <<>>
        /\ \A k \in Keys : lock[k] = q => lock'[k] = q /\ row'[k] = row[k]
    BY DEF ShapeOK, Placed
  <2>2. Head(proc[q].todo) \in Keys
    BY <2>1, KeyOK DEF Key
  <2>3. \/ ~Found(proc[q]) /\ proc[q].count = 1
        \/ /\ Found(proc[q]) /\ lock[Head(proc[q].todo)] = q
           /\ Current(proc[q], row[Head(proc[q].todo)], Head(proc[q].todo))
    BY <2>1 DEF WriterOK, Key
  <2> QED BY <2>1, <2>2, <2>3
<1> QED BY <1>1, <1>2

-----------------------------------------------------------------------------
(* The steps.                                                              *)

LEMMA GoOnOK ==
    ASSUME TypeOK, NEW p \in Procs, NEW pc \in {"fail", "reset"}, NEW todo \in Todo
    PROVE  GoOn(p, pc, todo) \in Process /\ Placed(GoOn(p, pc, todo)) /\ GoOn(p, pc, todo).pc # "write"
<1> DEFINE r == [Idle EXCEPT !.pc = pc, !.user = proc[p].user, !.ip = proc[p].ip, !.todo = todo]
<1>1. Placed(Idle) /\ Idle \in Process /\ Idle.pc # "write"
  BY IdleTyped DEF Placed
<1>2. proc[p].user \in Accounts \cup {None} /\ proc[p].ip \in IPs \cup {None}
  BY DEF TypeOK, Process
<1>3. r \in Process /\ r.pc = pc /\ r.todo = todo
  BY <1>1, <1>2 DEF Process, Todo
<1>4. GoOn(p, pc, todo) = IF todo = <<>> THEN Idle ELSE r
  BY DEF GoOn
<1> HIDE DEF r
<1>5. todo # <<>> => Placed(r)
  BY <1>3 DEF Placed
<1> QED BY <1>1, <1>3, <1>4, <1>5

\* A step of p after which it holds no row, and of the rows only one that it
\* locked, or that nobody did, has changed.
LEMMA OneMoves ==
    ASSUME LockoutInv, NEW p \in Procs, NEW r \in Process, proc' = [proc EXCEPT ![p] = r],
           Placed(r), r.pc # "write",
           row' \in [Keys -> Row], lock' \in [Keys -> Procs \cup {None}], RowOK',
           \A k \in Keys : lock[k] \notin {None, p} => lock'[k] = lock[k] /\ row'[k] = row[k]
    PROVE  LockoutInv'
<1>1. TypeOK' /\ proc'[p] = r /\ \A q \in Procs \ {p} : proc'[q] = proc[q]
  BY DEF LockoutInv, TypeOK
<1>2. \A q \in Procs : q # None
  BY LockoutAssumption
<1> QED BY <1>1, <1>2, LockoutQuiet

LEMMA CheckKeeps ==
    ASSUME LockoutInv, NEW p \in Procs,
           \/ \E a \in Accounts, ip \in IPs \cup {None} : CheckUser(p, a, ip)
           \/ CheckIP(p) \/ Fail(p)
    PROVE  LockoutInv'
<1>1. TypeOK /\ ShapeOK /\ RowOK
  BY DEF LockoutInv
<1>2. Placed(Idle)
  BY IdleTyped DEF Placed
<1>3. ASSUME NEW r \in Process, proc' = [proc EXCEPT ![p] = r], Placed(r), r.pc # "write",
             UNCHANGED <<row, lock>>
      PROVE  LockoutInv'
  <2>1. RowOK' /\ row' \in [Keys -> Row] /\ lock' \in [Keys -> Procs \cup {None}]
    BY <1>1, <1>3 DEF RowOK, TypeOK
  <2> QED BY <1>3, <2>1, OneMoves
<1>4. ASSUME NEW a \in Accounts, NEW ip \in IPs \cup {None}, CheckUser(p, a, ip) PROVE LockoutInv'
  <2> DEFINE r == [Idle EXCEPT !.pc = "check", !.user = a, !.ip = ip]
  <2>1. r \in Process /\ r.pc = "check" /\ r.user = a
    BY IdleTyped DEF Process
  <2>2. proc' = [proc EXCEPT ![p] = r] /\ UNCHANGED <<row, lock>>
    BY <1>4 DEF CheckUser
  <2> HIDE DEF r
  <2>3. Placed(r)
    BY <2>1 DEF Placed
  <2> QED BY <1>3, <2>1, <2>2, <2>3
<1>5. CASE CheckIP(p)
  <2> DEFINE todo == IfEnabled(proc[p].user) \o IfEnabled(proc[p].ip)
  <2>1. proc[p].user \in Accounts /\ proc[p].ip \in IPs \cup {None}
    BY <1>1, <1>5 DEF CheckIP, ShapeOK, Placed, TypeOK, Process
  <2>2. todo \in Todo
    BY <2>1, TodoOK
  <2>3. UNCHANGED <<row, lock>>
    BY <1>5 DEF CheckIP
  <2>4. \/ proc' = [proc EXCEPT ![p] = Idle]
        \/ \E outcome \in {"fail", "reset"} : proc' = [proc EXCEPT ![p] = GoOn(p, outcome, todo)]
    BY <1>5 DEF CheckIP
  <2> HIDE DEF todo
  <2>5. CASE proc' = [proc EXCEPT ![p] = Idle]
    BY <1>2, <1>3, <2>3, <2>5, IdleTyped
  <2>6. ASSUME NEW outcome \in {"fail", "reset"}, proc' = [proc EXCEPT ![p] = GoOn(p, outcome, todo)]
        PROVE  LockoutInv'
    <3> DEFINE r == GoOn(p, outcome, todo)
    <3>1. r \in Process /\ Placed(r) /\ r.pc # "write" /\ proc' = [proc EXCEPT ![p] = r]
      BY <1>1, <2>2, <2>6, GoOnOK
    <3> HIDE DEF r
    <3> QED BY <1>3, <2>3, <3>1
  <2> QED BY <2>4, <2>5, <2>6
<1>6. CASE Fail(p)
  <2>1. lock' \in [Keys -> Procs \cup {None}] /\ \A k \in Keys : lock[k] # p => lock'[k] = lock[k]
    BY <1>1, <1>6 DEF Fail, TypeOK
  <2>2. proc' = [proc EXCEPT ![p] = Idle] /\ UNCHANGED row
    BY <1>6 DEF Fail
  <2>3. RowOK' /\ row' \in [Keys -> Row]
    BY <1>1, <2>2 DEF RowOK, TypeOK
  <2> QED BY <1>2, <2>1, <2>2, <2>3, IdleTyped, OneMoves
<1> QED BY <1>4, <1>5, <1>6

\* Who finds a row locks it, and counts from what it reads there.
LEMMA SelectKeeps ==
    ASSUME LockoutInv, NEW p \in Procs, FailSelect(p)
    PROVE  LockoutInv'
<1> DEFINE k == Key(p)
           c == (IF row[k].count = 0 \/ Lapsed(k) THEN 0 ELSE row[k].count) + 1
           b == row[k].count > 0
           r == [proc[p] EXCEPT !.pc = "write", !.found = b, !.count = c, !.age = 0]
<1>1. TypeOK /\ ShapeOK /\ RowOK /\ WriterOK /\ proc[p] \in Process /\ proc[p].todo # <<>>
  BY DEF LockoutInv, TypeOK, ShapeOK, Placed, FailSelect
<1>2. k \in Keys /\ row[k] \in Row
  BY <1>1, KeyOK DEF TypeOK
<1>3. row[k].count \in Nat /\ row[k].age \in Nat /\ row[k].left \in Nat /\ Params(k).window \in Nat /\ MaxCount \in Nat
  BY <1>2, ParamsOK, LockoutAssumption DEF Row
<1>4. c \in 1..MaxCount /\ lock[k] = None
  <2>1. c \in Nat /\ c >= 1
    BY <1>3
  <2>2. c <= MaxCount /\ lock[k] = None
    BY DEF FailSelect
  <2> QED BY <1>3, <2>1, <2>2
<1>5. b \in BOOLEAN /\ (b <=> row[k].count > 0)
  OBVIOUS
<1>6. \/ row[k].count = 0 /\ c = 1
      \/ row[k].count > 0 /\ (c = row[k].count + 1 \/ (row[k].age > Params(k).window /\ c = 1))
  BY <1>3 DEF Lapsed
<1>7. /\ lock' = [lock EXCEPT ![k] = IF row[k].count = 0 THEN None ELSE p]
      /\ proc' = [proc EXCEPT ![p] = r] /\ UNCHANGED row
  BY <1>1 DEF FailSelect, TypeOK
<1> HIDE DEF b, c
<1>8. r \in Process /\ r.pc = "write" /\ r.todo = proc[p].todo /\ r.count = c /\ r.age = 0
  <2>1. c \in 0..MaxCount /\ 0 \in 0..Slow
    BY <1>3, <1>4, LockoutAssumption
  <2> QED BY <1>1, <1>5, <2>1 DEF Process
<1>9. Found(r) <=> row[k].count > 0
  <2>1. r.found = b
    BY <1>1 DEF Process
  <2> HIDE DEF r
  <2>2. Found(r) <=> b
    BY <2>1, Zenon DEF Found
  <2> QED BY <1>5, <2>2
<1> HIDE DEF r, k
<1>10. proc'[p] = r /\ \A q \in Procs \ {p} : proc'[q] = proc[q]
  BY <1>1, <1>7 DEF TypeOK
<1>11. /\ lock' \in [Keys -> Procs \cup {None}] /\ lock'[k] = (IF row[k].count = 0 THEN None ELSE p)
       /\ \A j \in Keys \ {k} : lock'[j] = lock[j]
  BY <1>1, <1>2, <1>7 DEF TypeOK
<1>12. TypeOK'
  BY <1>1, <1>7, <1>8, <1>11 DEF TypeOK
<1>13. ShapeOK'
  BY <1>1, <1>8, <1>10 DEF ShapeOK, Placed
<1>14. RowOK'
  BY <1>1, <1>7 DEF RowOK
<1>15. WriterOK'
  <2> SUFFICES ASSUME NEW q \in Procs, proc'[q].pc = "write"
               PROVE  \/ ~Found(proc'[q]) /\ proc'[q].count = 1
                      \/ /\ Found(proc'[q]) /\ lock'[Head(proc'[q].todo)] = q
                         /\ Current(proc'[q], row'[Head(proc'[q].todo)], Head(proc'[q].todo))
    BY DEF WriterOK, Key
  <2>1. CASE q = p
    <3>1. Head(proc'[q].todo) = k /\ proc'[q] = r
      BY <1>8, <1>10, <2>1 DEF k, Key
    <3>2. CASE row[k].count = 0
      BY <1>6, <1>8, <1>9, <3>1, <3>2
    <3>3. CASE row[k].count > 0
      <4>1. row[k].left + 0 <= ComputeBackoff(row[k].count, Params(k))
        BY <1>1, <1>2, <1>3 DEF RowOK
      <4>2. Current(r, row[k], k)
        BY <1>6, <1>8, <3>3, <4>1 DEF Current
      <4> QED BY <1>7, <1>9, <1>11, <2>1, <3>1, <3>3, <4>2
    <3> QED BY <1>3, <3>2, <3>3
  <2>2. CASE q # p
    <3>1. proc'[q] = proc[q] /\ proc[q].todo # <<>>
      BY <1>1, <1>10, <2>2 DEF ShapeOK, Placed
    <3>2. Head(proc[q].todo) \in Keys /\ q # None
      BY <1>1, <3>1, KeyOK, LockoutAssumption DEF Key
    <3>3. \/ ~Found(proc[q]) /\ proc[q].count = 1
          \/ /\ Found(proc[q]) /\ lock[Head(proc[q].todo)] = q
             /\ Current(proc[q], row[Head(proc[q].todo)], Head(proc[q].todo))
      BY <1>1, <3>1 DEF WriterOK, Key
    <3> QED BY <1>4, <1>7, <1>11, <3>1, <3>2, <3>3
  <2> QED BY <2>1, <2>2
<1> QED BY <1>12, <1>13, <1>14, <1>15 DEF LockoutInv

\* What RecordFailure writes.
LEMMA WriteStep ==
    ASSUME LockoutInv, NEW p \in Procs, FailWrite(p)
    PROVE  /\ Key(p) \in Keys /\ proc[p].pc = "write" /\ proc[p].count \in 0..MaxCount /\ proc[p].age \in Nat
           /\ lock[Key(p)] \in {None, p}
           /\ row' \in [Keys -> Row] /\ \A j \in Keys \ {Key(p)} : row'[j] = row[j]
           /\ row'[Key(p)].count = proc[p].count
           /\ row'[Key(p)].left = Later(ComputeBackoff(proc[p].count, Params(Key(p))) - proc[p].age, 0)
<1> DEFINE k == Key(p)
           B == ComputeBackoff(proc[p].count, Params(k))
           x == [count |-> proc[p].count, age |-> Sooner(proc[p].age, MaxWindow + 1), left |-> Later(B - proc[p].age, 0)]
<1>1. TypeOK /\ proc[p] \in Process /\ proc[p].todo # <<>> /\ proc[p].pc = "write" /\ lock[k] \in {None, p}
  BY DEF LockoutInv, TypeOK, ShapeOK, Placed, FailWrite
<1>2. k \in Keys
  BY <1>1, KeyOK
<1>3. proc[p].count \in 0..MaxCount /\ proc[p].age \in Nat
  BY <1>1, LockoutAssumption DEF Process
<1>4. B \in 0..Params(k).max /\ Params(k).max \in Nat /\ Params(k).max <= MaxBackoff /\ MaxBackoff \in Nat /\ MaxWindow \in Nat
  BY <1>3, BackoffRange, ParamsOK
<1>5. row' = [row EXCEPT ![k] = x]
  BY DEF FailWrite
<1> HIDE DEF B, k
<1>6. Later(B - proc[p].age, 0) \in 0..MaxBackoff /\ Sooner(proc[p].age, MaxWindow + 1) \in 0..(MaxWindow + 1)
  BY <1>3, <1>4 DEF Later, Sooner
<1>7. x \in Row
  BY <1>3, <1>6 DEF Row
<1>8. x.count = proc[p].count /\ x.left = Later(B - proc[p].age, 0)
  OBVIOUS
<1> HIDE DEF x
<1>9. row' \in [Keys -> Row] /\ row'[k] = x /\ \A j \in Keys \ {k} : row'[j] = row[j]
  BY <1>1, <1>2, <1>5, <1>7 DEF TypeOK
<1> QED BY <1>1, <1>2, <1>3, <1>8, <1>9 DEF k, B

LEMMA WriteKeeps ==
    ASSUME LockoutInv, NEW p \in Procs, FailWrite(p) \/ Reset(p)
    PROVE  LockoutInv'
<1> DEFINE k == Key(p)
<1>1. TypeOK /\ RowOK /\ proc[p] \in Process /\ proc[p].todo # <<>>
  BY DEF LockoutInv, TypeOK, ShapeOK, Placed, FailWrite, Reset
<1>2. k \in Keys /\ Tail(proc[p].todo) \in Todo
  BY <1>1, KeyOK
<1>3. ASSUME NEW pc \in {"fail", "reset"}, proc' = [proc EXCEPT ![p] = GoOn(p, pc, Tail(proc[p].todo))],
             row' \in [Keys -> Row], lock' \in [Keys -> Procs \cup {None}], lock[k] \in {None, p},
             \A j \in Keys \ {k} : row'[j] = row[j] /\ lock'[j] = lock[j],
             row'[k].left <= ComputeBackoff(row'[k].count, Params(k))
      PROVE  LockoutInv'
  <2> DEFINE r == GoOn(p, pc, Tail(proc[p].todo))
  <2>1. r \in Process /\ Placed(r) /\ r.pc # "write" /\ proc' = [proc EXCEPT ![p] = r]
    BY <1>1, <1>2, <1>3, GoOnOK
  <2> HIDE DEF r
  <2>2. \A j \in Keys : row'[j].left <= ComputeBackoff(row'[j].count, Params(j))
    <3> SUFFICES ASSUME NEW j \in Keys PROVE row'[j].left <= ComputeBackoff(row'[j].count, Params(j))
      OBVIOUS
    <3>1. CASE j = k
      BY <1>3, <3>1
    <3>2. CASE j # k
      BY <1>1, <1>3, <3>2 DEF RowOK
    <3> QED BY <3>1, <3>2
  <2>3. RowOK'
    BY <2>2 DEF RowOK
  <2>4. \A j \in Keys : lock[j] \notin {None, p} => lock'[j] = lock[j] /\ row'[j] = row[j]
    BY <1>3
  <2> QED BY <1>3, <2>1, <2>3, <2>4, OneMoves
<1>4. CASE FailWrite(p)
  <2> DEFINE B == ComputeBackoff(proc[p].count, Params(k))
  <2>1. /\ proc[p].count \in 0..MaxCount /\ proc[p].age \in Nat /\ lock[k] \in {None, p}
        /\ row' \in [Keys -> Row] /\ \A j \in Keys \ {k} : row'[j] = row[j]
        /\ row'[k].count = proc[p].count /\ row'[k].left = Later(B - proc[p].age, 0)
    BY <1>4, WriteStep
  <2>2. lock' \in [Keys -> Procs \cup {None}] /\ \A j \in Keys \ {k} : lock'[j] = lock[j]
    BY <1>1, <1>2, <1>4 DEF FailWrite, TypeOK
  <2>3. proc' = [proc EXCEPT ![p] = GoOn(p, "fail", Tail(proc[p].todo))]
    BY <1>4 DEF FailWrite
  <2>4. B \in Nat
    BY <2>1, BackoffRange, ParamsOK
  <2>5. row'[k].left <= B
    <3> HIDE DEF B
    <3> QED BY <2>1, <2>4 DEF Later
  <2> QED BY <1>3, <2>1, <2>2, <2>3, <2>5
<1>5. CASE Reset(p)
  <2>1. /\ row' = [row EXCEPT ![k] = NoRow] /\ lock[k] = None /\ UNCHANGED lock
        /\ proc' = [proc EXCEPT ![p] = GoOn(p, "reset", Tail(proc[p].todo))]
    BY <1>5 DEF Reset
  <2>2. row' \in [Keys -> Row] /\ row'[k] = NoRow /\ \A j \in Keys \ {k} : row'[j] = row[j]
    BY <1>1, <1>2, <2>1, IdleTyped DEF TypeOK
  <2>3. ComputeBackoff(0, Params(k)) \in Nat
    BY BackoffRange, ParamsOK, LockoutAssumption
  <2>4. row'[k].left <= ComputeBackoff(row'[k].count, Params(k))
    BY <2>2, <2>3, IdleTyped
  <2> QED BY <1>1, <1>3, <2>1, <2>2, <2>4 DEF TypeOK
<1> QED BY <1>4, <1>5

\* Time shortens a lockout as fast as it ages an attempt that is writing.
LEMMA TickKeeps ==
    ASSUME LockoutInv, Tick
    PROVE  LockoutInv'
<1> DEFINE x(k) == [count |-> row[k].count, age |-> Sooner(row[k].age, MaxWindow) + 1, left |-> Later(row[k].left - 1, 0)]
<1>1. TypeOK /\ ShapeOK /\ RowOK /\ WriterOK
  BY DEF LockoutInv
<1>2. MaxWindow \in Nat /\ MaxBackoff \in Nat /\ MaxCount \in Nat /\ Slow \in Nat
  BY ParamsOK, LockoutAssumption
<1>3. \A k \in Keys : row[k] \in Row /\ row[k].count \in 0..MaxCount /\ row[k].age \in Nat /\ row[k].left \in 0..MaxBackoff
  BY <1>1, <1>2 DEF TypeOK, Row
<1>4. \A k \in Keys : row'[k] = IF row[k].count = 0 THEN NoRow ELSE x(k)
  BY DEF Tick
<1>5. \A k \in Keys : x(k) \in Row
  <2> SUFFICES ASSUME NEW k \in Keys PROVE x(k) \in Row
    OBVIOUS
  <2>1. Sooner(row[k].age, MaxWindow) + 1 \in 0..(MaxWindow + 1) /\ Later(row[k].left - 1, 0) \in 0..MaxBackoff
    BY <1>2, <1>3 DEF Sooner, Later
  <2> QED BY <1>3, <2>1 DEF Row
<1>6. \A k \in Keys : x(k).count = row[k].count /\ x(k).age = Sooner(row[k].age, MaxWindow) + 1
                      /\ x(k).left = Later(row[k].left - 1, 0)
  OBVIOUS
<1> HIDE DEF x
<1>7. row' \in [Keys -> Row]
  BY <1>4, <1>5, IdleTyped DEF Tick
<1>8. \A q \in Procs : proc'[q] = IF proc[q].pc = "write" THEN [proc[q] EXCEPT !.age = @ + 1] ELSE proc[q]
  BY DEF Tick
<1>9. ASSUME NEW q \in Procs
      PROVE  /\ proc'[q] \in Process /\ proc'[q].pc = proc[q].pc /\ proc'[q].user = proc[q].user
             /\ proc'[q].todo = proc[q].todo /\ proc'[q].count = proc[q].count
             /\ Found(proc'[q]) <=> Found(proc[q])
             /\ proc[q].pc = "write" => proc'[q].age = proc[q].age + 1
  <2> DEFINE y == [proc[q] EXCEPT !.age = @ + 1]
  <2>1. proc[q] \in Process
    BY <1>1 DEF TypeOK
  <2>2. CASE proc[q].pc = "write"
    <3>1. proc[q].age + 1 \in 0..Slow
      BY <1>2, <2>1, <2>2 DEF Tick, Process
    <3>2. y \in Process /\ y.pc = proc[q].pc /\ y.user = proc[q].user
          /\ y.todo = proc[q].todo /\ y.count = proc[q].count /\ y.age = proc[q].age + 1
      BY <2>1, <3>1 DEF Process
    <3>3. y.found = proc[q].found
      BY <2>1 DEF Process
    <3>4. proc'[q] = y
      BY <1>8, <2>2
    <3> HIDE DEF y
    <3>5. Found(y) <=> Found(proc[q])
      BY <3>3, Zenon DEF Found
    <3> QED BY <3>2, <3>4, <3>5
  <2>3. CASE proc[q].pc # "write"
    BY <1>8, <2>1, <2>3
  <2> QED BY <2>2, <2>3
<1>10. proc' \in [Procs -> Process] /\ UNCHANGED lock
  BY <1>9 DEF Tick
<1>11. TypeOK'
  BY <1>1, <1>7, <1>10 DEF TypeOK
<1>12. ShapeOK'
  BY <1>1, <1>9 DEF ShapeOK, Placed
<1>13. RowOK'
  <2> SUFFICES ASSUME NEW k \in Keys
               PROVE  row'[k].left <= ComputeBackoff(row'[k].count, Params(k))
    BY DEF RowOK
  <2>1. ComputeBackoff(row[k].count, Params(k)) \in Nat /\ ComputeBackoff(0, Params(k)) \in Nat
    BY <1>2, <1>3, BackoffRange, ParamsOK
  <2>2. row[k].left <= ComputeBackoff(row[k].count, Params(k))
    BY <1>1 DEF RowOK
  <2>3. CASE row[k].count = 0
    BY <1>4, <2>1, <2>3, IdleTyped
  <2>4. CASE row[k].count # 0
    <3>1. row'[k].count = row[k].count /\ row'[k].left = Later(row[k].left - 1, 0)
      BY <1>4, <1>6, <2>4
    <3>2. Later(row[k].left - 1, 0) <= ComputeBackoff(row[k].count, Params(k))
      BY <1>3, <2>1, <2>2 DEF Later
    <3> QED BY <3>1, <3>2
  <2> QED BY <2>3, <2>4
<1>14. WriterOK'
  <2> SUFFICES ASSUME NEW q \in Procs, proc'[q].pc = "write"
               PROVE  \/ ~Found(proc'[q]) /\ proc'[q].count = 1
                      \/ /\ Found(proc'[q]) /\ lock'[Head(proc'[q].todo)] = q
                         /\ Current(proc'[q], row'[Head(proc'[q].todo)], Head(proc'[q].todo))
    BY DEF WriterOK, Key
  <2> DEFINE k == Head(proc[q].todo)
  <2>1. /\ proc[q].pc = "write" /\ proc[q].todo # <<>> /\ proc'[q].todo = proc[q].todo
        /\ proc'[q].count = proc[q].count /\ proc'[q].age = proc[q].age + 1
        /\ Found(proc'[q]) <=> Found(proc[q])
    BY <1>1, <1>9 DEF ShapeOK, Placed
  <2>2. k \in Keys
    BY <1>1, <2>1, KeyOK DEF Key
  <2>3. \/ ~Found(proc[q]) /\ proc[q].count = 1
        \/ Found(proc[q]) /\ lock[k] = q /\ Current(proc[q], row[k], k)
    BY <1>1, <2>1 DEF WriterOK, Key
  <2>4. ASSUME Current(proc[q], row[k], k) PROVE Current(proc'[q], row'[k], k)
    <3> HIDE DEF k
    <3>1. row[k].count > 0 /\ row'[k].count = row[k].count
          /\ row'[k].age = Sooner(row[k].age, MaxWindow) + 1 /\ row'[k].left = Later(row[k].left - 1, 0)
      BY <1>3, <1>4, <1>6, <2>2, <2>4 DEF Current
    <3>2. Params(k).window \in Nat /\ Params(k).window <= MaxWindow
      BY ParamsOK
    <3>3. row[k].age > Params(k).window => row'[k].age > Params(k).window
      BY <1>2, <1>3, <2>2, <3>1, <3>2 DEF Sooner
    <3>4. proc[q].age \in Nat /\ ComputeBackoff(row[k].count, Params(k)) \in Nat
      <4>1. proc[q].age \in Nat
        BY <1>1, <1>2 DEF TypeOK, Process
      <4>2. ComputeBackoff(row[k].count, Params(k)) \in 0..Params(k).max /\ Params(k).max \in Nat
        BY <1>3, <2>2, BackoffRange, ParamsOK
      <4> QED BY <4>1, <4>2
    <3>5. row'[k].left = 0 \/ row'[k].left + proc'[q].age <= ComputeBackoff(row[k].count, Params(k))
      <4>1. row[k].left = 0 \/ row[k].left + proc[q].age <= ComputeBackoff(row[k].count, Params(k))
        BY <2>4 DEF Current
      <4>2. row[k].left \in Nat
        BY <1>3, <2>2
      <4> QED BY <2>1, <3>1, <3>4, <4>1, <4>2 DEF Later
    <3> QED BY <2>1, <2>4, <3>1, <3>3, <3>5 DEF Current
  <2> QED BY <1>10, <2>1, <2>3, <2>4
<1> QED BY <1>11, <1>12, <1>13, <1>14 DEF LockoutInv

LEMMA LockoutNext == LockoutInv /\ [Next]_vars => LockoutInv'
<1> SUFFICES ASSUME LockoutInv, [Next]_vars PROVE LockoutInv'
  OBVIOUS
<1>1. CASE UNCHANGED vars
  BY <1>1 DEF vars, LockoutInv, TypeOK, ShapeOK, RowOK, WriterOK, Key
<1> QED BY <1>1, CheckKeeps, SelectKeeps, WriteKeeps, TickKeeps DEF Next, Step

-----------------------------------------------------------------------------
(* The theorems.                                                           *)

\* Every reachable state has the types of the table and of the attempts' local
\* variables.
THEOREM LockoutTypes == Spec => []TypeOK
<1>1. LockoutInv => TypeOK
  BY DEF LockoutInv
<1> QED BY <1>1, LockoutInit, LockoutNext, PTL DEF Spec

\* RecordFailure writes a count it read under the row lock, however many
\* attempts fail or succeed at once for the same key.
THEOREM CountsAreCurrent == Spec => []CountReadIsCurrent
<1>1. LockoutInv => CountReadIsCurrent
  <2> SUFFICES ASSUME LockoutInv, NEW p \in Procs, proc[p].pc = "write", proc[p].found
               PROVE  /\ row[Key(p)].count > 0
                      /\ proc[p].count = row[Key(p)].count + 1 \/ (Lapsed(Key(p)) /\ proc[p].count = 1)
    BY DEF CountReadIsCurrent
  <2>1. Found(proc[p])
    BY Zenon DEF Found
  <2>2. Current(proc[p], row[Key(p)], Key(p))
    BY <2>1 DEF LockoutInv, WriterOK
  <2> QED BY <2>2 DEF Current, Lapsed
<1> QED BY <1>1, LockoutInit, LockoutNext, PTL DEF Spec

\* A failure that raises the count never shortens the lockout in force: not when
\* its statements are slow, not at the cap and not past the overflow.
THEOREM LocksGrow == Spec => MoreFailuresLockLonger
<1> DEFINE A == \A k \in Keys : row'[k].count > row[k].count /\ row[k].count > 0 =>
                    row'[k].left >= row[k].left
<1>1. LockoutInv /\ [Next]_vars => [A]_vars
  <2> SUFFICES ASSUME LockoutInv, Next, NEW k \in Keys, row'[k].count > row[k].count, row[k].count > 0
               PROVE  row'[k].left >= row[k].left
    OBVIOUS
  <2>1. TypeOK /\ row[k] \in Row /\ row[k].count \in Nat /\ row[k].left \in Nat
    <3>1. MaxBackoff \in Nat /\ MaxCount \in Nat
      BY ParamsOK, LockoutAssumption
    <3> QED BY <3>1 DEF LockoutInv, TypeOK, Row
  <2>2. ASSUME NEW p \in Procs, FailWrite(p) PROVE row'[k].left >= row[k].left
    <3>1. /\ Key(p) \in Keys /\ proc[p].pc = "write" /\ proc[p].count \in 0..MaxCount /\ proc[p].age \in Nat
          /\ \A j \in Keys \ {Key(p)} : row'[j] = row[j]
          /\ row'[Key(p)].count = proc[p].count
          /\ row'[Key(p)].left = Later(ComputeBackoff(proc[p].count, Params(Key(p))) - proc[p].age, 0)
      BY <2>2, WriteStep
    <3>2. k = Key(p)
      BY <2>1, <3>1
    <3>3. proc[p].count > row[k].count /\ MaxCount \in Nat
      BY <3>1, <3>2, LockoutAssumption
    <3>4. Current(proc[p], row[k], k)
      BY <2>1, <3>1, <3>2, <3>3 DEF LockoutInv, WriterOK
    <3>5. proc[p].count = row[k].count + 1
      BY <2>1, <3>3, <3>4 DEF Current
    <3>6. row[k].count \in 0..MaxCount /\ row[k].count + 1 \in 0..MaxCount /\ Params(k) \in AllParams
      BY <2>1, <3>1, <3>3, <3>5, ParamsOK
    <3> DEFINE B == ComputeBackoff(row[k].count, Params(k))
               C == ComputeBackoff(row[k].count + 1, Params(k))
    <3>7. B <= C /\ B \in 0..Params(k).max /\ C \in 0..Params(k).max /\ Params(k).max \in Nat
      BY <3>6, BackoffGrows, BackoffRange, ParamsOK
    <3>8. row[k].left = 0 \/ row[k].left + proc[p].age <= B
      BY <3>4 DEF Current
    <3>9. row'[k].left = Later(C - proc[p].age, 0)
      BY <3>1, <3>2, <3>5
    <3> HIDE DEF B, C
    <3> QED BY <2>1, <3>1, <3>7, <3>8, <3>9 DEF Later
  <2>3. ASSUME NEW p \in Procs, Reset(p) PROVE FALSE
    <3>1. Key(p) \in Keys
      BY <2>1, <2>3, KeyOK DEF LockoutInv, ShapeOK, Placed, Reset
    <3>2. row'[k] = row[k] \/ row'[k] = NoRow
      BY <2>1, <2>3, <3>1 DEF Reset, TypeOK
    <3> QED BY <2>1, <3>2, IdleTyped
  <2>4. CASE Tick
    <3>1. row'[k].count = row[k].count
      BY <2>1, <2>4 DEF Tick
    <3> QED BY <2>1, <3>1
  <2>5. ASSUME NEW p \in Procs,
               \/ \E a \in Accounts, ip \in IPs \cup {None} : CheckUser(p, a, ip)
               \/ CheckIP(p) \/ FailSelect(p) \/ Fail(p)
        PROVE  UNCHANGED row
    BY <2>5 DEF CheckUser, CheckIP, FailSelect, Fail
  <2>6. CASE UNCHANGED row
    BY <2>1, <2>6
  <2> QED BY <2>2, <2>3, <2>4, <2>5, <2>6 DEF Next, Step
<1> QED BY <1>1, LockoutInit, LockoutNext, PTL DEF Spec, MoreFailuresLockLonger
=============================================================================

------------------------------ MODULE Lockouts ------------------------------
(***************************************************************************)
(* The brute-force backoff: the login_lockouts table, LockoutStore and     *)
(* RateLimiter, with the attempts (logins, LDAP binds, token requests)     *)
(* that ask it and report to it.  Each limiter has its own key prefix, so  *)
(* one instance of this module is one limiter: login's or /token's, but    *)
(* not that of reset requests, which are recorded even when refused.       *)
(*                                                                         *)
(* Attempts run concurrently on any replica: an action is one statement,   *)
(* or the part of RecordFailure's transaction up to or after its           *)
(* SELECT ... FOR UPDATE, which locks the row if there is one and nothing  *)
(* otherwise.  Instants are kept relative to the present: `left` is the    *)
(* time until locked_until, `age` the time since last_failure_at.          *)
(***************************************************************************)
EXTENDS Integers, Sequences

CONSTANTS
    Accounts, IPs,
    Procs,              \* attempts under way
    None,               \* no process; an IP that could not be resolved
    UserParams,         \* LockoutParams of the account dimension
    IPParams,           \* LockoutParams of the IP dimension
    Width,              \* bits of a time.Duration
    Slow,               \* bound: the longest time from RecordFailure's SELECT to its INSERT
    MaxCount            \* bound: failures counted for a key

VARIABLES
    row,                \* login_lockouts
    lock,               \* the attempt whose transaction locks the row
    proc                \* the local variables of each attempt

vars == <<row, lock, proc>>

Keys == Accounts \cup IPs
Params(k) == IF k \in Accounts THEN UserParams ELSE IPParams

\* RateLimiter skips an empty key and a dimension that is disabled.
Enabled(k) == k # None /\ Params(k).threshold > 0
IfEnabled(k) == IF Enabled(k) THEN <<k>> ELSE <<>>

\* Two's-complement arithmetic.
Wrap(x) ==
    LET r == x % 2^Width IN IF r >= 2^(Width - 1) THEN r - 2^Width ELSE r

Product(n, p) == Wrap(p.base * Wrap(2^n))

ASSUME LockoutAssumption ==
    /\ Accounts \cap IPs = {} /\ None \notin Keys \cup Procs
    /\ Width \in Nat \ {0} /\ Slow \in Nat /\ MaxCount \in Nat
    /\ \A p \in {UserParams, IPParams} :
          /\ p.threshold \in Int
          /\ p.base \in Nat \ {0} /\ p.max \in Nat /\ p.window \in Nat
          /\ p.max >= p.base /\ p.max < 2^(Width - 1)
          \* A product that has wrapped around is not mistaken for a short backoff.
          /\ \A n \in 0..MaxCount : Product(n, p) \in 1..p.max => Product(n, p) = p.base * 2^n

\* Arithmetic, spelled out for the provers, which know nothing of powers.
ASSUME PowerAssumption ==
    /\ \A n \in 0..MaxCount : 2^n \in Nat \ {0} /\ 2^(n + 1) = 2 * 2^n
    /\ 2^(Width - 1) \in Nat \ {0} /\ 2^Width = 2 * 2^(Width - 1)

\* Wrong variant: an overflow is not noticed.
ComputeBackoff_NoOverflowCheck(count, p) ==
    LET backoff == Product(count - p.threshold - 1, p) IN
    IF p.threshold <= 0 \/ count <= p.threshold THEN 0
    ELSE IF backoff > p.max THEN p.max ELSE backoff

\* The lockout for the count-th failure; 0 for none.
ComputeBackoff(count, p) ==
    LET backoff == Product(count - p.threshold - 1, p) IN
    IF p.threshold <= 0 \/ count <= p.threshold THEN 0
    ELSE IF backoff > p.max \/ backoff <= 0 THEN p.max ELSE backoff

Later(a, b) == IF a > b THEN a ELSE b
Sooner(a, b) == IF a < b THEN a ELSE b
MaxBackoff == Later(UserParams.max, IPParams.max)
MaxWindow == Later(UserParams.window, IPParams.window)

\* A count of 0 is a key without a row; age stops once it is past any window.
Row == [count : 0..MaxCount, age : 0..(MaxWindow + 1), left : 0..MaxBackoff]
NoRow == [count |-> 0, age |-> 0, left |-> 0]

Process == [pc : {"idle", "check", "fail", "write", "reset"},
            user : Accounts \cup {None}, ip : IPs \cup {None},
            todo : {<<>>} \cup {<<k>> : k \in Keys} \cup (Accounts \X IPs),   \* keys to write
            found : BOOLEAN,                \* RecordFailure's SELECT returned a row
            count : 0..MaxCount, age : 0..Slow]
Idle == [pc |-> "idle", user |-> None, ip |-> None, todo |-> <<>>,
         found |-> FALSE, count |-> 0, age |-> 0]

TypeOK ==
    /\ row \in [Keys -> Row]
    /\ lock \in [Keys -> Procs \cup {None}]
    /\ proc \in [Procs -> Process]

Init ==
    /\ row = [k \in Keys |-> NoRow]
    /\ lock = [k \in Keys |-> None]
    /\ proc = [p \in Procs |-> Idle]

-----------------------------------------------------------------------------

\* Wrong variant: locked_until is not compared with the clock.
IsLocked_IgnoresClock(k) == Enabled(k) /\ row[k].count > Params(k).threshold

IsLocked(k) == Enabled(k) /\ row[k].left > 0

\* RateLimiter.IsLocked asks for the account, then for the IP; a locked-out
\* attempt is refused and leaves no trace.
CheckUser(p, a, ip) ==
    /\ proc[p].pc = "idle"
    /\ ~IsLocked(a)
    /\ proc' = [proc EXCEPT ![p] = [Idle EXCEPT !.pc = "check", !.user = a, !.ip = ip]]
    /\ UNCHANGED <<row, lock>>

\* The next of the keys still to be written, or the end of the attempt.
GoOn(p, pc, todo) ==
    IF todo = <<>> THEN Idle
    ELSE [Idle EXCEPT !.pc = pc, !.user = proc[p].user, !.ip = proc[p].ip, !.todo = todo]

\* Wrong variant: the dimensions are told in the other order.
CheckIP_IPFirst(p) ==
    /\ proc[p].pc = "check"
    /\ \/ /\ IsLocked(proc[p].ip)
          /\ proc' = [proc EXCEPT ![p] = Idle]
       \/ /\ ~IsLocked(proc[p].ip)
          /\ \E outcome \in {"fail", "reset"} :
                proc' = [proc EXCEPT ![p] =
                           GoOn(p, outcome, IfEnabled(@.ip) \o IfEnabled(@.user))]
    /\ UNCHANGED <<row, lock>>

\* The IP is asked for, then the password (or the client secret) turns out
\* wrong or right; each enabled dimension is told, the account first.
CheckIP(p) ==
    /\ proc[p].pc = "check"
    /\ \/ /\ IsLocked(proc[p].ip)
          /\ proc' = [proc EXCEPT ![p] = Idle]
       \/ /\ ~IsLocked(proc[p].ip)
          /\ \E outcome \in {"fail", "reset"} :
                proc' = [proc EXCEPT ![p] =
                           GoOn(p, outcome, IfEnabled(@.user) \o IfEnabled(@.ip))]
    /\ UNCHANGED <<row, lock>>

Key(p) == Head(proc[p].todo)

Lapsed(k) == row[k].age > Params(k).window

\* Wrong variant: SELECT without FOR UPDATE.
FailSelect_NoRowLock(p) ==
    LET k == Key(p)
        count == (IF row[k].count = 0 \/ Lapsed(k) THEN 0 ELSE row[k].count) + 1
    IN
    /\ proc[p].pc = "fail"
    /\ count <= MaxCount
    /\ proc' = [proc EXCEPT ![p].pc = "write", ![p].found = row[k].count > 0,
                            ![p].count = count, ![p].age = 0]
    /\ UNCHANGED <<row, lock>>

\* RecordFailure: SELECT ... FOR UPDATE, and the clock is read.
FailSelect(p) ==
    LET k == Key(p)
        count == (IF row[k].count = 0 \/ Lapsed(k) THEN 0 ELSE row[k].count) + 1
    IN
    /\ proc[p].pc = "fail"
    /\ lock[k] = None
    /\ count <= MaxCount
    /\ lock' = [lock EXCEPT ![k] = IF row[k].count = 0 THEN None ELSE p]
    /\ proc' = [proc EXCEPT ![p].pc = "write", ![p].found = row[k].count > 0,
                                ![p].count = count, ![p].age = 0]
    /\ UNCHANGED row

\* RecordFailure: INSERT ... ON CONFLICT DO UPDATE, which waits for a lock that
\* another attempt holds, and COMMIT.
FailWrite(p) ==
    LET k == Key(p)
        left == ComputeBackoff(proc[p].count, Params(k)) - proc[p].age
    IN
    /\ proc[p].pc = "write"
    /\ lock[k] \in {None, p}
    /\ row' = [row EXCEPT ![k] = [count |-> proc[p].count, age |-> Sooner(proc[p].age, MaxWindow + 1),
                                  left |-> Later(left, 0)]]
    /\ lock' = [lock EXCEPT ![k] = None]
    /\ proc' = [proc EXCEPT ![p] = GoOn(p, "fail", Tail(proc[p].todo))]

\* Reset: the DELETE waits for the row lock.
Reset(p) ==
    LET k == Key(p) IN
    /\ proc[p].pc = "reset"
    /\ lock[k] = None
    /\ row' = [row EXCEPT ![k] = NoRow]
    /\ proc' = [proc EXCEPT ![p] = GoOn(p, "reset", Tail(proc[p].todo))]
    /\ UNCHANGED lock

\* A statement fails or the replica dies: the dimensions not yet written are
\* not written, the open transaction rolls back.
Fail(p) ==
    /\ proc[p].pc # "idle"
    /\ lock' = [k \in Keys |-> IF lock[k] = p THEN None ELSE lock[k]]
    /\ proc' = [proc EXCEPT ![p] = Idle]
    /\ UNCHANGED row

Tick ==
    /\ \A p \in Procs : proc[p].pc = "write" => proc[p].age < Slow
    /\ row' = [k \in Keys |->
                 IF row[k].count = 0 THEN NoRow
                 ELSE [count |-> row[k].count, age |-> Sooner(row[k].age, MaxWindow) + 1,
                       left |-> Later(row[k].left - 1, 0)]]
    /\ proc' = [p \in Procs |->
                 IF proc[p].pc = "write" THEN [proc[p] EXCEPT !.age = @ + 1] ELSE proc[p]]
    /\ UNCHANGED lock

Step(p) == CheckIP(p) \/ FailSelect(p) \/ FailWrite(p) \/ Reset(p)

Next ==
    \/ \E p \in Procs, a \in Accounts, ip \in IPs \cup {None} : CheckUser(p, a, ip)
    \/ \E p \in Procs : Step(p) \/ Fail(p)
    \/ Tick

Spec == Init /\ [][Next]_vars

\* Time passes, and an attempt under way goes on: Postgres queues the waiters
\* of a row lock, so nobody waits for ever behind later ones.
FairSpec == Spec /\ WF_vars(Tick) /\ \A p \in Procs : SF_vars(Step(p))

-----------------------------------------------------------------------------
(* Properties.                                                             *)

\* RecordFailure writes a count it read under the row lock: until it commits,
\* no other failure and no reset slips in between its SELECT and its write.
CountReadIsCurrent ==
    \A p \in Procs : proc[p].pc = "write" /\ proc[p].found =>
        /\ row[Key(p)].count > 0
        /\ proc[p].count = row[Key(p)].count + 1 \/ (Lapsed(Key(p)) /\ proc[p].count = 1)

\* A failure that raises the count never shortens the lockout in force, at the
\* cap and past the overflow of the doubling included.
MoreFailuresLockLonger ==
    [][\A k \in Keys : row'[k].count > row[k].count /\ row[k].count > 0 =>
          row'[k].left >= row[k].left]_vars

\* A lockout ends by itself: attempts that are refused do not prolong it, and
\* those admitted before it began are too few to do so for ever.
LockoutEnds == \A k \in Keys : IsLocked(k) ~> ~IsLocked(k)

\* The doc of RecordFailure: it "increments the failure counter for key".
RecordFailureIncrements ==
    [][\A p \in Procs : FailWrite(p) =>
          Lapsed(Key(p)) \/ row'[Key(p)].count > row[Key(p)].count]_vars
=============================================================================

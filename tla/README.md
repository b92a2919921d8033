# DeclarativeAuth in TLA+

A verification project for DeclarativeAuth: an identity server whose users,
groups and OIDC clients are declared in YAML, and whose mutable state
(passwords, sessions, codes, keys, lockouts) lives in one Postgres shared by any
number of stateless replicas. The modules model that mutable state and
everything that touches it; TLC checks them on small instances and TLAPS proves
every invariant and action property for every instance. Paths below are relative to `src/`.

## 1. Inventory

| Component | State | Operations | Talks to |
|---|---|---|---|
| Credentials (`internal/store/credentials.go`) | `credentials`: Argon2id hash, NT hash, RID | Get, Upsert, SetNTHashIfMissing, AllSambaCredentials | `auth`, `web/reset`, `ldapserver`, CLI |
| Authenticator (`internal/auth/authenticate.go`) | none | rate-limit check, verify, NT-hash backfill, record failure or success | web login, LDAP bind |
| Password reset (`internal/web/reset.go`, `store/resettokens.go`) | `password_reset_tokens` | request, setup link, confirm (Consume, Upsert, Issue) | mail, credentials, sessions |
| Samba RIDs (`store/samba_groups.go`) | `samba_rid_seq`, `samba_group_rids` | EnsureRIDs during a privileged LDAP search | LDAP |
| Signing keys (`store/oidckeys.go`, `oidcserver/keys.go`) | `oidc_signing_keys`; a cache per replica | RotateIfDue, Refresh, Lookup, sign | maintenance tick, all token handlers |
| OIDC provider (`oidcserver/provider.go`) | none of its own | authorize, token (3 grants), userinfo, introspect, revoke, end_session | codes, sessions, keys, denylist, limiter |
| Codes (`store/oidccodes.go`) | `oidc_authorization_codes` | Insert, Redeem, DeleteExpired | provider, tick |
| Sessions (`store/sessions.go`, `web/session_cookie.go`) | `sessions`: web cookies and refresh tokens alike | Create, GetByID, RotateRefreshToken, Revoke | provider, web |
| Denylist (`store/oidcrevocations.go`) | `oidc_revoked_tokens` | Revoke, IsRevoked, DeleteExpired | provider, tick |
| Lockouts (`store/lockouts.go`, `auth/ratelimit.go`) | `login_lockouts` | IsLocked, RecordFailure, Reset, ComputeBackoff | authenticator, `/token`, reset requests |
| Login codes (`store/mfa.go`, `web/mfa.go`) | e-mail challenges, per-user switch | Create, Verify, Peek, Delete, resend | login |
| Passkeys (`store/webauthn.go`, `web/webauthn.go`) | credentials, ceremonies | register, login, delete | login |
| Hot reload (`config/watcher.go`, `holder.go`, `diff.go`) | atomic snapshot pointer | watch, debounce, reload, rollback on error | everyone reads the snapshot |
| Identity (`config/loader.go`, `identity/`) | immutable snapshot | load, detect cycles, flatten membership, merge attributes | reload |
| LDAP server (`ldapserver/`) | per connection: TLS, bound user | bind, StartTLS, search, paging | authenticator, snapshot |
| Admin pages (`admin/`) | files of the identity directory | edit, graph, SMTP test | reload |
| Lifecycle (`server/run.go`, `tls/`) | listeners, certificate pointer | start, 5-minute tick, certificate reload, shutdown | everything |
| I/O only: mail, metrics, logging, audit, CSRF, CLI flags, environment | – | – | – |

What is hard here is never one function. It is (a) two requests on two replicas
whose statements interleave around one row; (b) a value read in one statement and
used in a later one; (c) what Postgres' row locks and READ COMMITTED snapshots
really guarantee; (d) handlers that die between two statements, and responses
that never arrive; (e) caches that lag; (f) the clock, read several times by one
request. `PROJECT.json` lists each such place as a hazard, with the property
that watches it, or a note if none does yet.

What makes each part correct:

* credentials: logins and Samba agree on the password where no hash is declared; a
  reset link acts once; a RID identifies one principal for ever;
* signing keys: one signer; every unexpired token verifies on every replica;
* grants: a code is exchanged once, a refresh secret earns once, revocation is final;
* denylist: a token whose revocation was committed is refused until it expires;
* lockouts: failures are counted, backoff grows and is capped, a lockout ends;
* login codes: at most five guesses per challenge, a code opens one session;
* passkeys: a ceremony acts once, a passkey stays with its owner, a deleted one is dead;
* hot reload: the snapshot served is one that was on disk, and the last one
  eventually is; identity: flattening equals reachability; LDAP: Samba data only
  for a reader who proved it on this channel, every entry once per paged search.

## 2. Modules and how they follow the code

Each module is one component. An action is one SQL statement, or one side of a
`SELECT ... FOR UPDATE`: between two statements of a handler every other handler
may run. `lock` is the row lock; an action that would wait for it is disabled
until it is released. `Fail(p)` is everything that ends a handler early (an error,
a context that expires, a replica that dies); the deferred `Rollback` is part of
it. Operators called `..._Something` before a definition are wrong variants of it,
used to confirm that a property can fail.

* **`PasswordRecord`** – abstract: an account has a stored password, and Samba
  knows that password or nothing. A replica may declare another one, which then is
  what its logins must present; where none is declared, the two readers agree.
* **`Credentials`** – implements it. `LoginBegin/LoginGet/LoginBackfill` are
  `Authenticate`; `HandleResetSubmit`, `HandleSendSetupLink` create links;
  `ConsumeSelect/ConsumeCommit/ConfirmRecheck/ConfirmUpsert/ConfirmIssueSession`
  are the confirmation handler; `AdminSetPassword/AdminUpsert` the CLI;
  `SearchUsers/EnsureRIDs` the Samba-privileged search; `Declare` a reload that
  changes one user, its hash included. Hashes are tagged by algorithm and known by their password. A
  handler's password strength, CSRF and rate-limit checks only decide whether it
  starts.
* **`SigningKeys`** – `RotateSelect/RotateUnblock/RotateInsert/Refresh` are one
  maintenance tick, or `NewKeyStore` at startup. A SELECT that waited sees the
  row it waited for re-evaluated and not the row inserted meanwhile, as
  Postgres does at READ COMMITTED. `Sign` and `Lookup` are what tokens need.
* **`OIDCGrants`** – codes and sessions. Secrets are numbered; a request may
  present any secret a session had, or a made-up one.
* **`Clock`** – the clock that `SigningKeys` and `TokenDenylist` share: Postgres and
  the replicas read the same one.
* **`TokenDenylist`** – access and ID tokens by `jti`: the clock is read by
  `Parse`, `IsRevoked` and the sweep at different instants. `RevokeFails` is the
  INSERT whose error `handleRevoke` discards.
* **`Lockouts`** – one limiter (login's, or `/token`'s), two dimensions. Times are
  kept relative to now. Durations are `Width` bits wide and wrap.
* **`LoginMFA`** – `/login`, `/login/mfa`, its resend and `/account/mfa`, statement
  by statement: the two sources of the policy are read one after the other, the
  row of a challenge is written before its mail is sent and its cookie set, and
  `Verify` is a transaction under the challenge's row lock. History: `answered`
  counts the guesses at a code, `opened` the sessions it opened, and a login's
  `held` is what has required a code of the user ever since it began.
* **`Passkeys`** – registration, login and deletion. The ceremony table, the
  credential table and the handlers are the code's; go-webauthn is external and
  says whether an assertion fits a user, a challenge and a key.
* **`HotReload`** – the identity directory as files numbered in path order and read
  one by one; the watcher goroutine with its event channel, its timer and the
  buffered channel between them; the config editor's copy, validate, truncate,
  write; a crash and a restart. What a reload reads is what each file held at the
  instant it was read, so a tree can be torn; the properties say how far.
* **`Identity`** – pure: `LoadIdentity`, its checks and the resolver as recursive
  functions in the code's order (`Visit` is the depth-first search that finds
  cycles, by the depth it may still go to), next to reference definitions that
  mention no order: `WellFormed`, `Above` (the least set closed under the listed
  groups) and `Sources`.
* **`LdapServer`** – extends `Identity`: one connection with bind, StartTLS, search
  with filters, attribute lists and offset paging, and reloads between any two
  requests. `rows` is what a Samba reader's search reads of the database, anew for
  every page: the NT hashes and the groups that have a RID. `StorePassword` and
  `SearchElsewhere` are the other parts' writes to it, and a privileged search itself
  assigns the RIDs it then does not see (`SambaContext`, `Assigned`). The model calls
  a paged search lost once the directory, the user, the channel or these rows
  changed, and then lets the client come back with any offset.
* **`MC...`** – instances for TLC. **`...Proofs`** – the proofs (section 5).

Modelled outside `src/`: Postgres (from how the stores use it), Go's integer
arithmetic, the clock, and the end of a process.

## 3. Runs

| Run | Question | Instance |
|---|---|---|
| `reset` | Do the two hashes stay in step, does a link act once, are locks released, is a RID unique? | 1 user, 1 group, 2 passwords, 1 link, 2 handlers, 3 RIDs |
| `rotation` | One signer, tokens valid everywhere, no replica serving without a key, a retired signer dropped? | 2 replicas, 3 keys, 4 instants |
| `grants` | Codes, refresh secrets, revocation | 2 clients (1 public), 1 code, 3 sessions, 2 rotations, 2 handlers |
| `sweep` | Revoked means refused | 2 tokens, 2 clients, 2 handlers, 5 instants |
| `counts` | Counting, overflow, end of a lockout | 1 account, 1 IP, 2 attempts, 3-bit durations |
| `mfa` | How many guesses has a code, how many sessions does it open, is a password ever enough alone? | 1 user, 2 challenges, 2 handlers, 2 guesses |
| `passkeys` | Does a ceremony act once, does a passkey keep its owner, does a deleted one stay dead? | 2 users, 1 key, 2 ceremonies, 2 handlers, counts 0 and 1 |
| `reload` | Is what is served what was on disk, and is the last change served? | 2 files, 2 contents, 1 editor, 3 changes |
| `directory` | Does loading agree with its reference, do pages add up, who sees Samba data? | every graph over 3 groups with lists and attributes, one of each mistake; 5 served directories, 3 configurations, 7 queries, 7 binds, 1 password to store, page sizes 0 and 3 |
| `ensurerids`, `firsts`, `anonymous` | Three statements of the code's comments that the code does not keep (below) | as above |

Why the bounds are enough. Every conflict in this code is between two handlers
on one row, so two handlers and one contended row show it; a third handler only
repeats one of the two. `reset` needs two passwords for the hashes to differ, and
three draws for a user, a group and one draw wasted on a row that keeps its RID;
more principals are the business of the theorem `RIDsUnique`. `rotation` has two rotations,
one of them raced, and tokens that outlive a signer's retirement; a key past its
overlap lies beyond its four instants and is covered by the theorem
`TokensVerify`. `grants` has a web session, a session opened by the code and a
third one a faulty second redemption could open. `counts` counts to five: past
both thresholds, the cap, the sign change and the wrap to zero of a three-bit
product. `mfa` has two challenges, so that a resend replaces one, and a limit of
two guesses instead of five: reaching the limit, and racing for the last guess,
need no more. `passkeys` has a second user for a passkey to be stolen by, and a
ceremony of each kind at once. `reload` needs two files for a tree to be torn and
a third change to arrive while a reload is under way. `directory` evaluates the
loader on every membership graph of three groups, which has every shape of cycle,
diamond and chain the depth-first search distinguishes. Its tables are
empty at first; the groups of one directory get their RIDs before those of
another, and one user an NT hash, which is enough for the entries that match a filter
on `sambaSID` to change between two pages.

The bounds (`MaxRID`, `MaxKeys`, `MaxTime`, `MaxSecret`, `MaxCount`, `MaxChanges`,
`Slow`) stop a behaviour from growing and never disable an action the code would
take earlier. Deadlock is checked in every run but `reload`, where the number of
changes is bounded and the server may have nothing left to do.

Symmetry is used for safety only, and in the runs `grants`, `sweep`, `mfa` and
`passkeys`: there handlers, users, sessions, tokens and challenges are compared for
equality and nothing else (clients of `OIDCGrants` are not symmetric: one is
public). Runs that check liveness use none.

### Three divergences between comments and code

* `ensurerids`: `EnsureRIDs` "returns the current RID for every name"; the SELECT
  shares its statement's snapshot, so a RID assigned by this very call is not
  returned. The group gets its SID in the next search.
* `firsts`: `RecordFailure` "increments the failure counter"; concurrent first
  failures find no row to lock and are counted as one.
* `anonymous`: Samba data is "never anonymous"; an anonymous bind on a connection
  that is bound already succeeds and leaves the earlier user in place, so the
  connection goes on reading as that user. (`PrivilegeIsEarned` is what does hold:
  some bind of this connection proved the reader's password.)

## 4. Fairness and timing

* `Credentials`: weak fairness of each handler's next step, `Fail` included:
  handlers run under 5 s contexts and transactions are rolled back by a deferred
  call, so a handler that has begun goes on or ends.
* `SigningKeys`: the ticker fires for ever (weak fairness of `RotateSelect`), and
  a tick's later steps are strongly fair: the database does not fail every tick
  for ever. `TimingAssumption` asks `Overlap >= 2 * Stale + TokenTTL`, where
  `Stale` is the longest a replica goes without a successful refresh: with the
  defaults (overlap 24 h, token lifetime 15 min, tick 5 min) that is almost twelve
  hours of failing ticks. An overlap configured below it would lose tokens;
  nothing in the code refuses one.
* `Lockouts`: time passes, and strong fairness of an attempt's next step, as
  Postgres queues those who wait for a row.
* `HotReload`: weak fairness of the watcher goroutine's steps and of the debounce
  timer: goroutines are scheduled and timers fire. Nobody is obliged to save, and
  no fairness is assumed of the editor or of a crash. `LastChangeIsServed` is about
  changes made while the watches stand.
* `OIDCGrants`, `TokenDenylist`, `LoginMFA`, `Passkeys` and `LdapServer` state
  safety only.
* One clock serves Postgres and all replicas.

`LockoutAssumption` asks that a wrapped product is not mistaken for a short
backoff. With the defaults (base 1 s = 10^9 ns, cap 15 min) it holds at 64 bits:
10^9 * 2^n is a multiple of 2^(n+9), and once it wraps (n >= 34) a non-zero
remainder is at least 2^43 ns, above the cap.

## 5. Proofs

All theorems are for every number of users, tokens, keys, replicas and handlers;
what TLC shows on two of each, they show in general.

`CredentialsProofs`:

* `TypeCorrect`: `Spec => []TypeOK`. `TypeOK` alone is not inductive: a handler's
  user and token are only known to be real ones from where it is. `ShapeOK` adds
  that, and that a created token names a user.
* `NTHashCorrect`: `Spec => []NTHashMatchesPassword`. The inductive invariant is
  `NTInv`: types, the property, and `BackfillFresh`: while a handler is about to
  backfill, the row either still has the hash it verified against or has an NT
  hash already. `Upsert` writes both hashes in one statement, so whoever changes
  the password also makes the pending backfill a no-op through its
  `nt_hash IS NULL`; that is the whole argument why a stale password is never
  written.
* `RecordKept`: `Spec => KeepsPasswordRecord`, the refinement of `PasswordRecord`,
  and `ReadersAgree`: `Spec => []Record!Agreement`. An upsert maps to `SetPassword`, an effective backfill to
  `Learn`, a reload that changes a declared hash to `Declare`, everything else
  stutters; `NTInv` supplies that what is learnt is what is stored. `Agreement`, that
  Samba accepts what a login must present, is about replicas that declare no hash for
  the account; where one is declared they may disagree (section 6).

* `LinkActsOnce`: `Spec => []ResetLinkActsOnce`. `OnceInv` follows a link through
  `Consume`: who has read an unspent token holds its row lock (`LockedByReader`),
  so at most one handler is past the commit (`OneSpender`), and where that handler
  is says what the link has done so far (`SpenderAccounts`).
* `RIDsUnique` and `SIDsStand`. `RIDInv` adds that the shared sequence is ahead of
  every value it handed out (`SequenceAhead`); a statement keeps a RID that is
  there or draws the next one.

`SigningKeysProofs`:

* `KeysTyped`, the types. A transaction that waits remembers a key (`SeenOK`).
* `SignerUnique`: `Spec => []ExactlyOneSigner`. The retirement and the insertion
  commit together and the unique index refuses a second current key: the proof
  never mentions the row lock (see the note on rotation races in section 6).
* `CanSign`: a replica serves only after a refresh that found a signer.
* `TokensVerify`: `Spec => []TokensVerifyEverywhere`. This is the theorem that
  uses `TimingAssumption`. A signer was cached at most `Stale` after the
  rotation's transaction read its clock (`CacheBeforeRetirement`), it signs until
  at most `Stale` after that, and the last token lives `TokenTTL`: within
  `retire_at` (`TokensWithinOverlap`). Here the row lock matters: who retires a
  key holds it, so a key is retired once (`RetirerHoldsLock`).

Also in `SigningKeysProofs`, about `TokenDenylist`: `DenyTypes`, and
`RevocationHolds`, `DenylistSpec => []RevokedIsRefused`. A row lasts until its token's own `exp` (`RowsOK`), so a sweep
by any clock reading removes only rows that deny nothing, and a revoked token has
its row as long as it could be accepted (`RevokedHasRow`).

`OIDCGrantsProofs`. Every result rests on `HoldInv`: types, what a handler knows
from where it is (`Placed`), and that whoever has read a row `FOR UPDATE` holds its
lock and finds it as it was read (`RedeemerHoldsRow`, `RotatorHoldsRow`). Steps
that commit nothing are dealt with once, by `QuietStep`.

* `GrantTypes`: `Spec => []TypeOK`.
* `RevocationStands`: `Spec => RevocationIsFinal`. The dangerous writer is a rotation
  that read the session before it was revoked; `RotatorHoldsRow` says that there is
  none, as the revocation waits for its lock.
* `SecretsEarnOnce`: `Spec => []SecretEarnsOnce`. `EarnInv` adds `OneEarner`: for each
  session and generation of its secret at most one handler is between the commit of
  the rotation and the answer, nothing has been answered for it yet, and the
  generation lies below the stored one.
* `CodeSpentOnce`: `Spec => []CodeOpensOneSession`. `SpendInv` says of an unused code
  that nobody spends it and no session came of it, of a used one that at most one
  handler is between `UPDATE ... used_at` and `CreateSession` (`OneSpender`); that
  this handler got past the comparisons of client, redirect URI and PKCE with the
  row as minted (`CheckedOK`, `BoundOK`: a public client's code has a challenge);
  and that each session remembers such a request (`OpenedOK`, `OneEach`).

`LoginMFAProofs`:

* `MFATypes`, `GuessesBounded` (`CodeGuessBudget`), `OneSessionPerCode`
  (`CodeOpensOneSession`) and `SupersededIsDead` (`SupersededCodeIsDead`) share
  `CodeInv`: who compares a code holds the lock of a row that is neither deleted nor
  consumed and has a guess left (`ComparerHoldsRow`), the column `attempts` counts
  the guesses made (`GuessesCounted`), and only one handler is past a right answer
  (`OneAccepted`).
* `CodeIsRequired`: `Spec => []PasswordAloneNotEnough`. `HeldInv` adds that whatever
  has demanded a code since the login began demands it still (`HeldIsCurrent`), so
  the check of the declaration and the later check of the switch, in two steps, do
  not miss it (`PolicyRead`).

`PasskeysProofs`: `PasskeyTypes`, `OneActPerCeremony` (`CeremonyActsOnce`) and
`OwnerKept` (`PasskeyKeepsOwner`) come from `PasskeyInv`: who is about to delete a
ceremony holds its row, which is still there (`ConsumerHoldsRow`), a ceremony that
is still there has led to nothing and a deleted one has at most one user
(`OneConsumer`), and a login past the verification works on a passkey that exists
and is its own user's (`LoginOK`). `DeletionHolds` (`DeletedPasskeyIsDead`) is
an action property over it: a write-back is an UPDATE of a live row.

`LockoutsProofs`: `LockoutTypes`, `CountsAreCurrent` (`CountReadIsCurrent`) and
`LocksGrow` (`MoreFailuresLockLonger`), for every width of the integers, every
threshold, base, cap and window the assumption allows. The arithmetic is in lemmas
of its own: `BackoffRange` (the backoff lies between 0 and the cap whatever the
product wrapped to) and `BackoffGrows` (one more failure never shortens it).
`LockoutInv` relates the table to them: no row is locked for longer than its count
calls for (`RowOK`), and who is about to write a found row holds its lock, so that
count and remaining time are those it read, up to the time that passed
(`WriterOK`). Rows that are not found are not locked; the theorems do not speak of
concurrent first failures, which run `firsts` shows to be lost.

`HotReloadProofs`: `ReloadTypes`, `TornByTwo` (`ServedTreeExisted`) and `SavesLoad`
(`UndisturbedSaveLoads`), for every number of files and contents and every notion of
a directory that loads. `LoadOK` says what a load has read so far: with no change
since it began, a prefix of what is on disk; with one changed file, the others as
they are and that file as it was or as it is, and everything but that file equal
between start and now. `EditOK` says that what an editor validated is valid.

`LdapServerProofs`, for every number of files, declarations, groups, users, queries
and page sizes, from the algorithms upwards:

* `CyclesAreDetected`: `DetectCycle` reports an error exactly if some group is above
  itself. The argument is the classic one of depth-first search, by the depth still
  left (`VisitOK`): a black group has only black groups above it and is not above
  itself (`BlackOK`), and the group being visited is above every grey one
  (`VisitPre`, `VisitPost`). The depth the model gives the search, the number of
  groups, bounds the white ones left and so is never exceeded.
* `MembershipIsTransitive`: what the resolver's closures add up to is the groups
  listed and all those above them, neither more nor fewer. That the graph has no
  cycle, so that the closures are well defined, comes from `CyclesAreDetected`.
* `LoadsAreExact`: `Spec => []LoadIsExact`. `Placed` says, file by file and
  declaration by declaration, that the load is still accepted exactly if the
  declarations gone through are valid alone and in pairs, and then holds those and
  nothing else. At the end this is the first part of `WellFormed`
  (`DeclarationsOK`); the check of references and `DetectCycle` are the other two,
  and `SnapshotOK` says what the resolver makes of it.
* `SambaHidden`: for every directory that loads and every query, `EntriesFor` without
  the privilege returns no entry, attribute or object class of Samba's. The one way
  around it would be a custom attribute called `objectClass`, which is reserved.
* `DirectoryTypes`, `EveryEntryOnce` (`PagesEnumerate`) and `SambaForReadersOnly`
  (`PrivilegeIsEarned`) come from `Inv`. An entry is given by its DN (`EntryAt`), so
  sorting by DN lists each once (`Sortable`, `Lists`); `PageOK` says that what an
  undisturbed client has got is the beginning of the current answer and the cookie
  its length (`PageOf`), where a privileged search that assigns a RID disturbs itself
  and the writes of others disturb privileged searches only (`Undisturbed`,
  `SearchedIs`, `WrittenInv`); `ConnOK` that an open connection is under a directory that
  loaded and that a bound user proved the password (a failed re-bind changes
  neither); `ShownOK` that what was shown last was shown to a user who is still
  privileged. None of these is inductive without the others: the types of a page
  need the DNs of a loaded directory, the privilege needs the bound user's groups.

The library's induction theorems cannot be instantiated by the installed provers.
The proofs by induction therefore take a least counterexample (`WFMin` over `Nat`),
and a lemma each (`...Exists`) shows that the recursive function a definition
chooses exists.

Assumptions, all evaluated by TLC in the runs: `ConstAssumption`, `NullAssumption`,
`MFAAssumption`, `PasskeyAssumption`, `GrantAssumption` and `ReloadAssumption`
(distinct values, positive bounds, finitely many groups), `TimingAssumption` and
`LockoutAssumption` (section 4), `DenylistAssumption` (a positive lifetime),
`DirectoryAssumption` (directories are sequences of files, the string order is
total on the finitely many DNs served, the shape of queries, passwords are stored
for declared users, `objectClass` is a reserved attribute name).
`PowerAssumption` is no assumption about the system but two laws of powers of two
(`2^(n + 1) = 2 * 2^n`, `2^n` positive) that the provers' arithmetic lacks.

Only model-checked: the liveness properties (`LocksAreReleased`,
`RetiredSignerIsDropped`, `LockoutEnds`, `LastChangeIsServed`). Liveness under
fairness is out of the prover's reach. Every invariant and action property that a
passing run checks is a theorem.

## 6. Notes on the code met while modelling

* `KeyStore.Lookup` answers from the cache first, so a retired key is accepted
  past `retire_at` until the replica's next refresh. Its tokens have expired by
  then; nothing depends on it.
* A token that expires between `jwt.Parse` and `IsRevoked` is accepted even if it
  is on the denylist: its row denies nothing any more. `RevokedIsRefused` says
  "before it expires" for that reason.
* `/revoke` answers 200 whether or not anything was revoked: the errors of both
  `Sessions.Revoke` and `Revocations.Revoke` are discarded
  (`internal/oidcserver/provider.go:846`, `:857`). After a failed INSERT the token is
  accepted until it expires; `RevokedIsRefused` is about committed revocations, and
  `RevocationIsFinal` about sessions that were revoked.
* Samba and declared hashes. "A declaratively-hashed account ... can never get an NT
  hash, so such accounts ... won't be able to authenticate to Samba shares"
  (`README.md:359-361`). An account that stored a password before a hash was declared
  for it has one already, and `sambaAttrsFor` exports it without asking how the
  account logs in (`internal/ldapserver/search.go:296-313`): Samba goes on accepting
  the stored password while logins accept the declared one, and logins return to the
  stored one once the declaration is withdrawn. `KeepsPasswordRecord` promises
  agreement only where no hash is declared.
* An authorization code is spent before the client, the redirect URI and PKCE are
  compared: a wrong request burns it.
* A refresh by the wrong client rotates the secret and then refuses to answer: the
  rightful client's secret is stale.
* A reset request is recorded as a failure even when it is refused
  (`internal/web/reset.go:169`), so `LockoutEnds` is not a property of that limiter.
* Rotation: the losers of a race are said to "see an up-to-date key and no-op"
  (`internal/store/oidckeys.go:76-78`). A loser's SELECT waits, then returns no row,
  so it generates a key and fails on the unique index. Serving replicas log an
  error and retry in five minutes, without the `Refresh`; a replica that starts at
  that moment ends. `ExactlyOneSigner` holds thanks to the index, not to the lock.
* Refresh: "there's no legitimate reason for a client to hold a stale secret"
  (`internal/store/sessions.go:89-91`). A client whose response was lost holds one,
  and its retry revokes the session.
* Login codes. Whether a code is required is read from the snapshot and then from
  the user's switch. `PasswordAloneNotEnough` speaks of a source that has asked for a
  code all along; if the declaration turns on after its read and the switch turns off
  before its own, some source asked at every moment and no code is required. `Verify` compares with `now()`, the start of its transaction, so an
  answer that waited for the row may be accepted just after the code's end. A
  database error while verifying is answered "Incorrect code" and not counted.
  Verification does not look at the account's `enabled` again. A resend that races
  another one or a failed `Delete` leaves two live challenges, each with its own
  guesses: `CodeGuessBudget` is per code. A password reset and a passkey log in
  without a code, by design.
* Passkeys. `UpdateCredential` "must be called after every successful login so a
  cloned authenticator's signature counter can be detected on its next use"
  (`internal/store/webauthn.go:72-74`). It replaces the record whatever the row holds
  by then: of two overlapping logins with one passkey the lower counter may be stored
  last, and a copy that repeats the higher one is not noticed; a clone warning can be
  overwritten the same way, and is never read anyway. No property is stated of the
  counter: for logins that do not overlap it would only repeat what the library does
  to one record. A write-back that
  fails is logged and the login goes on, so the counter may also lag. A login under
  way when its passkey is deleted still gets its session.
* Reload. A load during which two files change may serve a mixture that was never on
  disk; `ServedTreeExisted` covers loads that met the change of one. The same holds of
  a file that is truncated and written while one load runs. A change between the first load and the registration of the watches is
  seen with the next event only. Two overlapping saves, each valid against what
  it copied, may together be invalid (`UndisturbedSaveLoads` has nothing between
  validation and write): the server keeps its snapshot, and a restart
  is fatal. A crash between the editor's truncation and its write leaves an empty
  file, which contributes nothing and is no error. The comparison in
  `config/diff.go` ignores some fields; it only decides what is logged.
* Identity. A group a user lists twice counts as two direct sources, so its direct
  custom attributes are dropped as conflicting. The identifier "" finds any one of the
  users without an e-mail address. The memo table of the resolver is modelled by
  the function it caches; the order of visits decides only which cycle is reported.
* LDAP. A failed re-bind keeps the earlier identity too; a user who is disabled or
  removed keeps the connection until it is closed. `(memberOf=*)` matches users who
  are in no group. In an attribute list the names before a "*" are forgotten. A
  reload between two pages may skip or repeat entries: the cookie is an offset. So
  may a re-bind, which may change what is matched, and StartTLS: it removes the
  extension from the RootDSE entry, and a filter on it then matches one entry less.
  For a Samba reader so may a password stored, or a RID assigned, between two pages,
  as filters see `sambaSID` and the Samba object classes; and since a search does not
  see the RIDs it assigns itself, the first paged search after a group is declared
  differs between its first and its second page. `PagesEnumerate` is about searches
  that none of the four disturbed.

## 7. Not modelled, and the plan

Not modelled on purpose: formatting and rendering, BER coding and the LDAP schema
text, mail, metrics, audit, logging, environment parsing, CSRF and cookie
attributes, TLS handshakes, password strength. They keep no state another part
depends on. The admin pages other than the editor (graph, SMTP test) only read the
snapshot.

Left, in order:

1. An abstract one-shot token that reset tokens, codes, login codes and ceremonies
   all implement; the invariants `OneSpender`, `OneAccepted` and `OneConsumer` of the
   proofs are what its refinement needs.
2. The reset-request limiter as a variant of `Lockouts`; claims on top of
   `Identity`; the certificate watcher next to `HotReload`.

---------------------------- MODULE LdapServer ------------------------------
(***************************************************************************)
(* An LDAP connection and the directory it reads.                          *)
(*                                                                         *)
(* handleConn answers one request after the other, so a request is one     *)
(* step; a hot reload may come between any two.  The channel (plain or     *)
(* TLS) and the bound user are the connection's only state: a paged search *)
(* is resumed from the cookie alone, which is an offset into the matching  *)
(* entries of whatever snapshot is then current.  A Samba reader's search  *)
(* also reads two tables that the other parts of the system write, and     *)
(* reads them again for every page.                                        *)
(*                                                                         *)
(* A DN is a pair <<attribute, value>>, and so is every attribute value.   *)
(* Parsing a DN (trimming, case) is left to the pair's being the DN it     *)
(* stands for; DNs the server does not serve are one pair, OtherDN.        *)
(***************************************************************************)
EXTENDS Identity

CONSTANTS
    Trees,        \* identity directories a server can be started on
    Served,       \* bound: the ones a connection is opened under, and reloads
    Configs,      \* settings: requireTLS, anonymous, startTLS, readers
    BindRequests, \* name, whether the bind is simple, password
    Filters,      \* search filters, and the parts of each
    Queries,      \* search requests
    PageSizes,    \* sizes of a paged-results control
    StaleCookies, \* offsets a client may come back with after a change
    Passwords,    \* user, hash: what a login's backfill or a reset may store
    DNOrder       \* the position of every DN in the order of the strings

VARIABLES
    cfg,          \* ldapserver.Config, and whether there is a TLSConfig
    disk,         \* the identity directory, as last loaded
    accepted,     \* whether that load succeeded
    snap,         \* SnapshotHolder: at most one snapshot
    conn,         \* the connection, and its history
    rows,         \* credentials and samba_group_rids, as a Samba reader sees them
    page,         \* the client's paged search
    reply,        \* the last thing that happened: a load, or the result sent
    shown         \* history: it was a search that returned Samba data

vars == <<cfg, disk, accepted, snap, conn, rows, page, reply, shown>>

-----------------------------------------------------------------------------
(* Distinguished names.                                                    *)

RootDSE == <<"", "">>
SubschemaDN == <<"cn=subschema", "">>
BaseDN == <<"base", "">>
UsersOUDN == <<"ou", "users">>
GroupsOUDN == <<"ou", "groups">>
SambaDomainDN == <<"sambaDomainName", "">>
OtherDN == <<"other", "">>
UserDN(u) == <<"uid", u>>
GroupDN(g) == <<"cn", g>>
DomainUsers == "Domain Users"

\* A bind name is a DN, or <<"bare", identifier>>.
UsernameFromBindDN(name) == IF name[1] \in {"uid", "bare"} THEN {name[2]} ELSE {}

-----------------------------------------------------------------------------
(* Entries.  An entry has a set of attributes; memberOf and member are     *)
(* there even when they are empty.                                         *)

Plain(name, values) == [name |-> name, values |-> values, sensitive |-> FALSE]
Sensitive(name, values) == [name |-> name, values |-> values, sensitive |-> TRUE]
Strings(S) == {<<"", x>> : x \in S}
Class(names) == Plain("objectClass", Strings(names))
Custom(attrs) == {Plain(k, Strings({attrs[k]})) : k \in DOMAIN attrs}
Extensible(attrs) == IF DOMAIN attrs = {} THEN {} ELSE {"extensibleObject"}
Entry(dn, attrs) == [dn |-> dn, attrs |-> attrs, forceAllAttrs |-> FALSE]

\* sambaAttrsFor and the Samba part of UserEntry: the attributes that carry the
\* SID, the NT hash (and when it was set) and the account flags.  sc is the
\* sambaContext: whether the search is privileged, and the rows it has read.
SambaUser(s, u, sc) ==
    IF sc.privileged /\ u \in DOMAIN sc.creds
    THEN {Sensitive("sambaSID", {<<"SID", u>>}), Sensitive("sambaNTPassword", {<<"NT", sc.creds[u]>>}),
          Sensitive("sambaAcctFlags", {<<"", IF s.users[u].enabled THEN "U" ELSE "UD">>})}
    ELSE {}

UserEntry(s, u, sc) ==
    LET samba  == SambaUser(s, u, sc)
        custom == s.userAttrs[u]
        mail   == s.users[u].email
    IN  Entry(UserDN(u),
              {Class({"inetOrgPerson"} \cup Extensible(custom)
                     \cup IF samba = {} THEN {} ELSE {"sambaSamAccount"}),
               Plain("uid", Strings({u})),
               Plain("memberOf", {GroupDN(g) : g \in s.memberOf[u]})}
              \cup (IF mail = "" THEN {} ELSE {Plain("mail", Strings({mail}))})
              \cup samba \cup Custom(custom))

\* sambaGroupAttrsFor and the Samba part of GroupEntry: a group that EnsureRIDs
\* did not answer for has none.  memberUid is there when the group has members.
SambaGroup(g, members, sc) ==
    IF sc.privileged /\ g \in sc.rids
    THEN {Sensitive("sambaSID", {<<"SID", g>>})}
         \cup (IF members = {} THEN {} ELSE {Sensitive("memberUid", Strings(members))})
    ELSE {}

GroupEntry(s, g, sc) ==
    LET members == IF g \in DOMAIN s.members THEN s.members[g] ELSE {}
        samba   == SambaGroup(g, members, sc)
        custom  == s.groups[g].custom
    IN  Entry(GroupDN(g),
              {Class({"groupOfNames"} \cup Extensible(custom)
                     \cup IF samba = {} THEN {} ELSE {"sambaGroupMapping"}),
               Plain("cn", Strings({g})),
               Plain("member", {UserDN(u) : u \in members})}
              \cup samba \cup Custom(custom))

SambaWellKnownGroupEntry ==
    Entry(GroupDN(DomainUsers),
          {Class({"groupOfNames", "sambaGroupMapping"}), Plain("cn", Strings({DomainUsers})),
           Sensitive("sambaSID", {<<"SID", DomainUsers>>})})

SambaDomainEntry == Entry(SambaDomainDN, {Class({"sambaDomain"}), Plain("sambaSID", {<<"SID", "">>})})
OUEntry(dn) == Entry(dn, {Class({"organizationalUnit"}), Plain("ou", Strings({dn[2]}))})
BaseEntry == Entry(BaseDN, {Class({"organization"}), Plain("dc", {<<"", "base">>})})
SubschemaEntry == [dn |-> SubschemaDN, attrs |-> {Class({"subschema"})}, forceAllAttrs |-> TRUE]
RootDSEEntry(startTLSAvailable) ==
    [dn |-> RootDSE, forceAllAttrs |-> TRUE,
     attrs |-> {Class({"top"}), Plain("namingContexts", {BaseDN})}
               \cup (IF startTLSAvailable THEN {Plain("supportedExtension", Strings({"StartTLS"}))} ELSE {})]

UsersSubtree(s, scope, sc) ==
    {OUEntry(UsersOUDN) : x \in {scope} \cap {"base", "sub"}}
    \cup (IF scope = "base" THEN {} ELSE {UserEntry(s, u, sc) : u \in DOMAIN s.users})

GroupsSubtree(s, scope, sc) ==
    {OUEntry(GroupsOUDN) : x \in {scope} \cap {"base", "sub"}}
    \cup (IF scope = "base" THEN {} ELSE {GroupEntry(s, g, sc) : g \in DOMAIN s.groups})
    \cup {SambaWellKnownGroupEntry :
            x \in {scope} \cap IF sc.privileged /\ DomainUsers \notin DOMAIN s.groups THEN {"one", "sub"} ELSE {}}

\* A leaf has no children.
Leaf(scope, S) == IF scope = "one" THEN {} ELSE S
SambaDomain(sc) == IF sc.privileged THEN {SambaDomainEntry} ELSE {}

BaseSubtree(s, scope, sc) ==
    CASE scope = "base" -> {BaseEntry}
      [] scope = "one"  -> {OUEntry(UsersOUDN), OUEntry(GroupsOUDN)} \cup SambaDomain(sc)
      [] scope = "sub"  -> {BaseEntry} \cup UsersSubtree(s, "sub", sc)
                           \cup GroupsSubtree(s, "sub", sc) \cup SambaDomain(sc)

EntriesFor(s, base, scope, startTLSAvailable, sc) ==
    CASE base = RootDSE       -> {RootDSEEntry(startTLSAvailable)}
      [] base = SubschemaDN   -> {SubschemaEntry}
      [] base = SambaDomainDN -> Leaf(scope, SambaDomain(sc))
      [] base[1] = "uid"      -> Leaf(scope, {UserEntry(s, u, sc) : u \in {base[2]} \cap DOMAIN s.users})
      [] base[1] = "cn"       -> Leaf(scope, {e \in GroupsSubtree(s, "one", sc) : e.dn = base})
      [] base = UsersOUDN     -> UsersSubtree(s, scope, sc)
      [] base = GroupsOUDN    -> GroupsSubtree(s, scope, sc)
      [] base = BaseDN        -> BaseSubtree(s, scope, sc)
      [] base = OtherDN       -> {}

-----------------------------------------------------------------------------
(* Filters, attribute selection, order and pages.                          *)

Supported(filter) ==
    LET supported[f \in Filters] ==
            CASE f.kind \in {"and", "or"}     -> \A i \in DOMAIN f.children : supported[f.children[i]]
              [] f.kind \in {"eq", "present"} -> TRUE
              [] OTHER                        -> FALSE
    IN  supported[filter]

Matches(filter, attrs) ==
    LET matches[f \in Filters] ==
            CASE f.kind = "and"     -> \A i \in DOMAIN f.children : matches[f.children[i]]
              [] f.kind = "or"      -> \E i \in DOMAIN f.children : matches[f.children[i]]
              [] f.kind = "present" -> \E a \in attrs : a.name = f.attr
              [] f.kind = "eq"      -> \E a \in attrs : a.name = f.attr /\ f.value \in a.values
    IN  matches[filter]

\* The first special name decides; the names before it are forgotten.
ParseAttrSelection(list) ==
    LET special == SelectInSeq(list, LAMBDA n : n \in {"", "*", "1.1"})
    IN  [all   |-> list = <<>> \/ (special # 0 /\ list[special] # "1.1"),
         names |-> IF special = 0 THEN ToSet(list) ELSE {}]

\* The attributes of an entry that are sent; an empty one is not.
Selected(e, sel) ==
    {a \in e.attrs :
        /\ a.values # {}
        /\ IF a.sensitive THEN a.name \in sel.names
           ELSE e.forceAllAttrs \/ sel.all \/ a.name \in sel.names}

\* The j-th entry is the one with j entries up to its own DN.
UpTo(E, e) == {x \in E : DNOrder[x.dn] <= DNOrder[e.dn]}
ByDN(E) == [j \in 1..Cardinality(E) |-> CHOOSE e \in E : Cardinality(UpTo(E, e)) = j]

\* Wrong variant: entries are sent in the order of the maps they come from (two
\* of the orders there can be).
Sorted_MapOrder(E) == {ByDN(E), Reverse(ByDN(E))}

\* The entries in the order of their DNs: the one sequence the sort can return.
Sorted(E) == {ByDN(E)}

PageEnd(start, size, total) == IF size > 0 /\ start + size < total THEN start + size ELSE total
PageStart(offset, total) == IF offset > total THEN total ELSE offset

-----------------------------------------------------------------------------
Closed == [open |-> FALSE, tls |-> FALSE, bound |-> "", proved |-> "", last |-> "none"]
NoPage == [st |-> "idle", q |-> 0, size |-> 0, cookie |-> 0, remaining |-> 0, got |-> <<>>]

\* Of an LDAP result code, whether it is the one of success.
Result(code) == IF code = "success" THEN "success" ELSE "refused"

ServedGroups == UNION {GroupNames(t) : t \in Served}
UserNames == {u.name : u \in UNION {Declared(t, "UserList") : t \in Served}}

FixedDNs == {RootDSE, SubschemaDN, BaseDN, UsersOUDN, GroupsOUDN, SambaDomainDN}

ASSUME DirectoryAssumption ==
    /\ Trees \cup Served \subseteq Seq(Files)
    \* Object classes are not for custom attributes to give (reservedAttributeNames).
    /\ "objectClass" \in ReservedNames
    \* The order of the strings: total, and over all the DNs there can be.
    /\ IsFiniteSet(DOMAIN DNOrder) /\ IsInjective(DNOrder) /\ \A dn \in DOMAIN DNOrder : DNOrder[dn] \in Nat
    /\ FixedDNs \cup {GroupDN(DomainUsers)} \subseteq DOMAIN DNOrder
    /\ {UserDN(u) : u \in UserNames} \subseteq DOMAIN DNOrder
    /\ {GroupDN(g) : g \in ServedGroups} \subseteq DOMAIN DNOrder
    /\ \A w \in Passwords : w.user \in UserNames
    /\ Len(Queries) \in Nat /\ DOMAIN Queries = 1..Len(Queries)
    /\ \A i \in DOMAIN Queries :
          /\ Queries[i].scope \in {"base", "one", "sub"}
          /\ Queries[i].base \in FixedDNs \cup {OtherDN} \/ Queries[i].base[1] \in {"uid", "cn"}
    /\ PageSizes \cup StaleCookies \subseteq Nat

\* The NT hashes of the users who have one, and the groups that have a RID.
Rows == [creds : UNION {[S -> {w.hash : w \in Passwords}] : S \in SUBSET UserNames},
         rids : SUBSET ServedGroups]
NoRows == [creds |-> <<>>, rids |-> {}]

\* cookie 0 stands for an empty cookie; st "lost" is a paged search during which
\* the directory, the bound user, the channel or the rows it reads changed.
TypeOK ==
    /\ cfg \in Configs
    /\ disk \in Trees \cup Served
    /\ accepted \in {"unread", "yes", "no"}
    /\ Cardinality(snap) <= 1
    /\ conn \in [open : BOOLEAN, tls : BOOLEAN, bound : UserNames \cup {""}, proved : UserNames \cup {""},
                 last : {"none", "user", "anonymous"}]
    /\ rows \in Rows
    /\ page \in [st : {"idle", "more", "done", "lost"}, q : 0..Len(Queries), size : PageSizes \cup {0},
                 cookie : 0..Cardinality(DOMAIN DNOrder), remaining : 0..Cardinality(DOMAIN DNOrder),
                 got : Seq(DOMAIN DNOrder)]
    /\ reply \in {"none", "load", "success", "refused"}
    /\ shown \in BOOLEAN

Init ==
    /\ cfg \in Configs
    /\ disk \in Trees
    /\ accepted = "unread"
    /\ snap = {}
    /\ conn = Closed
    /\ rows = NoRows
    /\ page = NoPage
    /\ reply = "none"
    /\ shown = FALSE

Current == CHOOSE s \in snap : TRUE

\* A change of what a search is answered from, during a paged search.
Disturbed == IF page.st = "idle" THEN page ELSE [NoPage EXCEPT !.st = "lost"]

-----------------------------------------------------------------------------
(* Loading.                                                                *)

\* LoadInitial; the process ends if it fails.
Startup ==
    /\ snap = {}
    /\ accepted = "unread"
    /\ LET s == LoadIdentity(disk)
       IN  snap' = s /\ accepted' = IF s = {} THEN "no" ELSE "yes"
    /\ reply' = "load"
    /\ UNCHANGED <<cfg, disk, conn, rows, page, shown>>

\* A failed start is tried again on another directory.
Restart(t) ==
    /\ snap = {}
    /\ accepted = "no"
    /\ disk' = t
    /\ accepted' = "unread"
    /\ reply' = "none"
    /\ UNCHANGED <<cfg, snap, conn, rows, page, shown>>

\* The watcher: a load that fails leaves the last good snapshot.
Reload(t) ==
    /\ snap # {}
    /\ disk' = t
    /\ LET s == LoadIdentity(t)
       IN  IF s = {} THEN snap' = snap /\ accepted' = "no" ELSE snap' = s /\ accepted' = "yes"
    /\ page' = IF snap' = snap THEN page ELSE Disturbed
    /\ reply' = "load"
    /\ shown' = FALSE
    /\ UNCHANGED <<cfg, conn, rows>>

-----------------------------------------------------------------------------
(* The connection.                                                         *)

ServedSnapshots == UNION {LoadIdentity(t) : t \in Served}

\* A connection to the plain listener, or to the secure one if there is a certificate.
Accept(tls) ==
    /\ snap # {} /\ snap \subseteq ServedSnapshots
    /\ ~conn.open
    /\ tls => cfg.startTLS
    /\ conn' = [Closed EXCEPT !.open = TRUE, !.tls = tls]
    /\ page' = NoPage
    /\ reply' = "none"
    /\ shown' = FALSE
    /\ UNCHANGED <<cfg, disk, accepted, snap, rows>>

\* Unbind, a read error, a malformed message or an unknown operation.
Close ==
    /\ conn.open
    /\ conn' = Closed
    /\ page' = NoPage
    /\ reply' = "none"
    /\ shown' = FALSE
    /\ UNCHANGED <<cfg, disk, accepted, snap, rows>>

\* Wrong variant: the user is bound as what was typed, which may be an email.
Authenticated_AsTyped(s, id) == {i \in {id} : \E u \in ResolveIdentifier(s, i) : s.users[u].enabled}

\* The users Authenticate can answer for an identifier and the right password.
Authenticated(s, id) == {u \in ResolveIdentifier(s, id) : s.users[u].enabled}

\* handleBind: the result codes, each with the user it returns, if any.
Answer(code, users) == [code |-> code, users |-> users]
HandleBind(name, simple, password) ==
    IF cfg.requireTLS /\ ~conn.tls THEN {Answer("confidentialityRequired", {})}
    ELSE IF ~simple THEN {Answer("authMethodNotSupported", {})}
    ELSE IF name = RootDSE /\ password = ""
         THEN {Answer(IF cfg.anonymous THEN "success" ELSE "unwillingToPerform", {})}
    ELSE {Answer("invalidCredentials", {})}
         \cup {Answer("success", {u}) :
                u \in {u \in UNION {Authenticated(Current, id) : id \in UsernameFromBindDN(name)} :
                          password = "right"}}

\* The bound user changes only when handleBind returns one.
Bind(name, simple, password) ==
    /\ conn.open
    /\ \E a \in HandleBind(name, simple, password) :
          /\ conn' = IF a.users = {}
                     THEN [conn EXCEPT !.last = IF a.code = "success" THEN "anonymous" ELSE @]
                     ELSE LET u == CHOOSE u \in a.users : TRUE
                          IN  [conn EXCEPT !.bound = u, !.proved = u, !.last = "user"]
          /\ reply' = Result(a.code)
    /\ page' = IF conn'.bound = conn.bound THEN page ELSE Disturbed
    /\ shown' = FALSE
    /\ UNCHANGED <<cfg, disk, accepted, snap, rows>>

\* Wrong variant: the identity proved in the clear is kept.
Upgraded_KeepsUser(c) == [c EXCEPT !.tls = TRUE, !.proved = "", !.last = "none"]

Upgraded(c) == [c EXCEPT !.tls = TRUE, !.bound = "", !.proved = "", !.last = "none"]

\* An extended request: StartTLS, whose handshake may fail after the success
\* response, or an operation that is not supported.
Extended(startTLS) ==
    /\ conn.open
    /\ \/ /\ ~startTLS
          /\ reply' = Result("protocolError")
          /\ UNCHANGED <<conn, page>>
       \/ /\ startTLS /\ conn.tls
          /\ reply' = Result("operationsError")
          /\ UNCHANGED <<conn, page>>
       \/ /\ startTLS /\ ~conn.tls /\ ~cfg.startTLS
          /\ reply' = Result("unavailable")
          /\ UNCHANGED <<conn, page>>
       \/ /\ startTLS /\ ~conn.tls /\ cfg.startTLS
          /\ conn' \in {Upgraded(conn), Closed}
          /\ page' = IF conn'.open THEN Disturbed ELSE NoPage
          /\ reply' = "success"
    /\ shown' = FALSE
    /\ UNCHANGED <<cfg, disk, accepted, snap, rows>>

\* Add, Modify, Delete, ModifyDN and Compare are refused.
ReadOnly ==
    /\ conn.open
    /\ reply' = Result("unwillingToPerform")
    /\ shown' = FALSE
    /\ UNCHANGED <<cfg, disk, accepted, snap, conn, rows, page>>

-----------------------------------------------------------------------------
(* Search.                                                                 *)

IsRootDSEProbe(q) == q.base = RootDSE /\ q.scope = "base"

SearchRefusal(q) ==
    IF cfg.requireTLS /\ ~conn.tls /\ ~IsRootDSEProbe(q) THEN "confidentialityRequired"
    ELSE IF conn.bound = "" /\ ~cfg.anonymous /\ ~IsRootDSEProbe(q) THEN "insufficientAccessRights"
    ELSE IF ~Supported(q.filter) THEN "unavailableCriticalExtension"
    ELSE "none"

Privileged ==
    /\ cfg.readers # ""
    /\ conn.bound # ""
    /\ IsMemberOf(Current, conn.bound, cfg.readers)

\* sambaContext: a privileged search reads the rows with an NT hash, and then
\* EnsureRIDs answers with the RIDs from before it assigns any (module
\* Credentials).  No one writes both tables, so the two statements are one step.
SambaContext ==
    IF Privileged THEN [privileged |-> TRUE, creds |-> rows.creds, rids |-> rows.rids]
    ELSE [privileged |-> FALSE, creds |-> <<>>, rids |-> {}]
Assigned == [rows EXCEPT !.rids = @ \cup DOMAIN Current.groups]

\* A search leaves every group of the snapshot with a RID if it is privileged,
\* and p as the paged search; it is lost if later pages see what this one did not.
Searched(p) ==
    /\ rows' = IF Privileged THEN Assigned ELSE rows
    /\ page' = IF rows' = rows THEN p ELSE Disturbed

\* The entries that answer a query; to sort what matches is to match what is sorted.
Matching(q) ==
    {e \in EntriesFor(Current, q.base, q.scope, cfg.startTLS /\ ~conn.tls, SambaContext) : Matches(q.filter, e.attrs)}
Matched(q) == Sorted(Matching(q))

\* What of an entry is Samba's: an attribute, an object class, or the entry.
IsSamba(e, sel) ==
    \/ e.dn = SambaDomainDN
    \/ e.dn = GroupDN(DomainUsers) /\ DomainUsers \notin DOMAIN Current.groups
    \/ \E a \in Selected(e, sel) :
          \/ a.sensitive
          \/ a.name = "objectClass" /\ a.values \cap Strings({"sambaSamAccount", "sambaGroupMapping"}) # {}

Shows(es, q) == \E i \in DOMAIN es : IsSamba(es[i], ParseAttrSelection(q.attrs))

SearchRefused(q) ==
    /\ conn.open
    /\ SearchRefusal(q) # "none"
    /\ reply' = Result(SearchRefusal(q))
    /\ shown' = FALSE
    /\ UNCHANGED <<cfg, disk, accepted, snap, conn, rows, page>>

\* AllSambaCredentials or EnsureRIDs fails, the latter perhaps after its commit.
SearchFails(q) ==
    /\ conn.open
    /\ SearchRefusal(q) = "none"
    /\ Privileged
    /\ Searched(page) \/ UNCHANGED <<rows, page>>
    /\ reply' = Result("other")
    /\ shown' = FALSE
    /\ UNCHANGED <<cfg, disk, accepted, snap, conn>>

\* A search without a paged-results control.
Search(q) ==
    /\ conn.open
    /\ SearchRefusal(q) = "none"
    /\ \E es \in Matched(q) : shown' = Shows(es, q)
    /\ Searched(page)
    /\ reply' = "success"
    /\ UNCHANGED <<cfg, disk, accepted, snap, conn>>

\* A page from an offset on.
Page(i, size, offset, got) ==
    /\ SearchRefusal(Queries[i]) = "none"
    /\ \E es \in Matched(Queries[i]) :
          LET start == PageStart(offset, Len(es))
              end   == PageEnd(start, size, Len(es))
              sent  == SubSeq(es, start + 1, end)
              more  == Len(es) - end
          IN  /\ Searched([st |-> IF more > 0 THEN "more" ELSE "done", q |-> i, size |-> size,
                            cookie |-> IF more > 0 THEN end ELSE 0, remaining |-> more,
                            got |-> got \o [j \in DOMAIN sent |-> sent[j].dn]])
              /\ shown' = Shows(sent, Queries[i])
    /\ reply' = "success"
    /\ UNCHANGED <<cfg, disk, accepted, snap, conn>>

\* findPagedResults takes a cookie that is missing, or no number, for 0.
SearchFirstPage(i, size) ==
    /\ conn.open
    /\ Page(i, size, 0, <<>>)

SearchNextPage ==
    /\ conn.open
    /\ page.st = "more"
    /\ Page(page.q, page.size, page.cookie, page.got)

\* A cookie from before such a change is any offset, and so is the next one.
SearchStalePage(i, size, offset) ==
    /\ conn.open
    /\ page.st = "lost"
    /\ SearchRefusal(Queries[i]) = "none"
    /\ \E es \in Matched(Queries[i]) :
          LET start == PageStart(offset, Len(es))
              end   == PageEnd(start, size, Len(es))
          IN  shown' = Shows(SubSeq(es, start + 1, end), Queries[i])
    /\ Searched(page)
    /\ reply' = "success"
    /\ UNCHANGED <<cfg, disk, accepted, snap, conn>>

-----------------------------------------------------------------------------
(* What others write to the two tables while the connection is open.       *)

Written(new) ==
    /\ conn.open
    /\ rows' = new
    /\ page' = IF Privileged /\ rows' # rows THEN Disturbed ELSE page
    /\ reply' = "none"
    /\ shown' = FALSE
    /\ UNCHANGED <<cfg, disk, accepted, snap, conn>>

\* A login's backfill, a reset or `admin set-password` (module Credentials).
StorePassword(u, hash) ==
    Written([rows EXCEPT !.creds = [v \in DOMAIN @ \cup {u} |-> IF v = u THEN hash ELSE @[v]]])

\* A Samba reader's search on another connection, of any replica.
SearchElsewhere(s) == Written([rows EXCEPT !.rids = @ \cup DOMAIN s.groups])

-----------------------------------------------------------------------------
Next ==
    \/ Startup
    \/ \E t \in Served : Restart(t) \/ Reload(t)
    \/ \E tls \in BOOLEAN : Accept(tls)
    \/ Close
    \/ \E b \in BindRequests : Bind(b.name, b.simple, b.password)
    \/ \E startTLS \in BOOLEAN : Extended(startTLS)
    \/ ReadOnly
    \/ \E i \in DOMAIN Queries :
          \/ SearchRefused(Queries[i]) \/ SearchFails(Queries[i])
          \/ Search(Queries[i])
          \/ \E size \in PageSizes :
                \/ SearchFirstPage(i, size)
                \/ \E offset \in StaleCookies : SearchStalePage(i, size, offset)
    \/ SearchNextPage
    \/ \E w \in Passwords : StorePassword(w.user, w.hash)
    \/ \E s \in ServedSnapshots : SearchElsewhere(s)

Spec == Init /\ [][Next]_vars

-----------------------------------------------------------------------------
(* Properties.                                                             *)

\* A user is in a group, and has a custom attribute, exactly as declared: the
\* groups listed and all above them; the attributes that have one source (of
\* users who list no group twice); emailed codes if the user or a group of
\* theirs asks for them; and a name or an email means one user.
ResolvedAsDeclared(s, tree) ==
    \A u \in Declared(tree, "UserList") :
        LET groups == Above(Parents(tree), ToSet(u.memberOf))
        IN  /\ {g \in GroupNames(tree) : IsMemberOf(s, u.name, g)} = groups
            /\ \A g \in DOMAIN s.members : u.name \in s.members[g] <=> g \in groups
            /\ MFARequiredByDeclaration(s, u.name) <=>
                  u.mfa \/ \E g \in Declared(tree, "GroupList") : g.name \in groups /\ g.requireMFA
            /\ \A id \in {u.name, u.email} \ {""} : Cardinality(ResolveIdentifier(s, id)) = 1
            /\ Cardinality(ToSet(u.memberOf)) = Len(u.memberOf) =>
                  \A k \in Attributes :
                      LET from == Sources(tree, u, k)
                      IN  /\ k \in DOMAIN s.userAttrs[u.name] <=> Cardinality(from) = 1
                          /\ k \in DOMAIN s.userAttrs[u.name] => \E x \in from : x[3] = s.userAttrs[u.name][k]

\* A load accepts the directories that are well formed and no others, however
\* the declarations are spread over files, and resolves what they declare
\* (config.LoadIdentity and the identity resolver).
LoadIsExact ==
    reply = "load" =>
        /\ accepted = "yes" <=> WellFormed(disk)
        /\ accepted = "yes" => \E s \in snap : ResolvedAsDeclared(s, disk)

\* The pages of a search hold every matching entry exactly once if nothing it is
\* answered from changed meanwhile: the directory, the bound user, the channel
\* and, for a Samba reader, the rows read anew for every page, which the search
\* itself changes if a group has no RID yet (the sort and the offsets of
\* handleSearch: the server keeps nothing between two pages).
PagesEnumerate ==
    page.st \in {"more", "done"} =>
        LET all == {e.dn : e \in Matching(Queries[page.q])}
        IN  /\ IsInjective(page.got)
            /\ ToSet(page.got) \subseteq all
            /\ Len(page.got) + page.remaining = Cardinality(all)

\* Samba data is shown only to a user who authenticated on this channel, since
\* the TLS upgrade if there was one, and whom the directory now puts, directly or
\* not, in the readers group (handleConn, handleBind, handleSearch).
PrivilegeIsEarned ==
    shown =>
        /\ conn.proved \in DOMAIN Current.users
        /\ cfg.readers \in Above([g \in DOMAIN Current.groups |-> ToSet(Current.groups[g].memberOf)],
                                 ToSet(Current.users[conn.proved].memberOf))

\* What the comment in handleSearch says of Samba data: "Only a bind authenticated
\* as a member of the configured samba-readers group -- never anonymous [...] --
\* ever sees" it: the bind in force is the last one that succeeded.
NeverAnonymous == shown => conn.last # "anonymous"
=============================================================================

------------------------------ MODULE Identity ------------------------------
(***************************************************************************)
(* LoadIdentity: the declarative files, the checks they must pass, and the *)
(* snapshot resolved from them.                                            *)
(*                                                                         *)
(* A tree is the sequence of files that yamlFilesUnder found.  A file has  *)
(* a kind ("ignored" without a header of ours), says whether the strict    *)
(* parse succeeds, and holds a sequence of declarations.  A map from       *)
(* attribute names to values is a function; a sorted list without          *)
(* repetitions is a set.  Names to display, descriptions and URIs are left *)
(* out; `name` is what identifies a group, a user or a client.             *)
(***************************************************************************)
EXTENDS Naturals, FiniteSets, SequencesExt

CONSTANTS
    Attributes,       \* names a custom attribute can be declared under
    ReservedNames,    \* reservedAttributeNames, and names that are no LDAP attribute
    Values,           \* values it can be given
    Unrepresentable   \* those that are no string, number, boolean or list of those

Kinds == {"GroupList", "UserList", "OIDCClientList"}

AttributeMaps == UNION {[D -> Values] : D \in SUBSET Attributes}
GroupSpecs == [name : STRING, memberOf : Seq(STRING), requireMFA : BOOLEAN,
               custom : AttributeMaps, userCustom : AttributeMaps, directUserCustom : AttributeMaps]
\* hash and hashFile: the declared hash, and what the named file holds: "" for
\* none, "argon2id" for a hash, "other" for anything else or no file.
Hashes == {"", "argon2id", "other"}
UserSpecs == [name : STRING, memberOf : Seq(STRING), email : STRING, enabled : BOOLEAN, mfa : BOOLEAN,
              hash : Hashes, hashFile : Hashes, custom : AttributeMaps]
ClientSpecs == [name : STRING, redirects : BOOLEAN, public : BOOLEAN, secret : BOOLEAN]

Files == [kind : {"GroupList"}, strict : BOOLEAN, items : Seq(GroupSpecs)]
         \cup [kind : {"UserList"}, strict : BOOLEAN, items : Seq(UserSpecs)]
         \cup [kind : {"OIDCClientList"}, strict : BOOLEAN, items : Seq(ClientSpecs)]
         \cup [kind : {"ignored"}, strict : BOOLEAN, items : {<<>>}]

-----------------------------------------------------------------------------
(* One declaration after the other.  l holds what has been read so far: a  *)
(* map from names to declarations for each kind.                           *)

Empty == [ok |-> TRUE, decls |-> [kind \in Kinds |-> [n \in {} |-> n]]]
Refused(l) == [l EXCEPT !.ok = FALSE]

\* normalizeCustomAttributes
AttributesAccepted(a) ==
    /\ DOMAIN a \cap ReservedNames = {}
    /\ \A k \in DOMAIN a : a[k] \notin Unrepresentable

GroupAccepted(g) == \A a \in {g.custom, g.userCustom, g.directUserCustom} : AttributesAccepted(a)

\* resolvePasswordHash
PasswordHashAccepted(u) ==
    \/ u.hash = "" /\ u.hashFile \in {"", "argon2id"}
    \/ u.hash = "argon2id" /\ u.hashFile = ""

EmailTaken(users, u) ==
    /\ u.email # ""
    /\ \E v \in DOMAIN users : users[v].email = u.email

UserAccepted(users, u) ==
    /\ ~EmailTaken(users, u)
    /\ PasswordHashAccepted(u)
    /\ AttributesAccepted(u.custom)

ClientAccepted(c) == c.redirects /\ (c.public \/ c.secret)

Accepted(l, kind, x) ==
    CASE kind = "GroupList"      -> GroupAccepted(x)
      [] kind = "UserList"       -> UserAccepted(l.decls["UserList"], x)
      [] kind = "OIDCClientList" -> ClientAccepted(x)

With(map, x) == [n \in DOMAIN map \cup {x.name} |-> IF n = x.name THEN x ELSE map[n]]

Add(l, kind, x) ==
    IF l.ok /\ x.name # "" /\ x.name \notin DOMAIN l.decls[kind] /\ Accepted(l, kind, x)
    THEN [l EXCEPT !.decls[kind] = With(@, x)] ELSE Refused(l)

AddItems(l, f) ==
    LET after[i \in 0..Len(f.items)] == IF i = 0 THEN l ELSE Add(after[i - 1], f.kind, f.items[i])
    IN  after

AddFile(l, f) ==
    IF f.kind = "ignored" THEN l
    ELSE IF ~f.strict THEN Refused(l) ELSE AddItems(l, f)[Len(f.items)]

Read(tree) ==
    LET after[i \in 0..Len(tree)] == IF i = 0 THEN Empty ELSE AddFile(after[i - 1], tree[i])
    IN  after

-----------------------------------------------------------------------------
(* The group graph.                                                        *)

CheckReferences(users, groups) ==
    /\ \A g \in DOMAIN groups : ToSet(groups[g].memberOf) \subseteq DOMAIN groups
    /\ \A u \in DOMAIN users : ToSet(users[u].memberOf) \subseteq DOMAIN groups

\* The state of the depth-first search; cyclic stands for the error return.
Painted(groups) == [color : [DOMAIN groups -> {"white", "gray", "black"}], cyclic : BOOLEAN]

\* The names of a list visited in turn.
VisitEach(visit, st, list) ==
    LET after[i \in 0..Len(list)] == IF i = 0 THEN st ELSE visit[<<after[i - 1], list[i]>>]
    IN  after

\* visit, by the depth that is left: every level of the recursion paints a white
\* name gray, so that there are never more levels than names.
Visit(groups) ==
    LET visit[d \in 0..Cardinality(DOMAIN groups)] ==
        [p \in Painted(groups) \X DOMAIN groups |->
            LET st == p[1]  name == p[2]
            IN  IF st.cyclic \/ st.color[name] = "black" THEN st
                ELSE IF st.color[name] = "gray" \/ d = 0 THEN [st EXCEPT !.cyclic = TRUE]
                ELSE LET parents == groups[name].memberOf
                         below   == VisitEach(visit[d - 1], [st EXCEPT !.color[name] = "gray"], parents)[Len(parents)]
                     IN  IF below.cyclic THEN below ELSE [below EXCEPT !.color[name] = "black"]]
    IN  visit

\* The names are visited in their order, which only decides the path reported.
DetectCycle(groups) ==
    LET names == SetToSeq(DOMAIN groups)
        white == [color |-> [g \in DOMAIN groups |-> "white"], cyclic |-> FALSE]
    IN  VisitEach(Visit(groups)[Cardinality(DOMAIN groups)], white, names)[Len(names)].cyclic

\* closures: the table of closureOf.
Closures(groups) ==
    LET closure[g \in DOMAIN groups] == {g} \cup UNION {closure[p] : p \in ToSet(groups[g].memberOf)}
    IN  closure

\* Wrong variant: a group's parents count, their parents do not.
ResolveFlattenedMemberOf_Parents(users, groups) ==
    [u \in DOMAIN users |->
        LET direct == ToSet(users[u].memberOf)
        IN  direct \cup UNION {ToSet(groups[g].memberOf) : g \in direct}]

ResolveFlattenedMemberOf(users, groups) ==
    [u \in DOMAIN users |-> UNION {Closures(groups)[g] : g \in ToSet(users[u].memberOf)}]

ResolveFlattenedMembers(memberOf) ==
    [g \in UNION {memberOf[u] : u \in DOMAIN memberOf} |-> {u \in DOMAIN memberOf : g \in memberOf[u]}]

-----------------------------------------------------------------------------
(* Custom attributes: a key that more than one source contributes is       *)
(* dropped.  A group that a user lists twice is two sources.               *)

Contributions(users, groups, memberOf, u, k) ==
    LET from(source, attrs) == IF k \in DOMAIN attrs THEN {<<source, attrs[k]>>} ELSE {}
        direct == users[u].memberOf
    IN  from(<<"own", u>>, users[u].custom)
        \cup (UNION {from(<<"member", g>>, groups[g].userCustom) : g \in memberOf[u]})
        \cup (UNION {from(<<"direct", i>>, groups[direct[i]].directUserCustom) : i \in DOMAIN direct})

ResolveCustomAttributes(users, groups, memberOf) ==
    [u \in DOMAIN users |->
        LET sources(k) == Contributions(users, groups, memberOf, u, k)
        IN  [k \in {k \in Attributes : Cardinality(sources(k)) = 1} |-> (CHOOSE c \in sources(k) : TRUE)[2]]]

-----------------------------------------------------------------------------
Snapshot(users, groups, clients) ==
    LET memberOf == ResolveFlattenedMemberOf(users, groups)
    IN  [users     |-> users,
         groups    |-> groups,
         clients   |-> clients,
         memberOf  |-> memberOf,
         members   |-> ResolveFlattenedMembers(memberOf),
         userAttrs |-> ResolveCustomAttributes(users, groups, memberOf)]

\* The snapshots a load can return: none when it fails.
LoadIdentity(tree) ==
    LET l      == Read(tree)[Len(tree)]
        users  == l.decls["UserList"]
        groups == l.decls["GroupList"]
    IN  IF l.ok /\ CheckReferences(users, groups) /\ ~DetectCycle(groups)
        THEN {Snapshot(users, groups, l.decls["OIDCClientList"])} ELSE {}

IsMemberOf(s, u, g) == u \in DOMAIN s.memberOf /\ g \in s.memberOf[u]

MFARequiredByDeclaration(s, u) ==
    \/ u \in DOMAIN s.users /\ s.users[u].mfa
    \/ u \in DOMAIN s.memberOf /\ \E g \in s.memberOf[u] : s.groups[g].requireMFA

\* The users an identifier can be resolved to; the search for an email goes
\* through a map, in any order.
ResolveIdentifier(s, id) ==
    IF id \in DOMAIN s.users THEN {id} ELSE {u \in DOMAIN s.users : s.users[u].email = id}

-----------------------------------------------------------------------------
(* What a tree declares, without an algorithm.                             *)

Places(tree, kind) ==
    UNION {{<<f, i>> : i \in DOMAIN tree[f].items} : f \in {f \in DOMAIN tree : tree[f].kind = kind}}
At(tree, p) == tree[p[1]].items[p[2]]
Declared(tree, kind) == {At(tree, p) : p \in Places(tree, kind)}
GroupNames(tree) == {g.name : g \in Declared(tree, "GroupList")}

\* The groups listed by the group of each name.
Parents(tree) ==
    [n \in GroupNames(tree) |-> UNION {ToSet(g.memberOf) : g \in {g \in Declared(tree, "GroupList") : g.name = n}}]

\* The groups of direct and all above them: the least set that holds direct and,
\* with a group, its parents.  up gives the parents of each group.
Above(up, direct) ==
    {g \in DOMAIN up : \A S \in SUBSET DOMAIN up :
        direct \subseteq S /\ (\A h \in S : up[h] \subseteq S) => g \in S}

WellFormed(tree) ==
    LET Gs == Declared(tree, "GroupList")
        Us == Declared(tree, "UserList")
        Cs == Declared(tree, "OIDCClientList")
    IN  /\ \A f \in DOMAIN tree : tree[f].kind # "ignored" => tree[f].strict
        /\ \A x \in Gs \cup Us \cup Cs : x.name # ""
        /\ \A kind \in Kinds : \A p, q \in Places(tree, kind) : At(tree, p).name = At(tree, q).name => p = q
        /\ \A p, q \in Places(tree, "UserList") :
              At(tree, p).email = At(tree, q).email => p = q \/ At(tree, p).email = ""
        /\ \A x \in Gs \cup Us : ToSet(x.memberOf) \subseteq GroupNames(tree)
        /\ \A g \in GroupNames(tree) : g \notin Above(Parents(tree), Parents(tree)[g])
        /\ \A u \in Us : "other" \notin {u.hash, u.hashFile} /\ (u.hash = "" \/ u.hashFile = "")
        /\ \A a \in (UNION {{g.custom, g.userCustom, g.directUserCustom} : g \in Gs}) \cup {u.custom : u \in Us} :
              \A k \in DOMAIN a : k \notin ReservedNames /\ a[k] \notin Unrepresentable
        /\ \A c \in Cs : c.redirects /\ (c.public \/ c.secret)

\* The places that give user u the attribute k: the user's own declaration, a
\* group the user is in, a group the user lists.
Sources(tree, u, k) ==
    LET Gs     == {g \in Declared(tree, "GroupList") : k \in DOMAIN g.userCustom}
        Ds     == {g \in Declared(tree, "GroupList") : k \in DOMAIN g.directUserCustom}
        direct == ToSet(u.memberOf)
    IN  {<<"own", u.name, u.custom[j]>> : j \in {k} \cap DOMAIN u.custom}
        \cup {<<"member", g.name, g.userCustom[k]>> : g \in {g \in Gs : g.name \in Above(Parents(tree), direct)}}
        \cup {<<"direct", g.name, g.directUserCustom[k]>> : g \in {g \in Ds : g.name \in direct}}
=============================================================================

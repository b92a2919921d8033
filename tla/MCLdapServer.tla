---------------------------- MODULE MCLdapServer ----------------------------
(***************************************************************************)
(* Every graph over three groups, with a user who lists up to two of them  *)
(* and attributes pushed from several places, is loaded; so are            *)
(* directories with each of the mistakes the loader looks for.  The        *)
(* connection is explored under the directories of MCServed.               *)
(***************************************************************************)
EXTENDS LdapServer

Group(name, memberOf) ==
    [name |-> name, memberOf |-> memberOf, requireMFA |-> FALSE,
     custom |-> <<>>, userCustom |-> <<>>, directUserCustom |-> <<>>]
User(name, memberOf) ==
    [name |-> name, memberOf |-> memberOf, email |-> "", enabled |-> TRUE, mfa |-> FALSE,
     hash |-> "", hashFile |-> "", custom |-> <<>>]
Client(name) == [name |-> name, redirects |-> TRUE, public |-> FALSE, secret |-> TRUE]
File(kind, items) == [kind |-> kind, strict |-> TRUE, items |-> items]
Tree(groups, users) == <<File("GroupList", groups), File("UserList", users)>>

GroupSet == {"g1", "g2", "g3"}
Lists == {<<>>} \cup {<<g>> : g \in GroupSet} \cup {<<g, h>> : g, h \in GroupSet}
ParentLists(g) == {SetToSeq(S) : S \in SUBSET (GroupSet \ {g})}

\* g1 pushes a to every member, g2 pushes a to those who list it and asks for
\* codes, g3 pushes b both ways; u1 declares b or nothing.
Graph(p, list, own) ==
    <<File("UserList", <<[User("u1", list) EXCEPT !.custom = own]>>),
      File("GroupList", <<[Group("g1", p[1]) EXCEPT !.userCustom = [a |-> "1"], !.directUserCustom = [b |-> "1"]],
                          [Group("g2", p[2]) EXCEPT !.directUserCustom = [a |-> "2"], !.requireMFA = TRUE]>>),
      File("GroupList", <<[Group("g3", p[3]) EXCEPT !.userCustom = [b |-> "3"], !.directUserCustom = [b |-> "4"]]>>)>>
Graphs == {Graph(p, list, own) : p \in ParentLists("g1") \X ParentLists("g2") \X ParentLists("g3"),
                                 list \in Lists, own \in {<<>>, [b |-> "0"]}}

\* A second declaration, after a good one, and what the loader makes of it.
G1 == Group("g1", <<>>)
U1 == [User("u1", <<"g1">>) EXCEPT !.email = "e1"]
Mistakes ==
    {Tree(<<G1, g>>, <<U1>>) :
        g \in {Group("", <<>>), Group("g1", <<>>), Group("g2", <<"nowhere">>), Group("g2", <<"g2">>),
               [Group("g2", <<>>) EXCEPT !.custom = [uid |-> "1"]],
               [Group("g2", <<>>) EXCEPT !.userCustom = [a |-> "map"]],
               [Group("g2", <<>>) EXCEPT !.directUserCustom = [uid |-> "1"]]}}
    \cup {Tree(<<G1>>, <<U1>>) \o <<File("UserList", <<u>>)>> :
        u \in {User("", <<>>), User("u1", <<>>), User("u2", <<"nowhere">>), User("u2", <<"g1">>),
               User("e1", <<>>), [User("u2", <<>>) EXCEPT !.email = "e1"], [User("u2", <<>>) EXCEPT !.email = "u1"],
               [User("u2", <<>>) EXCEPT !.custom = [uid |-> "1"]], [User("u2", <<>>) EXCEPT !.custom = [a |-> "map"]]}
              \cup {[User("u2", <<>>) EXCEPT !.hash = h, !.hashFile = f] :
                      h \in {"", "argon2id", "other"}, f \in {"", "argon2id", "other"}}}
    \cup {Tree(<<G1>>, <<U1>>) \o <<File("OIDCClientList", <<Client("c1"), c>>)>> :
        c \in {Client("c1"), Client(""), Client("c2")}
              \cup {[Client("c2") EXCEPT !.redirects = r, !.public = p, !.secret = s] : r, p, s \in BOOLEAN}}
    \cup {Tree(<<G1>>, <<U1>>) \o <<[kind |-> k, strict |-> FALSE, items |-> <<>>]>> :
        k \in {"ignored", "GroupList", "UserList", "OIDCClientList"}}
    \cup {<<>>}

\* u1 is a reader through g2, until the group is changed or a user of another
\* name declares Domain Users; a cyclic directory is refused.
Readers == [Group("g1", <<>>) EXCEPT !.custom = [a |-> "1"]]
U2 == [User("u2", <<>>) EXCEPT !.email = "e2"]
MCServed ==
    {Tree(<<Readers, Group("g2", <<"g1">>)>>, <<User("u1", <<"g2">>), U2>>),
     Tree(<<Readers, Group("g2", <<>>)>>, <<User("u1", <<"g2">>), U2>>),
     Tree(<<Readers, Group("g2", <<>>), Group(DomainUsers, <<>>)>>, <<[User("u1", <<"g1">>) EXCEPT !.enabled = FALSE]>>),
     Tree(<<Readers, Group("g2", <<"g1">>)>>, <<U2>>),
     Tree(<<Group("g1", <<"g2">>), Group("g2", <<"g1">>)>>, <<User("u1", <<"g2">>), U2>>)}
MCTrees == Graphs \cup Mistakes \cup MCServed

Config(tls, anonymous, start, readers) ==
    [requireTLS |-> tls, anonymous |-> anonymous, startTLS |-> start, readers |-> readers]
MCConfigs == {Config(FALSE, TRUE, TRUE, "g1"), Config(TRUE, FALSE, TRUE, "g1"), Config(FALSE, FALSE, FALSE, "")}
MCConfigsSamba == {Config(FALSE, TRUE, TRUE, "g1")}

Present(a) == [kind |-> "present", attr |-> a]
Eq(a, v) == [kind |-> "eq", attr |-> a, value |-> v]
Query(base, scope, filter, attrs) == [base |-> base, scope |-> scope, filter |-> filter, attrs |-> attrs]
Both(f, g) == [kind |-> "and", children |-> <<f, g>>]
Either(f, g) == [kind |-> "or", children |-> <<f, g>>]
IsU1 == Eq("member", UserDN("u1"))
IsG1 == Eq("cn", <<"", "g1">>)
Unknown == [kind |-> "substrings"]
MCFilters ==
    {Present(a) : a \in {"objectClass", "sambaSID", "cn"}}
    \cup {IsU1, IsG1, Unknown, Either(IsU1, Present("sambaSID")), Both(Present("cn"), IsG1),
          Both(Present("cn"), Unknown)}
MCQueries ==
    <<Query(BaseDN, "sub", Present("objectClass"), <<>>),
      Query(BaseDN, "sub", Present("sambaSID"), <<"sambaNTPassword">>),
      Query(BaseDN, "one", Present("objectClass"), <<"sambaSID", "*">>),
      Query(GroupsOUDN, "sub", Either(IsU1, Present("sambaSID")), <<"sambaSID">>),
      Query(RootDSE, "base", Present("objectClass"), <<"1.1">>),
      Query(GroupDN("g1"), "base", Both(Present("cn"), IsG1), <<>>),
      Query(OtherDN, "sub", Both(Present("cn"), Unknown), <<>>)>>

BindRequest(name, password) == [name |-> name, simple |-> TRUE, password |-> password]
MCBindRequests ==
    {BindRequest(RootDSE, ""), BindRequest(RootDSE, "right"), BindRequest(UserDN("u1"), "right"),
     BindRequest(UserDN("u1"), "wrong"), BindRequest(<<"bare", "e2">>, "right"), BindRequest(GroupDN("g1"), "right"),
     [BindRequest(UserDN("u1"), "right") EXCEPT !.simple = FALSE]}
MCPasswords == {[user |-> "u1", hash |-> "1"]}
DNs ==
    <<RootDSE, GroupDN(DomainUsers), GroupDN("g1"), GroupDN("g2"), GroupDN("g3"), SubschemaDN, BaseDN, GroupsOUDN,
      UsersOUDN, SambaDomainDN, UserDN("u1"), UserDN("u2")>>
MCDNOrder == [dn \in ToSet(DNs) |-> CHOOSE i \in DOMAIN DNs : DNs[i] = dn]
=============================================================================

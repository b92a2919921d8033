-------------------------- MODULE LdapServerProofs --------------------------
(***************************************************************************)
(* The identity directory and the LDAP connection, for every directory,    *)
(* configuration and set of queries.                                       *)
(*                                                                         *)
(* From the bottom up: the depth-first search reports a cycle exactly when *)
(* there is one; without a cycle the closures are the groups above; the    *)
(* declarations read file by file are those of the whole tree; hence a     *)
(* load accepts what is well formed and resolves what is declared.  Then   *)
(* the entries of a snapshot: one for each DN, nothing of Samba's without  *)
(* the privilege; their order; the pages; and the invariant of the         *)
(* connection.                                                             *)
(*                                                                         *)
(* The recursive functions of Identity are reasoned about by their least   *)
(* counterexample: Nat is well founded.                                    *)
(***************************************************************************)
EXTENDS LdapServer, FiniteSetTheorems, WellFoundedInduction, TLAPS

-----------------------------------------------------------------------------
(* Induction.                                                              *)

\* The natural numbers are well founded, which is all that induction needs.
LEMMA NatSetInduction ==
    ASSUME NEW S, 0 \in S, \A n \in Nat : n \in S => n + 1 \in S
    PROVE  Nat \subseteq S
<1> DEFINE T == Nat \ S
           R == {p \in Nat \X Nat : p[1] < p[2]}
<1>1. SUFFICES ASSUME T # {} PROVE FALSE
  OBVIOUS
<1>2. IsWellFoundedOn(R, Nat)
  BY NatLessThanWellFounded DEF OpToRel
<1>3. T \subseteq Nat
  OBVIOUS
<1>4. PICK x \in T : \A y \in T : ~(<<y, x>> \in R)
  <2> HIDE DEF R, T
  <2> QED BY <1>1, <1>2, <1>3, WFMin, Zenon
<1>5. x \in Nat /\ x # 0 /\ \A y \in T : ~(y < x)
  BY <1>3, <1>4
<1>6. x - 1 \in Nat /\ x - 1 < x /\ (x - 1) + 1 = x
  BY <1>5
<1>7. x \in S
  BY <1>5, <1>6
<1> QED BY <1>7

-----------------------------------------------------------------------------
(* The lists visited in turn.                                              *)

IsVisitEach(g, visit, st, list, n) ==
    g = [i \in 0..n |-> IF i = 0 THEN st ELSE visit[<<g[i - 1], list[i]>>]]

\* The recursive function VisitEach chooses exists.
LEMMA VisitEachExists ==
    ASSUME NEW visit, NEW st, NEW list, NEW n \in Nat
    PROVE  \E g : IsVisitEach(g, visit, st, list, n)
<1> DEFINE S == {m \in Nat : \E g : IsVisitEach(g, visit, st, list, m)}
<1>1. 0 \in S
  <2> DEFINE g == [i \in 0..0 |-> st]
  <2>1. IsVisitEach(g, visit, st, list, 0)
    BY DEF IsVisitEach
  <2> QED BY <2>1
<1>2. ASSUME NEW m \in Nat, m \in S PROVE m + 1 \in S
  <2>1. PICK g : IsVisitEach(g, visit, st, list, m)
    BY <1>2
  <2> DEFINE h == [i \in 0..(m + 1) |-> IF i <= m THEN g[i] ELSE visit[<<g[m], list[m + 1]>>]]
  <2>2. ASSUME NEW i \in 0..(m + 1)
        PROVE  h[i] = IF i = 0 THEN st ELSE visit[<<h[i - 1], list[i]>>]
    <3>1. CASE i <= m
      <4>1. i \in 0..m /\ (i # 0 => i - 1 \in 0..(m + 1) /\ i - 1 <= m /\ i - 1 \in 0..m)
        BY <3>1
      <4>2. h[i] = g[i] /\ (i # 0 => h[i - 1] = g[i - 1])
        BY <3>1, <4>1
      <4> QED BY <4>1, <4>2, <2>1 DEF IsVisitEach
    <3>2. CASE i = m + 1
      BY <3>2
    <3> QED BY <3>1, <3>2
  <2>3. IsVisitEach(h, visit, st, list, m + 1)
    BY <2>2 DEF IsVisitEach
  <2> QED BY <2>3
<1> HIDE DEF S
<1>3. Nat \subseteq S
  BY <1>1, <1>2, NatSetInduction
<1> QED BY <1>3 DEF S

\* VisitEach visits one name after the other.
LEMMA VisitEachSteps ==
    ASSUME NEW visit, NEW st, NEW list, Len(list) \in Nat
    PROVE  /\ VisitEach(visit, st, list)[0] = st
           /\ \A i \in 1..Len(list) :
                 VisitEach(visit, st, list)[i] = visit[<<VisitEach(visit, st, list)[i - 1], list[i]>>]
<1> DEFINE v == VisitEach(visit, st, list)
<1>1. v = CHOOSE g : IsVisitEach(g, visit, st, list, Len(list))
  BY Zenon DEF VisitEach, IsVisitEach
<1>2. \E g : IsVisitEach(g, visit, st, list, Len(list))
  BY VisitEachExists, Zenon
<1> HIDE DEF v
<1>3. IsVisitEach(v, visit, st, list, Len(list))
  BY <1>1, <1>2, Zenon
<1>4. v[0] = st /\ \A i \in 1..Len(list) : v[i] = visit[<<v[i - 1], list[i]>>]
  BY <1>3 DEF IsVisitEach
<1> QED BY <1>4 DEF v

-----------------------------------------------------------------------------
(* The depth-first search.                                                 *)

\* One level of visit, over the level below.
Level(groups, below, d) ==
    [p \in Painted(groups) \X DOMAIN groups |->
        LET st == p[1]  name == p[2]
        IN  IF st.cyclic \/ st.color[name] = "black" THEN st
            ELSE IF st.color[name] = "gray" \/ d = 0 THEN [st EXCEPT !.cyclic = TRUE]
            ELSE LET parents == groups[name].memberOf
                     r       == VisitEach(below, [st EXCEPT !.color[name] = "gray"], parents)[Len(parents)]
                 IN  IF r.cyclic THEN r ELSE [r EXCEPT !.color[name] = "black"]]

IsVisit(g, groups, n) == g = [d \in 0..n |-> Level(groups, g[d - 1], d)]

\* The recursive function Visit chooses exists.
LEMMA VisitExists ==
    ASSUME NEW groups, NEW n \in Nat
    PROVE  \E g : IsVisit(g, groups, n)
<1> DEFINE S == {m \in Nat : \E g : IsVisit(g, groups, m)}
<1>1. 0 \in S
  <2>1. \A x, y : Level(groups, x, 0) = Level(groups, y, 0)
    BY DEF Level
  <2> DEFINE g == [i \in 0..0 |-> Level(groups, 0, 0)]
  <2>2. IsVisit(g, groups, 0)
    <3> HIDE DEF g
    <3>1. Level(groups, g[0 - 1], 0) = Level(groups, 0, 0)
      BY <2>1
    <3>2. g = [i \in 0..0 |-> Level(groups, g[i - 1], i)]
      BY <3>1 DEF g
    <3> QED BY <3>2 DEF IsVisit
  <2> QED BY <2>2
<1>2. ASSUME NEW m \in Nat, m \in S PROVE m + 1 \in S
  <2>1. PICK g : IsVisit(g, groups, m)
    BY <1>2
  <2> DEFINE h == [i \in 0..(m + 1) |-> IF i <= m THEN g[i] ELSE Level(groups, g[m], m + 1)]
  <2>2. ASSUME NEW i \in 0..(m + 1) PROVE h[i] = Level(groups, h[i - 1], i)
    <3>1. CASE i = 0
      <4>1. \A x, y : Level(groups, x, 0) = Level(groups, y, 0)
        BY DEF Level
      <4>2. h[0] = g[0] /\ g[0] = Level(groups, g[0 - 1], 0)
        BY <2>1 DEF IsVisit
      <4> QED BY <3>1, <4>1, <4>2
    <3>2. CASE i \in 1..m
      <4>1. h[i] = g[i] /\ h[i - 1] = g[i - 1] /\ i \in 0..m
        BY <3>2
      <4> QED BY <4>1, <2>1 DEF IsVisit
    <3>3. CASE i = m + 1
      BY <3>3
    <3> QED BY <3>1, <3>2, <3>3
  <2>3. IsVisit(h, groups, m + 1)
    BY <2>2 DEF IsVisit
  <2> QED BY <2>3
<1> HIDE DEF S
<1>3. Nat \subseteq S
  BY <1>1, <1>2, NatSetInduction
<1> QED BY <1>3 DEF S

\* Every depth of the search is one level over the depth below.
LEMMA VisitLevels ==
    ASSUME NEW groups, Cardinality(DOMAIN groups) \in Nat
    PROVE  \A d \in 0..Cardinality(DOMAIN groups) : Visit(groups)[d] = Level(groups, Visit(groups)[d - 1], d)
<1> DEFINE n == Cardinality(DOMAIN groups)
           v == Visit(groups)
<1>1. v = CHOOSE g : IsVisit(g, groups, n)
  BY Zenon DEF Visit, IsVisit, Level
<1>2. \E g : IsVisit(g, groups, n)
  BY VisitExists, Zenon
<1> HIDE DEF v, n
<1>3. IsVisit(v, groups, n)
  BY <1>1, <1>2, Zenon
<1>4. \A d \in 0..n : v[d] = Level(groups, v[d - 1], d)
  BY <1>3 DEF IsVisit
<1> QED BY <1>4 DEF v, n

\* Every group that is listed exists.
Referenced(groups) == \A g \in DOMAIN groups : groups[g].memberOf \in Seq(DOMAIN groups)

Up(groups) == [g \in DOMAIN groups |-> ToSet(groups[g].memberOf)]
UpClosed(up, S) == S \subseteq DOMAIN up /\ \A h \in S : up[h] \subseteq S
Cyclic(up) == \E g \in DOMAIN up : g \in Above(up, up[g])

Coloured(st, c) == {g \in DOMAIN st.color : st.color[g] = c}

\* What is black has nothing but black above it, no group of it is above itself,
\* and no part of it keeps leading back into itself.
BlackOK(up, B) ==
    /\ UpClosed(up, B)
    /\ \A b \in B : \E S \in SUBSET B : UpClosed(up, S) /\ up[b] \subseteq S /\ b \notin S
    /\ \A S \in SUBSET B : S # {} => \E x \in S : up[x] \cap S = {}

\* What visit(name) may count on, and what it leaves behind.
VisitPre(groups, st, name, d) ==
    ~st.cyclic =>
        /\ BlackOK(Up(groups), Coloured(st, "black"))
        /\ \A g \in Coloured(st, "gray") : name \in Above(Up(groups), Up(groups)[g])
        /\ Cardinality(Coloured(st, "white")) <= d
VisitPost(groups, st, r, done) ==
    /\ r \in Painted(groups)
    /\ r.cyclic => st.cyclic \/ Cyclic(Up(groups))
    /\ ~r.cyclic =>
          /\ ~st.cyclic
          /\ BlackOK(Up(groups), Coloured(r, "black"))
          /\ Coloured(r, "gray") = Coloured(st, "gray")
          /\ Coloured(st, "black") \cup done \subseteq Coloured(r, "black")
VisitOK(groups, visit, d) ==
    \A st \in Painted(groups), name \in DOMAIN groups :
        VisitPre(groups, st, name, d) => VisitPost(groups, st, visit[<<st, name>>], {name})

\* The parents of a group whose references were checked are groups.
LEMMA UpIs ==
    ASSUME NEW groups, Referenced(groups)
    PROVE  /\ DOMAIN Up(groups) = DOMAIN groups
           /\ \A g \in DOMAIN groups :
                 Up(groups)[g] = ToSet(groups[g].memberOf) /\ Up(groups)[g] \subseteq DOMAIN groups
BY DEF Referenced, Up, ToSet

\* A finished name all of whose parents are finished can be added to them.
LEMMA BlackenOK ==
    ASSUME NEW up, NEW B, BlackOK(up, B), NEW name \in DOMAIN up, name \notin B, up[name] \subseteq B
    PROVE  BlackOK(up, B \cup {name})
<1> DEFINE C == B \cup {name}
<1>1. UpClosed(up, C)
  BY DEF BlackOK, UpClosed
<1>2. ASSUME NEW b \in C PROVE \E S \in SUBSET C : UpClosed(up, S) /\ up[b] \subseteq S /\ b \notin S
  <2>1. CASE b = name
    BY <2>1 DEF BlackOK
  <2>2. CASE b \in B
    BY <2>2 DEF BlackOK
  <2> QED BY <2>1, <2>2
<1>3. ASSUME NEW S \in SUBSET C, S # {} PROVE \E x \in S : up[x] \cap S = {}
  <2> DEFINE T == S \ {name}
  <2>1. CASE T = {}
    <3>1. S = {name}
      BY <1>3, <2>1
    <3> QED BY <3>1
  <2>2. CASE T # {}
    <3>1. PICK x \in T : up[x] \cap T = {}
      BY <2>2 DEF BlackOK
    <3>2. up[x] \subseteq B
      BY <3>1 DEF BlackOK, UpClosed
    <3> QED BY <3>1, <3>2
  <2> QED BY <2>1, <2>2
<1> QED BY <1>1, <1>2, <1>3 DEF BlackOK

\* The groups above are in every closed set that holds the ones listed.
LEMMA AboveClosed ==
    ASSUME NEW up, NEW D, NEW S, UpClosed(up, S), D \subseteq S
    PROVE  Above(up, D) \subseteq S
BY DEF Above, UpClosed

\* A parent of what is above is above, too.
LEMMA AboveStep ==
    ASSUME NEW up, NEW D, NEW g \in Above(up, D), NEW p \in up[g], p \in DOMAIN up
    PROVE  p \in Above(up, D)
BY DEF Above

\* The groups listed are among the groups above.
LEMMA AboveHolds ==
    ASSUME NEW up, NEW D, NEW p \in D, p \in DOMAIN up
    PROVE  p \in Above(up, D)
BY DEF Above

\* Visits of the names of a list, in turn, are right if each one is.
LEMMA VisitEachOK ==
    ASSUME NEW groups, Referenced(groups), IsFiniteSet(DOMAIN groups),
           NEW d \in Nat, NEW visit, VisitOK(groups, visit, d),
           NEW st \in Painted(groups), ~st.cyclic, NEW list \in Seq(DOMAIN groups),
           BlackOK(Up(groups), Coloured(st, "black")), Cardinality(Coloured(st, "white")) <= d,
           \A g \in Coloured(st, "gray"), i \in 1..Len(list) : list[i] \in Above(Up(groups), Up(groups)[g])
    PROVE  VisitPost(groups, st, VisitEach(visit, st, list)[Len(list)], ToSet(list))
<1> DEFINE v == VisitEach(visit, st, list)
           first(i) == {list[j] : j \in 1..i}
           S == {i \in Nat : i <= Len(list) => VisitPost(groups, st, v[i], first(i))}
<1>0. Len(list) \in Nat /\ DOMAIN list = 1..Len(list)
  OBVIOUS
<1>1. v[0] = st /\ \A i \in 1..Len(list) : v[i] = visit[<<v[i - 1], list[i]>>]
  BY <1>0, VisitEachSteps
<1> HIDE DEF v
<1>2. 0 \in S
  <2>1. first(0) = {}
    OBVIOUS
  <2>2. VisitPost(groups, st, st, {})
    BY DEF VisitPost
  <2>3. VisitPost(groups, st, v[0], first(0))
    BY <1>1, <2>1, <2>2, Zenon
  <2> HIDE DEF first
  <2> QED BY <2>3
<1>3. ASSUME NEW i \in Nat, i \in S PROVE i + 1 \in S
  <2> SUFFICES ASSUME i + 1 <= Len(list) PROVE VisitPost(groups, st, v[i + 1], first(i + 1))
    OBVIOUS
  <2> DEFINE s == v[i]
             name == list[i + 1]
             r == visit[<<s, name>>]
  <2>1. VisitPost(groups, st, s, first(i)) /\ i + 1 \in 1..Len(list) /\ name \in DOMAIN groups
    BY <1>0, <1>3
  <2>2. v[i + 1] = r
    BY <1>1, <2>1
  <2>3. s \in Painted(groups)
    BY <2>1 DEF VisitPost
  <2>4. VisitPre(groups, s, name, d)
    <3> SUFFICES ASSUME ~s.cyclic PROVE VisitPre(groups, s, name, d)
      BY DEF VisitPre
    <3>1. /\ Coloured(s, "gray") = Coloured(st, "gray") /\ Coloured(st, "black") \subseteq Coloured(s, "black")
          /\ BlackOK(Up(groups), Coloured(s, "black"))
      BY <2>1 DEF VisitPost
    <3>2. Coloured(s, "white") \subseteq Coloured(st, "white") /\ Coloured(st, "white") \subseteq DOMAIN groups
      BY <2>3, <3>1 DEF Coloured, Painted
    <3>3. Cardinality(Coloured(s, "white")) <= d
      <4>1. IsFiniteSet(Coloured(st, "white"))
        BY <3>2, FS_Subset
      <4>2. Cardinality(Coloured(s, "white")) <= Cardinality(Coloured(st, "white")) /\ IsFiniteSet(Coloured(s, "white"))
        BY <4>1, <3>2, FS_Subset
      <4>3. Cardinality(Coloured(s, "white")) \in Nat /\ Cardinality(Coloured(st, "white")) \in Nat
        BY <4>1, <4>2, FS_CardinalityType
      <4> QED BY <4>2, <4>3
    <3>4. \A g \in Coloured(s, "gray") : name \in Above(Up(groups), Up(groups)[g])
      BY <2>1, <3>1
    <3> QED BY <3>1, <3>3, <3>4 DEF VisitPre
  <2>5. VisitPost(groups, s, r, {name})
    BY <2>1, <2>3, <2>4 DEF VisitOK
  <2>6. first(i + 1) = first(i) \cup {name}
    BY <1>0, <2>1
  <2> HIDE DEF s, r, first, name
  <2>7. VisitPost(groups, st, r, first(i + 1))
    BY <2>1, <2>5, <2>6 DEF VisitPost
  <2> QED BY <2>2, <2>7
<1> HIDE DEF S
<1>4. Nat \subseteq S
  BY <1>2, <1>3, NatSetInduction
<1>5. VisitPost(groups, st, v[Len(list)], first(Len(list)))
  <2>1. Len(list) \in S /\ Len(list) <= Len(list)
    BY <1>0, <1>4
  <2> HIDE DEF first
  <2> QED BY <2>1 DEF S
<1>6. first(Len(list)) = ToSet(list)
  BY <1>0 DEF ToSet
<1> QED BY <1>5, <1>6 DEF v

\* One more level of the recursion is right if the level below is.
LEMMA LevelOK ==
    ASSUME NEW groups, Referenced(groups), IsFiniteSet(DOMAIN groups),
           NEW d \in Nat, NEW below, d # 0 => VisitOK(groups, below, d - 1)
    PROVE  VisitOK(groups, Level(groups, below, d), d)
<1> SUFFICES ASSUME NEW st \in Painted(groups), NEW name \in DOMAIN groups, VisitPre(groups, st, name, d)
             PROVE  VisitPost(groups, st, Level(groups, below, d)[<<st, name>>], {name})
  BY DEF VisitOK
<1> DEFINE r == Level(groups, below, d)[<<st, name>>]
           up == Up(groups)
           mid == [st EXCEPT !.color[name] = "gray"]
           list == groups[name].memberOf
           b == VisitEach(below, mid, list)[Len(list)]
<1> SUFFICES VisitPost(groups, st, r, {name})
  OBVIOUS
<1>1. r = IF st.cyclic \/ st.color[name] = "black" THEN st
          ELSE IF st.color[name] = "gray" \/ d = 0 THEN [st EXCEPT !.cyclic = TRUE]
          ELSE IF b.cyclic THEN b ELSE [b EXCEPT !.color[name] = "black"]
  BY DEF Level
<1>2. st.color[name] \in {"white", "gray", "black"} /\ DOMAIN st.color = DOMAIN groups /\ st.cyclic \in BOOLEAN
  BY DEF Painted
<1>3. DOMAIN up = DOMAIN groups /\ up[name] = ToSet(list) /\ \A g \in DOMAIN groups : up[g] \subseteq DOMAIN groups
  BY UpIs
<1> HIDE DEF r
<1>4. CASE st.cyclic
  <2>1. r = st
    BY <1>1, <1>4
  <2> QED BY <1>4, <2>1 DEF VisitPost
<1>5. CASE ~st.cyclic /\ st.color[name] = "black"
  <2>1. r = st
    BY <1>1, <1>5
  <2>2. {name} \subseteq Coloured(st, "black")
    BY <1>2, <1>5 DEF Coloured
  <2> QED BY <1>5, <2>1, <2>2 DEF VisitPost, VisitPre
<1>6. CASE ~st.cyclic /\ st.color[name] = "gray"
  <2>1. r = [st EXCEPT !.cyclic = TRUE]
    BY <1>1, <1>6
  <2>2. r \in Painted(groups) /\ r.cyclic
    BY <2>1 DEF Painted
  <2>3. name \in Coloured(st, "gray")
    BY <1>2, <1>6 DEF Coloured
  <2>4. name \in Above(up, up[name])
    BY <1>6, <2>3 DEF VisitPre
  <2>5. Cyclic(up)
    BY <1>3, <2>4 DEF Cyclic
  <2> QED BY <2>2, <2>5 DEF VisitPost
<1>7. CASE ~st.cyclic /\ st.color[name] = "white"
  <2> USE DEF Coloured
  <2>1. /\ mid \in Painted(groups) /\ ~mid.cyclic /\ DOMAIN mid.color = DOMAIN groups
        /\ mid.color[name] = "gray" /\ \A g \in DOMAIN groups \ {name} : mid.color[g] = st.color[g]
    BY <1>2, <1>7 DEF Painted
  <2> HIDE DEF mid
  <2>2. /\ Coloured(mid, "black") = Coloured(st, "black")
        /\ Coloured(mid, "gray") = Coloured(st, "gray") \cup {name}
        /\ Coloured(mid, "white") = Coloured(st, "white") \ {name}
    BY <1>2, <1>7, <2>1
  <2>3. name \in Coloured(st, "white") /\ Coloured(st, "white") \subseteq DOMAIN groups /\ name \notin Coloured(st, "gray")
    BY <1>2, <1>7
  <2> HIDE DEF Coloured
  <2>4. d # 0 /\ Cardinality(Coloured(mid, "white")) <= d - 1 /\ d - 1 \in Nat
    <3>1. IsFiniteSet(Coloured(st, "white"))
      BY <2>3, FS_Subset
    <3>2. Cardinality(Coloured(mid, "white")) = Cardinality(Coloured(st, "white")) - 1 /\ IsFiniteSet(Coloured(mid, "white"))
      BY <2>2, <2>3, <3>1, FS_RemoveElement
    <3>3. Cardinality(Coloured(mid, "white")) \in Nat /\ Cardinality(Coloured(st, "white")) \in Nat
      BY <3>1, <3>2, FS_CardinalityType
    <3>4. Cardinality(Coloured(st, "white")) <= d
      BY <1>7 DEF VisitPre
    <3> QED BY <3>2, <3>3, <3>4
  <2>5. /\ list \in Seq(DOMAIN groups) /\ Len(list) \in Nat
        /\ \A i \in 1..Len(list) : list[i] \in DOMAIN groups /\ list[i] \in up[name]
    <3>1. list \in Seq(DOMAIN groups)
      BY DEF Referenced
    <3>2. Len(list) \in Nat /\ DOMAIN list = 1..Len(list) /\ \A i \in 1..Len(list) : list[i] \in DOMAIN groups
      BY <3>1
    <3> QED BY <1>3, <3>1, <3>2 DEF ToSet
  <2> HIDE DEF list
  <2>6. ASSUME NEW g \in Coloured(mid, "gray"), NEW i \in 1..Len(list)
        PROVE  list[i] \in Above(up, up[g])
    <3>1. CASE g = name
      BY <1>3, <2>5, <3>1, AboveHolds
    <3>2. CASE g \in Coloured(st, "gray")
      <4>1. name \in Above(up, up[g])
        BY <1>7, <3>2 DEF VisitPre
      <4> QED BY <1>3, <2>5, <4>1, AboveStep
    <3> QED BY <2>2, <3>1, <3>2
  <2>7. BlackOK(up, Coloured(mid, "black"))
    BY <1>7, <2>2 DEF VisitPre
  <2>8. VisitPost(groups, mid, b, ToSet(list))
    <3> HIDE DEF b, up
    <3>1. VisitOK(groups, below, d - 1)
      BY <2>4
    <3> QED BY <2>1, <2>4, <2>5, <2>6, <2>7, <3>1, VisitEachOK DEF b, up
  <2> HIDE DEF b
  <2>9. CASE b.cyclic
    <3>1. r = b
      BY <1>1, <1>7, <2>4, <2>9
    <3> QED BY <2>1, <2>8, <2>9, <3>1 DEF VisitPost
  <2>10. CASE ~b.cyclic
    <3>1. r = [b EXCEPT !.color[name] = "black"]
      BY <1>1, <1>7, <2>4, <2>10
    <3>2. b \in Painted(groups) /\ DOMAIN b.color = DOMAIN groups
      BY <2>8 DEF VisitPost, Painted
    <3>3. /\ r \in Painted(groups) /\ ~r.cyclic /\ DOMAIN r.color = DOMAIN groups /\ r.color[name] = "black"
          /\ \A g \in DOMAIN groups \ {name} : r.color[g] = b.color[g]
      BY <2>10, <3>1, <3>2 DEF Painted
    <3>4. /\ BlackOK(up, Coloured(b, "black")) /\ Coloured(b, "gray") = Coloured(st, "gray") \cup {name}
          /\ Coloured(st, "black") \cup up[name] \subseteq Coloured(b, "black")
      BY <1>3, <2>2, <2>8, <2>10 DEF VisitPost
    <3>5. b.color[name] = "gray"
      BY <3>2, <3>4 DEF Coloured
    <3>6. Coloured(r, "black") = Coloured(b, "black") \cup {name} /\ name \notin Coloured(b, "black")
      BY <3>2, <3>3, <3>5 DEF Coloured
    <3>7. Coloured(r, "gray") = Coloured(b, "gray") \ {name}
      BY <3>2, <3>3, <3>5 DEF Coloured
    <3>8. BlackOK(up, Coloured(r, "black"))
      BY <1>3, <3>4, <3>6, BlackenOK
    <3>9. Coloured(r, "gray") = Coloured(st, "gray")
      BY <2>3, <3>4, <3>7
    <3> QED BY <1>7, <3>3, <3>4, <3>6, <3>8, <3>9 DEF VisitPost
  <2> QED BY <2>9, <2>10
<1> QED BY <1>2, <1>4, <1>5, <1>6, <1>7

\* A visit with a depth of as many levels as there are names is right.
LEMMA VisitsOK ==
    ASSUME NEW groups, Referenced(groups), IsFiniteSet(DOMAIN groups)
    PROVE  VisitOK(groups, Visit(groups)[Cardinality(DOMAIN groups)], Cardinality(DOMAIN groups))
<1> DEFINE n == Cardinality(DOMAIN groups)
           S == {d \in Nat : d <= n => VisitOK(groups, Visit(groups)[d], d)}
<1>1. n \in Nat
  BY FS_CardinalityType
<1>2. \A d \in 0..n : Visit(groups)[d] = Level(groups, Visit(groups)[d - 1], d)
  BY <1>1, VisitLevels
<1> HIDE DEF n
<1>3. 0 \in S
  <2>1. VisitOK(groups, Visit(groups)[0], 0)
    BY <1>1, <1>2, LevelOK
  <2> QED BY <2>1
<1>4. ASSUME NEW d \in Nat, d \in S PROVE d + 1 \in S
  <2>1. ASSUME d + 1 <= n PROVE VisitOK(groups, Visit(groups)[d + 1], d + 1)
    <3>1. d + 1 \in 0..n /\ (d + 1) - 1 = d /\ VisitOK(groups, Visit(groups)[d], d)
      BY <1>1, <1>4, <2>1
    <3>2. Visit(groups)[d + 1] = Level(groups, Visit(groups)[d], d + 1)
      BY <1>2, <3>1
    <3>3. VisitOK(groups, Level(groups, Visit(groups)[d], d + 1), d + 1)
      BY <3>1, LevelOK
    <3> QED BY <3>2, <3>3
  <2> QED BY <2>1
<1> HIDE DEF S
<1>5. n \in S /\ n <= n
  BY <1>1, <1>3, <1>4, NatSetInduction
<1> QED BY <1>5 DEF S, n

\* The names of a finite set in some order.
LEMMA Listed ==
    ASSUME NEW S, IsFiniteSet(S)
    PROVE  SetToSeq(S) \in Seq(S) /\ ToSet(SetToSeq(S)) = S
<1> DEFINE n == Cardinality(S)
           q == SetToSeq(S)
<1>1. n \in Nat /\ ExistsBijection(1..n, S)
  BY FS_CardinalityType
<1>2. PICK f \in Bijection(1..n, S) : TRUE
  BY <1>1 DEF ExistsBijection
<1>3. f \in [1..n -> S] /\ IsInjective(f)
  BY <1>2 DEF Bijection, Injection, IsInjective
<1>4. q \in [1..n -> S] /\ IsInjective(q)
  BY <1>3, Zenon DEF SetToSeq
<1> HIDE DEF q
<1>5. q \in Injection(1..n, S)
  BY <1>4 DEF Injection, IsInjective
<1>6. q \in Surjection(1..n, S)
  <2>1. IsFiniteSet(1..n) /\ Cardinality(1..n) = n
    BY <1>1, FS_Interval
  <2> QED BY <1>5, <2>1, FS_Injection
<1>7. ToSet(q) = S
  BY <1>4, <1>6 DEF Surjection, ToSet
<1>8. q \in Seq(S)
  BY <1>1, <1>4
<1> QED BY <1>7, <1>8 DEF q

\* The search reports a cycle if there is one, and only then; else all is black.
LEMMA DetectCycleOK ==
    ASSUME NEW groups, Referenced(groups), IsFiniteSet(DOMAIN groups)
    PROVE  /\ DetectCycle(groups) <=> Cyclic(Up(groups))
           /\ ~DetectCycle(groups) => BlackOK(Up(groups), DOMAIN groups)
<1> DEFINE names == SetToSeq(DOMAIN groups)
           n == Cardinality(DOMAIN groups)
           white == [color |-> [g \in DOMAIN groups |-> "white"], cyclic |-> FALSE]
           r == VisitEach(Visit(groups)[n], white, names)[Len(names)]
<1>1. DetectCycle(groups) = r.cyclic
  BY DEF DetectCycle
<1>2. names \in Seq(DOMAIN groups) /\ ToSet(names) = DOMAIN groups
  BY Listed
<1>3. white \in Painted(groups) /\ ~white.cyclic
  BY DEF Painted
<1>4. Coloured(white, "gray") = {} /\ Coloured(white, "black") = {} /\ Coloured(white, "white") = DOMAIN groups
  BY DEF Coloured
<1>5. BlackOK(Up(groups), Coloured(white, "black"))
  BY <1>4 DEF BlackOK, UpClosed
<1>6. n \in Nat /\ Cardinality(Coloured(white, "white")) <= n
  BY <1>4, FS_CardinalityType
<1>7. VisitOK(groups, Visit(groups)[n], n)
  BY VisitsOK
<1>8. VisitPost(groups, white, r, ToSet(names))
  <2> HIDE DEF names, n, white
  <2> QED BY <1>2, <1>3, <1>4, <1>5, <1>6, <1>7, VisitEachOK
<1> HIDE DEF names, n, white, r
<1>9. r.cyclic => Cyclic(Up(groups))
  BY <1>3, <1>8 DEF VisitPost
<1>10. ASSUME ~r.cyclic PROVE BlackOK(Up(groups), DOMAIN groups) /\ ~Cyclic(Up(groups))
  <2>1. r \in Painted(groups) /\ BlackOK(Up(groups), Coloured(r, "black")) /\ DOMAIN groups \subseteq Coloured(r, "black")
    BY <1>2, <1>8, <1>10 DEF VisitPost
  <2>2. Coloured(r, "black") = DOMAIN groups
    BY <2>1 DEF Coloured, Painted
  <2>3. BlackOK(Up(groups), DOMAIN groups)
    BY <2>1, <2>2
  <2>4. ~Cyclic(Up(groups))
    <3> SUFFICES ASSUME NEW g \in DOMAIN groups, g \in Above(Up(groups), Up(groups)[g]) PROVE FALSE
      BY UpIs DEF Cyclic
    <3>1. PICK S \in SUBSET DOMAIN groups : UpClosed(Up(groups), S) /\ Up(groups)[g] \subseteq S /\ g \notin S
      BY <2>3 DEF BlackOK
    <3> QED BY <3>1, AboveClosed
  <2> QED BY <2>3, <2>4
<1> QED BY <1>1, <1>9, <1>10

-----------------------------------------------------------------------------
(* The closures.                                                           *)

\* The groups above are closed under taking parents.
LEMMA AboveIsClosed ==
    ASSUME NEW up, \A g \in DOMAIN up : up[g] \subseteq DOMAIN up, NEW D
    PROVE  UpClosed(up, Above(up, D))
<1>1. Above(up, D) \subseteq DOMAIN up
  BY DEF Above
<1> QED BY <1>1, AboveStep DEF UpClosed

\* What is above a set is above one of its members.
LEMMA AboveUnion ==
    ASSUME NEW up, \A g \in DOMAIN up : up[g] \subseteq DOMAIN up, NEW D \in SUBSET DOMAIN up
    PROVE  Above(up, D) = UNION {Above(up, {g}) : g \in D}
<1> DEFINE U == UNION {Above(up, {g}) : g \in D}
<1>1. \A g \in D : UpClosed(up, Above(up, {g})) /\ g \in Above(up, {g})
  BY AboveIsClosed, AboveHolds
<1>2. UpClosed(up, U)
  BY <1>1 DEF UpClosed
<1>3. Above(up, D) \subseteq U
  <2>1. D \subseteq U
    BY <1>1
  <2> HIDE DEF U
  <2> QED BY <1>2, <2>1, AboveClosed
<1>4. ASSUME NEW g \in D PROVE Above(up, {g}) \subseteq Above(up, D)
  <2>1. UpClosed(up, Above(up, D)) /\ g \in Above(up, D)
    BY AboveIsClosed, AboveHolds
  <2> QED BY <2>1, AboveClosed
<1> QED BY <1>3, <1>4

\* The groups above a group are the group and those above its parents: the
\* recursion of closureOf.
LEMMA AboveUnfolds ==
    ASSUME NEW up, \A g \in DOMAIN up : up[g] \subseteq DOMAIN up, NEW g \in DOMAIN up
    PROVE  Above(up, {g}) = {g} \cup UNION {Above(up, {p}) : p \in up[g]}
<1> DEFINE U == UNION {Above(up, {p}) : p \in up[g]}
<1>1. U = Above(up, up[g])
  BY AboveUnion
<1> HIDE DEF U
<1>2. UpClosed(up, U) /\ up[g] \subseteq U
  BY <1>1, AboveIsClosed, AboveHolds
<1>3. UpClosed(up, {g} \cup U)
  BY <1>2 DEF UpClosed
<1>4. Above(up, {g}) \subseteq {g} \cup U
  BY <1>3, AboveClosed
<1>5. UpClosed(up, Above(up, {g})) /\ g \in Above(up, {g})
  BY AboveIsClosed, AboveHolds
<1>6. Above(up, up[g]) \subseteq Above(up, {g})
  BY <1>5, AboveClosed DEF UpClosed
<1> QED BY <1>1, <1>4, <1>5, <1>6 DEF U

IsClosures(c, groups) ==
    c = [g \in DOMAIN groups |-> {g} \cup UNION {c[p] : p \in ToSet(groups[g].memberOf)}]

\* In a graph without a cycle the recursion has one solution: a group and all
\* above it.
LEMMA ClosuresAre ==
    ASSUME NEW groups, Referenced(groups), BlackOK(Up(groups), DOMAIN groups)
    PROVE  \A g \in DOMAIN groups : Closures(groups)[g] = Above(Up(groups), {g})
<1> DEFINE up == Up(groups)
           c == Closures(groups)
           h == [g \in DOMAIN groups |-> Above(up, {g})]
<1>1. /\ DOMAIN up = DOMAIN groups
      /\ \A g \in DOMAIN groups : up[g] = ToSet(groups[g].memberOf) /\ up[g] \subseteq DOMAIN groups
  BY UpIs
<1>2. c = CHOOSE x : IsClosures(x, groups)
  BY Zenon DEF Closures, IsClosures
<1> HIDE DEF c, up
<1>3. \A g \in DOMAIN groups : Above(up, {g}) = {g} \cup UNION {Above(up, {p}) : p \in up[g]}
  BY <1>1, AboveUnfolds
<1>4. IsClosures(h, groups)
  <2>1. \A g \in DOMAIN groups : {h[p] : p \in ToSet(groups[g].memberOf)} = {Above(up, {p}) : p \in up[g]}
    BY <1>1
  <2>2. \A g \in DOMAIN groups : h[g] = {g} \cup UNION {h[p] : p \in ToSet(groups[g].memberOf)}
    BY <1>3, <2>1
  <2>3. h = [g \in DOMAIN groups |-> h[g]]
    OBVIOUS
  <2> HIDE DEF h
  <2> QED BY <2>2, <2>3 DEF IsClosures
<1>5. IsClosures(c, groups)
  BY <1>2, <1>4, Zenon
<1>6. \A g \in DOMAIN groups : c[g] = {g} \cup UNION {c[p] : p \in up[g]}
  BY <1>1, <1>5 DEF IsClosures
<1> DEFINE D == {g \in DOMAIN groups : c[g] # Above(up, {g})}
<1>7. ASSUME D # {} PROVE FALSE
  <2>1. PICK x \in D : up[x] \cap D = {}
    <3>1. D \in SUBSET DOMAIN groups
      OBVIOUS
    <3> HIDE DEF D
    <3> QED BY <1>7, <3>1 DEF BlackOK, up
  <2>2. \A p \in up[x] : c[p] = Above(up, {p})
    BY <1>1, <2>1
  <2>3. {c[p] : p \in up[x]} = {Above(up, {p}) : p \in up[x]}
    BY <2>2
  <2> QED BY <1>3, <1>6, <2>1, <2>3
<1> QED BY <1>7 DEF c, up

\* ResolveFlattenedMemberOf: the groups listed and all above them.
LEMMA MemberOfIs ==
    ASSUME NEW users, NEW groups, Referenced(groups), BlackOK(Up(groups), DOMAIN groups),
           \A u \in DOMAIN users : ToSet(users[u].memberOf) \subseteq DOMAIN groups
    PROVE  /\ DOMAIN ResolveFlattenedMemberOf(users, groups) = DOMAIN users
           /\ \A u \in DOMAIN users :
                 ResolveFlattenedMemberOf(users, groups)[u] = Above(Up(groups), ToSet(users[u].memberOf))
<1>1. ASSUME NEW u \in DOMAIN users
      PROVE  UNION {Closures(groups)[g] : g \in ToSet(users[u].memberOf)}
             = Above(Up(groups), ToSet(users[u].memberOf))
  <2> DEFINE D == ToSet(users[u].memberOf)
  <2>1. D \subseteq DOMAIN groups /\ DOMAIN Up(groups) = DOMAIN groups
    BY UpIs
  <2> HIDE DEF D
  <2>2. \A g \in DOMAIN Up(groups) : Up(groups)[g] \subseteq DOMAIN Up(groups)
    BY UpIs
  <2>3. {Closures(groups)[g] : g \in D} = {Above(Up(groups), {g}) : g \in D}
    BY <2>1, ClosuresAre
  <2> QED BY <2>1, <2>2, <2>3, AboveUnion DEF D
<1> QED BY <1>1 DEF ResolveFlattenedMemberOf

\* DetectCycle, for every finite graph of groups whose references were checked:
\* an error exactly if some group is above itself.
THEOREM CyclesAreDetected ==
    ASSUME NEW groups, Referenced(groups), IsFiniteSet(DOMAIN groups)
    PROVE  DetectCycle(groups) <=> \E g \in DOMAIN groups : g \in Above(Up(groups), Up(groups)[g])
<1>1. DOMAIN Up(groups) = DOMAIN groups
  BY UpIs
<1> QED BY <1>1, DetectCycleOK DEF Cyclic

\* ResolveFlattenedMemberOf, for every graph of groups that DetectCycle let pass:
\* a user is in the groups listed and in all above them, and in no other.
THEOREM MembershipIsTransitive ==
    ASSUME NEW users, NEW groups, Referenced(groups), IsFiniteSet(DOMAIN groups), ~DetectCycle(groups),
           \A u \in DOMAIN users : ToSet(users[u].memberOf) \subseteq DOMAIN groups, NEW u \in DOMAIN users
    PROVE  ResolveFlattenedMemberOf(users, groups)[u] = Above(Up(groups), ToSet(users[u].memberOf))
<1>1. BlackOK(Up(groups), DOMAIN groups)
  BY DetectCycleOK
<1> QED BY <1>1, MemberOfIs

-----------------------------------------------------------------------------
(* Reading: what has been read represents the places gone through, and is  *)
(* accepted exactly when they are valid.                                   *)

\* What the declaration at a place needs whatever the others are.
Alone(kind, x) ==
    /\ x.name # ""
    /\ kind = "GroupList" => GroupAccepted(x)
    /\ kind = "UserList" => PasswordHashAccepted(x) /\ AttributesAccepted(x.custom)
    /\ kind = "OIDCClientList" => ClientAccepted(x)

\* P gives the places of each kind.
Valid(tree, P) ==
    /\ \A kind \in Kinds : \A p \in P[kind] : Alone(kind, At(tree, p))
    /\ \A kind \in Kinds : \A p, q \in P[kind] : At(tree, p).name = At(tree, q).name => p = q
    /\ \A p, q \in P["UserList"] : At(tree, p).email = At(tree, q).email => p = q \/ At(tree, p).email = ""

Holds(tree, map, S) ==
    /\ DOMAIN map = {At(tree, p).name : p \in S}
    /\ \A p \in S : map[At(tree, p).name] = At(tree, p)

Shape(l) ==
    /\ l = [ok |-> l.ok, decls |-> l.decls] /\ l.ok \in BOOLEAN
    /\ l.decls = [kind \in Kinds |-> l.decls[kind]]
    /\ \A kind \in Kinds : IsFiniteSet(DOMAIN l.decls[kind])

Placed(tree, l, P, strict) ==
    /\ Shape(l)
    /\ l.ok <=> strict /\ Valid(tree, P)
    /\ l.ok => \A kind \in Kinds : Holds(tree, l.decls[kind], P[kind])

Taken(l, kind, x) == l.ok /\ x.name # "" /\ x.name \notin DOMAIN l.decls[kind] /\ Accepted(l, kind, x)

\* What adding a declaration changes.
LEMMA AddFields ==
    ASSUME NEW l, Shape(l), NEW kind \in Kinds, NEW x
    PROVE  /\ Shape(Add(l, kind, x))
           /\ Add(l, kind, x).ok <=> Taken(l, kind, x)
           /\ \A k \in Kinds \ {kind} : Add(l, kind, x).decls[k] = l.decls[k]
           /\ Taken(l, kind, x) => Add(l, kind, x).decls[kind] = With(l.decls[kind], x)
<1> DEFINE r == Add(l, kind, x)
<1>1. IsFiniteSet(DOMAIN With(l.decls[kind], x))
  <2>1. DOMAIN With(l.decls[kind], x) = DOMAIN l.decls[kind] \cup {x.name}
    BY DEF With
  <2>2. IsFiniteSet(DOMAIN l.decls[kind])
    BY DEF Shape
  <2> QED BY <2>1, <2>2, FS_AddElement
<1>2. CASE Taken(l, kind, x)
  <2>1. r = [l EXCEPT !.decls[kind] = With(l.decls[kind], x)]
    BY <1>2 DEF Add, Taken
  <2> HIDE DEF r
  <2>2. /\ r = [ok |-> r.ok, decls |-> r.decls] /\ r.ok = l.ok
        /\ r.decls = [l.decls EXCEPT ![kind] = With(l.decls[kind], x)]
    BY <2>1 DEF Shape
  <2>3. /\ \A k \in Kinds \ {kind} : r.decls[k] = l.decls[k]
        /\ r.decls[kind] = With(l.decls[kind], x)
        /\ r.decls = [k \in Kinds |-> r.decls[k]]
    BY <2>2 DEF Shape
  <2>4. Shape(r)
    BY <1>1, <2>2, <2>3 DEF Shape
  <2> QED BY <1>2, <2>2, <2>3, <2>4 DEF r, Taken
<1>3. CASE ~Taken(l, kind, x)
  <2>1. r = [l EXCEPT !.ok = FALSE]
    BY <1>3 DEF Add, Refused, Taken
  <2> HIDE DEF r
  <2>2. r = [ok |-> r.ok, decls |-> r.decls] /\ r.ok = FALSE /\ r.decls = l.decls
    BY <2>1 DEF Shape
  <2> QED BY <1>3, <2>2 DEF Shape, r
<1> QED BY <1>2, <1>3

\* Fewer declarations are in conflict less.
LEMMA ValidLess ==
    ASSUME NEW tree, NEW P, NEW Q, Valid(tree, Q), \A kind \in Kinds : P[kind] \subseteq Q[kind]
    PROVE  Valid(tree, P)
BY DEF Valid, Kinds

\* One more declaration.
LEMMA AddOne ==
    ASSUME NEW tree, NEW l, NEW P, NEW strict \in BOOLEAN, Placed(tree, l, P, strict),
           NEW kind \in Kinds, NEW p, p \notin P[kind],
           NEW Q, Q[kind] = P[kind] \cup {p}, \A k \in Kinds \ {kind} : Q[k] = P[k]
    PROVE  Placed(tree, Add(l, kind, At(tree, p)), Q, strict)
<1> DEFINE x == At(tree, p)
           r == Add(l, kind, x)
           taken == Taken(l, kind, x)
<1>0. Shape(l)
  BY DEF Placed
<1>1. /\ Shape(r) /\ (r.ok <=> taken)
      /\ \A k \in Kinds \ {kind} : r.decls[k] = l.decls[k]
      /\ taken => r.decls[kind] = With(l.decls[kind], x)
  BY <1>0, AddFields
<1>2. \A k \in Kinds : P[k] \subseteq Q[k]
  OBVIOUS
<1>3. CASE ~l.ok
  <2>1. ~taken /\ ~(strict /\ Valid(tree, P))
    BY <1>3 DEF Placed, Taken
  <2>2. ~(strict /\ Valid(tree, Q))
    BY <1>2, <2>1, ValidLess
  <2> QED BY <1>1, <2>1, <2>2 DEF Placed
<1>4. CASE l.ok
  <2>1. strict /\ Valid(tree, P) /\ \A k \in Kinds : Holds(tree, l.decls[k], P[k])
    BY <1>4 DEF Placed
  <2>2. x.name \in DOMAIN l.decls[kind] <=> \E q \in P[kind] : At(tree, q).name = x.name
    BY <2>1 DEF Holds
  <2>3. EmailTaken(l.decls["UserList"], x) <=> x.email # "" /\ \E q \in P["UserList"] : At(tree, q).email = x.email
    <3> DEFINE users == l.decls["UserList"]
    <3>1. Holds(tree, users, P["UserList"])
      BY <2>1 DEF Kinds
    <3> HIDE DEF users, x
    <3>2. ASSUME NEW v \in DOMAIN users PROVE \E q \in P["UserList"] : users[v] = At(tree, q)
      BY <3>1 DEF Holds
    <3>3. ASSUME NEW q \in P["UserList"] PROVE At(tree, q).name \in DOMAIN users /\ users[At(tree, q).name] = At(tree, q)
      BY <3>1 DEF Holds
    <3>4. (\E v \in DOMAIN users : users[v].email = x.email) <=> (\E q \in P["UserList"] : At(tree, q).email = x.email)
      BY <3>2, <3>3
    <3> QED BY <3>4 DEF EmailTaken, users
  <2>4. /\ kind = "UserList" => (Accepted(l, kind, x) /\ x.name # "" <=> Alone(kind, x) /\ ~EmailTaken(l.decls["UserList"], x))
        /\ kind # "UserList" => (Accepted(l, kind, x) /\ x.name # "" <=> Alone(kind, x))
    BY DEF Accepted, Alone, UserAccepted, Kinds
  <2> HIDE DEF x
  <2>5. taken <=> Valid(tree, Q)
    <3>0. \A k \in Kinds : \A q \in Q[k] : q \in P[k] \/ (k = kind /\ q = p)
      OBVIOUS
    <3>1. ASSUME taken PROVE Valid(tree, Q)
      <4>1. \A k \in Kinds : \A q \in Q[k] : Alone(k, At(tree, q))
        <5>1. Alone(kind, x)
          BY <2>4, <3>1 DEF Taken
        <5> QED BY <2>1, <3>0, <5>1 DEF Valid, x
      <4>2. \A k \in Kinds : \A q, s \in Q[k] : At(tree, q).name = At(tree, s).name => q = s
        <5>1. \A q \in P[kind] : At(tree, q).name # At(tree, p).name
          BY <2>2, <3>1 DEF x, Taken
        <5>2. \A k \in Kinds : \A q, s \in P[k] : At(tree, q).name = At(tree, s).name => q = s
          BY <2>1 DEF Valid
        <5> QED BY <3>0, <5>1, <5>2
      <4>3. \A q, s \in Q["UserList"] : At(tree, q).email = At(tree, s).email => q = s \/ At(tree, q).email = ""
        <5>1. CASE kind = "UserList"
          <6>1. ~EmailTaken(l.decls["UserList"], x)
            BY <2>4, <3>1, <5>1 DEF Taken
          <6>2. \A q \in P["UserList"] : At(tree, p).email = "" \/ At(tree, q).email # At(tree, p).email
            BY <2>3, <6>1 DEF x
          <6>3. \A q, s \in P["UserList"] : At(tree, q).email = At(tree, s).email => q = s \/ At(tree, q).email = ""
            BY <2>1 DEF Valid
          <6>4. \A q \in Q["UserList"] : q \in P["UserList"] \/ q = p
            BY <3>0, <5>1
          <6> QED BY <6>2, <6>3, <6>4
        <5>2. CASE kind # "UserList"
          BY <2>1, <5>2 DEF Valid, Kinds
        <5> QED BY <5>1, <5>2
      <4> QED BY <4>1, <4>2, <4>3 DEF Valid
    <3>2. ASSUME Valid(tree, Q) PROVE taken
      <4>1. Alone(kind, x) /\ x.name # ""
        BY <3>2 DEF Valid, x, Alone
      <4>2. x.name \notin DOMAIN l.decls[kind]
        BY <2>2, <3>2 DEF Valid, x
      <4>3. kind = "UserList" => ~EmailTaken(l.decls["UserList"], x)
        BY <2>3, <3>2 DEF Valid, x
      <4> QED BY <1>4, <2>4, <4>1, <4>2, <4>3 DEF Taken
    <3> QED BY <3>1, <3>2
  <2>6. ASSUME taken PROVE \A k \in Kinds : Holds(tree, r.decls[k], Q[k])
    <3>1. Holds(tree, r.decls[kind], Q[kind])
      <4>1. r.decls[kind] = With(l.decls[kind], x) /\ x.name \notin DOMAIN l.decls[kind]
        BY <1>1, <2>6 DEF Taken
      <4>2. Holds(tree, l.decls[kind], P[kind])
        BY <2>1
      <4> QED BY <4>1, <4>2 DEF With, Holds, x
    <3> QED BY <1>1, <2>1, <3>1
  <2> HIDE DEF taken
  <2> QED BY <1>1, <2>1, <2>5, <2>6 DEF Placed, x
<1> QED BY <1>3, <1>4

IsAddItems(g, l, f, n) == g = [i \in 0..n |-> IF i = 0 THEN l ELSE Add(g[i - 1], f.kind, f.items[i])]

\* The recursive function AddItems chooses exists.
LEMMA AddItemsExists ==
    ASSUME NEW l, NEW f, NEW n \in Nat
    PROVE  \E g : IsAddItems(g, l, f, n)
<1> DEFINE S == {m \in Nat : \E g : IsAddItems(g, l, f, m)}
<1>1. 0 \in S
  <2> DEFINE g == [i \in 0..0 |-> l]
  <2>1. IsAddItems(g, l, f, 0)
    BY DEF IsAddItems
  <2> QED BY <2>1
<1>2. ASSUME NEW m \in Nat, m \in S PROVE m + 1 \in S
  <2>1. PICK g : IsAddItems(g, l, f, m)
    BY <1>2
  <2> DEFINE h == [i \in 0..(m + 1) |-> IF i <= m THEN g[i] ELSE Add(g[m], f.kind, f.items[m + 1])]
  <2>2. ASSUME NEW i \in 0..(m + 1)
        PROVE  h[i] = IF i = 0 THEN l ELSE Add(h[i - 1], f.kind, f.items[i])
    <3>1. CASE i <= m
      <4>1. i \in 0..m /\ (i # 0 => i - 1 \in 0..(m + 1) /\ i - 1 <= m /\ i - 1 \in 0..m)
        BY <3>1
      <4>2. h[i] = g[i] /\ (i # 0 => h[i - 1] = g[i - 1])
        BY <3>1, <4>1
      <4> QED BY <4>1, <4>2, <2>1 DEF IsAddItems
    <3>2. CASE i = m + 1
      BY <3>2
    <3> QED BY <3>1, <3>2
  <2>3. IsAddItems(h, l, f, m + 1)
    BY <2>2 DEF IsAddItems
  <2> QED BY <2>3
<1> HIDE DEF S
<1>3. Nat \subseteq S
  BY <1>1, <1>2, NatSetInduction
<1> QED BY <1>3 DEF S

\* The declarations of a file are added one after the other.
LEMMA AddItemsSteps ==
    ASSUME NEW l, NEW f, Len(f.items) \in Nat
    PROVE  /\ AddItems(l, f)[0] = l
           /\ \A i \in 1..Len(f.items) : AddItems(l, f)[i] = Add(AddItems(l, f)[i - 1], f.kind, f.items[i])
<1> DEFINE v == AddItems(l, f)
<1>1. v = CHOOSE g : IsAddItems(g, l, f, Len(f.items))
  BY Zenon DEF AddItems, IsAddItems
<1>2. \E g : IsAddItems(g, l, f, Len(f.items))
  BY AddItemsExists, Zenon
<1> HIDE DEF v
<1>3. IsAddItems(v, l, f, Len(f.items))
  BY <1>1, <1>2, Zenon
<1>4. v[0] = l /\ \A i \in 1..Len(f.items) : v[i] = Add(v[i - 1], f.kind, f.items[i])
  BY <1>3 DEF IsAddItems
<1> QED BY <1>4 DEF v

IsRead(g, tree, n) == g = [i \in 0..n |-> IF i = 0 THEN Empty ELSE AddFile(g[i - 1], tree[i])]

\* The recursive function Read chooses exists.
LEMMA ReadExists ==
    ASSUME NEW tree, NEW n \in Nat
    PROVE  \E g : IsRead(g, tree, n)
<1> DEFINE S == {m \in Nat : \E g : IsRead(g, tree, m)}
<1>1. 0 \in S
  <2> DEFINE g == [i \in 0..0 |-> Empty]
  <2>1. IsRead(g, tree, 0)
    BY DEF IsRead
  <2> QED BY <2>1
<1>2. ASSUME NEW m \in Nat, m \in S PROVE m + 1 \in S
  <2>1. PICK g : IsRead(g, tree, m)
    BY <1>2
  <2> DEFINE h == [i \in 0..(m + 1) |-> IF i <= m THEN g[i] ELSE AddFile(g[m], tree[m + 1])]
  <2>2. ASSUME NEW i \in 0..(m + 1)
        PROVE  h[i] = IF i = 0 THEN Empty ELSE AddFile(h[i - 1], tree[i])
    <3>1. CASE i <= m
      <4>1. i \in 0..m /\ (i # 0 => i - 1 \in 0..(m + 1) /\ i - 1 <= m /\ i - 1 \in 0..m)
        BY <3>1
      <4>2. h[i] = g[i] /\ (i # 0 => h[i - 1] = g[i - 1])
        BY <3>1, <4>1
      <4> QED BY <4>1, <4>2, <2>1 DEF IsRead
    <3>2. CASE i = m + 1
      BY <3>2
    <3> QED BY <3>1, <3>2
  <2>3. IsRead(h, tree, m + 1)
    BY <2>2 DEF IsRead
  <2> QED BY <2>3
<1> HIDE DEF S
<1>3. Nat \subseteq S
  BY <1>1, <1>2, NatSetInduction
<1> QED BY <1>3 DEF S

\* The files of a tree are added one after the other.
LEMMA ReadSteps ==
    ASSUME NEW tree, Len(tree) \in Nat
    PROVE  /\ Read(tree)[0] = Empty
           /\ \A i \in 1..Len(tree) : Read(tree)[i] = AddFile(Read(tree)[i - 1], tree[i])
<1> DEFINE v == Read(tree)
<1>1. v = CHOOSE g : IsRead(g, tree, Len(tree))
  BY Zenon DEF Read, IsRead
<1>2. \E g : IsRead(g, tree, Len(tree))
  BY ReadExists, Zenon
<1> HIDE DEF v
<1>3. IsRead(v, tree, Len(tree))
  BY <1>1, <1>2, Zenon
<1>4. v[0] = Empty /\ \A i \in 1..Len(tree) : v[i] = AddFile(v[i - 1], tree[i])
  BY <1>3 DEF IsRead
<1> QED BY <1>4 DEF v

\* The places of the first k files, and whether those files parse.
Upto(tree, k) == [kind \in Kinds |-> {p \in Places(tree, kind) : p[1] <= k}]
Strict(tree, k) == \A f \in 1..k : tree[f].kind # "ignored" => tree[f].strict

\* A place is a file and an item of it.
LEMMA PlaceIs ==
    ASSUME NEW tree \in Seq(Files), NEW kind
    PROVE  Places(tree, kind) = {p \in Nat \X Nat :
               /\ p[1] \in 1..Len(tree) /\ tree[p[1]].kind = kind
               /\ p[2] \in 1..Len(tree[p[1]].items)}
<1>1. \A f \in DOMAIN tree : DOMAIN tree[f].items = 1..Len(tree[f].items) /\ Len(tree[f].items) \in Nat
  BY DEF Files
<1> QED BY <1>1 DEF Places

\* What a file is.
LEMMA FileIs ==
    ASSUME NEW f \in Files
    PROVE  /\ f.kind \in Kinds \cup {"ignored"} /\ f.strict \in BOOLEAN /\ Len(f.items) \in Nat
           /\ f.kind = "ignored" => f.items = <<>>
BY DEF Files, Kinds

\* One more file.
LEMMA FileOK ==
    ASSUME NEW tree \in Seq(Files), NEW k \in 1..Len(tree), NEW l,
           Placed(tree, l, Upto(tree, k - 1), Strict(tree, k - 1))
    PROVE  Placed(tree, AddFile(l, tree[k]), Upto(tree, k), Strict(tree, k))
<1> DEFINE f == tree[k]
           P == Upto(tree, k - 1)
           Q == Upto(tree, k)
<1>1. f \in Files /\ f.kind \in Kinds \cup {"ignored"} /\ f.strict \in BOOLEAN /\ Len(f.items) \in Nat
  <2>1. f \in Files
    OBVIOUS
  <2> HIDE DEF f
  <2> QED BY <2>1, FileIs
<1>2. \A kind \in Kinds : Q[kind] = P[kind] \cup IF kind = f.kind THEN {<<k, i>> : i \in 1..Len(f.items)} ELSE {}
  <2> SUFFICES ASSUME NEW kind \in Kinds
               PROVE  Q[kind] = P[kind] \cup IF kind = f.kind THEN {<<k, i>> : i \in 1..Len(f.items)} ELSE {}
    OBVIOUS
  <2>1. Places(tree, kind) = {p \in Nat \X Nat :
               /\ p[1] \in 1..Len(tree) /\ tree[p[1]].kind = kind
               /\ p[2] \in 1..Len(tree[p[1]].items)}
    BY PlaceIs
  <2> QED BY <1>1, <2>1 DEF Upto
<1>3. \A kind \in Kinds : \A i : <<k, i>> \notin P[kind]
  BY DEF Upto
<1>4. Strict(tree, k) <=> Strict(tree, k - 1) /\ (f.kind # "ignored" => f.strict)
  BY DEF Strict
<1>5. \A kind \in Kinds : P[kind] \subseteq Q[kind]
  BY <1>2
<1> HIDE DEF P, Q
<1>6. CASE f.kind = "ignored"
  <2>1. AddFile(l, f) = l
    BY <1>6 DEF AddFile
  <2>2. \A kind \in Kinds : Q[kind] = P[kind]
    BY <1>2, <1>6 DEF Kinds
  <2>3. Valid(tree, P) <=> Valid(tree, Q)
    BY <2>2, ValidLess
  <2> QED BY <1>4, <1>6, <2>1, <2>2, <2>3 DEF Placed, P, Q
<1>7. CASE f.kind # "ignored" /\ ~f.strict
  <2>1. AddFile(l, f) = [l EXCEPT !.ok = FALSE]
    BY <1>7 DEF AddFile, Refused
  <2> DEFINE r == AddFile(l, f)
  <2> HIDE DEF r
  <2>2. r = [ok |-> r.ok, decls |-> r.decls] /\ r.ok = FALSE /\ r.decls = l.decls
    BY <2>1 DEF Placed, Shape, r
  <2>3. Shape(r)
    BY <2>2 DEF Placed, Shape
  <2> QED BY <1>4, <1>7, <2>2, <2>3 DEF Placed, r
<1>8. CASE f.kind \in Kinds /\ f.strict
  <2> DEFINE s == Strict(tree, k)
             v == AddItems(l, f)
             R(j) == [kind \in Kinds |-> P[kind] \cup IF kind = f.kind THEN {<<k, i>> : i \in 1..j} ELSE {}]
             S == {j \in Nat : j <= Len(f.items) => Placed(tree, v[j], R(j), s)}
  <2>1. v[0] = l /\ \A i \in 1..Len(f.items) : v[i] = Add(v[i - 1], f.kind, f.items[i])
    BY <1>1, AddItemsSteps
  <2>2. AddFile(l, f) = v[Len(f.items)]
    BY <1>8 DEF AddFile, Kinds
  <2> HIDE DEF v
  <2>3. s \in BOOLEAN /\ (s <=> Strict(tree, k - 1))
    BY <1>4, <1>8 DEF Strict
  <2> HIDE DEF s
  <2>4. 0 \in S
    <3>1. \A kind \in Kinds : R(0)[kind] = P[kind]
      OBVIOUS
    <3> HIDE DEF R
    <3>2. Valid(tree, P) <=> Valid(tree, R(0))
      BY <3>1, ValidLess
    <3>3. Placed(tree, l, R(0), s)
      BY <2>3, <3>1, <3>2 DEF Placed, P
    <3> QED BY <2>1, <3>3
  <2>5. ASSUME NEW j \in Nat, j \in S PROVE j + 1 \in S
    <3> SUFFICES ASSUME j + 1 <= Len(f.items) PROVE Placed(tree, v[j + 1], R(j + 1), s)
      OBVIOUS
    <3> DEFINE p == <<k, j + 1>>
    <3>1. Placed(tree, v[j], R(j), s) /\ j + 1 \in 1..Len(f.items) /\ (j + 1) - 1 = j
      BY <1>1, <2>5
    <3>2. v[j + 1] = Add(v[j], f.kind, At(tree, p))
      BY <2>1, <3>1 DEF At
    <3>3. p \notin R(j)[f.kind]
      BY <1>3, <1>8
    <3>4. R(j + 1)[f.kind] = R(j)[f.kind] \cup {p}
      <4>1. 1..(j + 1) = 1..j \cup {j + 1}
        OBVIOUS
      <4> QED BY <1>8, <4>1
    <3>5. \A kind \in Kinds \ {f.kind} : R(j + 1)[kind] = R(j)[kind]
      OBVIOUS
    <3> HIDE DEF R, p
    <3>6. f.kind \in Kinds
      BY <1>8
    <3> HIDE DEF f
    <3>7. Placed(tree, Add(v[j], f.kind, At(tree, p)), R(j + 1), s)
      BY <2>3, <3>1, <3>3, <3>4, <3>5, <3>6, AddOne
    <3> QED BY <3>2, <3>7
  <2>6. Placed(tree, v[Len(f.items)], R(Len(f.items)), s)
    <3> HIDE DEF S
    <3>1. Nat \subseteq S
      BY <2>4, <2>5, NatSetInduction
    <3>2. Len(f.items) \in S /\ Len(f.items) <= Len(f.items)
      BY <1>1, <3>1
    <3> HIDE DEF R
    <3> QED BY <3>2 DEF S
  <2>7. R(Len(f.items)) = Q
    <3>1. Q = [kind \in Kinds |-> Q[kind]]
      BY DEF Q, Upto
    <3> QED BY <1>2, <3>1
  <2> QED BY <2>2, <2>6, <2>7 DEF s, Q
<1> QED BY <1>1, <1>6, <1>7, <1>8

\* What LoadIdentity has read at the end stands for what the tree declares.
LEMMA ReadOK ==
    ASSUME NEW tree \in Seq(Files)
    PROVE  Placed(tree, Read(tree)[Len(tree)], [kind \in Kinds |-> Places(tree, kind)], Strict(tree, Len(tree)))
<1> DEFINE v == Read(tree)
           n == Len(tree)
           S == {k \in Nat : k <= n => Placed(tree, v[k], Upto(tree, k), Strict(tree, k))}
<1>1. n \in Nat
  OBVIOUS
<1>2. v[0] = Empty /\ \A k \in 1..n : v[k] = AddFile(v[k - 1], tree[k])
  BY <1>1, ReadSteps
<1> HIDE DEF v, n
<1>3. 0 \in S
  <2>1. \A kind \in Kinds : Upto(tree, 0)[kind] = {}
    <3> SUFFICES ASSUME NEW kind \in Kinds PROVE Upto(tree, 0)[kind] = {}
      OBVIOUS
    <3>1. \A p \in Places(tree, kind) : p[1] \in 1..Len(tree)
      BY PlaceIs
    <3> QED BY <3>1 DEF Upto
  <2>2. Valid(tree, Upto(tree, 0)) /\ Strict(tree, 0)
    <3>1. Upto(tree, 0)["UserList"] = {}
      BY <2>1 DEF Kinds
    <3>2. Valid(tree, Upto(tree, 0))
      BY <2>1, <3>1 DEF Valid
    <3>3. Strict(tree, 0)
      BY DEF Strict
    <3> QED BY <3>2, <3>3
  <2>3. Empty.ok = TRUE /\ \A kind \in Kinds : DOMAIN Empty.decls[kind] = {}
    BY DEF Empty
  <2>4. Shape(Empty)
    <3>1. \A kind \in Kinds : IsFiniteSet(DOMAIN Empty.decls[kind])
      BY <2>3, FS_EmptySet
    <3>2. Empty = [ok |-> Empty.ok, decls |-> Empty.decls] /\ Empty.decls = [kind \in Kinds |-> Empty.decls[kind]]
      BY DEF Empty
    <3> QED BY <2>3, <3>1, <3>2 DEF Shape
  <2>5. \A kind \in Kinds : Holds(tree, Empty.decls[kind], Upto(tree, 0)[kind])
    BY <2>1, <2>3 DEF Holds
  <2>6. Placed(tree, Empty, Upto(tree, 0), Strict(tree, 0))
    BY <2>2, <2>3, <2>4, <2>5 DEF Placed
  <2> QED BY <1>2, <2>6
<1>4. ASSUME NEW k \in Nat, k \in S PROVE k + 1 \in S
  <2>1. ASSUME k + 1 <= n PROVE Placed(tree, v[k + 1], Upto(tree, k + 1), Strict(tree, k + 1))
    <3>1. k + 1 \in 1..n /\ (k + 1) - 1 = k /\ Placed(tree, v[k], Upto(tree, k), Strict(tree, k))
      BY <1>1, <1>4, <2>1
    <3>2. v[k + 1] = AddFile(v[k], tree[k + 1])
      BY <1>2, <3>1
    <3>3. Placed(tree, AddFile(v[k], tree[k + 1]), Upto(tree, k + 1), Strict(tree, k + 1))
      BY <3>1, FileOK DEF n
    <3> QED BY <3>2, <3>3
  <2> QED BY <2>1
<1> HIDE DEF S
<1>5. Nat \subseteq S
  BY <1>3, <1>4, NatSetInduction
<1>6. Placed(tree, v[n], Upto(tree, n), Strict(tree, n))
  BY <1>1, <1>5 DEF S
<1>7. Upto(tree, n) = [kind \in Kinds |-> Places(tree, kind)]
  <2>1. \A kind \in Kinds : \A p \in Places(tree, kind) : p[1] <= n
    BY PlaceIs DEF n
  <2>2. \A kind \in Kinds : {p \in Places(tree, kind) : p[1] <= n} = Places(tree, kind)
    BY <2>1
  <2> QED BY <2>2 DEF Upto
<1> QED BY <1>6, <1>7 DEF v, n

-----------------------------------------------------------------------------
(* Loading.                                                                *)

All(tree) == [kind \in Kinds |-> Places(tree, kind)]

\* The part of WellFormed that is about declarations, one by one and in pairs.
DeclarationsOK(tree) ==
    LET Gs == Declared(tree, "GroupList")
        Us == Declared(tree, "UserList")
        Cs == Declared(tree, "OIDCClientList")
    IN  /\ \A f \in DOMAIN tree : tree[f].kind # "ignored" => tree[f].strict
        /\ \A x \in Gs \cup Us \cup Cs : x.name # ""
        /\ \A kind \in Kinds : \A p, q \in Places(tree, kind) : At(tree, p).name = At(tree, q).name => p = q
        /\ \A p, q \in Places(tree, "UserList") :
              At(tree, p).email = At(tree, q).email => p = q \/ At(tree, p).email = ""
        /\ \A u \in Us : "other" \notin {u.hash, u.hashFile} /\ (u.hash = "" \/ u.hashFile = "")
        /\ \A a \in (UNION {{g.custom, g.userCustom, g.directUserCustom} : g \in Gs}) \cup {u.custom : u \in Us} :
              \A k \in DOMAIN a : k \notin ReservedNames /\ a[k] \notin Unrepresentable
        /\ \A c \in Cs : c.redirects /\ (c.public \/ c.secret)

\* The other part is about the groups that are listed.
ReferencesOK(tree) ==
    \A x \in Declared(tree, "GroupList") \cup Declared(tree, "UserList") : ToSet(x.memberOf) \subseteq GroupNames(tree)

\* Well-formedness in three parts: declarations, references, no cycle.
LEMMA WellFormedParts ==
    ASSUME NEW tree
    PROVE  WellFormed(tree) <=>
              /\ DeclarationsOK(tree)
              /\ ReferencesOK(tree)
              /\ ~\E g \in GroupNames(tree) : g \in Above(Parents(tree), Parents(tree)[g])
BY Zenon DEF WellFormed, DeclarationsOK, ReferencesOK

\* The declaration at a place has the type of its kind.
LEMMA DeclarationIs ==
    ASSUME NEW tree \in Seq(Files)
    PROVE  /\ \A p \in Places(tree, "GroupList") : At(tree, p) \in GroupSpecs
           /\ \A p \in Places(tree, "UserList") : At(tree, p) \in UserSpecs
<1>1. ASSUME NEW kind \in {"GroupList", "UserList"}, NEW p \in Places(tree, kind)
      PROVE  At(tree, p) \in IF kind = "GroupList" THEN GroupSpecs ELSE UserSpecs
  <2>1. p[1] \in 1..Len(tree) /\ tree[p[1]].kind = kind /\ p[2] \in 1..Len(tree[p[1]].items)
    BY PlaceIs
  <2>2. tree[p[1]] \in Files
    BY <2>1
  <2>3. tree[p[1]].items \in Seq(IF kind = "GroupList" THEN GroupSpecs ELSE UserSpecs)
    BY <2>1, <2>2 DEF Files
  <2> QED BY <2>1, <2>3 DEF At
<1> QED BY <1>1

\* The declarations are acceptable exactly if reading them one by one accepts
\* each.
LEMMA DeclarationsAre ==
    ASSUME NEW tree \in Seq(Files)
    PROVE  DeclarationsOK(tree) <=> Strict(tree, Len(tree)) /\ Valid(tree, All(tree))
<1> DEFINE Gs == Declared(tree, "GroupList")
           Us == Declared(tree, "UserList")
           Cs == Declared(tree, "OIDCClientList")
<1>1. Strict(tree, Len(tree)) <=> \A f \in DOMAIN tree : tree[f].kind # "ignored" => tree[f].strict
  BY DEF Strict
<1>2. \A kind \in Kinds : All(tree)[kind] = Places(tree, kind)
  BY DEF All
<1>3. All(tree)["UserList"] = Places(tree, "UserList")
  BY <1>2 DEF Kinds
<1>4. ASSUME NEW u \in Us
      PROVE  PasswordHashAccepted(u) <=> "other" \notin {u.hash, u.hashFile} /\ (u.hash = "" \/ u.hashFile = "")
  <2>1. u.hash \in Hashes /\ u.hashFile \in Hashes
    BY DeclarationIs DEF Declared, UserSpecs
  <2> QED BY <2>1 DEF PasswordHashAccepted, Hashes
<1>5. \A a : AttributesAccepted(a) <=> \A k \in DOMAIN a : k \notin ReservedNames /\ a[k] \notin Unrepresentable
  BY DEF AttributesAccepted
<1>6. (\A kind \in Kinds : \A p \in Places(tree, kind) : Alone(kind, At(tree, p))) <=>
        /\ \A x \in Gs \cup Us \cup Cs : x.name # ""
        /\ \A g \in Gs : GroupAccepted(g)
        /\ \A u \in Us : PasswordHashAccepted(u) /\ AttributesAccepted(u.custom)
        /\ \A c \in Cs : ClientAccepted(c)
  BY DEF Kinds, Alone, Declared
<1>7. (\A g \in Gs : GroupAccepted(g)) /\ (\A u \in Us : AttributesAccepted(u.custom)) <=>
        \A a \in (UNION {{g.custom, g.userCustom, g.directUserCustom} : g \in Gs}) \cup {u.custom : u \in Us} :
            AttributesAccepted(a)
  <2> HIDE DEF Gs, Us
  <2> DEFINE of(g) == {g.custom, g.userCustom, g.directUserCustom}
             As == UNION {of(g) : g \in Gs}
             Bs == {u.custom : u \in Us}
  <2>2. ASSUME NEW g \in Gs PROVE of(g) \subseteq As
    <3> HIDE DEF of
    <3> QED OBVIOUS
  <2>3. ASSUME NEW a \in As PROVE \E g \in Gs : a \in of(g)
    <3> HIDE DEF of
    <3> QED OBVIOUS
  <2>4. \A g : GroupAccepted(g) <=> \A a \in of(g) : AttributesAccepted(a)
    BY DEF GroupAccepted
  <2>5. (\A g \in Gs : GroupAccepted(g)) <=> (\A a \in As : AttributesAccepted(a))
    <3> HIDE DEF of, As
    <3> QED BY <2>2, <2>3, <2>4
  <2>6. (\A u \in Us : AttributesAccepted(u.custom)) <=> (\A a \in Bs : AttributesAccepted(a))
    OBVIOUS
  <2>7. (\A g \in Gs : GroupAccepted(g)) /\ (\A u \in Us : AttributesAccepted(u.custom)) <=>
          \A a \in As \cup Bs : AttributesAccepted(a)
    <3> HIDE DEF As, Bs
    <3> QED BY <2>5, <2>6
  <2> QED BY <2>7, Zenon
<1>8. \A c : ClientAccepted(c) <=> c.redirects /\ (c.public \/ c.secret)
  BY DEF ClientAccepted
<1> HIDE DEF Gs, Us, Cs
<1>9. Valid(tree, All(tree)) <=>
        /\ \A x \in Gs \cup Us \cup Cs : x.name # ""
        /\ \A a \in (UNION {{g.custom, g.userCustom, g.directUserCustom} : g \in Gs}) \cup {u.custom : u \in Us} :
              \A k \in DOMAIN a : k \notin ReservedNames /\ a[k] \notin Unrepresentable
        /\ \A u \in Us : "other" \notin {u.hash, u.hashFile} /\ (u.hash = "" \/ u.hashFile = "")
        /\ \A c \in Cs : c.redirects /\ (c.public \/ c.secret)
        /\ \A kind \in Kinds : \A p, q \in Places(tree, kind) : At(tree, p).name = At(tree, q).name => p = q
        /\ \A p, q \in Places(tree, "UserList") :
              At(tree, p).email = At(tree, q).email => p = q \/ At(tree, p).email = ""
  <2>1. Valid(tree, All(tree)) <=>
        /\ \A kind \in Kinds : \A p \in Places(tree, kind) : Alone(kind, At(tree, p))
        /\ \A kind \in Kinds : \A p, q \in Places(tree, kind) : At(tree, p).name = At(tree, q).name => p = q
        /\ \A p, q \in Places(tree, "UserList") :
              At(tree, p).email = At(tree, q).email => p = q \/ At(tree, p).email = ""
    BY <1>2, <1>3 DEF Valid
  <2>2. (\A a \in (UNION {{g.custom, g.userCustom, g.directUserCustom} : g \in Gs}) \cup {u.custom : u \in Us} :
            AttributesAccepted(a)) <=>
        (\A a \in (UNION {{g.custom, g.userCustom, g.directUserCustom} : g \in Gs}) \cup {u.custom : u \in Us} :
            \A k \in DOMAIN a : k \notin ReservedNames /\ a[k] \notin Unrepresentable)
    BY <1>5, Zenon
  <2>3. (\A u \in Us : PasswordHashAccepted(u)) <=>
        (\A u \in Us : "other" \notin {u.hash, u.hashFile} /\ (u.hash = "" \/ u.hashFile = ""))
    BY <1>4
  <2>4. (\A c \in Cs : ClientAccepted(c)) <=> (\A c \in Cs : c.redirects /\ (c.public \/ c.secret))
    BY <1>8
  <2> QED BY <1>6, <1>7, <2>1, <2>2, <2>3, <2>4, Zenon
<1> QED BY <1>1, <1>9, Zenon DEF DeclarationsOK, Gs, Us, Cs

\* What is known of the maps once the declarations are accepted.
MapsOK(tree, users, groups) ==
    /\ IsFiniteSet(DOMAIN groups) /\ IsFiniteSet(DOMAIN users)
    /\ DOMAIN groups = GroupNames(tree) /\ DOMAIN users = {u.name : u \in Declared(tree, "UserList")}
    /\ \A g \in Declared(tree, "GroupList") : groups[g.name] = g
    /\ \A u \in Declared(tree, "UserList") : users[u.name] = u
    /\ \A n \in DOMAIN groups : groups[n] \in Declared(tree, "GroupList") /\ groups[n].name = n /\ groups[n] \in GroupSpecs
    /\ \A n \in DOMAIN users : users[n] \in Declared(tree, "UserList") /\ users[n].name = n /\ users[n] \in UserSpecs
    /\ Up(groups) = Parents(tree)
    /\ CheckReferences(users, groups) <=> ReferencesOK(tree)

\* The maps of an accepted reading are functions from the declared names to the
\* declarations.
LEMMA MapsAre ==
    ASSUME NEW tree \in Seq(Files), NEW l, Placed(tree, l, All(tree), Strict(tree, Len(tree))), l.ok,
           NEW users, users = l.decls["UserList"], NEW groups, groups = l.decls["GroupList"]
    PROVE  MapsOK(tree, users, groups)
<1>1. Holds(tree, groups, Places(tree, "GroupList")) /\ Holds(tree, users, Places(tree, "UserList"))
  BY DEF Placed, All, Kinds
<1>2. IsFiniteSet(DOMAIN groups) /\ IsFiniteSet(DOMAIN users)
  BY DEF Placed, Shape, Kinds
<1>3. DOMAIN groups = GroupNames(tree) /\ DOMAIN users = {u.name : u \in Declared(tree, "UserList")}
  BY <1>1 DEF Holds, GroupNames, Declared
<1>4. /\ \A g \in Declared(tree, "GroupList") : groups[g.name] = g
      /\ \A u \in Declared(tree, "UserList") : users[u.name] = u
  BY <1>1 DEF Holds, Declared
<1>5. /\ \A g \in Declared(tree, "GroupList") : g \in GroupSpecs
      /\ \A u \in Declared(tree, "UserList") : u \in UserSpecs
  BY DeclarationIs DEF Declared
<1>6. \A n \in DOMAIN groups : groups[n] \in Declared(tree, "GroupList") /\ groups[n].name = n /\ groups[n] \in GroupSpecs
  BY <1>3, <1>4, <1>5 DEF GroupNames
<1>7. \A n \in DOMAIN users : users[n] \in Declared(tree, "UserList") /\ users[n].name = n /\ users[n] \in UserSpecs
  BY <1>3, <1>4, <1>5
<1>8. Up(groups) = Parents(tree)
  <2>1. ASSUME NEW n \in DOMAIN groups
        PROVE  UNION {ToSet(g.memberOf) : g \in {g \in Declared(tree, "GroupList") : g.name = n}} = ToSet(groups[n].memberOf)
    <3>1. {g \in Declared(tree, "GroupList") : g.name = n} = {groups[n]}
      BY <1>4, <1>6
    <3> QED BY <3>1
  <2> QED BY <1>3, <2>1 DEF Up, Parents
<1>9. CheckReferences(users, groups) <=> ReferencesOK(tree)
  <2> DEFINE Gs == Declared(tree, "GroupList")
             Us == Declared(tree, "UserList")
  <2>1. \A g \in Gs : g.name \in DOMAIN groups
    BY <1>3 DEF GroupNames
  <2>2. \A u \in Us : u.name \in DOMAIN users
    BY <1>3
  <2> HIDE DEF Gs, Us
  <2>3. CheckReferences(users, groups) <=>
          /\ \A g \in Gs : ToSet(g.memberOf) \subseteq DOMAIN groups
          /\ \A u \in Us : ToSet(u.memberOf) \subseteq DOMAIN groups
    BY <1>4, <1>6, <1>7, <2>1, <2>2, Zenon DEF CheckReferences, Gs, Us
  <2>4. ReferencesOK(tree) <=> \A x \in Gs \cup Us : ToSet(x.memberOf) \subseteq DOMAIN groups
    BY <1>3 DEF ReferencesOK, Gs, Us
  <2> QED BY <2>3, <2>4
<1> QED BY <1>2, <1>3, <1>4, <1>6, <1>7, <1>8, <1>9 DEF MapsOK

\* Checked references are lists of groups.
LEMMA ReferencedIs ==
    ASSUME NEW users, NEW groups, CheckReferences(users, groups), \A g \in DOMAIN groups : groups[g] \in GroupSpecs
    PROVE  Referenced(groups)
<1> SUFFICES ASSUME NEW g \in DOMAIN groups PROVE groups[g].memberOf \in Seq(DOMAIN groups)
  BY DEF Referenced
<1> DEFINE q == groups[g].memberOf
<1>1. q \in Seq(STRING)
  BY DEF GroupSpecs
<1>2. ToSet(q) \subseteq DOMAIN groups
  BY DEF CheckReferences
<1> HIDE DEF q
<1>3. Len(q) \in Nat /\ DOMAIN q = 1..Len(q) /\ q = [i \in 1..Len(q) |-> q[i]]
  BY <1>1
<1>4. \A i \in 1..Len(q) : q[i] \in DOMAIN groups
  BY <1>2, <1>3 DEF ToSet
<1>5. q \in Seq(DOMAIN groups)
  BY <1>3, <1>4
<1> QED BY <1>5 DEF q

\* LoadIdentity accepts what is well formed, and only that.
LEMMA LoadAccepts ==
    ASSUME NEW tree \in Seq(Files), NEW l, l = Read(tree)[Len(tree)],
           NEW users, users = l.decls["UserList"], NEW groups, groups = l.decls["GroupList"],
           NEW clients, clients = l.decls["OIDCClientList"]
    PROVE  /\ WellFormed(tree) => LoadIdentity(tree) = {Snapshot(users, groups, clients)}
           /\ ~WellFormed(tree) => LoadIdentity(tree) = {}
           /\ WellFormed(tree) =>
                 /\ l.ok /\ Valid(tree, All(tree)) /\ CheckReferences(users, groups)
                 /\ Referenced(groups) /\ BlackOK(Up(groups), DOMAIN groups)
           /\ WellFormed(tree) => MapsOK(tree, users, groups)
<1>1. Placed(tree, l, All(tree), Strict(tree, Len(tree)))
  BY ReadOK DEF All
<1>2. l.ok <=> DeclarationsOK(tree)
  BY <1>1, DeclarationsAre DEF Placed
<1>3. LoadIdentity(tree) = IF l.ok /\ CheckReferences(users, groups) /\ ~DetectCycle(groups)
                           THEN {Snapshot(users, groups, clients)} ELSE {}
  BY Zenon DEF LoadIdentity
<1>4. l.ok => MapsOK(tree, users, groups)
  BY <1>1, MapsAre
<1>5. ASSUME l.ok, CheckReferences(users, groups)
      PROVE  /\ DetectCycle(groups) <=> \E g \in GroupNames(tree) : g \in Above(Parents(tree), Parents(tree)[g])
             /\ Referenced(groups)
             /\ ~DetectCycle(groups) => BlackOK(Up(groups), DOMAIN groups)
  <2>1. /\ IsFiniteSet(DOMAIN groups) /\ DOMAIN groups = GroupNames(tree) /\ Up(groups) = Parents(tree)
        /\ \A n \in DOMAIN groups : groups[n] \in GroupSpecs
    BY <1>5, <1>4 DEF MapsOK
  <2>2. Referenced(groups)
    BY <1>5, <2>1, ReferencedIs
  <2>3. /\ DetectCycle(groups) <=> Cyclic(Up(groups))
        /\ ~DetectCycle(groups) => BlackOK(Up(groups), DOMAIN groups)
    BY <2>1, <2>2, DetectCycleOK
  <2>4. DOMAIN Up(groups) = GroupNames(tree)
    BY <2>1 DEF Up
  <2> QED BY <2>1, <2>2, <2>3, <2>4 DEF Cyclic
<1>6. l.ok => (CheckReferences(users, groups) <=> ReferencesOK(tree))
  BY <1>4 DEF MapsOK
<1>7. WellFormed(tree) <=>
        /\ DeclarationsOK(tree)
        /\ ReferencesOK(tree)
        /\ ~\E g \in GroupNames(tree) : g \in Above(Parents(tree), Parents(tree)[g])
  BY WellFormedParts
<1>8. WellFormed(tree) <=> l.ok /\ CheckReferences(users, groups) /\ ~DetectCycle(groups)
  BY <1>2, <1>5, <1>6, <1>7
<1>9. l.ok => Valid(tree, All(tree))
  BY <1>1 DEF Placed
<1> QED BY <1>3, <1>5, <1>8, <1>9, <1>4

\* Custom attributes.  c is a contribution to attribute k of user u.
LEMMA ContributionIs ==
    ASSUME NEW users, NEW groups, NEW memberOf, NEW u, NEW k, NEW c
    PROVE  c \in Contributions(users, groups, memberOf, u, k) <=>
              \/ k \in DOMAIN users[u].custom /\ c = <<<<"own", u>>, users[u].custom[k]>>
              \/ \E g \in memberOf[u] : k \in DOMAIN groups[g].userCustom /\ c = <<<<"member", g>>, groups[g].userCustom[k]>>
              \/ \E i \in DOMAIN users[u].memberOf :
                    /\ k \in DOMAIN groups[users[u].memberOf[i]].directUserCustom
                    /\ c = <<<<"direct", i>>, groups[users[u].memberOf[i]].directUserCustom[k]>>
<1> DEFINE from(source, attrs) == IF k \in DOMAIN attrs THEN {<<source, attrs[k]>>} ELSE {}
           direct == users[u].memberOf
           A == from(<<"own", u>>, users[u].custom)
           B == UNION {from(<<"member", g>>, groups[g].userCustom) : g \in memberOf[u]}
           C == UNION {from(<<"direct", i>>, groups[direct[i]].directUserCustom) : i \in DOMAIN direct}
<1>1. Contributions(users, groups, memberOf, u, k) = A \cup B \cup C
  BY Zenon DEF Contributions
<1>2. \A source, attrs : c \in from(source, attrs) <=> k \in DOMAIN attrs /\ c = <<source, attrs[k]>>
  OBVIOUS
<1> HIDE DEF from
<1>3. c \in A <=> k \in DOMAIN users[u].custom /\ c = <<<<"own", u>>, users[u].custom[k]>>
  BY <1>2, Zenon
<1>4. c \in B <=> \E g \in memberOf[u] : k \in DOMAIN groups[g].userCustom /\ c = <<<<"member", g>>, groups[g].userCustom[k]>>
  <2>1. c \in B <=> \E g \in memberOf[u] : c \in from(<<"member", g>>, groups[g].userCustom)
    OBVIOUS
  <2> QED BY <1>2, <2>1, Zenon
<1>5. c \in C <=> \E i \in DOMAIN direct :
                     /\ k \in DOMAIN groups[direct[i]].directUserCustom
                     /\ c = <<<<"direct", i>>, groups[direct[i]].directUserCustom[k]>>
  <2>1. c \in C <=> \E i \in DOMAIN direct : c \in from(<<"direct", i>>, groups[direct[i]].directUserCustom)
    OBVIOUS
  <2> QED BY <1>2, <2>1, Zenon
<1> HIDE DEF A, B, C
<1> QED BY <1>1, <1>3, <1>4, <1>5

\* What is known of a snapshot that a load returned.
SnapshotOK(s, tree) ==
    /\ MapsOK(tree, s.users, s.groups) /\ Valid(tree, All(tree)) /\ CheckReferences(s.users, s.groups)
    /\ DOMAIN s.memberOf = DOMAIN s.users
    /\ \A u \in DOMAIN s.users : s.memberOf[u] = Above(Up(s.groups), ToSet(s.users[u].memberOf))
    /\ s.members = ResolveFlattenedMembers(s.memberOf)
    /\ s.userAttrs = ResolveCustomAttributes(s.users, s.groups, s.memberOf)

\* A load returns one snapshot at most, of a well-formed tree, resolved as
\* SnapshotOK says.
LEMMA SnapshotIs ==
    ASSUME NEW tree \in Seq(Files), NEW s \in LoadIdentity(tree)
    PROVE  WellFormed(tree) /\ SnapshotOK(s, tree) /\ LoadIdentity(tree) = {s}
<1> DEFINE l == Read(tree)[Len(tree)]
           users == l.decls["UserList"]
           groups == l.decls["GroupList"]
           clients == l.decls["OIDCClientList"]
<1> HIDE DEF l, users, groups, clients
<1>1. /\ WellFormed(tree) => LoadIdentity(tree) = {Snapshot(users, groups, clients)}
      /\ ~WellFormed(tree) => LoadIdentity(tree) = {}
      /\ WellFormed(tree) =>
            /\ l.ok /\ Valid(tree, All(tree)) /\ CheckReferences(users, groups)
            /\ Referenced(groups) /\ BlackOK(Up(groups), DOMAIN groups)
      /\ WellFormed(tree) => MapsOK(tree, users, groups)
  BY LoadAccepts DEF l, users, groups, clients
<1>2. WellFormed(tree) /\ s = Snapshot(users, groups, clients) /\ LoadIdentity(tree) = {s}
  BY <1>1
<1>3. /\ s.users = users /\ s.groups = groups
      /\ s.memberOf = ResolveFlattenedMemberOf(users, groups)
      /\ s.members = ResolveFlattenedMembers(s.memberOf)
      /\ s.userAttrs = ResolveCustomAttributes(users, groups, s.memberOf)
  BY <1>2 DEF Snapshot
<1>4. \A u \in DOMAIN users : ToSet(users[u].memberOf) \subseteq DOMAIN groups
  BY <1>1, <1>2 DEF CheckReferences
<1>5. /\ DOMAIN s.memberOf = DOMAIN users
      /\ \A u \in DOMAIN users : s.memberOf[u] = Above(Up(groups), ToSet(users[u].memberOf))
  BY <1>1, <1>2, <1>3, <1>4, MemberOfIs
<1>6. SnapshotOK(s, tree)
  BY <1>1, <1>2, <1>3, <1>5 DEF SnapshotOK
<1> QED BY <1>2, <1>6

\* The groups above are groups.
LEMMA AboveWithin == ASSUME NEW up, NEW D PROVE Above(up, D) \subseteq DOMAIN up
BY DEF Above

\* The contributions to an attribute are finitely many.
LEMMA ContributionsFinite ==
    ASSUME NEW users, NEW groups, NEW memberOf, NEW u, NEW k, IsFiniteSet(memberOf[u]),
           NEW n \in Nat, DOMAIN users[u].memberOf = 1..n
    PROVE  IsFiniteSet(Contributions(users, groups, memberOf, u, k))
<1> DEFINE C == Contributions(users, groups, memberOf, u, k)
           T == ({"own"} \X {u}) \cup ({"member"} \X memberOf[u]) \cup ({"direct"} \X (1..n))
           f == [c \in C |-> c[1]]
<1>1. IsFiniteSet(T)
  <2>1. IsFiniteSet({"own"}) /\ IsFiniteSet({"member"}) /\ IsFiniteSet({"direct"}) /\ IsFiniteSet({u})
    BY FS_Singleton, Zenon
  <2>3. IsFiniteSet(1..n)
    BY FS_Interval
  <2>2. IsFiniteSet({"own"} \X {u}) /\ IsFiniteSet({"member"} \X memberOf[u]) /\ IsFiniteSet({"direct"} \X (1..n))
    BY <2>1, <2>3, FS_Product
  <2> QED BY <2>2, FS_Union
<1>2. ASSUME NEW c \in C
      PROVE
          \/ k \in DOMAIN users[u].custom /\ c = <<<<"own", u>>, users[u].custom[k]>>
          \/ \E g \in memberOf[u] : k \in DOMAIN groups[g].userCustom /\ c = <<<<"member", g>>, groups[g].userCustom[k]>>
          \/ \E i \in DOMAIN users[u].memberOf :
                /\ k \in DOMAIN groups[users[u].memberOf[i]].directUserCustom
                /\ c = <<<<"direct", i>>, groups[users[u].memberOf[i]].directUserCustom[k]>>
  BY ContributionIs
<1> HIDE DEF C
<1>3. \A c \in C : c[1] \in T
  BY <1>2
<1>4. \A c, d \in C : c[1] = d[1] => c = d
  BY <1>2
<1> HIDE DEF T
<1>5. f \in Injection(C, T)
  BY <1>3, <1>4 DEF Injection, IsInjective
<1>6. IsFiniteSet(C)
  BY <1>1, <1>5, FS_Injection
<1> QED BY <1>6 DEF C

\* What a source of an attribute is, one case for each place it can come from.
LEMMA SourceIs ==
    ASSUME NEW tree, NEW u, NEW k, NEW x
    PROVE  x \in Sources(tree, u, k) <=>
              \/ k \in DOMAIN u.custom /\ x = <<"own", u.name, u.custom[k]>>
              \/ \E g \in Declared(tree, "GroupList") :
                    /\ g.name \in Above(Parents(tree), ToSet(u.memberOf))
                    /\ k \in DOMAIN g.userCustom /\ x = <<"member", g.name, g.userCustom[k]>>
              \/ \E g \in Declared(tree, "GroupList") :
                    /\ g.name \in ToSet(u.memberOf)
                    /\ k \in DOMAIN g.directUserCustom /\ x = <<"direct", g.name, g.directUserCustom[k]>>
<1> DEFINE Gs == Declared(tree, "GroupList")
           A == {<<"own", u.name, u.custom[j]>> : j \in {k} \cap DOMAIN u.custom}
           B == {<<"member", g.name, g.userCustom[k]>> :
                    g \in {g \in {g \in Gs : k \in DOMAIN g.userCustom} : g.name \in Above(Parents(tree), ToSet(u.memberOf))}}
           C == {<<"direct", g.name, g.directUserCustom[k]>> :
                    g \in {g \in {g \in Gs : k \in DOMAIN g.directUserCustom} : g.name \in ToSet(u.memberOf)}}
<1>1. Sources(tree, u, k) = A \cup B \cup C
  BY Zenon DEF Sources
<1>2. x \in A <=> k \in DOMAIN u.custom /\ x = <<"own", u.name, u.custom[k]>>
  OBVIOUS
<1> HIDE DEF Gs
<1>3. x \in B <=> \E g \in Gs : /\ g.name \in Above(Parents(tree), ToSet(u.memberOf))
                                /\ k \in DOMAIN g.userCustom /\ x = <<"member", g.name, g.userCustom[k]>>
  OBVIOUS
<1>4. x \in C <=> \E g \in Gs : /\ g.name \in ToSet(u.memberOf)
                                /\ k \in DOMAIN g.directUserCustom /\ x = <<"direct", g.name, g.directUserCustom[k]>>
  OBVIOUS
<1> HIDE DEF A, B, C
<1> QED BY <1>1, <1>2, <1>3, <1>4 DEF Gs

\* A user who lists no group twice has an attribute if one source gives it.
LEMMA AttributesAsDeclared ==
    ASSUME NEW tree \in Seq(Files), NEW s, SnapshotOK(s, tree), NEW u \in Declared(tree, "UserList"),
           Cardinality(ToSet(u.memberOf)) = Len(u.memberOf), NEW k \in Attributes
    PROVE  /\ k \in DOMAIN s.userAttrs[u.name] <=> Cardinality(Sources(tree, u, k)) = 1
           /\ k \in DOMAIN s.userAttrs[u.name] => \E x \in Sources(tree, u, k) : x[3] = s.userAttrs[u.name][k]
<1> DEFINE n == u.name
           direct == u.memberOf
           C == Contributions(s.users, s.groups, s.memberOf, n, k)
           D == Sources(tree, u, k)
           Gs == Declared(tree, "GroupList")
           to(c) == <<c[1][1], IF c[1][1] = "direct" THEN direct[c[1][2]] ELSE c[1][2], c[2]>>
           f == [c \in C |-> to(c)]
<1>1. /\ n \in DOMAIN s.users /\ s.users[n] = u /\ u \in UserSpecs
      /\ IsFiniteSet(DOMAIN s.groups) /\ DOMAIN s.groups = {g.name : g \in Gs}
      /\ \A g \in Gs : s.groups[g.name] = g
      /\ \A g \in DOMAIN s.groups : s.groups[g] \in Gs /\ s.groups[g].name = g
      /\ Up(s.groups) = Parents(tree)
  BY DEF SnapshotOK, MapsOK, GroupNames
<1>2. s.memberOf[n] = Above(Parents(tree), ToSet(direct)) /\ s.memberOf[n] \subseteq DOMAIN s.groups
  <2>1. s.memberOf[n] = Above(Parents(tree), ToSet(direct))
    BY <1>1 DEF SnapshotOK
  <2>2. DOMAIN Parents(tree) = DOMAIN s.groups
    BY <1>1 DEF Up
  <2> QED BY <2>1, <2>2, AboveWithin
<1>3. direct \in Seq(STRING) /\ Len(direct) \in Nat /\ DOMAIN direct = 1..Len(direct)
  <2>1. direct \in Seq(STRING)
    BY <1>1 DEF UserSpecs
  <2> QED BY <2>1
<1>4. \A i \in DOMAIN direct : direct[i] \in ToSet(direct) /\ direct[i] \in DOMAIN s.groups
  <2>1. ToSet(direct) \subseteq DOMAIN s.groups
    BY <1>1 DEF SnapshotOK, CheckReferences
  <2> QED BY <2>1 DEF ToSet
<1>5. \A i, j \in DOMAIN direct : direct[i] = direct[j] => i = j
  <2>1. direct \in Surjection(1..Len(direct), ToSet(direct))
    BY <1>3 DEF Surjection, ToSet
  <2>2. IsFiniteSet(1..Len(direct)) /\ Cardinality(1..Len(direct)) = Len(direct)
    BY <1>3, FS_Interval
  <2>3. direct \in Injection(1..Len(direct), ToSet(direct))
    BY <2>1, <2>2, FS_Surjection
  <2> QED BY <1>3, <2>3 DEF Injection, IsInjective
<1>6. IsFiniteSet(C)
  <2>1. IsFiniteSet(s.memberOf[n]) /\ DOMAIN s.users[n].memberOf = 1..Len(direct)
    BY <1>1, <1>2, <1>3, FS_Subset
  <2> QED BY <1>3, <2>1, ContributionsFinite
<1>7. ASSUME NEW c
      PROVE  c \in C <=>
              \/ k \in DOMAIN u.custom /\ c = <<<<"own", n>>, u.custom[k]>>
              \/ \E g \in s.memberOf[n] :
                    k \in DOMAIN s.groups[g].userCustom /\ c = <<<<"member", g>>, s.groups[g].userCustom[k]>>
              \/ \E i \in DOMAIN direct :
                    /\ k \in DOMAIN s.groups[direct[i]].directUserCustom
                    /\ c = <<<<"direct", i>>, s.groups[direct[i]].directUserCustom[k]>>
  <2> HIDE DEF n
  <2> QED BY <1>1, ContributionIs
<1>8. ASSUME NEW x
      PROVE  x \in D <=>
              \/ k \in DOMAIN u.custom /\ x = <<"own", n, u.custom[k]>>
              \/ \E g \in Gs : /\ g.name \in s.memberOf[n]
                               /\ k \in DOMAIN g.userCustom /\ x = <<"member", g.name, g.userCustom[k]>>
              \/ \E g \in Gs : /\ g.name \in ToSet(direct)
                               /\ k \in DOMAIN g.directUserCustom /\ x = <<"direct", g.name, g.directUserCustom[k]>>
  BY <1>2, SourceIs
<1> HIDE DEF C, D, Gs, direct, n
<1>9. ASSUME NEW c \in C PROVE to(c) \in D /\ to(c)[3] = c[2]
  <2>1. CASE k \in DOMAIN u.custom /\ c = <<<<"own", n>>, u.custom[k]>>
    BY <1>8, <2>1
  <2>2. ASSUME NEW g \in s.memberOf[n], k \in DOMAIN s.groups[g].userCustom, c = <<<<"member", g>>, s.groups[g].userCustom[k]>>
        PROVE  to(c) \in D /\ to(c)[3] = c[2]
    <3>1. to(c) = <<"member", g, s.groups[g].userCustom[k]>> /\ s.groups[g] \in Gs /\ s.groups[g].name = g
      BY <1>1, <1>2, <2>2
    <3> QED BY <1>8, <2>2, <3>1
  <2>3. ASSUME NEW i \in DOMAIN direct, k \in DOMAIN s.groups[direct[i]].directUserCustom,
               c = <<<<"direct", i>>, s.groups[direct[i]].directUserCustom[k]>>
        PROVE  to(c) \in D /\ to(c)[3] = c[2]
    <3>1. /\ to(c) = <<"direct", direct[i], s.groups[direct[i]].directUserCustom[k]>>
          /\ s.groups[direct[i]] \in Gs /\ s.groups[direct[i]].name = direct[i] /\ direct[i] \in ToSet(direct)
      BY <1>1, <1>4, <2>3
    <3> QED BY <1>8, <2>3, <3>1
  <2> QED BY <1>7, <2>1, <2>2, <2>3
<1>10. ASSUME NEW c \in C, NEW d \in C, to(c) = to(d) PROVE c = d
  BY <1>5, <1>7, <1>10
<1>11. ASSUME NEW x \in D PROVE \E c \in C : to(c) = x
  <2>1. CASE k \in DOMAIN u.custom /\ x = <<"own", n, u.custom[k]>>
    <3> DEFINE c == <<<<"own", n>>, u.custom[k]>>
    <3>1. c \in C
      BY <1>7, <2>1
    <3>2. to(c) = x
      BY <2>1
    <3> QED BY <3>1, <3>2
  <2>2. ASSUME NEW g \in Gs, g.name \in s.memberOf[n], k \in DOMAIN g.userCustom, x = <<"member", g.name, g.userCustom[k]>>
        PROVE  \E c \in C : to(c) = x
    <3> DEFINE c == <<<<"member", g.name>>, g.userCustom[k]>>
    <3>1. c \in C
      BY <1>1, <1>7, <2>2
    <3>2. to(c) = x
      BY <2>2
    <3> QED BY <3>1, <3>2
  <2>3. ASSUME NEW g \in Gs, g.name \in ToSet(direct), k \in DOMAIN g.directUserCustom,
               x = <<"direct", g.name, g.directUserCustom[k]>>
        PROVE  \E c \in C : to(c) = x
    <3>1. PICK i \in DOMAIN direct : direct[i] = g.name
      BY <2>3 DEF ToSet
    <3> DEFINE c == <<<<"direct", i>>, g.directUserCustom[k]>>
    <3>2. c \in C
      BY <1>1, <1>7, <2>3, <3>1
    <3>3. to(c) = x
      BY <2>3, <3>1
    <3> QED BY <3>2, <3>3
  <2> QED BY <1>8, <2>1, <2>2, <2>3
<1>12. Cardinality(C) = Cardinality(D)
  <2> HIDE DEF to
  <2>1. f \in Bijection(C, D)
    BY <1>9, <1>10, <1>11 DEF Bijection, Injection, Surjection, IsInjective
  <2>2. ExistsBijection(C, D)
    BY <2>1 DEF ExistsBijection
  <2> QED BY <1>6, <2>2, FS_Bijection
<1>13. /\ k \in DOMAIN s.userAttrs[n] <=> Cardinality(C) = 1
       /\ k \in DOMAIN s.userAttrs[n] => s.userAttrs[n][k] = (CHOOSE c \in C : TRUE)[2]
  <2>1. s.userAttrs = ResolveCustomAttributes(s.users, s.groups, s.memberOf)
    BY DEF SnapshotOK
  <2>2. s.userAttrs[n] = [j \in {j \in Attributes : Cardinality(Contributions(s.users, s.groups, s.memberOf, n, j)) = 1} |->
                             (CHOOSE c \in Contributions(s.users, s.groups, s.memberOf, n, j) : TRUE)[2]]
    BY <1>1, <2>1 DEF ResolveCustomAttributes
  <2> QED BY <2>2 DEF C
<1>14. ASSUME Cardinality(C) = 1 PROVE \E x \in D : x[3] = (CHOOSE c \in C : TRUE)[2]
  <2>1. C # {}
    BY <1>6, <1>14, FS_EmptySet
  <2>2. PICK c \in C : c = CHOOSE d \in C : TRUE
    BY <2>1
  <2> QED BY <1>9, <2>2
<1>15. k \in DOMAIN s.userAttrs[n] => \E x \in D : x[3] = s.userAttrs[n][k]
  BY <1>13, <1>14
<1> QED BY <1>12, <1>13, <1>15 DEF D, n

\* A name, or an email, means one user.
LEMMA IdentifiersAreUnique ==
    ASSUME NEW tree \in Seq(Files), NEW s, SnapshotOK(s, tree), NEW u \in Declared(tree, "UserList"),
           NEW id \in {u.name, u.email} \ {""}
    PROVE  Cardinality(ResolveIdentifier(s, id)) = 1
<1>1. /\ u.name \in DOMAIN s.users /\ s.users[u.name] = u
      /\ \A n \in DOMAIN s.users : s.users[n] \in Declared(tree, "UserList") /\ s.users[n].name = n
  BY DEF SnapshotOK, MapsOK
<1>2. CASE id \in DOMAIN s.users
  <2>1. ResolveIdentifier(s, id) = {id}
    BY <1>2 DEF ResolveIdentifier
  <2> QED BY <2>1, FS_Singleton
<1>3. CASE id \notin DOMAIN s.users
  <2>1. id = u.email /\ id # ""
    BY <1>1, <1>3
  <2>2. ASSUME NEW n \in DOMAIN s.users, s.users[n].email = id PROVE n = u.name
    <3>1. PICK p \in Places(tree, "UserList") : s.users[n] = At(tree, p)
      BY <1>1 DEF Declared
    <3>2. PICK q \in Places(tree, "UserList") : u = At(tree, q)
      BY DEF Declared
    <3>3. \A a, b \in Places(tree, "UserList") : At(tree, a).email = At(tree, b).email => a = b \/ At(tree, a).email = ""
      BY DEF SnapshotOK, Valid, All, Kinds
    <3> QED BY <1>1, <2>1, <2>2, <3>1, <3>2, <3>3
  <2>3. ResolveIdentifier(s, id) = {u.name}
    BY <1>1, <1>3, <2>1, <2>2 DEF ResolveIdentifier
  <2> QED BY <2>3, FS_Singleton
<1> QED BY <1>2, <1>3

\* The groups of each user, and what follows from them.
LEMMA GroupsAsDeclared ==
    ASSUME NEW tree \in Seq(Files), NEW s, SnapshotOK(s, tree), NEW u \in Declared(tree, "UserList"),
           NEW G, G = Above(Parents(tree), ToSet(u.memberOf))
    PROVE  /\ {g \in GroupNames(tree) : IsMemberOf(s, u.name, g)} = G
           /\ \A g \in DOMAIN s.members : u.name \in s.members[g] <=> g \in G
           /\ MFARequiredByDeclaration(s, u.name) <=>
                 u.mfa \/ \E g \in Declared(tree, "GroupList") : g.name \in G /\ g.requireMFA
<1>1. /\ u.name \in DOMAIN s.users /\ s.users[u.name] = u
      /\ Up(s.groups) = Parents(tree) /\ DOMAIN s.groups = GroupNames(tree)
      /\ \A g \in Declared(tree, "GroupList") : s.groups[g.name] = g
      /\ \A n \in DOMAIN s.groups : s.groups[n] \in Declared(tree, "GroupList") /\ s.groups[n].name = n
  BY DEF SnapshotOK, MapsOK
<1>2. s.memberOf[u.name] = G /\ DOMAIN s.memberOf = DOMAIN s.users
  BY <1>1 DEF SnapshotOK
<1>3. G \subseteq DOMAIN s.groups
  <2>1. DOMAIN Parents(tree) = DOMAIN s.groups
    BY <1>1 DEF Parents
  <2> QED BY <2>1, AboveWithin
<1>4. {g \in GroupNames(tree) : IsMemberOf(s, u.name, g)} = G
  BY <1>1, <1>2, <1>3 DEF IsMemberOf
<1>5. \A g \in DOMAIN s.members : u.name \in s.members[g] <=> g \in G
  <2>1. s.members = ResolveFlattenedMembers(s.memberOf)
    BY DEF SnapshotOK
  <2> QED BY <1>1, <1>2, <2>1 DEF ResolveFlattenedMembers
<1>6. MFARequiredByDeclaration(s, u.name) <=>
        u.mfa \/ \E g \in Declared(tree, "GroupList") : g.name \in G /\ g.requireMFA
  <2>1. (\E g \in G : s.groups[g].requireMFA) <=> (\E g \in Declared(tree, "GroupList") : g.name \in G /\ g.requireMFA)
    BY <1>1, <1>3
  <2>2. MFARequiredByDeclaration(s, u.name) <=> u.mfa \/ \E g \in G : s.groups[g].requireMFA
    BY <1>1, <1>2 DEF MFARequiredByDeclaration
  <2> QED BY <2>1, <2>2
<1> QED BY <1>4, <1>5, <1>6

\* What LoadIdentity returns is what the tree declares.
LEMMA ResolvedOK ==
    ASSUME NEW tree \in Seq(Files), NEW s, SnapshotOK(s, tree)
    PROVE  ResolvedAsDeclared(s, tree)
<1>1. ASSUME NEW u \in Declared(tree, "UserList")
      PROVE  /\ {g \in GroupNames(tree) : IsMemberOf(s, u.name, g)} = Above(Parents(tree), ToSet(u.memberOf))
             /\ \A g \in DOMAIN s.members : u.name \in s.members[g] <=> g \in Above(Parents(tree), ToSet(u.memberOf))
             /\ MFARequiredByDeclaration(s, u.name) <=>
                   u.mfa \/ \E g \in Declared(tree, "GroupList") :
                                g.name \in Above(Parents(tree), ToSet(u.memberOf)) /\ g.requireMFA
  BY GroupsAsDeclared
<1>2. ASSUME NEW u \in Declared(tree, "UserList")
      PROVE  \A id \in {u.name, u.email} \ {""} : Cardinality(ResolveIdentifier(s, id)) = 1
  BY IdentifiersAreUnique
<1>3. ASSUME NEW u \in Declared(tree, "UserList"), Cardinality(ToSet(u.memberOf)) = Len(u.memberOf), NEW k \in Attributes
      PROVE  /\ k \in DOMAIN s.userAttrs[u.name] <=> Cardinality(Sources(tree, u, k)) = 1
             /\ k \in DOMAIN s.userAttrs[u.name] => \E x \in Sources(tree, u, k) : x[3] = s.userAttrs[u.name][k]
  BY <1>3, AttributesAsDeclared
<1> QED BY <1>1, <1>2, <1>3, Zenon DEF ResolvedAsDeclared

-----------------------------------------------------------------------------
(* The entries of a served directory.                                      *)

\* Everything that can be sent.
Everything(s, startTLSAvailable, sc) ==
    {RootDSEEntry(startTLSAvailable), SubschemaEntry, BaseEntry, OUEntry(UsersOUDN), OUEntry(GroupsOUDN)}
    \cup SambaDomain(sc)
    \cup {UserEntry(s, u, sc) : u \in DOMAIN s.users}
    \cup {GroupEntry(s, g, sc) : g \in DOMAIN s.groups}
    \cup (IF sc.privileged /\ DomainUsers \notin DOMAIN s.groups THEN {SambaWellKnownGroupEntry} ELSE {})

\* The fixed DNs are told apart by their first part.
LEMMA FirstParts ==
    /\ RootDSE[1] = "" /\ SubschemaDN[1] = "cn=subschema" /\ BaseDN[1] = "base" /\ UsersOUDN[1] = "ou"
    /\ GroupsOUDN[1] = "ou" /\ SambaDomainDN[1] = "sambaDomainName" /\ OtherDN[1] = "other"
BY DEF RootDSE, SubschemaDN, SambaDomainDN, UsersOUDN, GroupsOUDN, BaseDN, OtherDN

\* EntriesFor returns nothing but the entries there are.
LEMMA EntriesWithin ==
    ASSUME NEW s, NEW base, NEW scope \in {"base", "one", "sub"}, NEW start \in BOOLEAN, NEW sc,
           base \in FixedDNs \cup {OtherDN} \/ base[1] \in {"uid", "cn"}
    PROVE  EntriesFor(s, base, scope, start, sc) \subseteq Everything(s, start, sc)
<1> DEFINE X == Everything(s, start, sc)
           US == {UserEntry(s, u, sc) : u \in DOMAIN s.users}
           GS == {GroupEntry(s, g, sc) : g \in DOMAIN s.groups}
           WK == IF sc.privileged /\ DomainUsers \notin DOMAIN s.groups THEN {SambaWellKnownGroupEntry} ELSE {}
<1>1. /\ {RootDSEEntry(start), SubschemaEntry, BaseEntry, OUEntry(UsersOUDN), OUEntry(GroupsOUDN)} \subseteq X
      /\ SambaDomain(sc) \subseteq X /\ US \subseteq X /\ GS \subseteq X /\ WK \subseteq X
  <2> HIDE DEF US, GS, WK
  <2>1. X = {RootDSEEntry(start), SubschemaEntry, BaseEntry, OUEntry(UsersOUDN), OUEntry(GroupsOUDN)}
            \cup SambaDomain(sc) \cup US \cup GS \cup WK
    BY Zenon DEF Everything, US, GS, WK
  <2> QED BY <2>1
<1>2. \A x \in {"base", "one", "sub"} : UsersSubtree(s, x, sc) \subseteq {OUEntry(UsersOUDN)} \cup US
  BY DEF UsersSubtree
<1>3. \A x \in {"base", "one", "sub"} : GroupsSubtree(s, x, sc) \subseteq {OUEntry(GroupsOUDN)} \cup GS \cup WK
  BY DEF GroupsSubtree
<1> HIDE DEF X, US, GS, WK
<1>4. UsersSubtree(s, scope, sc) \subseteq X /\ GroupsSubtree(s, scope, sc) \subseteq X
  BY <1>1, <1>2, <1>3
<1>5. GroupsSubtree(s, "one", sc) \subseteq X
  BY <1>1, <1>3
<1>6. BaseSubtree(s, scope, sc) \subseteq X
  <2>1. UsersSubtree(s, "sub", sc) \subseteq X /\ GroupsSubtree(s, "sub", sc) \subseteq X
    BY <1>1, <1>2, <1>3
  <2> QED BY <1>1, <2>1 DEF BaseSubtree
<1>7. Leaf(scope, SambaDomain(sc)) \subseteq X
  BY <1>1 DEF Leaf
<1>8. Leaf(scope, {UserEntry(s, u, sc) : u \in {base[2]} \cap DOMAIN s.users}) \subseteq X
  <2>1. {UserEntry(s, u, sc) : u \in {base[2]} \cap DOMAIN s.users} \subseteq US
    BY DEF US
  <2> QED BY <1>1, <2>1 DEF Leaf
<1>9. Leaf(scope, {e \in GroupsSubtree(s, "one", sc) : e.dn = base}) \subseteq X
  BY <1>5 DEF Leaf
<1> DEFINE E == EntriesFor(s, base, scope, start, sc)
<1>10. CASE base = RootDSE
  <2>1. E = {RootDSEEntry(start)}
    BY <1>10 DEF EntriesFor, RootDSE, SubschemaDN, SambaDomainDN, UsersOUDN, GroupsOUDN, BaseDN, OtherDN
  <2> QED BY <1>1, <2>1 DEF X
<1>11. CASE base = SubschemaDN
  <2>1. E = {SubschemaEntry}
    BY <1>11 DEF EntriesFor, RootDSE, SubschemaDN, SambaDomainDN, UsersOUDN, GroupsOUDN, BaseDN, OtherDN
  <2> QED BY <1>1, <2>1 DEF X
<1>12. CASE base = SambaDomainDN
  <2>1. E = Leaf(scope, SambaDomain(sc))
    BY <1>12 DEF EntriesFor, RootDSE, SubschemaDN, SambaDomainDN, UsersOUDN, GroupsOUDN, BaseDN, OtherDN
  <2> QED BY <1>7, <2>1 DEF X
<1>13. CASE base[1] = "uid"
  <2>1. /\ base # RootDSE /\ base # SubschemaDN /\ base # SambaDomainDN /\ base # UsersOUDN /\ base # GroupsOUDN
        /\ base # BaseDN /\ base # OtherDN
    BY <1>13, FirstParts
  <2>2. E = Leaf(scope, {UserEntry(s, u, sc) : u \in {base[2]} \cap DOMAIN s.users})
    BY <1>13, <2>1 DEF EntriesFor
  <2> QED BY <1>8, <2>2 DEF X
<1>14. CASE base[1] = "cn"
  <2>1. /\ base # RootDSE /\ base # SubschemaDN /\ base # SambaDomainDN /\ base # UsersOUDN /\ base # GroupsOUDN
        /\ base # BaseDN /\ base # OtherDN
    BY <1>14, FirstParts
  <2>2. E = Leaf(scope, {e \in GroupsSubtree(s, "one", sc) : e.dn = base})
    BY <1>14, <2>1 DEF EntriesFor
  <2> QED BY <1>9, <2>2 DEF X
<1>15. CASE base = UsersOUDN
  <2>1. E = UsersSubtree(s, scope, sc)
    BY <1>15 DEF EntriesFor, RootDSE, SubschemaDN, SambaDomainDN, UsersOUDN, GroupsOUDN, BaseDN, OtherDN
  <2> QED BY <1>4, <2>1 DEF X
<1>16. CASE base = GroupsOUDN
  <2>1. E = GroupsSubtree(s, scope, sc)
    BY <1>16 DEF EntriesFor, RootDSE, SubschemaDN, SambaDomainDN, UsersOUDN, GroupsOUDN, BaseDN, OtherDN
  <2> QED BY <1>4, <2>1 DEF X
<1>17. CASE base = BaseDN
  <2>1. E = BaseSubtree(s, scope, sc)
    BY <1>17 DEF EntriesFor, RootDSE, SubschemaDN, SambaDomainDN, UsersOUDN, GroupsOUDN, BaseDN, OtherDN
  <2> QED BY <1>6, <2>1 DEF X
<1>18. CASE base = OtherDN
  <2>1. E = {}
    BY <1>18 DEF EntriesFor, RootDSE, SubschemaDN, SambaDomainDN, UsersOUDN, GroupsOUDN, BaseDN, OtherDN
  <2> QED BY <2>1
<1> QED BY <1>10, <1>11, <1>12, <1>13, <1>14, <1>15, <1>16, <1>17, <1>18 DEF FixedDNs, X

\* The entry of a DN: there is one at most.
EntryAt(s, start, sc, dn) ==
    IF dn[1] = "" THEN RootDSEEntry(start)
    ELSE IF dn[1] = "cn=subschema" THEN SubschemaEntry
    ELSE IF dn[1] = "base" THEN BaseEntry
    ELSE IF dn[1] = "ou" THEN OUEntry(dn)
    ELSE IF dn[1] = "sambaDomainName" THEN SambaDomainEntry
    ELSE IF dn[1] = "uid" THEN UserEntry(s, dn[2], sc)
    ELSE IF dn[2] \in DOMAIN s.groups THEN GroupEntry(s, dn[2], sc)
    ELSE SambaWellKnownGroupEntry

\* The DN of each kind of entry.
LEMMA DNsAre ==
    /\ \A start : RootDSEEntry(start).dn = RootDSE
    /\ SubschemaEntry.dn = SubschemaDN /\ BaseEntry.dn = BaseDN /\ SambaDomainEntry.dn = SambaDomainDN
    /\ \A dn : OUEntry(dn).dn = dn
    /\ \A s, u, p : UserEntry(s, u, p).dn = UserDN(u)
    /\ \A s, g, p : GroupEntry(s, g, p).dn = GroupDN(g)
    /\ SambaWellKnownGroupEntry.dn = GroupDN(DomainUsers)
BY DEF RootDSEEntry, SubschemaEntry, BaseEntry, SambaDomainEntry, OUEntry, UserEntry, GroupEntry,
       SambaWellKnownGroupEntry, Entry

\* An entry is decided by its DN, and its DN is one the directory has.
LEMMA EntryIsAt ==
    ASSUME NEW s, NEW start, NEW sc, NEW e \in Everything(s, start, sc)
    PROVE  /\ e = EntryAt(s, start, sc, e.dn)
           /\ e.dn \in FixedDNs \cup {GroupDN(DomainUsers)} \cup {UserDN(u) : u \in DOMAIN s.users}
                       \cup {GroupDN(g) : g \in DOMAIN s.groups}
<1> DEFINE goal == /\ e = EntryAt(s, start, sc, e.dn)
                   /\ e.dn \in FixedDNs \cup {GroupDN(DomainUsers)} \cup {UserDN(u) : u \in DOMAIN s.users}
                               \cup {GroupDN(g) : g \in DOMAIN s.groups}
<1>1. \/ e = RootDSEEntry(start) \/ e = SubschemaEntry \/ e = BaseEntry
      \/ e = OUEntry(UsersOUDN) \/ e = OUEntry(GroupsOUDN) \/ e = SambaDomainEntry
      \/ \E u \in DOMAIN s.users : e = UserEntry(s, u, sc)
      \/ \E g \in DOMAIN s.groups : e = GroupEntry(s, g, sc)
      \/ DomainUsers \notin DOMAIN s.groups /\ e = SambaWellKnownGroupEntry
  BY DEF Everything, SambaDomain
<1>2. CASE e = RootDSEEntry(start)
  <2>1. e.dn = RootDSE
    BY <1>2, DNsAre
  <2>2. e.dn[1] = ""
    BY <2>1, FirstParts
  <2> QED BY <1>2, <2>1, <2>2 DEF EntryAt, FixedDNs
<1>3. CASE e = SubschemaEntry
  <2>1. e.dn = SubschemaDN
    BY <1>3, DNsAre
  <2>2. e.dn[1] = "cn=subschema"
    BY <2>1, FirstParts
  <2> QED BY <1>3, <2>1, <2>2 DEF EntryAt, FixedDNs
<1>4. CASE e = BaseEntry
  <2>1. e.dn = BaseDN
    BY <1>4, DNsAre
  <2>2. e.dn[1] = "base"
    BY <2>1, FirstParts
  <2> QED BY <1>4, <2>1, <2>2 DEF EntryAt, FixedDNs
<1>5. CASE e = OUEntry(UsersOUDN)
  <2>1. e.dn = UsersOUDN
    BY <1>5, DNsAre
  <2>2. e.dn[1] = "ou"
    BY <2>1 DEF UsersOUDN
  <2> QED BY <1>5, <2>1, <2>2 DEF EntryAt, FixedDNs
<1>6. CASE e = OUEntry(GroupsOUDN)
  <2>1. e.dn = GroupsOUDN
    BY <1>6, DNsAre
  <2>2. e.dn[1] = "ou"
    BY <2>1 DEF GroupsOUDN
  <2> QED BY <1>6, <2>1, <2>2 DEF EntryAt, FixedDNs
<1>7. CASE e = SambaDomainEntry
  <2>1. e.dn = SambaDomainDN
    BY <1>7, DNsAre
  <2>2. e.dn[1] = "sambaDomainName"
    BY <2>1, FirstParts
  <2> QED BY <1>7, <2>1, <2>2 DEF EntryAt, FixedDNs
<1>8. ASSUME NEW u \in DOMAIN s.users, e = UserEntry(s, u, sc) PROVE goal
  <2>1. e.dn = UserDN(u)
    BY <1>8, DNsAre
  <2>2. e.dn[1] = "uid" /\ e.dn[2] = u
    BY <2>1 DEF UserDN
  <2> QED BY <1>8, <2>1, <2>2 DEF EntryAt
<1>9. ASSUME NEW g \in DOMAIN s.groups, e = GroupEntry(s, g, sc) PROVE goal
  <2>1. e.dn = GroupDN(g)
    BY <1>9, DNsAre
  <2>2. e.dn[1] = "cn" /\ e.dn[2] = g
    BY <2>1 DEF GroupDN
  <2> QED BY <1>9, <2>1, <2>2 DEF EntryAt
<1>10. CASE DomainUsers \notin DOMAIN s.groups /\ e = SambaWellKnownGroupEntry
  <2>1. e.dn = GroupDN(DomainUsers)
    BY <1>10, DNsAre
  <2>2. e.dn[1] = "cn" /\ e.dn[2] = DomainUsers
    BY <2>1 DEF GroupDN
  <2> QED BY <1>10, <2>1, <2>2 DEF EntryAt
<1> QED BY <1>1, <1>2, <1>3, <1>4, <1>5, <1>6, <1>7, <1>8, <1>9, <1>10

\* No custom attribute has the name of an attribute of the server's own.
LEMMA CustomNames ==
    ASSUME NEW tree \in Seq(Files), NEW s, SnapshotOK(s, tree)
    PROVE  /\ \A u \in DOMAIN s.users : DOMAIN s.userAttrs[u] \cap ReservedNames = {}
           /\ \A g \in DOMAIN s.groups : DOMAIN s.groups[g].custom \cap ReservedNames = {}
<1>1. \A g \in DOMAIN s.groups :
          /\ AttributesAccepted(s.groups[g].custom) /\ AttributesAccepted(s.groups[g].userCustom)
          /\ AttributesAccepted(s.groups[g].directUserCustom)
  <2> SUFFICES ASSUME NEW g \in DOMAIN s.groups PROVE GroupAccepted(s.groups[g])
    BY DEF GroupAccepted
  <2>1. PICK p \in Places(tree, "GroupList") : s.groups[g] = At(tree, p)
    BY DEF SnapshotOK, MapsOK, Declared
  <2>2. Alone("GroupList", At(tree, p))
    BY DEF SnapshotOK, Valid, All, Kinds
  <2> QED BY <2>1, <2>2 DEF Alone
<1>2. \A u \in DOMAIN s.users : AttributesAccepted(s.users[u].custom)
  <2> SUFFICES ASSUME NEW u \in DOMAIN s.users PROVE AttributesAccepted(s.users[u].custom)
    OBVIOUS
  <2>1. PICK p \in Places(tree, "UserList") : s.users[u] = At(tree, p)
    BY DEF SnapshotOK, MapsOK, Declared
  <2>2. Alone("UserList", At(tree, p))
    BY DEF SnapshotOK, Valid, All, Kinds
  <2> QED BY <2>1, <2>2 DEF Alone
<1>3. ASSUME NEW u \in DOMAIN s.users, NEW k \in DOMAIN s.userAttrs[u] PROVE k \notin ReservedNames
  <2> DEFINE C == Contributions(s.users, s.groups, s.memberOf, u, k)
  <2>1. Cardinality(C) = 1
    <3>1. s.userAttrs = ResolveCustomAttributes(s.users, s.groups, s.memberOf)
      BY DEF SnapshotOK
    <3>2. s.userAttrs[u] = [j \in {j \in Attributes : Cardinality(Contributions(s.users, s.groups, s.memberOf, u, j)) = 1} |->
                               (CHOOSE c \in Contributions(s.users, s.groups, s.memberOf, u, j) : TRUE)[2]]
      BY <3>1 DEF ResolveCustomAttributes
    <3> QED BY <3>2
  <2>2. C # {}
    <3> HIDE DEF C
    <3>1. C = {} => Cardinality(C) = 0
      BY FS_EmptySet
    <3> QED BY <2>1, <3>1
  <2>3. PICK c : c \in C
    BY <2>2
  <2>4. \/ k \in DOMAIN s.users[u].custom
        \/ \E g \in s.memberOf[u] : k \in DOMAIN s.groups[g].userCustom
        \/ \E i \in DOMAIN s.users[u].memberOf : k \in DOMAIN s.groups[s.users[u].memberOf[i]].directUserCustom
    BY <2>3, ContributionIs
  <2>5. s.memberOf[u] \subseteq DOMAIN s.groups
    <3>1. s.memberOf[u] = Above(Up(s.groups), ToSet(s.users[u].memberOf)) /\ DOMAIN Up(s.groups) = DOMAIN s.groups
      BY DEF SnapshotOK, Up
    <3> QED BY <3>1, AboveWithin
  <2>6. \A i \in DOMAIN s.users[u].memberOf : s.users[u].memberOf[i] \in DOMAIN s.groups
    <3>1. ToSet(s.users[u].memberOf) \subseteq DOMAIN s.groups
      BY DEF SnapshotOK, CheckReferences
    <3> QED BY <3>1 DEF ToSet
  <2> HIDE DEF C
  <2> QED BY <1>1, <1>2, <2>4, <2>5, <2>6 DEF AttributesAccepted
<1> QED BY <1>1, <1>3 DEF AttributesAccepted

\* Nothing of Samba's in a set of attributes.
NotSamba(attrs) ==
    \A a \in attrs :
        /\ a.sensitive = FALSE
        /\ a.name = "objectClass" => \A v \in a.values : v[2] # "sambaSamAccount" /\ v[2] # "sambaGroupMapping"

\* The fields of an attribute that is not sensitive.
LEMMA PlainIs ==
    \A name, values :
        /\ Plain(name, values).name = name
        /\ Plain(name, values).values = values
        /\ Plain(name, values).sensitive = FALSE
BY DEF Plain

\* A custom attribute cannot pass for an object class.
LEMMA CustomNotSamba ==
    ASSUME NEW attrs, DOMAIN attrs \cap ReservedNames = {}
    PROVE  NotSamba(Custom(attrs))
<1> SUFFICES ASSUME NEW a \in Custom(attrs) PROVE a.sensitive = FALSE /\ a.name # "objectClass"
  BY DEF NotSamba
<1>1. PICK k \in DOMAIN attrs : a = Plain(k, Strings({attrs[k]}))
  BY DEF Custom
<1>2. k # "objectClass"
  BY DirectoryAssumption
<1> QED BY <1>1, <1>2, PlainIs

\* The second part of a string value is the string.
LEMMA StringsAre == ASSUME NEW names PROVE \A v \in Strings(names) : v[2] \in names
<1> SUFFICES ASSUME NEW v \in Strings(names) PROVE v[2] \in names
  OBVIOUS
<1>1. PICK x \in names : v = <<"", x>>
  BY Zenon DEF Strings
<1> DEFINE w == ""
<1> HIDE DEF w
<1>2. v = <<w, x>>
  BY <1>1 DEF w
<1> QED BY <1>2

\* Object classes other than those of Samba.
LEMMA ClassNotSamba ==
    ASSUME NEW names, "sambaSamAccount" \notin names, "sambaGroupMapping" \notin names
    PROVE  NotSamba({Class(names)})
<1>1. Class(names).sensitive = FALSE /\ Class(names).values = Strings(names)
  BY PlainIs DEF Class
<1>2. \A v \in Strings(names) : v[2] \in names
  BY StringsAre
<1> QED BY <1>1, <1>2 DEF NotSamba

\* An attribute of another name, not sensitive.
LEMMA PlainNotSamba ==
    ASSUME NEW name, NEW values, name # "objectClass"
    PROVE  NotSamba({Plain(name, values)})
BY PlainIs DEF NotSamba

\* Two sets of attributes without anything of Samba's.
LEMMA UnionNotSamba ==
    ASSUME NEW A, NEW B, NotSamba(A), NotSamba(B)
    PROVE  NotSamba(A \cup B)
BY DEF NotSamba

\* The object class of entries with custom attributes.
LEMMA ExtensibleIs == \A attrs : Extensible(attrs) \subseteq {"extensibleObject"}
BY DEF Extensible

\* A user's entry as an unprivileged client gets it.
LEMMA UserNotSamba ==
    ASSUME NEW s, NEW u, NEW sc, ~sc.privileged, DOMAIN s.userAttrs[u] \cap ReservedNames = {}
    PROVE  NotSamba(UserEntry(s, u, sc).attrs)
<1> DEFINE custom == s.userAttrs[u]
           mail == s.users[u].email
           names == {"inetOrgPerson"} \cup Extensible(custom) \cup {}
           A == {Class(names), Plain("uid", Strings({u})), Plain("memberOf", {GroupDN(g) : g \in s.memberOf[u]})}
           B == IF mail = "" THEN {} ELSE {Plain("mail", Strings({mail}))}
<1>1. SambaUser(s, u, sc) = {}
  BY DEF SambaUser
<1>2. UserEntry(s, u, sc).attrs = A \cup B \cup {} \cup Custom(custom)
  BY <1>1 DEF UserEntry, Entry
<1>3. NotSamba(A)
  <2>1. NotSamba({Class(names)})
    BY ExtensibleIs, ClassNotSamba
  <2>2. NotSamba({Plain("uid", Strings({u}))}) /\ NotSamba({Plain("memberOf", {GroupDN(g) : g \in s.memberOf[u]})})
    BY PlainNotSamba
  <2> HIDE DEF names
  <2> QED BY <2>1, <2>2 DEF NotSamba
<1>4. NotSamba(B)
  <2>1. NotSamba({Plain("mail", Strings({mail}))}) /\ NotSamba({})
    BY PlainNotSamba DEF NotSamba
  <2> QED BY <2>1
<1>5. NotSamba(Custom(custom))
  BY CustomNotSamba
<1> HIDE DEF A, B, custom
<1>6. NotSamba(A \cup B \cup Custom(custom))
  BY <1>3, <1>4, <1>5, UnionNotSamba
<1>7. A \cup B \cup {} \cup Custom(custom) = A \cup B \cup Custom(custom)
  OBVIOUS
<1> QED BY <1>2, <1>6, <1>7

\* A group's entry as an unprivileged client gets it.
LEMMA GroupNotSamba ==
    ASSUME NEW s, NEW g, NEW sc, ~sc.privileged, DOMAIN s.groups[g].custom \cap ReservedNames = {}
    PROVE  NotSamba(GroupEntry(s, g, sc).attrs)
<1> DEFINE custom == s.groups[g].custom
           members == IF g \in DOMAIN s.members THEN s.members[g] ELSE {}
           names == {"groupOfNames"} \cup Extensible(custom) \cup {}
           A == {Class(names), Plain("cn", Strings({g})), Plain("member", {UserDN(u) : u \in members})}
<1>1. SambaGroup(g, members, sc) = {}
  BY DEF SambaGroup
<1>2. GroupEntry(s, g, sc).attrs = A \cup {} \cup Custom(custom)
  BY <1>1 DEF GroupEntry, Entry
<1>3. NotSamba(A)
  <2>1. NotSamba({Class(names)})
    BY ExtensibleIs, ClassNotSamba
  <2>2. NotSamba({Plain("cn", Strings({g}))}) /\ NotSamba({Plain("member", {UserDN(u) : u \in members})})
    BY PlainNotSamba
  <2> HIDE DEF names
  <2> QED BY <2>1, <2>2 DEF NotSamba
<1>4. NotSamba(Custom(custom))
  BY CustomNotSamba
<1> HIDE DEF A, custom
<1>5. NotSamba(A \cup Custom(custom))
  BY <1>3, <1>4, UnionNotSamba
<1>6. A \cup {} \cup Custom(custom) = A \cup Custom(custom)
  OBVIOUS
<1> QED BY <1>2, <1>5, <1>6

\* An entry that has nothing of Samba's, and is none of Samba's own.
NothingOfSamba(s, e) ==
    /\ NotSamba(e.attrs)
    /\ e.dn # SambaDomainDN
    /\ DomainUsers \in DOMAIN s.groups \/ e.dn # GroupDN(DomainUsers)

\* Nothing there is to be sent without the privilege is Samba's.
LEMMA UnprivilegedNothing ==
    ASSUME NEW tree \in Seq(Files), NEW s, SnapshotOK(s, tree), NEW start \in BOOLEAN,
           NEW sc, ~sc.privileged, NEW e \in Everything(s, start, sc)
    PROVE  NothingOfSamba(s, e)
<1>1. \/ e = RootDSEEntry(start) \/ e = SubschemaEntry \/ e = BaseEntry
      \/ e = OUEntry(UsersOUDN) \/ e = OUEntry(GroupsOUDN)
      \/ \E u \in DOMAIN s.users : e = UserEntry(s, u, sc)
      \/ \E g \in DOMAIN s.groups : e = GroupEntry(s, g, sc)
  BY DEF Everything, SambaDomain
<1>2. /\ SambaDomainDN[1] = "sambaDomainName" /\ GroupDN(DomainUsers)[1] = "cn" /\ GroupDN(DomainUsers)[2] = DomainUsers
      /\ RootDSE[1] = "" /\ SubschemaDN[1] = "cn=subschema" /\ BaseDN[1] = "base" /\ UsersOUDN[1] = "ou"
      /\ GroupsOUDN[1] = "ou"
  BY FirstParts DEF GroupDN
<1>3. \A u : UserDN(u)[1] = "uid" /\ GroupDN(u)[1] = "cn" /\ GroupDN(u)[2] = u
  BY DEF UserDN, GroupDN
<1>4. CASE e = RootDSEEntry(start)
  <2>1. e.dn = RootDSE
    BY <1>4, DNsAre
  <2> DEFINE ext == IF start THEN {Plain("supportedExtension", Strings({"StartTLS"}))} ELSE {}
             A == {Class({"top"}), Plain("namingContexts", {BaseDN})}
  <2>2. e.attrs = A \cup ext
    BY <1>4 DEF RootDSEEntry
  <2>3. NotSamba(A)
    <3>1. NotSamba({Class({"top"})}) /\ NotSamba({Plain("namingContexts", {BaseDN})})
      BY ClassNotSamba, PlainNotSamba
    <3> QED BY <3>1 DEF NotSamba
  <2>4. NotSamba(ext)
    <3>1. NotSamba({Plain("supportedExtension", Strings({"StartTLS"}))}) /\ NotSamba({})
      BY PlainNotSamba DEF NotSamba
    <3> QED BY <3>1
  <2> HIDE DEF A, ext
  <2>5. NotSamba(e.attrs)
    BY <2>2, <2>3, <2>4, UnionNotSamba
  <2> QED BY <1>2, <2>1, <2>5 DEF NothingOfSamba
<1>5. CASE e = SubschemaEntry
  <2>1. e.dn = SubschemaDN
    BY <1>5, DNsAre
  <2>2. NotSamba(e.attrs)
    <3>1. e.attrs = {Class({"subschema"})}
      BY <1>5 DEF SubschemaEntry
    <3>2. NotSamba({Class({"subschema"})})
      BY ClassNotSamba
    <3> QED BY <3>1, <3>2
  <2> QED BY <1>2, <2>1, <2>2 DEF NothingOfSamba
<1>6. CASE e = BaseEntry
  <2>1. e.dn = BaseDN
    BY <1>6, DNsAre
  <2>2. NotSamba(e.attrs)
    <3>1. e.attrs = {Class({"organization"}), Plain("dc", {<<"", "base">>})}
      BY <1>6 DEF BaseEntry, Entry
    <3>2. NotSamba({Class({"organization"})}) /\ NotSamba({Plain("dc", {<<"", "base">>})})
      BY ClassNotSamba, PlainNotSamba
    <3> QED BY <3>1, <3>2 DEF NotSamba
  <2> QED BY <1>2, <2>1, <2>2 DEF NothingOfSamba
<1>7. ASSUME NEW dn \in {UsersOUDN, GroupsOUDN}, e = OUEntry(dn) PROVE NothingOfSamba(s, e)
  <2>1. e.dn = dn
    BY <1>7, DNsAre
  <2>2. NotSamba(e.attrs)
    <3>1. e.attrs = {Class({"organizationalUnit"}), Plain("ou", Strings({dn[2]}))}
      BY <1>7 DEF OUEntry, Entry
    <3>2. NotSamba({Class({"organizationalUnit"})}) /\ NotSamba({Plain("ou", Strings({dn[2]}))})
      BY ClassNotSamba, PlainNotSamba
    <3> QED BY <3>1, <3>2 DEF NotSamba
  <2>3. dn[1] = "ou"
    BY <1>2
  <2> QED BY <1>2, <2>1, <2>2, <2>3 DEF NothingOfSamba
<1>8. ASSUME NEW u \in DOMAIN s.users, e = UserEntry(s, u, sc) PROVE NothingOfSamba(s, e)
  <2>1. e.dn = UserDN(u)
    BY <1>8, DNsAre
  <2>2. NotSamba(e.attrs)
    BY <1>8, UserNotSamba, CustomNames
  <2> QED BY <1>2, <1>3, <2>1, <2>2 DEF NothingOfSamba
<1>9. ASSUME NEW g \in DOMAIN s.groups, e = GroupEntry(s, g, sc) PROVE NothingOfSamba(s, e)
  <2>1. e.dn = GroupDN(g)
    BY <1>9, DNsAre
  <2>2. NotSamba(e.attrs)
    BY <1>9, GroupNotSamba, CustomNames
  <2>3. e.dn[1] = "cn" /\ e.dn[2] = g
    BY <1>3, <2>1
  <2>4. e.dn = GroupDN(DomainUsers) => g = DomainUsers
    BY <1>2, <2>3
  <2> QED BY <1>2, <2>2, <2>3, <2>4 DEF NothingOfSamba
<1> QED BY <1>1, <1>4, <1>5, <1>6, <1>7, <1>8, <1>9

\* EntriesFor, for every snapshot that a load returns and every query: without
\* the privilege, no entry, no attribute and no object class of Samba's.
THEOREM SambaHidden ==
    ASSUME NEW tree \in Seq(Files), NEW s \in LoadIdentity(tree), NEW scope \in {"base", "one", "sub"},
           NEW base, base \in FixedDNs \cup {OtherDN} \/ base[1] \in {"uid", "cn"}, NEW start \in BOOLEAN,
           NEW sc, ~sc.privileged, NEW e \in EntriesFor(s, base, scope, start, sc)
    PROVE  NothingOfSamba(s, e)
<1>1. SnapshotOK(s, tree)
  BY SnapshotIs
<1>2. e \in Everything(s, start, sc)
  BY EntriesWithin
<1> QED BY <1>1, <1>2, UnprivilegedNothing

\* Whatever attributes are selected, such an entry shows nothing of Samba's.
LEMMA NothingShown ==
    ASSUME NEW e, NEW sel, NothingOfSamba(Current, e)
    PROVE  ~IsSamba(e, sel)
<1> SUFFICES ASSUME NEW a \in Selected(e, sel)
             PROVE  ~ \/ a.sensitive
                      \/ a.name = "objectClass" /\ a.values \cap Strings({"sambaSamAccount", "sambaGroupMapping"}) # {}
  BY DEF IsSamba, NothingOfSamba
<1>1. a \in e.attrs
  BY DEF Selected
<1>2. ~a.sensitive
  BY <1>1, Zenon DEF NothingOfSamba, NotSamba
<1>3. a.name = "objectClass" => \A v \in a.values : v[2] # "sambaSamAccount" /\ v[2] # "sambaGroupMapping"
  BY <1>1 DEF NothingOfSamba, NotSamba
<1>4. \A v \in Strings({"sambaSamAccount", "sambaGroupMapping"}) : v[2] \in {"sambaSamAccount", "sambaGroupMapping"}
  <2> DEFINE N == {"sambaSamAccount", "sambaGroupMapping"}
  <2> HIDE DEF N
  <2>1. \A v \in Strings(N) : v[2] \in N
    BY StringsAre
  <2> QED BY <2>1 DEF N
<1> QED BY <1>2, <1>3, <1>4

-----------------------------------------------------------------------------
(* The sort.                                                               *)

\* Entries that can be sorted: no two have the same DN.
Sortable(E) ==
    /\ \A e \in E : e.dn \in DOMAIN DNOrder
    /\ \A e, f \in E : e.dn = f.dn => e = f

\* A sequence that has every entry once.
Lists(es, E) ==
    /\ es \in Seq(E)
    /\ \A j, k \in 1..Len(es) : es[j] = es[k] => j = k
    /\ \A e \in E : \E j \in 1..Len(es) : es[j] = e
    /\ Len(es) = Cardinality(E)

\* The order of the DNs is total.
LEMMA OrderIs ==
    /\ IsFiniteSet(DOMAIN DNOrder)
    /\ \A a, b \in DOMAIN DNOrder : DNOrder[a] = DNOrder[b] => a = b
    /\ \A a \in DOMAIN DNOrder : DNOrder[a] \in Nat
BY DirectoryAssumption DEF IsInjective

\* Entries are finitely many, and as many as their DNs.
LEMMA EntriesFinite ==
    ASSUME NEW E, Sortable(E)
    PROVE  /\ IsFiniteSet(E)
           /\ Cardinality(E) <= Cardinality(DOMAIN DNOrder)
           /\ Cardinality({e.dn : e \in E}) = Cardinality(E)
<1> DEFINE f == [e \in E |-> e.dn]
           D == {e.dn : e \in E}
<1>1. f \in Injection(E, DOMAIN DNOrder)
  <2>1. f \in [E -> DOMAIN DNOrder]
    BY DEF Sortable
  <2>2. IsInjective(f)
    BY DEF Sortable, IsInjective
  <2> QED BY <2>1, <2>2 DEF Injection
<1>2. f \in Bijection(E, D)
  <2>1. f \in [E -> D]
    OBVIOUS
  <2>2. IsInjective(f)
    BY DEF Sortable, IsInjective
  <2>3. \A d \in D : \E e \in E : f[e] = d
    OBVIOUS
  <2> QED BY <2>1, <2>2, <2>3 DEF Bijection, Injection, Surjection
<1> HIDE DEF f, D
<1>3. IsFiniteSet(E) /\ Cardinality(E) <= Cardinality(DOMAIN DNOrder)
  BY <1>1, OrderIs, FS_Injection
<1>4. Cardinality(D) = Cardinality(E)
  BY <1>2, <1>3, FS_Bijection DEF ExistsBijection
<1> QED BY <1>3, <1>4 DEF D

\* The rank of an entry decides it, and every rank is taken.
LEMMA ByDNLists ==
    ASSUME NEW E, Sortable(E)
    PROVE  Lists(ByDN(E), E)
<1> DEFINE n == Cardinality(E)
           rank == [e \in E |-> Cardinality(UpTo(E, e))]
<1>1. IsFiniteSet(E) /\ n \in Nat
  BY EntriesFinite, FS_CardinalityType
<1>2. ASSUME NEW e \in E PROVE IsFiniteSet(UpTo(E, e)) /\ Cardinality(UpTo(E, e)) \in 1..n
  <2>1. UpTo(E, e) \in SUBSET E /\ e \in UpTo(E, e)
    BY OrderIs DEF UpTo, Sortable
  <2>2. IsFiniteSet(UpTo(E, e)) /\ Cardinality(UpTo(E, e)) <= n
    BY <1>1, <2>1, FS_Subset
  <2>3. Cardinality(UpTo(E, e)) \in Nat /\ Cardinality(UpTo(E, e)) # 0
    BY <2>1, <2>2, FS_CardinalityType, FS_EmptySet
  <2> HIDE DEF n
  <2> QED BY <1>1, <2>2, <2>3
<1>3. ASSUME NEW e \in E, NEW f \in E, DNOrder[e.dn] < DNOrder[f.dn]
      PROVE  Cardinality(UpTo(E, e)) # Cardinality(UpTo(E, f))
  <2>1. UpTo(E, e) \in SUBSET UpTo(E, f) /\ f \in UpTo(E, f) /\ f \notin UpTo(E, e)
    BY <1>3, OrderIs DEF UpTo, Sortable
  <2> QED BY <1>2, <2>1, FS_Subset
<1>4. ASSUME NEW e \in E, NEW f \in E, Cardinality(UpTo(E, e)) = Cardinality(UpTo(E, f)) PROVE e = f
  <2>1. ~(DNOrder[e.dn] < DNOrder[f.dn]) /\ ~(DNOrder[f.dn] < DNOrder[e.dn])
    BY <1>3, <1>4
  <2>2. e.dn \in DOMAIN DNOrder /\ f.dn \in DOMAIN DNOrder
    BY DEF Sortable
  <2>3. DNOrder[e.dn] = DNOrder[f.dn]
    BY <2>1, <2>2, OrderIs
  <2>4. e.dn = f.dn
    BY <2>2, <2>3, OrderIs
  <2> QED BY <2>4 DEF Sortable
<1>5. rank \in Injection(E, 1..n)
  <2>1. rank \in [E -> 1..n]
    <3> HIDE DEF n
    <3> QED BY <1>2
  <2>2. IsInjective(rank)
    BY <1>4 DEF IsInjective
  <2> QED BY <2>1, <2>2 DEF Injection
<1>6. rank \in Surjection(E, 1..n)
  <2>1. IsFiniteSet(1..n) /\ Cardinality(1..n) = n
    <3> HIDE DEF n
    <3> QED BY <1>1, FS_Interval
  <2> HIDE DEF rank
  <2> QED BY <1>5, <2>1, FS_Injection
<1>7. \A j \in 1..n : \E e \in E : Cardinality(UpTo(E, e)) = j
  <2> HIDE DEF n
  <2> QED BY <1>6 DEF Surjection
<1>8. ByDN(E) = [j \in 1..n |-> CHOOSE e \in E : Cardinality(UpTo(E, e)) = j]
  BY DEF ByDN
<1> HIDE DEF n
<1>9. ASSUME NEW j \in 1..n PROVE ByDN(E)[j] \in E /\ Cardinality(UpTo(E, ByDN(E)[j])) = j
  <2>1. ByDN(E)[j] = CHOOSE e \in E : Cardinality(UpTo(E, e)) = j
    BY <1>8
  <2> QED BY <1>7, <2>1
<1>10. ByDN(E) \in Seq(E) /\ Len(ByDN(E)) = n
  <2>1. ByDN(E) \in [1..n -> E]
    BY <1>8, <1>9
  <2> QED BY <1>1, <2>1
<1>11. \A j, k \in 1..n : ByDN(E)[j] = ByDN(E)[k] => j = k
  BY <1>9
<1>12. ASSUME NEW e \in E PROVE \E j \in 1..n : ByDN(E)[j] = e
  <2> DEFINE j == Cardinality(UpTo(E, e))
  <2>1. j \in 1..n
    BY <1>2
  <2>2. ByDN(E)[j] \in E /\ Cardinality(UpTo(E, ByDN(E)[j])) = j
    BY <1>9, <2>1
  <2>3. ByDN(E)[j] = e
    BY <1>4, <2>2
  <2> QED BY <2>1, <2>3
<1> QED BY <1>10, <1>11, <1>12 DEF Lists, n

-----------------------------------------------------------------------------
(* The connection.                                                         *)

\* The snapshot is that of a directory connections are opened under.
Serving == \E t \in Served : snap # {} /\ snap = LoadIdentity(t)

\* What a load returns, for the trees of the specification.
LEMMA LoadedOK ==
    ASSUME NEW t \in Trees \cup Served
    PROVE  /\ LoadIdentity(t) # {} <=> WellFormed(t)
           /\ \A s \in LoadIdentity(t) : LoadIdentity(t) = {s} /\ SnapshotOK(s, t) /\ ResolvedAsDeclared(s, t)
<1>1. t \in Seq(Files)
  BY DirectoryAssumption
<1>2. ASSUME NEW s \in LoadIdentity(t)
      PROVE  WellFormed(t) /\ LoadIdentity(t) = {s} /\ SnapshotOK(s, t) /\ ResolvedAsDeclared(s, t)
  BY <1>1, SnapshotIs, ResolvedOK
<1>3. WellFormed(t) => LoadIdentity(t) # {}
  <2>1. PICK users, groups, clients : WellFormed(t) => LoadIdentity(t) = {Snapshot(users, groups, clients)}
    BY <1>1, LoadAccepts
  <2> QED BY <2>1
<1> QED BY <1>2, <1>3

\* The current snapshot while a connection is open.
LEMMA CurrentIs ==
    ASSUME Serving
    PROVE  \E t \in Served : t \in Seq(Files) /\ snap = LoadIdentity(t) /\ snap = {Current} /\ SnapshotOK(Current, t)
<1>1. PICK t \in Served : snap # {} /\ snap = LoadIdentity(t)
  BY DEF Serving
<1>2. Current \in snap
  BY <1>1 DEF Current
<1>3. snap = {Current} /\ SnapshotOK(Current, t)
  BY <1>1, <1>2, LoadedOK
<1>4. t \in Seq(Files)
  BY DirectoryAssumption
<1> QED BY <1>1, <1>3, <1>4

\* The users and the groups of the current snapshot are a served directory's.
LEMMA ServedNames ==
    ASSUME Serving
    PROVE  DOMAIN Current.users \subseteq UserNames /\ DOMAIN Current.groups \subseteq ServedGroups
<1>1. PICK t \in Served : SnapshotOK(Current, t)
  BY CurrentIs
<1>2. DOMAIN Current.users = {u.name : u \in Declared(t, "UserList")} /\ DOMAIN Current.groups = GroupNames(t)
  BY <1>1 DEF SnapshotOK, MapsOK
<1> QED BY <1>2 DEF UserNames, ServedGroups

\* What a query can be answered from.
Available == Everything(Current, cfg.startTLS /\ ~conn.tls, SambaContext)

\* What matches a query is available.
LEMMA MatchingWithin ==
    ASSUME NEW i \in DOMAIN Queries
    PROVE  Matching(Queries[i]) \subseteq Available
<1> DEFINE q == Queries[i]
           start == cfg.startTLS /\ ~conn.tls
<1>1. q.scope \in {"base", "one", "sub"} /\ (q.base \in FixedDNs \cup {OtherDN} \/ q.base[1] \in {"uid", "cn"})
  BY DirectoryAssumption
<1>2. start \in BOOLEAN
  OBVIOUS
<1> HIDE DEF q, start
<1>3. EntriesFor(Current, q.base, q.scope, start, SambaContext) \subseteq Everything(Current, start, SambaContext)
  BY <1>1, <1>2, EntriesWithin
<1>4. Matching(q) \subseteq EntriesFor(Current, q.base, q.scope, start, SambaContext)
  BY DEF Matching, start
<1> QED BY <1>3, <1>4 DEF Available, q, start

\* No two available entries have the same DN.
LEMMA AvailableSortable ==
    ASSUME Serving
    PROVE  Sortable(Available)
<1> DEFINE s == Current
           start == cfg.startTLS /\ ~conn.tls
           D == FixedDNs \cup {GroupDN(DomainUsers)} \cup {UserDN(u) : u \in DOMAIN s.users}
                \cup {GroupDN(g) : g \in DOMAIN s.groups}
           sc == SambaContext
<1>1. DOMAIN s.users \subseteq UserNames /\ DOMAIN s.groups \subseteq ServedGroups
  BY ServedNames
<1>2. D \subseteq DOMAIN DNOrder
  <2>1. /\ FixedDNs \cup {GroupDN(DomainUsers)} \subseteq DOMAIN DNOrder
        /\ {UserDN(u) : u \in UserNames} \subseteq DOMAIN DNOrder
        /\ {GroupDN(g) : g \in ServedGroups} \subseteq DOMAIN DNOrder
    BY DirectoryAssumption
  <2> HIDE DEF s
  <2>2. {UserDN(u) : u \in DOMAIN s.users} \subseteq {UserDN(u) : u \in UserNames}
    BY <1>1
  <2>3. {GroupDN(g) : g \in DOMAIN s.groups} \subseteq {GroupDN(g) : g \in ServedGroups}
    BY <1>1
  <2> QED BY <2>1, <2>2, <2>3
<1> HIDE DEF s, start, sc
<1>3. ASSUME NEW e \in Everything(s, start, sc)
      PROVE  e = EntryAt(s, start, sc, e.dn) /\ e.dn \in D
  BY EntryIsAt
<1> HIDE DEF D
<1>4. Sortable(Everything(s, start, sc))
  BY <1>2, <1>3 DEF Sortable
<1> QED BY <1>4 DEF Available, s, start, sc

\* The one sequence that answers a query.
Answers(i) == ByDN(Matching(Queries[i]))

\* The sort has one result: every matching entry, once.
LEMMA AnswersList ==
    ASSUME Serving, NEW i \in DOMAIN Queries
    PROVE  /\ Sortable(Matching(Queries[i]))
           /\ Lists(Answers(i), Matching(Queries[i]))
           /\ Len(Answers(i)) \in Nat /\ Len(Answers(i)) <= Cardinality(DOMAIN DNOrder)
           /\ Matched(Queries[i]) = {Answers(i)}
<1>1. Sortable(Matching(Queries[i]))
  BY AvailableSortable, MatchingWithin DEF Sortable
<1>2. Lists(Answers(i), Matching(Queries[i]))
  BY <1>1, ByDNLists DEF Answers
<1>3. IsFiniteSet(Matching(Queries[i])) /\ Cardinality(Matching(Queries[i])) <= Cardinality(DOMAIN DNOrder)
  BY <1>1, EntriesFinite
<1>4. Len(Answers(i)) = Cardinality(Matching(Queries[i]))
  BY <1>2 DEF Lists
<1> QED BY <1>1, <1>2, <1>3, <1>4, FS_CardinalityType DEF Matched, Sorted, Answers

\* Nothing of Samba's is shown to a connection without the privilege.
LEMMA NothingIfUnprivileged ==
    ASSUME Serving, ~Privileged, NEW i \in DOMAIN Queries, NEW es \in Seq(Matching(Queries[i]))
    PROVE  ~Shows(es, Queries[i])
<1> DEFINE start == cfg.startTLS /\ ~conn.tls
           sc == SambaContext
<1>1. PICK t \in Served : t \in Seq(Files) /\ SnapshotOK(Current, t)
  BY CurrentIs
<1>2. ~sc.privileged /\ start \in BOOLEAN
  BY DEF SambaContext
<1>3. Available = Everything(Current, start, sc)
  BY Zenon DEF Available
<1> HIDE DEF start, sc
<1>4. ASSUME NEW j \in DOMAIN es, NEW sel PROVE ~IsSamba(es[j], sel)
  <2>1. es[j] \in Everything(Current, start, sc)
    <3>1. es[j] \in Matching(Queries[i])
      OBVIOUS
    <3>2. Matching(Queries[i]) \subseteq Available
      BY MatchingWithin
    <3> QED BY <1>3, <3>1, <3>2
  <2>2. NothingOfSamba(Current, es[j])
    BY <1>1, <1>2, <2>1, UnprivilegedNothing
  <2> QED BY <2>2, NothingShown
<1> QED BY <1>4 DEF Shows

\* The privilege depends on the settings, the snapshot and the bound user.
LEMMA KeptPrivilege ==
    ASSUME cfg' = cfg, snap' = snap, conn'.bound = conn.bound
    PROVE  Current' = Current /\ Privileged' = Privileged
BY DEF Current, Privileged

\* A step that leaves the snapshot, the channel, the bound user and the rows a
\* Samba reader is answered from alone leaves the answers alone.
LEMMA Undisturbed ==
    ASSUME cfg' = cfg, snap' = snap, conn'.tls = conn.tls, conn'.bound = conn.bound, rows' = rows \/ ~Privileged
    PROVE  /\ \A i : Matching(Queries[i])' = Matching(Queries[i])
           /\ \A i : Answers(i)' = Answers(i)
<1>1. Current' = Current /\ Privileged' = Privileged
  BY KeptPrivilege
<1>2. SambaContext' = SambaContext
  <2>1. CASE Privileged
    BY <1>1, <2>1 DEF SambaContext
  <2>2. CASE ~Privileged
    BY <1>1, <2>2 DEF SambaContext
  <2> QED BY <2>1, <2>2
<1>3. ASSUME NEW CONSTANT i PROVE Matching(Queries[i])' = Matching(Queries[i])
  BY <1>1, <1>2 DEF Matching
<1>4. ASSUME NEW CONSTANT i PROVE Answers(i)' = Answers(i)
  BY <1>3 DEF Answers
<1> QED BY <1>3, <1>4

-----------------------------------------------------------------------------
(* Pages.                                                                  *)

Pages == [st : {"idle", "more", "done", "lost"}, q : 0..Len(Queries), size : PageSizes \cup {0},
          cookie : 0..Cardinality(DOMAIN DNOrder), remaining : 0..Cardinality(DOMAIN DNOrder),
          got : Seq(DOMAIN DNOrder)]

\* What has been sent is the beginning of the answer, and the cookie is its length.
PageOf(p, es) ==
    /\ Len(p.got) + p.remaining = Len(es)
    /\ \A j \in 1..Len(p.got) : p.got[j] = es[j].dn
    /\ p.st = "more" => p.cookie = Len(p.got)

\* A client without a paged search.
LEMMA NoPageIs == NoPage \in Pages /\ NoPage.st = "idle" /\ [NoPage EXCEPT !.st = "lost"] \in Pages
<1>1. Cardinality(DOMAIN DNOrder) \in Nat /\ Len(Queries) \in Nat
  BY DirectoryAssumption, FS_CardinalityType
<1> DEFINE c == Cardinality(DOMAIN DNOrder)
           n == Len(Queries)
           D == DOMAIN DNOrder
<1>2. 0 \in 0..c /\ 0 \in 0..n /\ 0 \in PageSizes \cup {0} /\ <<>> \in Seq(D)
  <2> HIDE DEF c, n, D
  <2> QED BY <1>1 DEF c, n
<1> HIDE DEF c, n, D
<1>3. Pages = [st : {"idle", "more", "done", "lost"}, q : 0..n, size : PageSizes \cup {0}, cookie : 0..c,
               remaining : 0..c, got : Seq(D)]
  BY Zenon DEF Pages, c, n, D
<1> QED BY <1>2, <1>3 DEF NoPage

\* The offsets of a page are offsets into the answer.
LEMMA Offsets ==
    ASSUME NEW total \in Nat, NEW size \in Nat, NEW offset \in Nat,
           NEW start, start = PageStart(offset, total), NEW end, end = PageEnd(start, size, total)
    PROVE  /\ start \in 0..total /\ end \in start..total
           /\ total - end \in 0..total
           /\ offset <= total => start = offset
BY DEF PageStart, PageEnd

\* The part of a sequence between two offsets.
LEMMA SentIs ==
    ASSUME NEW E, NEW es \in Seq(E), NEW n \in Nat, NEW end \in n..Len(es)
    PROVE  /\ SubSeq(es, n + 1, end) \in Seq(E)
           /\ Len(SubSeq(es, n + 1, end)) = end - n
           /\ \A j \in 1..(end - n) : SubSeq(es, n + 1, end)[j] = es[n + j]
<1>1. Len(es) \in Nat /\ end \in Nat /\ end <= Len(es) /\ n <= end
  OBVIOUS
<1>2. SubSeq(es, n + 1, end) = [j \in 1..(end - n) |-> es[n + j]]
  BY <1>1
<1>3. \A j \in 1..(end - n) : n + j \in 1..Len(es) /\ es[n + j] \in E
  BY <1>1
<1>4. [j \in 1..(end - n) |-> es[n + j]] \in [1..(end - n) -> E]
  BY <1>3
<1> QED BY <1>1, <1>2, <1>4

\* The DNs of the entries of a page.
LEMMA NamesOf ==
    ASSUME NEW D, NEW E, \A e \in E : e.dn \in D, NEW sent \in Seq(E)
    PROVE  LET dns == [j \in DOMAIN sent |-> sent[j].dn]
           IN  dns \in Seq(D) /\ Len(dns) = Len(sent) /\ \A j \in 1..Len(sent) : dns[j] = sent[j].dn
<1> DEFINE dns == [j \in DOMAIN sent |-> sent[j].dn]
<1>1. DOMAIN sent = 1..Len(sent) /\ Len(sent) \in Nat /\ \A j \in 1..Len(sent) : sent[j] \in E
  OBVIOUS
<1>2. dns \in [1..Len(sent) -> D]
  BY <1>1
<1> QED BY <1>1, <1>2

\* Two sequences, one after the other.
LEMMA Appended ==
    ASSUME NEW D, NEW s \in Seq(D), NEW t \in Seq(D)
    PROVE  /\ s \o t \in Seq(D) /\ Len(s \o t) = Len(s) + Len(t)
           /\ \A j \in 1..Len(s) : (s \o t)[j] = s[j]
           /\ \A j \in 1..Len(t) : (s \o t)[Len(s) + j] = t[j]
OBVIOUS

\* What has been sent is the beginning of the answer.
BeginningOf(got, es) ==
    /\ got \in Seq(DOMAIN DNOrder) /\ Len(got) <= Len(es)
    /\ \A j \in 1..Len(got) : got[j] = es[j].dn

Rest(es, got, end) == SubSeq(es, Len(got) + 1, end)
WithRest(es, got, end) == got \o [j \in DOMAIN Rest(es, got, end) |-> Rest(es, got, end)[j].dn]

\* With a page taken where it ended, it still is.
LEMMA NextPage ==
    ASSUME NEW E, Sortable(E), NEW es, Lists(es, E), NEW got, BeginningOf(got, es), NEW end \in Len(got)..Len(es)
    PROVE  /\ Rest(es, got, end) \in Seq(E) /\ BeginningOf(WithRest(es, got, end), es)
           /\ Len(WithRest(es, got, end)) = end
<1> DEFINE sent == Rest(es, got, end)
           all == WithRest(es, got, end)
           n == Len(got)
           D == DOMAIN DNOrder
           dns == [j \in DOMAIN sent |-> sent[j].dn]
<1>1. es \in Seq(E) /\ (\A e \in E : e.dn \in D) /\ n \in Nat /\ end \in n..Len(es) /\ got \in Seq(D)
  BY DEF Lists, Sortable, BeginningOf
<1>2. Len(es) \in Nat /\ end \in Nat /\ n <= end /\ end <= Len(es)
  BY <1>1
<1> HIDE DEF n, D, sent, all
<1>3. sent \in Seq(E) /\ Len(sent) = end - n /\ \A j \in 1..(end - n) : sent[j] = es[n + j]
  <2>1. sent = SubSeq(es, n + 1, end)
    BY DEF n, sent, Rest
  <2>2. /\ SubSeq(es, n + 1, end) \in Seq(E)
        /\ Len(SubSeq(es, n + 1, end)) = end - n
        /\ \A j \in 1..(end - n) : SubSeq(es, n + 1, end)[j] = es[n + j]
    BY <1>1, SentIs, Zenon
  <2> QED BY <2>1, <2>2, Zenon
<1>4. dns \in Seq(D) /\ Len(dns) = end - n /\ \A j \in 1..(end - n) : dns[j] = sent[j].dn
  <2>1. dns \in Seq(D) /\ Len(dns) = Len(sent) /\ \A j \in 1..Len(sent) : dns[j] = sent[j].dn
    BY <1>1, <1>3, NamesOf
  <2> QED BY <1>3, <2>1
<1> HIDE DEF dns
<1>5. /\ all \in Seq(D) /\ Len(all) = n + Len(dns)
      /\ \A j \in 1..n : all[j] = got[j]
      /\ \A j \in 1..Len(dns) : all[n + j] = dns[j]
  <2>1. all = got \o dns
    BY DEF dns, all, WithRest, sent
  <2> QED BY <1>1, <1>4, <2>1, Appended DEF n
<1>6. ASSUME NEW j \in 1..end PROVE all[j] = es[j].dn
  <2>1. CASE j \in 1..n
    BY <1>5, <2>1 DEF n, BeginningOf
  <2>2. CASE j - n \in 1..(end - n)
    <3> DEFINE k == j - n
    <3>1. j = n + k /\ k \in 1..(end - n)
      BY <1>1, <1>2, <2>2
    <3> HIDE DEF k
    <3>2. all[n + k] = dns[k] /\ dns[k] = sent[k].dn /\ sent[k] = es[n + k]
      BY <1>3, <1>4, <1>5, <3>1
    <3> QED BY <3>1, <3>2
  <2> QED BY <1>1, <1>2, <2>1, <2>2
<1>7. Len(all) = end
  BY <1>1, <1>2, <1>4, <1>5
<1>8. BeginningOf(all, es)
  BY <1>2, <1>5, <1>6, <1>7 DEF D, BeginningOf
<1> QED BY <1>3, <1>7, <1>8 DEF sent, all

\* The page control that goes with what has been sent.
LEMMA PageIs ==
    ASSUME NEW E, Sortable(E), NEW es, Lists(es, E), Len(es) <= Cardinality(DOMAIN DNOrder),
           NEW i \in DOMAIN Queries, NEW size \in PageSizes \cup {0}, NEW end \in Nat, end <= Len(es),
           NEW got \in Seq(DOMAIN DNOrder), Len(got) = end, \A j \in 1..end : got[j] = es[j].dn,
           NEW more, more = Len(es) - end
    PROVE  LET p == [st |-> IF more > 0 THEN "more" ELSE "done", q |-> i, size |-> size,
                     cookie |-> IF more > 0 THEN end ELSE 0, remaining |-> more, got |-> got]
           IN  p \in Pages /\ PageOf(p, es)
<1> DEFINE c == Cardinality(DOMAIN DNOrder)
           n == Len(Queries)
           D == DOMAIN DNOrder
           st == IF more > 0 THEN "more" ELSE "done"
           cookie == IF more > 0 THEN end ELSE 0
           p == [st |-> st, q |-> i, size |-> size, cookie |-> cookie, remaining |-> more, got |-> got]
<1>1. c \in Nat /\ n \in Nat /\ i \in 1..n /\ Len(es) \in Nat
  BY DirectoryAssumption, FS_CardinalityType DEF Lists
<1>2. more \in 0..c /\ i \in 0..n /\ Len(es) = end + more /\ more \in Nat
  <2> HIDE DEF c, n
  <2> QED BY <1>1 DEF c
<1>3. /\ st \in {"idle", "more", "done", "lost"} /\ cookie \in 0..c
      /\ st = "more" => cookie = end
  <2> HIDE DEF c, n
  <2> QED BY <1>1, <1>2 DEF c
<1> HIDE DEF c, n, D, st, cookie
<1>4. Pages = [st : {"idle", "more", "done", "lost"}, q : 0..n, size : PageSizes \cup {0}, cookie : 0..c,
               remaining : 0..c, got : Seq(D)]
  BY Zenon DEF Pages, c, n, D
<1>5. p \in Pages
  <2>1. got \in Seq(D)
    BY DEF D
  <2> QED BY <1>2, <1>3, <1>4, <2>1
<1>6. p.st = st /\ p.cookie = cookie /\ p.remaining = more /\ p.got = got
  OBVIOUS
<1> HIDE DEF p
<1>7. PageOf(p, es)
  BY <1>2, <1>3, <1>6 DEF PageOf
<1> QED BY <1>5, <1>7 DEF p, st, cookie

-----------------------------------------------------------------------------
(* The inductive invariant.                                                *)

SnapOK == snap = {} \/ \E s \in snap : snap = {s}

\* A connection is open under a served directory, and the bound user is the one
\* who proved a password on this channel.
ConnOK ==
    /\ conn.open => Serving
    /\ ~conn.open => page = NoPage
    /\ conn.proved = conn.bound

\* The pages so far are the beginning of the answer there is now.
PageOK ==
    page.st \in {"more", "done"} => page.q \in DOMAIN Queries /\ PageOf(page, Answers(page.q))

ShownOK == shown => conn.open /\ Privileged

Inv == TypeOK /\ LoadIsExact /\ SnapOK /\ ConnOK /\ PageOK /\ ShownOK

Conns == [open : BOOLEAN, tls : BOOLEAN, bound : UserNames \cup {""}, proved : UserNames \cup {""},
          last : {"none", "user", "anonymous"}]
Replies == {"none", "load", "success", "refused"}

\* The type invariant, with names for the records.
LEMMA TypeParts ==
    TypeOK <=> /\ cfg \in Configs /\ disk \in Trees \cup Served /\ accepted \in {"unread", "yes", "no"}
               /\ Cardinality(snap) <= 1 /\ conn \in Conns /\ rows \in Rows /\ page \in Pages /\ reply \in Replies
               /\ shown \in BOOLEAN
BY Zenon DEF TypeOK, Conns, Pages, Replies

\* The same, after a step.
LEMMA TypePartsNext ==
    TypeOK' <=> /\ cfg' \in Configs /\ disk' \in Trees \cup Served /\ accepted' \in {"unread", "yes", "no"}
                /\ Cardinality(snap') <= 1 /\ conn' \in Conns /\ rows' \in Rows /\ page' \in Pages /\ reply' \in Replies
                /\ shown' \in BOOLEAN
BY Zenon DEF TypeOK, Conns, Pages, Replies

\* An empty set or a singleton.
LEMMA AtMostOne == \A S : S = {} \/ (\E s \in S : S = {s}) => Cardinality(S) <= 1
<1> SUFFICES ASSUME NEW S, S = {} \/ \E s \in S : S = {s} PROVE Cardinality(S) <= 1
  OBVIOUS
<1>1. CASE S = {}
  <2>1. Cardinality(S) = 0
    BY <1>1, FS_EmptySet, Zenon
  <2> QED BY <2>1
<1>2. ASSUME NEW s \in S, S = {s} PROVE Cardinality(S) <= 1
  <2>1. Cardinality({s}) = 1
    BY FS_Singleton, Zenon
  <2> QED BY <1>2, <2>1
<1> QED BY <1>1, <1>2

\* A closed connection.
LEMMA ClosedIs == Closed \in Conns /\ Closed.open = FALSE /\ Closed.proved = Closed.bound
BY DEF Closed, Conns

\* A paged search that was disturbed is no longer counted.
LEMMA DisturbedIs ==
    ASSUME page \in Pages
    PROVE  Disturbed \in Pages /\ Disturbed.st \in {"idle", "lost"}
<1>1. [NoPage EXCEPT !.st = "lost"].st = "lost"
  BY DEF NoPage
<1> QED BY <1>1, NoPageIs DEF Disturbed

\* The rows of an empty database.
LEMMA NoRowsIs == NoRows \in Rows
<1> DEFINE H == {w.hash : w \in Passwords}
<1>1. <<>> \in [{} -> H] /\ {} \in SUBSET UserNames
  OBVIOUS
<1> HIDE DEF H
<1>2. <<>> \in UNION {[S -> H] : S \in SUBSET UserNames}
  BY <1>1
<1> QED BY <1>2 DEF NoRows, Rows, H

\* An assignment of RIDs, to groups that are served.
LEMMA RidsIn ==
    ASSUME rows \in Rows, NEW G \in SUBSET ServedGroups
    PROVE  [rows EXCEPT !.rids = @ \cup G] \in Rows
<1> DEFINE C == UNION {[S -> {w.hash : w \in Passwords}] : S \in SUBSET UserNames}
<1> HIDE DEF C
<1>1. Rows = [creds : C, rids : SUBSET ServedGroups]
  BY Zenon DEF Rows, C
<1> QED BY <1>1

\* A stored password, of a user who is served.
LEMMA CredsIn ==
    ASSUME rows \in Rows, NEW w \in Passwords
    PROVE  [rows EXCEPT !.creds = [v \in DOMAIN @ \cup {w.user} |-> IF v = w.user THEN w.hash ELSE @[v]]] \in Rows
<1> DEFINE H == {x.hash : x \in Passwords}
           C == UNION {[S -> H] : S \in SUBSET UserNames}
           new == [v \in DOMAIN rows.creds \cup {w.user} |-> IF v = w.user THEN w.hash ELSE rows.creds[v]]
<1>1. w.hash \in H /\ w.user \in UserNames
  BY DirectoryAssumption
<1>2. Rows = [creds : C, rids : SUBSET ServedGroups]
  BY Zenon DEF Rows
<1> HIDE DEF H
<1>3. rows.creds \in C
  <2> HIDE DEF C
  <2> QED BY <1>2
<1>4. PICK S \in SUBSET UserNames : rows.creds \in [S -> H]
  BY <1>3
<1>5. new \in [S \cup {w.user} -> H] /\ S \cup {w.user} \in SUBSET UserNames
  BY <1>1, <1>4
<1>6. new \in C
  <2> HIDE DEF new
  <2> QED BY <1>5
<1> HIDE DEF C, new
<1>7. [rows EXCEPT !.creds = new] \in Rows
  BY <1>2, <1>6
<1> QED BY <1>7 DEF new

\* The invariant holds initially.
LEMMA InitInv == Init => Inv
<1> SUFFICES ASSUME Init PROVE Inv
  OBVIOUS
<1>1. TypeOK
  BY AtMostOne, ClosedIs, NoRowsIs, NoPageIs, TypeParts DEF Init, Replies
<1>2. LoadIsExact /\ SnapOK
  BY DEF Init, LoadIsExact, SnapOK
<1>3. ConnOK /\ PageOK /\ ShownOK
  BY ClosedIs, NoPageIs DEF Init, ConnOK, PageOK, ShownOK
<1> QED BY <1>1, <1>2, <1>3 DEF Inv

\* LoadInitial: nobody is connected yet.
LEMMA StartupInv == ASSUME Inv, Startup PROVE Inv'
<1>1. /\ cfg' = cfg /\ disk' = disk /\ conn' = conn /\ rows' = rows /\ page' = page /\ shown' = shown /\ snap = {}
      /\ reply' = "load"
      /\ snap' = LoadIdentity(disk) /\ accepted' = IF LoadIdentity(disk) = {} THEN "no" ELSE "yes"
  BY DEF Startup
<1>2. disk \in Trees \cup Served /\ conn \in Conns
  BY TypeParts DEF Inv
<1>3. ~conn.open /\ page = NoPage /\ ~shown
  <2>1. ~Serving
    BY <1>1 DEF Serving
  <2> QED BY <2>1, Zenon DEF Inv, ConnOK, ShownOK
<1>4. SnapOK'
  BY <1>1, <1>2, LoadedOK DEF SnapOK
<1>5. LoadIsExact'
  <2>1. accepted' = "yes" <=> LoadIdentity(disk) # {}
    BY <1>1
  <2>2. WellFormed(disk)' <=> WellFormed(disk)
    BY <1>1
  <2>3. \A s : ResolvedAsDeclared(s, disk)' <=> ResolvedAsDeclared(s, disk)
    BY <1>1
  <2> QED BY <1>1, <1>2, <2>1, LoadedOK DEF LoadIsExact
<1>6. TypeOK'
  <2>1. Cardinality(snap') <= 1
    BY <1>4, AtMostOne DEF SnapOK
  <2> QED BY <1>1, <2>1, TypeParts, TypePartsNext DEF Inv, Replies
<1>7. ConnOK' /\ PageOK' /\ ShownOK'
  BY <1>1, <1>3, NoPageIs DEF Inv, ConnOK, PageOK, ShownOK
<1> QED BY <1>4, <1>5, <1>6, <1>7 DEF Inv

\* A failed start: there is no snapshot, hence no connection.
LEMMA RestartInv == ASSUME Inv, NEW t \in Served, Restart(t) PROVE Inv'
<1>1. /\ cfg' = cfg /\ disk' = t /\ conn' = conn /\ rows' = rows /\ page' = page /\ shown' = shown /\ snap = {}
      /\ reply' = "none" /\ snap' = snap /\ accepted' = "unread"
  BY DEF Restart
<1>2. ~conn.open /\ page = NoPage /\ ~shown
  <2>1. ~Serving
    BY <1>1 DEF Serving
  <2> QED BY <2>1, Zenon DEF Inv, ConnOK, ShownOK
<1>3. TypeOK'
  BY <1>1, TypeParts, TypePartsNext DEF Inv, Replies
<1>4. LoadIsExact' /\ SnapOK'
  BY <1>1 DEF LoadIsExact, SnapOK
<1>5. ConnOK' /\ PageOK' /\ ShownOK'
  BY <1>1, <1>2, NoPageIs DEF Inv, ConnOK, PageOK, ShownOK
<1> QED BY <1>3, <1>4, <1>5 DEF Inv

\* A step that changes neither the snapshot nor what the answers depend on keeps
\* what is known of both; so does one that leaves no page in progress.
LEMMA KeptServing == ASSUME Serving, snap' = snap PROVE Serving'
BY DEF Serving

\* A paged search goes on over a step that leaves its answer alone.
LEMMA KeptPage ==
    ASSUME Inv, cfg' = cfg, snap' = snap, conn'.tls = conn.tls, conn'.bound = conn.bound, page' = page,
           rows' = rows \/ ~Privileged
    PROVE  PageOK'
<1>1. PageOK
  BY DEF Inv
<1>2. \A i : Answers(i)' = Answers(i)
  BY Undisturbed
<1>3. Answers(page.q)' = Answers(page.q)
  BY <1>2 DEF Answers, Matching
<1> QED BY <1>1, <1>2, <1>3 DEF PageOK

\* A reload changes the answers only if it installs another snapshot, and then
\* disturbs the search.
LEMMA ReloadInv == ASSUME Inv, NEW t \in Served, Reload(t) PROVE Inv'
<1>1. /\ cfg' = cfg /\ disk' = t /\ conn' = conn /\ rows' = rows /\ snap # {} /\ reply' = "load" /\ shown' = FALSE
      /\ LoadIdentity(t) = {} => snap' = snap /\ accepted' = "no"
      /\ LoadIdentity(t) # {} => snap' = LoadIdentity(t) /\ accepted' = "yes"
      /\ page' = IF snap' = snap THEN page ELSE Disturbed
  BY DEF Reload
<1>2. page \in Pages /\ conn \in Conns
  BY TypeParts DEF Inv
<1>3. SnapOK'
  BY <1>1, LoadedOK DEF SnapOK, Inv
<1>4. LoadIsExact'
  BY <1>1, LoadedOK DEF LoadIsExact
<1>5. TypeOK'
  <2>1. Cardinality(snap') <= 1
    BY <1>3, AtMostOne DEF SnapOK
  <2>2. page' \in Pages
    BY <1>1, <1>2, DisturbedIs
  <2> QED BY <1>1, <2>1, <2>2, TypeParts, TypePartsNext DEF Inv, Replies
<1>6. ConnOK'
  <2>1. conn.open => Serving'
    BY <1>1, KeptServing DEF Serving, Inv, ConnOK
  <2>2. ~conn.open => page' = NoPage
    <3>1. page = NoPage => page' = NoPage
      BY <1>1, NoPageIs DEF Disturbed
    <3> QED BY <3>1, Zenon DEF Inv, ConnOK
  <2> QED BY <1>1, <2>1, <2>2 DEF Inv, ConnOK
<1>7. PageOK'
  <2>1. CASE snap' = snap
    BY <1>1, <2>1, KeptPage
  <2>2. CASE snap' # snap
    BY <1>1, <1>2, <2>2, DisturbedIs DEF PageOK
  <2> QED BY <2>1, <2>2
<1>8. ShownOK'
  BY <1>1 DEF ShownOK
<1> QED BY <1>3, <1>4, <1>5, <1>6, <1>7, <1>8 DEF Inv

\* A new connection has no user and no search.
LEMMA AcceptInv == ASSUME Inv, NEW tls \in BOOLEAN, Accept(tls) PROVE Inv'
<1>1. /\ cfg' = cfg /\ disk' = disk /\ accepted' = accepted /\ snap' = snap /\ rows' = rows /\ page' = NoPage
      /\ reply' = "none" /\ shown' = FALSE /\ conn' = [Closed EXCEPT !.open = TRUE, !.tls = tls]
      /\ snap # {} /\ snap \subseteq ServedSnapshots
  BY DEF Accept
<1>2. conn' \in Conns /\ conn'.proved = conn'.bound /\ conn'.open
  BY <1>1 DEF Closed, Conns
<1>3. Serving
  <2>1. PICK s \in snap : snap = {s}
    BY <1>1 DEF Inv, SnapOK
  <2>2. PICK t \in Served : s \in LoadIdentity(t)
    BY <1>1 DEF ServedSnapshots
  <2>3. LoadIdentity(t) = {s}
    BY <2>2, LoadedOK
  <2> QED BY <1>1, <2>1, <2>3 DEF Serving
<1>4. TypeOK'
  BY <1>1, <1>2, NoPageIs, TypeParts, TypePartsNext DEF Inv, Replies
<1>5. LoadIsExact' /\ SnapOK'
  BY <1>1 DEF LoadIsExact, SnapOK, Inv
<1>6. ConnOK'
  <2>1. Serving'
    BY <1>1, <1>3, KeptServing
  <2> QED BY <1>2, <2>1 DEF ConnOK
<1>7. PageOK' /\ ShownOK'
  BY <1>1, NoPageIs DEF PageOK, ShownOK
<1> QED BY <1>4, <1>5, <1>6, <1>7 DEF Inv

\* A connection that ends forgets its user.
LEMMA CloseInv == ASSUME Inv, Close PROVE Inv'
<1>1. /\ cfg' = cfg /\ disk' = disk /\ accepted' = accepted /\ snap' = snap /\ rows' = rows /\ page' = NoPage
      /\ reply' = "none" /\ shown' = FALSE /\ conn' = Closed
  BY DEF Close
<1>2. TypeOK'
  BY <1>1, ClosedIs, NoPageIs, TypeParts, TypePartsNext DEF Inv, Replies
<1>3. LoadIsExact' /\ SnapOK'
  BY <1>1 DEF LoadIsExact, SnapOK, Inv
<1>4. ConnOK' /\ PageOK' /\ ShownOK'
  BY <1>1, ClosedIs, NoPageIs DEF ConnOK, PageOK, ShownOK
<1> QED BY <1>2, <1>3, <1>4 DEF Inv

\* handleBind answers with at most one user, of the directory.
LEMMA BindAnswers ==
    ASSUME Serving, NEW name, NEW simple, NEW password, NEW a \in HandleBind(name, simple, password)
    PROVE  a.users = {} \/ \E u \in UserNames : a.users = {u}
<1>1. \A code, users : Answer(code, users).users = users
  BY DEF Answer
<1> DEFINE Us == {u \in UNION {Authenticated(Current, id) : id \in UsernameFromBindDN(name)} : password = "right"}
<1>2. Us \subseteq UserNames
  <2>1. \A id : Authenticated(Current, id) \subseteq DOMAIN Current.users
    BY DEF Authenticated, ResolveIdentifier
  <2> QED BY <2>1, ServedNames
<1> HIDE DEF Us
<1>3. (\E code : a = Answer(code, {})) \/ \E u \in Us : a = Answer("success", {u})
  BY DEF HandleBind, Us
<1>4. ASSUME NEW code, a = Answer(code, {}) PROVE a.users = {}
  BY <1>1, <1>4
<1>5. ASSUME NEW u \in Us, a = Answer("success", {u}) PROVE a.users = {u}
  BY <1>1, <1>5
<1> QED BY <1>2, <1>3, <1>4, <1>5

\* A bind that changes the user has proved a password, and disturbs the search.
LEMMA BindInv ==
    ASSUME Inv, NEW name, NEW simple, NEW password, Bind(name, simple, password)
    PROVE  Inv'
<1>1. /\ cfg' = cfg /\ disk' = disk /\ accepted' = accepted /\ snap' = snap /\ rows' = rows /\ shown' = FALSE
      /\ conn.open /\ page' = IF conn'.bound = conn.bound THEN page ELSE Disturbed
  BY DEF Bind
<1>2. conn \in Conns /\ page \in Pages /\ conn.proved = conn.bound
  BY TypeParts DEF Inv, ConnOK
<1>3. Serving
  BY <1>1 DEF Inv, ConnOK
<1>4. PICK a \in HandleBind(name, simple, password) :
         /\ conn' = IF a.users = {}
                    THEN [conn EXCEPT !.last = IF a.code = "success" THEN "anonymous" ELSE @]
                    ELSE LET u == CHOOSE u \in a.users : TRUE
                         IN  [conn EXCEPT !.bound = u, !.proved = u, !.last = "user"]
         /\ reply' = Result(a.code)
  BY Zenon DEF Bind
<1>5. a.users = {} \/ \E u \in UserNames : a.users = {u}
  BY <1>3, BindAnswers
<1>6. conn' \in Conns /\ conn'.open = conn.open /\ conn'.tls = conn.tls /\ conn'.proved = conn'.bound
  <2>1. CASE a.users = {}
    <3>1. conn' = [conn EXCEPT !.last = IF a.code = "success" THEN "anonymous" ELSE @]
      BY <1>4, <2>1
    <3> QED BY <1>2, <3>1 DEF Conns
  <2>2. ASSUME NEW u \in UserNames, a.users = {u}
        PROVE  conn' \in Conns /\ conn'.open = conn.open /\ conn'.tls = conn.tls /\ conn'.proved = conn'.bound
    <3>1. (CHOOSE v \in a.users : TRUE) = u
      BY <2>2
    <3>2. conn' = [conn EXCEPT !.bound = u, !.proved = u, !.last = "user"]
      BY <1>4, <2>2, <3>1
    <3> QED BY <1>2, <3>2 DEF Conns
  <2> QED BY <1>5, <2>1, <2>2
<1>7. TypeOK'
  <2>1. page' \in Pages
    BY <1>1, <1>2, DisturbedIs
  <2>2. reply' \in Replies
    BY <1>4 DEF Replies, Result
  <2> QED BY <1>1, <1>6, <2>1, <2>2, TypeParts, TypePartsNext DEF Inv
<1>8. LoadIsExact' /\ SnapOK'
  <2>1. reply' # "load"
    BY <1>4 DEF Result
  <2> QED BY <1>1, <2>1 DEF LoadIsExact, SnapOK, Inv
<1>9. ConnOK'
  <2>1. Serving'
    BY <1>1, <1>3, KeptServing
  <2> QED BY <1>1, <1>6, <2>1 DEF ConnOK
<1>10. PageOK'
  <2>1. CASE conn'.bound = conn.bound
    BY <1>1, <1>6, <2>1, KeptPage
  <2>2. CASE conn'.bound # conn.bound
    BY <1>1, <1>2, <2>2, DisturbedIs DEF PageOK
  <2> QED BY <2>1, <2>2
<1>11. ShownOK'
  BY <1>1 DEF ShownOK
<1> QED BY <1>7, <1>8, <1>9, <1>10, <1>11 DEF Inv

\* A step that leaves the directory and the connection as they are.
LEMMA AnsweredInv ==
    ASSUME Inv, conn.open, UNCHANGED <<cfg, disk, accepted, snap, conn>>, rows' \in Rows, page' \in Pages, PageOK',
           reply' \in {"none", "success", "refused"}, shown' \in BOOLEAN, shown' => Privileged
    PROVE  Inv'
<1>1. TypeOK'
  BY TypeParts, TypePartsNext DEF Inv, Replies
<1>2. LoadIsExact' /\ SnapOK'
  BY DEF LoadIsExact, SnapOK, Inv
<1>3. ConnOK'
  BY KeptServing DEF ConnOK, Inv
<1>4. ShownOK'
  BY KeptPrivilege DEF ShownOK
<1> QED BY <1>1, <1>2, <1>3, <1>4 DEF Inv

\* One that answers without searching.
LEMMA RefusedInv ==
    ASSUME Inv, conn.open, UNCHANGED <<cfg, disk, accepted, snap, conn, rows, page>>, shown' = FALSE,
           reply' \in {"success", "refused"}
    PROVE  Inv'
<1>1. rows \in Rows /\ page \in Pages
  BY TypeParts DEF Inv
<1>2. PageOK'
  BY KeptPage
<1> QED BY <1>1, <1>2, AnsweredInv

\* StartTLS forgets the user.
LEMMA ExtendedInv == ASSUME Inv, NEW startTLS \in BOOLEAN, Extended(startTLS) PROVE Inv'
<1>1. /\ cfg' = cfg /\ disk' = disk /\ accepted' = accepted /\ snap' = snap /\ rows' = rows /\ shown' = FALSE
      /\ conn.open
  BY DEF Extended
<1>2. conn \in Conns /\ page \in Pages
  BY TypeParts DEF Inv
<1>3. CASE conn' = conn /\ page' = page /\ reply' = "refused"
  BY <1>1, <1>3, RefusedInv
<1>4. CASE conn' \in {Upgraded(conn), Closed} /\ page' = (IF conn'.open THEN Disturbed ELSE NoPage) /\ reply' = "success"
  <2>1. conn' \in Conns /\ conn'.proved = conn'.bound
    BY <1>2, <1>4, ClosedIs DEF Conns, Upgraded
  <2>2. page' \in Pages /\ page'.st \in {"idle", "lost"}
    BY <1>2, <1>4, DisturbedIs, NoPageIs
  <2>3. TypeOK'
    BY <1>1, <1>4, <2>1, <2>2, TypeParts, TypePartsNext DEF Inv, Replies
  <2>4. LoadIsExact' /\ SnapOK' /\ PageOK' /\ ShownOK'
    BY <1>1, <1>4, <2>2 DEF LoadIsExact, SnapOK, PageOK, ShownOK, Inv
  <2>5. ConnOK'
    <3>1. Serving'
      BY <1>1, KeptServing DEF Inv, ConnOK
    <3> QED BY <1>4, <2>1, <3>1 DEF ConnOK
  <2> QED BY <2>3, <2>4, <2>5 DEF Inv
<1>5. \/ conn' = conn /\ page' = page /\ reply' = "refused"
      \/ conn' \in {Upgraded(conn), Closed} /\ page' = (IF conn'.open THEN Disturbed ELSE NoPage) /\ reply' = "success"
  BY DEF Extended, Result
<1> QED BY <1>3, <1>4, <1>5

\* Add, Modify, Delete, ModifyDN and Compare.
LEMMA ReadOnlyInv == ASSUME Inv, ReadOnly PROVE Inv'
BY RefusedInv DEF ReadOnly, Result

\* A search that is refused.
LEMMA SearchRefusedInv == ASSUME Inv, NEW q, SearchRefused(q) PROVE Inv'
BY RefusedInv DEF SearchRefused, Result

\* The paged search that a search leaves is in progress only if its answer is
\* still the one there is.
LEMMA SearchedIs ==
    ASSUME Inv, conn.open, UNCHANGED <<cfg, disk, accepted, snap, conn>>, NEW p \in Pages, Searched(p),
           p.st \in {"more", "done"} => p.q \in DOMAIN Queries /\ PageOf(p, Answers(p.q))
    PROVE  rows' \in Rows /\ page' \in Pages /\ PageOK'
<1>1. rows' = (IF Privileged THEN Assigned ELSE rows) /\ page' = IF rows' = rows THEN p ELSE Disturbed
  BY DEF Searched
<1>2. rows \in Rows /\ page \in Pages
  BY TypeParts DEF Inv
<1>3. rows' \in Rows
  <2>1. DOMAIN Current.groups \in SUBSET ServedGroups
    BY ServedNames DEF Inv, ConnOK
  <2> QED BY <1>1, <1>2, <2>1, RidsIn DEF Assigned
<1>4. CASE rows' = rows
  <2>1. page' = p
    BY <1>1, <1>4
  <2>2. Answers(p.q)' = Answers(p.q)
    BY <1>4, Undisturbed
  <2>3. Answers(page.q)' = Answers(p.q)'
    BY <2>1
  <2> QED BY <1>3, <2>1, <2>2, <2>3 DEF PageOK
<1>5. CASE rows' # rows
  <2>1. page' \in Pages /\ page'.st \in {"idle", "lost"}
    BY <1>1, <1>2, <1>5, DisturbedIs
  <2> QED BY <1>3, <2>1 DEF PageOK
<1> QED BY <1>4, <1>5

\* The same for a search that leaves the client's paged search alone.
LEMMA SearchedAside ==
    ASSUME Inv, conn.open, UNCHANGED <<cfg, disk, accepted, snap, conn>>, Searched(page)
    PROVE  rows' \in Rows /\ page' \in Pages /\ PageOK'
<1>1. page \in Pages /\ PageOK
  BY TypeParts DEF Inv
<1>2. PICK p : p = page
  OBVIOUS
<1>3. p \in Pages /\ Searched(p) /\ (p.st \in {"more", "done"} => p.q \in DOMAIN Queries /\ PageOf(p, Answers(p.q)))
  BY <1>1, <1>2 DEF PageOK
<1> QED BY <1>3, SearchedIs

\* A search that fails, before or after RIDs were assigned.
LEMMA SearchFailsInv == ASSUME Inv, NEW q, SearchFails(q) PROVE Inv'
<1>1. /\ conn.open /\ UNCHANGED <<cfg, disk, accepted, snap, conn>> /\ shown' = FALSE /\ reply' = "refused"
      /\ Searched(page) \/ UNCHANGED <<rows, page>>
  BY DEF SearchFails, Result
<1>2. CASE Searched(page)
  <2>1. rows' \in Rows /\ page' \in Pages /\ PageOK'
    BY <1>1, <1>2, SearchedAside
  <2> QED BY <1>1, <2>1, AnsweredInv
<1>3. CASE UNCHANGED <<rows, page>>
  BY <1>1, <1>3, RefusedInv
<1> QED BY <1>1, <1>2, <1>3

\* A search that was answered: what it showed, it showed to a reader.
LEMMA SentInv ==
    ASSUME Inv, conn.open, UNCHANGED <<cfg, disk, accepted, snap, conn>>, reply' = "success",
           rows' \in Rows, page' \in Pages, PageOK',
           NEW i \in DOMAIN Queries, NEW sent \in Seq(Matching(Queries[i])), shown' = Shows(sent, Queries[i])
    PROVE  Inv'
<1>1. Serving
  BY DEF Inv, ConnOK
<1>2. shown' \in BOOLEAN
  BY DEF Shows
<1>3. shown' => Privileged
  BY <1>1, NothingIfUnprivileged
<1> QED BY <1>2, <1>3, AnsweredInv

\* A search without pages.
LEMMA SearchInv == ASSUME Inv, NEW i \in DOMAIN Queries, Search(Queries[i]) PROVE Inv'
<1>1. /\ conn.open /\ UNCHANGED <<cfg, disk, accepted, snap, conn>> /\ Searched(page) /\ reply' = "success"
      /\ \E es \in Matched(Queries[i]) : shown' = Shows(es, Queries[i])
  BY DEF Search
<1>2. Serving
  BY <1>1 DEF Inv, ConnOK
<1>3. Matched(Queries[i]) = {Answers(i)} /\ Answers(i) \in Seq(Matching(Queries[i]))
  BY <1>2, AnswersList DEF Lists
<1>4. shown' = Shows(Answers(i), Queries[i])
  BY <1>1, <1>3
<1>5. rows' \in Rows /\ page' \in Pages /\ PageOK'
  BY <1>1, SearchedAside
<1> QED BY <1>1, <1>3, <1>4, <1>5, SentInv

\* A page taken where what the client has ends.
LEMMA PageInv ==
    ASSUME Inv, conn.open, NEW i \in DOMAIN Queries, NEW size \in PageSizes \cup {0},
           NEW got \in Seq(DOMAIN DNOrder), NEW offset, offset = Len(got), offset <= Len(Answers(i)),
           \A j \in 1..offset : got[j] = Answers(i)[j].dn,
           Page(i, size, offset, got)
    PROVE  Inv'
<1> DEFINE es == Answers(i)
           E == Matching(Queries[i])
           end == PageEnd(offset, size, Len(es))
           sent == SubSeq(es, offset + 1, end)
           more == Len(es) - end
           all == got \o [j \in DOMAIN sent |-> sent[j].dn]
<1>1. UNCHANGED <<cfg, disk, accepted, snap, conn>> /\ reply' = "success"
  BY DEF Page
<1>2. Serving
  BY DEF Inv, ConnOK
<1>3. /\ Sortable(E) /\ Lists(es, E) /\ Len(es) \in Nat /\ Len(es) <= Cardinality(DOMAIN DNOrder)
      /\ Matched(Queries[i]) = {es}
  BY <1>2, AnswersList
<1>4. offset \in Nat /\ size \in Nat /\ offset <= Len(es)
  BY DirectoryAssumption
<1>5. PageStart(offset, Len(es)) = offset
  BY <1>3, <1>4 DEF PageStart
<1> DEFINE p == [st |-> IF more > 0 THEN "more" ELSE "done", q |-> i, size |-> size,
                 cookie |-> IF more > 0 THEN end ELSE 0, remaining |-> more, got |-> all]
<1>6. Searched(p) /\ shown' = Shows(sent, Queries[i])
  <2> HIDE DEF es
  <2>1. \A fs \in {es} : PageStart(offset, Len(fs)) = offset
    BY <1>5
  <2> QED BY <1>3, <1>5, Zenon DEF Page
<1> HIDE DEF es, E
<1>7. end \in offset..Len(es) /\ end \in Nat /\ end <= Len(es)
  BY <1>3, <1>4 DEF PageEnd
<1> HIDE DEF end
<1>8. sent \in Seq(E) /\ all \in Seq(DOMAIN DNOrder) /\ Len(all) = end /\ \A j \in 1..end : all[j] = es[j].dn
  <2>1. end \in Len(got)..Len(es) /\ BeginningOf(got, es)
    BY <1>4, <1>7 DEF es, BeginningOf
  <2>2. sent = Rest(es, got, end) /\ all = WithRest(es, got, end)
    BY Zenon DEF Rest, WithRest
  <2> HIDE DEF sent, all
  <2>3. /\ Rest(es, got, end) \in Seq(E) /\ BeginningOf(WithRest(es, got, end), es)
        /\ Len(WithRest(es, got, end)) = end
    BY <1>3, <2>1, NextPage
  <2>4. sent \in Seq(E) /\ BeginningOf(all, es) /\ Len(all) = end
    BY <2>2, <2>3
  <2> QED BY <2>4 DEF BeginningOf
<1> HIDE DEF all, sent
<1>9. p \in Pages /\ PageOf(p, es)
  <2> HIDE DEF more
  <2>1. more = Len(es) - end
    BY DEF more
  <2> QED BY <1>3, <1>7, <1>8, <2>1, PageIs
<1>10. p.q = i
  OBVIOUS
<1> HIDE DEF p
<1>11. rows' \in Rows /\ page' \in Pages /\ PageOK'
  <2>1. PageOf(p, Answers(p.q))
    BY <1>9, <1>10 DEF es
  <2> QED BY <1>1, <1>6, <1>9, <1>10, <2>1, SearchedIs
<1> QED BY <1>1, <1>6, <1>8, <1>11, SentInv DEF E

\* The first page begins at offset 0, with nothing sent.
LEMMA SearchFirstPageInv ==
    ASSUME Inv, NEW i \in DOMAIN Queries, NEW size \in PageSizes, SearchFirstPage(i, size)
    PROVE  Inv'
<1>1. conn.open /\ Page(i, size, 0, <<>>)
  BY DEF SearchFirstPage
<1>2. Len(Answers(i)) \in Nat
  BY <1>1, AnswersList DEF Inv, ConnOK
<1>3. <<>> \in Seq(DOMAIN DNOrder) /\ Len(<<>>) = 0 /\ 0 <= Len(Answers(i))
      /\ \A j \in 1..0 : <<>>[j] = Answers(i)[j].dn
  BY <1>2
<1> DEFINE got == <<>>
<1> HIDE DEF got
<1>4. got \in Seq(DOMAIN DNOrder) /\ Len(got) = 0 /\ Page(i, size, 0, got) /\ \A j \in 1..0 : got[j] = Answers(i)[j].dn
  BY <1>1, <1>3 DEF got
<1> QED BY <1>1, <1>3, <1>4, PageInv

\* The next page begins where the client's last one ended: the cookie is how
\* much was sent.
LEMMA SearchNextPageInv == ASSUME Inv, SearchNextPage PROVE Inv'
<1>1. conn.open /\ page.st = "more" /\ Page(page.q, page.size, page.cookie, page.got)
  BY DEF SearchNextPage
<1>2. page \in Pages
  BY TypeParts DEF Inv
<1>3. page.q \in DOMAIN Queries /\ PageOf(page, Answers(page.q))
  BY <1>1 DEF Inv, PageOK
<1> DEFINE i == page.q
           got == page.got
           offset == page.cookie
           size == page.size
<1>4. /\ got \in Seq(DOMAIN DNOrder) /\ size \in PageSizes \cup {0} /\ offset = Len(got) /\ page.remaining \in Nat
      /\ \A j \in 1..Len(got) : got[j] = Answers(i)[j].dn
  BY <1>1, <1>2, <1>3 DEF Pages, PageOf
<1>5. Len(Answers(i)) = Len(got) + page.remaining /\ Len(got) \in Nat
  BY <1>3, <1>4 DEF PageOf
<1>6. offset <= Len(Answers(i))
  BY <1>4, <1>5
<1> HIDE DEF i, got, offset, size
<1>7. i \in DOMAIN Queries /\ Page(i, size, offset, got)
  BY <1>1, <1>3 DEF i, got, offset, size
<1> QED BY <1>1, <1>4, <1>6, <1>7, PageInv

\* A page from a stale offset is part of the answer, wherever it begins.
LEMMA SearchStalePageInv ==
    ASSUME Inv, NEW i \in DOMAIN Queries, NEW size \in PageSizes, NEW offset \in StaleCookies,
           SearchStalePage(i, size, offset)
    PROVE  Inv'
<1> DEFINE es == Answers(i)
           E == Matching(Queries[i])
           start == PageStart(offset, Len(es))
           end == PageEnd(start, size, Len(es))
           sent == SubSeq(es, start + 1, end)
<1>1. /\ conn.open /\ UNCHANGED <<cfg, disk, accepted, snap, conn>> /\ Searched(page) /\ reply' = "success"
  BY DEF SearchStalePage
<1>2. Serving
  BY <1>1 DEF Inv, ConnOK
<1>3. Lists(es, E) /\ Len(es) \in Nat /\ Matched(Queries[i]) = {es}
  BY <1>2, AnswersList
<1>4. shown' = Shows(sent, Queries[i])
  <2> HIDE DEF es
  <2> QED BY <1>3, Zenon DEF SearchStalePage
<1>5. size \in Nat /\ offset \in Nat
  BY DirectoryAssumption
<1> HIDE DEF es, E
<1>6. start \in Nat /\ start <= Len(es)
  BY <1>3, <1>5 DEF PageStart
<1> HIDE DEF start
<1>7. end \in start..Len(es) /\ end \in Nat /\ end <= Len(es)
  BY <1>3, <1>5, <1>6 DEF PageEnd
<1> HIDE DEF end
<1>8. sent \in Seq(E)
  BY <1>3, <1>6, <1>7, SentIs DEF Lists
<1> HIDE DEF sent
<1>9. rows' \in Rows /\ page' \in Pages /\ PageOK'
  BY <1>1, SearchedAside
<1> QED BY <1>1, <1>4, <1>8, <1>9, SentInv DEF E

\* What others write disturbs the search of a Samba reader, and no other.
LEMMA WrittenInv == ASSUME Inv, NEW new \in Rows, Written(new) PROVE Inv'
<1>1. /\ conn.open /\ UNCHANGED <<cfg, disk, accepted, snap, conn>> /\ reply' = "none" /\ shown' = FALSE
      /\ rows' = new /\ page' = IF Privileged /\ rows' # rows THEN Disturbed ELSE page
  BY DEF Written
<1>2. page \in Pages
  BY TypeParts DEF Inv
<1>3. page' \in Pages /\ PageOK'
  <2>1. CASE Privileged /\ rows' # rows
    BY <1>1, <1>2, <2>1, DisturbedIs DEF PageOK
  <2>2. CASE ~(Privileged /\ rows' # rows)
    BY <1>1, <1>2, <2>2, KeptPage
  <2> QED BY <2>1, <2>2
<1> QED BY <1>1, <1>3, AnsweredInv

\* A login's backfill or a reset.
LEMMA StorePasswordInv == ASSUME Inv, NEW w \in Passwords, StorePassword(w.user, w.hash) PROVE Inv'
<1> DEFINE new == [rows EXCEPT !.creds = [v \in DOMAIN @ \cup {w.user} |-> IF v = w.user THEN w.hash ELSE @[v]]]
<1>1. new \in Rows /\ Written(new)
  BY CredsIn, TypeParts DEF Inv, StorePassword
<1> HIDE DEF new
<1> QED BY <1>1, WrittenInv

\* Another reader's search.
LEMMA SearchElsewhereInv == ASSUME Inv, NEW s \in ServedSnapshots, SearchElsewhere(s) PROVE Inv'
<1> DEFINE new == [rows EXCEPT !.rids = @ \cup DOMAIN s.groups]
<1>1. PICK t \in Served : s \in LoadIdentity(t) /\ t \in Seq(Files)
  BY DirectoryAssumption DEF ServedSnapshots
<1>2. DOMAIN s.groups = GroupNames(t)
  BY <1>1, SnapshotIs DEF SnapshotOK, MapsOK
<1>3. DOMAIN s.groups \in SUBSET ServedGroups
  BY <1>2 DEF ServedGroups
<1>4. new \in Rows /\ Written(new)
  BY <1>3, RidsIn, TypeParts DEF Inv, SearchElsewhere
<1> HIDE DEF new
<1> QED BY <1>4, WrittenInv

-----------------------------------------------------------------------------
\* Every step keeps the invariant.
LEMMA NextInv == Inv /\ [Next]_vars => Inv'
<1> SUFFICES ASSUME Inv, [Next]_vars PROVE Inv'
  OBVIOUS
<1>1. CASE Startup
  BY <1>1, StartupInv
<1>2. ASSUME NEW t \in Served, Restart(t) \/ Reload(t) PROVE Inv'
  BY <1>2, RestartInv, ReloadInv
<1>3. ASSUME NEW tls \in BOOLEAN, Accept(tls) PROVE Inv'
  BY <1>3, AcceptInv
<1>4. CASE Close
  BY <1>4, CloseInv
<1>5. ASSUME NEW b \in BindRequests, Bind(b.name, b.simple, b.password) PROVE Inv'
  BY <1>5, BindInv
<1>6. ASSUME NEW startTLS \in BOOLEAN, Extended(startTLS) PROVE Inv'
  BY <1>6, ExtendedInv
<1>7. CASE ReadOnly
  BY <1>7, ReadOnlyInv
<1>8. ASSUME NEW i \in DOMAIN Queries, SearchRefused(Queries[i]) PROVE Inv'
  BY <1>8, SearchRefusedInv
<1>9. ASSUME NEW i \in DOMAIN Queries, SearchFails(Queries[i]) \/ Search(Queries[i]) PROVE Inv'
  BY <1>9, SearchFailsInv, SearchInv
<1>10. ASSUME NEW i \in DOMAIN Queries, NEW size \in PageSizes, SearchFirstPage(i, size) PROVE Inv'
  BY <1>10, SearchFirstPageInv
<1>11. ASSUME NEW i \in DOMAIN Queries, NEW size \in PageSizes, NEW offset \in StaleCookies,
              SearchStalePage(i, size, offset)
       PROVE  Inv'
  BY <1>11, SearchStalePageInv
<1>12. CASE SearchNextPage
  BY <1>12, SearchNextPageInv
<1>13. ASSUME NEW w \in Passwords, StorePassword(w.user, w.hash) PROVE Inv'
  BY <1>13, StorePasswordInv
<1>14. ASSUME NEW s \in ServedSnapshots, SearchElsewhere(s) PROVE Inv'
  BY <1>14, SearchElsewhereInv
<1>15. CASE UNCHANGED vars
  <2>1. /\ cfg' = cfg /\ disk' = disk /\ accepted' = accepted /\ snap' = snap /\ conn' = conn /\ rows' = rows
        /\ page' = page /\ reply' = reply /\ shown' = shown
    BY <1>15 DEF vars
  <2>2. TypeOK' /\ LoadIsExact' /\ SnapOK'
    BY <2>1, TypeParts, TypePartsNext DEF Inv, LoadIsExact, SnapOK
  <2>3. ConnOK' /\ PageOK'
    BY <2>1, KeptServing, KeptPage DEF Inv, ConnOK
  <2>4. ShownOK'
    <3>1. Privileged' = Privileged
      BY <2>1, KeptPrivilege
    <3> QED BY <2>1, <3>1 DEF Inv, ShownOK
  <2> QED BY <2>2, <2>3, <2>4 DEF Inv
<1> QED BY <1>1, <1>2, <1>3, <1>4, <1>5, <1>6, <1>7, <1>8, <1>9, <1>10, <1>11, <1>12, <1>13,
          <1>14, <1>15
       DEF Next

\* The invariant holds throughout.
LEMMA Invariant == Spec => []Inv
<1>1. Init => Inv
  BY InitInv
<1>2. Inv /\ [Next]_vars => Inv'
  BY NextInv
<1> QED BY <1>1, <1>2, PTL DEF Spec

\* The types: bound and proved users are declared, the offsets and the pages are
\* bounded by the DNs there are, RIDs and NT hashes belong to groups and users of
\* served directories (handleConn, handleSearch).
THEOREM DirectoryTypes == Spec => []TypeOK
<1>1. Inv => TypeOK
  BY DEF Inv
<1> QED BY <1>1, Invariant, PTL

\* LoadIdentity accepts the well-formed directories and no others, and resolves
\* what they declare, however many files, groups and users there are.
THEOREM LoadsAreExact == Spec => []LoadIsExact
<1>1. Inv => LoadIsExact
  BY DEF Inv
<1> QED BY <1>1, Invariant, PTL

\* The pages of a search hold every matching entry once as long as the directory,
\* the bound user, the channel and the rows a Samba reader is answered from stay as
\* they are, whatever else happens meanwhile (the sort and the offsets of handleSearch).
THEOREM EveryEntryOnce == Spec => []PagesEnumerate
<1>1. Inv => PagesEnumerate
  <2> SUFFICES ASSUME Inv, page.st \in {"more", "done"}
               PROVE  LET all == {e.dn : e \in Matching(Queries[page.q])}
                      IN  /\ IsInjective(page.got)
                          /\ ToSet(page.got) \subseteq all
                          /\ Len(page.got) + page.remaining = Cardinality(all)
    BY DEF PagesEnumerate
  <2> DEFINE i == page.q
             es == Answers(i)
             E == Matching(Queries[i])
             got == page.got
             all == {e.dn : e \in E}
  <2>1. page \in Pages /\ i \in DOMAIN Queries /\ PageOf(page, es)
    BY TypeParts DEF Inv, PageOK
  <2>2. Serving
    <3>1. page # NoPage
      BY NoPageIs
    <3> QED BY <3>1 DEF Inv, ConnOK
  <2>3. Sortable(E) /\ Lists(es, E) /\ Len(es) \in Nat
    BY <2>1, <2>2, AnswersList
  <2>4. Cardinality(all) = Cardinality(E)
    <3> HIDE DEF E
    <3> QED BY <2>3, EntriesFinite
  <2>5. /\ got \in Seq(DOMAIN DNOrder) /\ page.remaining \in Nat /\ Len(got) \in Nat
        /\ Len(got) + page.remaining = Len(es)
        /\ \A j \in 1..Len(got) : got[j] = es[j].dn
    BY <2>1 DEF Pages, PageOf
  <2> HIDE DEF es, E, got
  <2>6. /\ Len(es) = Cardinality(E) /\ (\A j \in 1..Len(es) : es[j] \in E)
        /\ (\A j, k \in 1..Len(es) : es[j] = es[k] => j = k) /\ (\A e, f \in E : e.dn = f.dn => e = f)
    BY <2>3 DEF Lists, Sortable
  <2>7. DOMAIN got = 1..Len(got) /\ \A j \in 1..Len(got) : j \in 1..Len(es)
    BY <2>3, <2>5
  <2>8. \A j \in 1..Len(got) : es[j] \in E /\ got[j] = es[j].dn
    BY <2>5, <2>6, <2>7
  <2>9. IsInjective(got)
    BY <2>6, <2>7, <2>8 DEF IsInjective
  <2>10. ToSet(got) \subseteq all
    BY <2>7, <2>8 DEF ToSet
  <2> QED BY <2>4, <2>5, <2>6, <2>9, <2>10 DEF got, E
<1> QED BY <1>1, Invariant, PTL

\* Samba data is shown only to a user who proved a password on this channel and
\* whom the current directory puts in the readers group, directly or not.
THEOREM SambaForReadersOnly == Spec => []PrivilegeIsEarned
<1>1. Inv => PrivilegeIsEarned
  <2> SUFFICES ASSUME Inv, shown
               PROVE  /\ conn.proved \in DOMAIN Current.users
                      /\ cfg.readers \in Above([g \in DOMAIN Current.groups |-> ToSet(Current.groups[g].memberOf)],
                                               ToSet(Current.users[conn.proved].memberOf))
    BY DEF PrivilegeIsEarned
  <2>1. conn.open /\ Privileged /\ Serving /\ conn.proved = conn.bound
    BY DEF Inv, ShownOK, ConnOK
  <2>2. PICK t \in Served : SnapshotOK(Current, t)
    BY <2>1, CurrentIs
  <2>3. /\ DOMAIN Current.memberOf = DOMAIN Current.users
        /\ \A u \in DOMAIN Current.users :
              Current.memberOf[u] = Above(Up(Current.groups), ToSet(Current.users[u].memberOf))
    BY <2>2 DEF SnapshotOK
  <2>4. conn.bound \in DOMAIN Current.memberOf /\ cfg.readers \in Current.memberOf[conn.bound]
    BY <2>1 DEF Privileged, IsMemberOf
  <2>5. /\ conn.proved \in DOMAIN Current.users
        /\ cfg.readers \in Above(Up(Current.groups), ToSet(Current.users[conn.proved].memberOf))
    BY <2>1, <2>3, <2>4
  <2> QED BY <2>5, Zenon DEF Up
<1> QED BY <1>1, Invariant, PTL
=============================================================================

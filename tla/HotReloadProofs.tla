-------------------------- MODULE HotReloadProofs ---------------------------
(***************************************************************************)
(* Proofs about module HotReload, for every number of files and of save    *)
(* requests, whatever LoadIdentity accepts.  Fairness plays no part.       *)
(***************************************************************************)
EXTENDS HotReload, FiniteSetTheorems, TLAPS

Loading == {"loading", "reloading"}

\* The directory has a file with contents, in Init, so there are contents; the
\* requests are a function, which TypeOK does not ask for.
Typed == TypeOK /\ Contents # {} /\ ed \in [Editors -> Editor]

LEMMA FilesFinite ==
    ASSUME NEW d, NEW e
    PROVE  /\ IsFiniteSet({f \in Files : d[f] # e[f]})
           /\ Cardinality({f \in Files : d[f] # e[f]}) \in Nat
<1>1. IsFiniteSet(Files)
  BY ReloadAssumption, FS_Interval DEF Files
<1>2. {f \in Files : d[f] # e[f]} \subseteq Files
  OBVIOUS
<1> QED BY <1>1, <1>2, FS_Subset, FS_CardinalityType

\* A difference of cardinality 0 is none, one of cardinality 1 is in one file.
LEMMA OneDiffers ==
    ASSUME NEW d, NEW e
    PROVE  LET n == Cardinality({f \in Files : d[f] # e[f]}) IN
           /\ n = 0 => \A f \in Files : d[f] = e[f]
           /\ n = 1 => \E g \in Files : \A f \in Files \ {g} : d[f] = e[f]
<1> DEFINE S == {f \in Files : d[f] # e[f]}
<1>1. IsFiniteSet(S)
  BY FilesFinite
<1>2. Cardinality(S) = 0 => S = {}
  BY <1>1, FS_EmptySet
<1>3. Cardinality(S) = 1 => \E g : S = {g}
  BY <1>1, FS_Singleton
<1>4. ASSUME S = {} PROVE \A f \in Files : d[f] = e[f]
  BY <1>4
<1>5. ASSUME NEW g, S = {g} PROVE g \in Files /\ \A f \in Files \ {g} : d[f] = e[f]
  BY <1>5
<1> QED BY <1>2, <1>3, <1>4, <1>5

LEMMA ContributionTree ==
    ASSUME NEW d \in [Files -> Contents \cup {Empty, Absent}]
    PROVE  Contribution(d) \in Tree
BY DEF Contribution, Tree

LEMMA NothingTree ==
    /\ Nothing \in Tree /\ 1 \in Files /\ Down \in Watcher
    /\ Down.next = 1 /\ Down.pc = "down" /\ Down.listed = {} /\ Down.read = Nothing
    /\ Contents # {} => Ready \in Editor /\ Ready.pc = "idle"
<1>1. Nothing \in Tree /\ 1 \in Files
  BY ReloadAssumption DEF Nothing, Tree, Files
<1>2. 1 \in 1..NumFiles + 1
  BY ReloadAssumption
<1>3. Down \in Watcher /\ Down.next = 1 /\ Down.pc = "down" /\ Down.listed = {} /\ Down.read = Nothing
  BY <1>1, <1>2 DEF Down, Watcher
<1>4. ASSUME Contents # {} PROVE Ready \in Editor /\ Ready.pc = "idle"
  <2>1. (CHOOSE c \in Contents : TRUE) \in Contents
    BY <1>4
  <2> QED BY <1>1, <1>2, <2>1 DEF Ready, Editor
<1> QED BY <1>1, <1>3, <1>4

-----------------------------------------------------------------------------
(* The inductive invariant.                                                *)

\* File f, if it has been read, was read as it was when the load began.
ReadAsStarted(f) ==
    Contribution(disk)[f] = w.start[f] /\ (f < w.next => w.read[f] = w.start[f])

\* Until the directory changes, a load reads what was there when it began; after
\* one change to one file, that file alone may be read either way.
LoadOK ==
    /\ w.pc \notin Loading => w.next = 1
    /\ w.pc \in Loading =>
          /\ \A f \in Files \ w.listed : w.start[f] = Empty
          /\ torn = 0 => \A f \in Files : ReadAsStarted(f)
          /\ torn = 1 => \E g \in Files :
                /\ \A f \in Files \ {g} : ReadAsStarted(f)
                /\ g < w.next => w.read[g] \in {w.start[g], Contribution(disk)[g]}

\* What is being written was validated with the copy of the other files.
EditOK == \A e \in Editors : ed[e].pc \in {"truncate", "write"} => Valid(Overlay(e))

ReloadInv == Typed /\ LoadOK /\ EditOK

LEMMA ReloadInit == Init => ReloadInv
<1> SUFFICES ASSUME Init PROVE ReloadInv
  OBVIOUS
<1>1. 1 \in Files /\ disk \in [Files -> Contents]
  BY NothingTree DEF Init
<1>2. Contents # {}
  BY <1>1
<1>3. Ready \in Editor /\ Ready.pc = "idle"
  BY <1>2, NothingTree
<1>4. ed \in [Editors -> Editor] /\ \A e \in Editors : ed[e].pc = "idle"
  BY <1>3 DEF Init
<1>5. {events, timer, debounced, touched} \subseteq BOOLEAN
  BY DEF Init
<1>6. Typed
  BY <1>1, <1>2, <1>4, <1>5, ReloadAssumption, NothingTree DEF Init, Typed, TypeOK
<1>7. LoadOK
  BY NothingTree DEF Init, LoadOK, Loading
<1>8. EditOK
  BY <1>4 DEF EditOK
<1> QED BY <1>6, <1>7, <1>8 DEF ReloadInv

-----------------------------------------------------------------------------
(* Steps that leave the directory alone.                                   *)

\* The load under way is not touched, or is over.
LEMMA LoadStays ==
    ASSUME LoadOK, UNCHANGED <<disk, w, torn>> \/ (w'.pc \notin Loading /\ w'.next = 1)
    PROVE  LoadOK'
<1>1. CASE UNCHANGED <<disk, w, torn>>
  BY <1>1 DEF LoadOK, ReadAsStarted, Contribution
<1>2. CASE w'.pc \notin Loading /\ w'.next = 1
  BY <1>2 DEF LoadOK
<1> QED BY <1>1, <1>2

LEMMA EditStays ==
    ASSUME EditOK, UNCHANGED ed
    PROVE  EditOK'
BY DEF EditOK, Overlay

\* A load begins with the files of the moment.
LEMMA LoadBegins ==
    ASSUME Typed, NEW pc \in Loading, LoadBegin(pc), UNCHANGED disk
    PROVE  w' \in Watcher /\ torn' = 0 /\ LoadOK'
<1> DEFINE L == {f \in Files : disk[f] # Absent}
           C == Contribution(disk)
<1>1. C \in Tree /\ \A f \in Files \ L : C[f] = Empty
  BY ContributionTree DEF Typed, TypeOK, Contribution
<1>2. w' = [Down EXCEPT !.pc = pc, !.listed = L, !.start = C] /\ torn' = 0
  BY DEF LoadBegin
<1> HIDE DEF L, C
<1>3. L \subseteq Files
  BY DEF L
<1>4. w' \in Watcher /\ w'.pc = pc /\ w'.listed = L /\ w'.start = C /\ w'.next = 1
  BY <1>1, <1>2, <1>3, NothingTree DEF Watcher, Loading
<1>5. \A f \in Files : ~(f < 1) /\ Contribution(disk')[f] = C[f]
  BY ReloadAssumption DEF Files, C
<1>6. \A f \in Files : ReadAsStarted(f)'
  BY <1>4, <1>5 DEF ReadAsStarted
<1>7. LoadOK'
  BY <1>1, <1>2, <1>4, <1>6 DEF LoadOK
<1> QED BY <1>2, <1>4, <1>7

\* One file more is read.
LEMMA ReadKeeps ==
    ASSUME Typed, LoadOK, ReadFile
    PROVE  w' \in Watcher /\ LoadOK'
<1> DEFINE n == w.next
           x == IF n \in w.listed THEN disk[n] ELSE Empty
           C == Contribution(disk)
<1>1. /\ w \in Watcher /\ w.pc \in Loading /\ n \in Files /\ UNCHANGED <<disk, torn>>
      /\ n + 1 \in 1..NumFiles + 1 /\ n \in Nat
  BY ReloadAssumption DEF ReadFile, Typed, TypeOK, Watcher, Loading, Files
<1>2. disk \in [Files -> Contents \cup {Empty, Absent}] /\ w.read \in Tree /\ w.start \in Tree /\ w.listed \subseteq Files
  BY <1>1 DEF Typed, TypeOK, Watcher
<1>3. x \in Contents \cup {Empty} /\ (n \in w.listed => x = C[n]) /\ (n \notin w.listed => x = w.start[n])
  <2>1. n \in w.listed => disk[n] # Absent
    BY DEF ReadFile
  <2>2. C[n] = IF disk[n] = Absent THEN Empty ELSE disk[n]
    BY <1>1 DEF Contribution
  <2>3. n \notin w.listed => w.start[n] = Empty
    BY <1>1 DEF LoadOK
  <2> QED BY <1>1, <1>2, <2>1, <2>2, <2>3
<1>4. w' = [w EXCEPT !.next = n + 1, !.read = [w.read EXCEPT ![n] = x]]
  BY DEF ReadFile
<1> HIDE DEF x
<1>5. [w.read EXCEPT ![n] = x] \in Tree
  BY <1>1, <1>2, <1>3 DEF Tree
<1>6. /\ w' \in Watcher /\ w'.pc = w.pc /\ w'.listed = w.listed /\ w'.start = w.start
      /\ w'.next = n + 1 /\ w'.read = [w.read EXCEPT ![n] = x]
  BY <1>1, <1>4, <1>5 DEF Watcher
<1>7. w'.read[n] = x /\ \A f \in Files \ {n} : w'.read[f] = w.read[f]
  BY <1>1, <1>2, <1>6 DEF Tree
<1>8. \A f \in Files : f < n + 1 => f < n \/ f = n
  BY <1>1, ReloadAssumption DEF Files
<1>9. \A f \in Files : ReadAsStarted(f) => ReadAsStarted(f)'
  <2> SUFFICES ASSUME NEW f \in Files, ReadAsStarted(f)
               PROVE  /\ Contribution(disk')[f] = w'.start[f]
                      /\ f < w'.next => w'.read[f] = w'.start[f]
    BY DEF ReadAsStarted
  <2>1. Contribution(disk')[f] = w'.start[f] /\ C[f] = w.start[f]
    BY <1>1, <1>6 DEF ReadAsStarted
  <2>2. CASE f = n
    BY <1>3, <1>6, <1>7, <2>1, <2>2
  <2>3. CASE f # n
    BY <1>6, <1>7, <1>8, <2>1, <2>3 DEF ReadAsStarted
  <2> QED BY <2>2, <2>3
<1>10. ASSUME NEW g \in Files, g < n => w.read[g] \in {w.start[g], C[g]}
       PROVE  g < w'.next => w'.read[g] \in {w'.start[g], Contribution(disk')[g]}
  <2>1. Contribution(disk') = C
    BY <1>1
  <2>2. CASE g = n
    BY <1>3, <1>6, <1>7, <2>1, <2>2
  <2>3. CASE g # n
    BY <1>6, <1>7, <1>8, <1>10, <2>1, <2>3
  <2> QED BY <2>2, <2>3
<1>11. LoadOK'
  BY <1>1, <1>6, <1>9, <1>10 DEF LoadOK
<1> QED BY <1>6, <1>11

\* The watcher's own steps, the timer and a crash.
LEMMA WatcherKeeps ==
    ASSUME ReloadInv,
           \/ Start \/ ReadFile \/ ReadFails \/ LoadInitial \/ Watch \/ TakeEvents \/ ReloadBegin \/ ReloadEnd
           \/ Fire \/ Crash
    PROVE  ReloadInv'
<1>1. Typed /\ TypeOK /\ LoadOK /\ EditOK /\ w \in Watcher /\ served \in Tree \cup {None} /\ torn \in Nat
  BY DEF ReloadInv, Typed, TypeOK
<1>2. /\ events \in BOOLEAN /\ timer \in BOOLEAN /\ debounced \in BOOLEAN /\ touched \in BOOLEAN
  BY <1>1, Zenon DEF TypeOK
<1>3. ASSUME UNCHANGED <<disk, ed, changes>>, w' \in Watcher, LoadOK', torn' \in Nat,
             served' \in Tree \cup {None}, events' \in BOOLEAN, timer' \in BOOLEAN,
             debounced' \in BOOLEAN, touched' \in BOOLEAN
      PROVE  ReloadInv'
  <2>1. TypeOK'
    BY <1>1, <1>3 DEF TypeOK
  <2> QED BY <1>1, <1>3, <2>1, EditStays DEF ReloadInv, Typed
<1>4. ASSUME NEW pc \in {"down", "loaded", "watching", "deaf"}, w' = [Down EXCEPT !.pc = pc]
      PROVE  w' \in Watcher /\ LoadOK'
  <2>1. w' \in Watcher /\ w'.pc = pc /\ w'.next = 1
    BY <1>4, NothingTree DEF Watcher
  <2> QED BY <1>1, <2>1, LoadStays DEF Loading
<1>5. CASE Start
  <2>1. LoadBegin("loading") /\ UNCHANGED <<disk, served, events, timer, debounced, ed, changes, touched>>
    BY <1>5 DEF Start
  <2>2. w' \in Watcher /\ torn' = 0 /\ LoadOK'
    BY <1>1, <2>1, LoadBegins DEF Loading
  <2> QED BY <1>1, <1>2, <1>3, <2>1, <2>2
<1>6. CASE ReadFile
  <2>1. UNCHANGED <<disk, served, events, timer, debounced, ed, changes, touched, torn>>
    BY <1>6 DEF ReadFile
  <2> QED BY <1>1, <1>2, <1>3, <1>6, <2>1, ReadKeeps
<1>7. CASE ReadFails
  <2>1. \E pc \in {"down", "watching"} : w' = [Down EXCEPT !.pc = pc]
    BY <1>7 DEF ReadFails
  <2>2. torn' = 0 /\ UNCHANGED <<disk, served, events, timer, debounced, ed, changes, touched>>
    BY <1>7 DEF ReadFails
  <2> QED BY <1>1, <1>2, <1>3, <1>4, <2>1, <2>2
<1>8. CASE LoadInitial
  <2>1. \E pc \in {"down", "loaded"} : w' = [Down EXCEPT !.pc = pc]
    <3>1. [Down EXCEPT !.pc = "down"] = Down
      BY NothingTree DEF Down
    <3> QED BY <1>8, <3>1 DEF LoadInitial
  <2>2. torn' = 0 /\ UNCHANGED <<disk, events, timer, debounced, ed, changes, touched>> /\ served' \in {w.read, served}
    BY <1>8 DEF LoadInitial
  <2>3. w.read \in Tree
    BY <1>1 DEF Watcher
  <2> QED BY <1>1, <1>2, <1>3, <1>4, <2>1, <2>2, <2>3
<1>9. CASE Watch
  <2>1. \E pc \in {"watching", "deaf"} : w' = [Down EXCEPT !.pc = pc]
    BY <1>9 DEF Watch
  <2>2. UNCHANGED <<disk, served, events, timer, debounced, ed, changes, touched, torn>>
    BY <1>9 DEF Watch
  <2> QED BY <1>1, <1>2, <1>3, <1>4, <2>1, <2>2
<1>10. CASE TakeEvents \/ Fire
  <2>1. /\ UNCHANGED <<disk, served, w, ed, changes, touched, torn>>
        /\ events' \in BOOLEAN /\ timer' \in BOOLEAN /\ debounced' \in BOOLEAN
    BY <1>2, <1>10 DEF TakeEvents, Fire
  <2>2. LoadOK'
    BY <1>1, <2>1, LoadStays
  <2> QED BY <1>1, <1>2, <1>3, <2>1, <2>2
<1>11. CASE ReloadBegin
  <2>1. LoadBegin("reloading") /\ debounced' \in BOOLEAN
        /\ UNCHANGED <<disk, served, events, timer, ed, changes, touched>>
    BY <1>11 DEF ReloadBegin
  <2>2. w' \in Watcher /\ torn' = 0 /\ LoadOK'
    BY <1>1, <2>1, LoadBegins DEF Loading
  <2> QED BY <1>1, <1>2, <1>3, <2>1, <2>2
<1>12. CASE ReloadEnd
  <2>1. /\ w' = [Down EXCEPT !.pc = "watching"] /\ torn' = 0 /\ served' \in {w.read, served}
        /\ UNCHANGED <<disk, events, timer, debounced, ed, changes, touched>>
    BY <1>12 DEF ReloadEnd
  <2>2. w.read \in Tree
    BY <1>1 DEF Watcher
  <2> QED BY <1>1, <1>2, <1>3, <1>4, <2>1, <2>2
<1>13. CASE Crash
  <2>1. /\ w' = Down /\ torn' = 0 /\ served' = None /\ UNCHANGED disk
        /\ ed' = [e \in Editors |-> Ready] /\ changes' = changes + 1 /\ changes < MaxChanges
    BY <1>13 DEF Crash
  <2>2. {events', timer', debounced', touched'} \subseteq BOOLEAN
    BY <1>13 DEF Crash
  <2>3. LoadOK' /\ w' \in Watcher
    BY <1>1, <2>1, NothingTree, LoadStays DEF Loading
  <2>4. Ready \in Editor /\ Ready.pc = "idle"
    BY <1>1, NothingTree DEF Typed
  <2>5. ed' \in [Editors -> Editor] /\ \A e \in Editors : ed'[e].pc = "idle"
    BY <2>1, <2>4
  <2>6. changes' \in 0..MaxChanges
    BY <1>1, <2>1, ReloadAssumption DEF TypeOK
  <2>7. TypeOK'
    BY <1>1, <2>1, <2>2, <2>3, <2>5, <2>6 DEF TypeOK
  <2>8. EditOK'
    BY <2>5 DEF EditOK
  <2> QED BY <1>1, <2>3, <2>5, <2>7, <2>8 DEF ReloadInv, Typed
<1> QED BY <1>5, <1>6, <1>7, <1>8, <1>9, <1>10, <1>11, <1>12, <1>13

-----------------------------------------------------------------------------
(* Steps that change the directory.                                        *)

\* A change within a load is counted, so one that leaves the count at 1 is the
\* first, and to one file.
LEMMA ChangeKeeps ==
    ASSUME Typed, LoadOK, NEW d \in [Files -> Contents \cup {Empty, Absent}], Change(d),
           UNCHANGED <<served, w, timer, debounced>>,
           ed' \in [Editors -> Editor]
    PROVE  Typed' /\ LoadOK'
<1> DEFINE n == Cardinality({f \in Files : d[f] # disk[f]})
           C == Contribution(disk)
           D == Contribution(d)
<1>1. TypeOK /\ n \in Nat /\ torn \in Nat /\ changes \in 0..MaxChanges /\ changes < MaxChanges
  BY FilesFinite DEF Typed, TypeOK, Change
<1>2. /\ n = 0 => \A f \in Files : d[f] = disk[f]
      /\ n = 1 => \E g \in Files : \A f \in Files \ {g} : d[f] = disk[f]
  BY OneDiffers
<1>3. \A f \in Files : d[f] = disk[f] => D[f] = C[f]
  BY DEF Contribution
<1>4. disk' = d /\ changes' = changes + 1 /\ torn' = IF w.pc \in Loading THEN torn + n ELSE 0
  BY DEF Change, Loading
<1>5. events' \in BOOLEAN /\ touched' \in BOOLEAN
  BY DEF Change
<1> HIDE DEF n, C, D
<1>6. torn' \in Nat /\ changes' \in 0..MaxChanges
  BY <1>1, <1>4, ReloadAssumption
<1>7. TypeOK'
  <2>1. {events', timer', debounced', touched'} \subseteq BOOLEAN
    BY <1>1, <1>5, Zenon DEF TypeOK
  <2> QED BY <1>1, <1>4, <1>6, <2>1 DEF TypeOK
<1>8. Contribution(disk') = D /\ w' = w
  BY <1>4 DEF D
<1>9. \A f \in Files : D[f] = C[f] /\ ReadAsStarted(f) => ReadAsStarted(f)'
  BY <1>8 DEF ReadAsStarted, C
<1>10. LoadOK'
  <2>1. CASE w.pc \notin Loading
    BY <1>8, <2>1 DEF LoadOK
  <2>2. CASE w.pc \in Loading /\ torn' = 0
    <3>1. torn = 0 /\ n = 0
      BY <1>1, <1>4, <2>2
    <3>2. \A f \in Files : ReadAsStarted(f)'
      BY <1>2, <1>3, <1>9, <2>2, <3>1 DEF LoadOK
    <3> QED BY <1>8, <2>2, <3>2 DEF LoadOK
  <2>3. CASE w.pc \in Loading /\ torn' = 1 /\ torn = 1
    <3>1. n = 0
      BY <1>1, <1>4, <2>3
    <3>2. PICK g \in Files : /\ \A f \in Files \ {g} : ReadAsStarted(f)
                             /\ g < w.next => w.read[g] \in {w.start[g], C[g]}
      BY <2>3 DEF LoadOK, C
    <3>3. \A f \in Files \ {g} : ReadAsStarted(f)'
      BY <1>2, <1>3, <1>9, <3>1, <3>2
    <3>4. g < w'.next => w'.read[g] \in {w'.start[g], Contribution(disk')[g]}
      BY <1>2, <1>3, <1>8, <3>1, <3>2
    <3> QED BY <1>8, <2>3, <3>3, <3>4 DEF LoadOK
  <2>4. CASE w.pc \in Loading /\ torn' = 1 /\ torn # 1
    <3>1. torn = 0 /\ n = 1
      BY <1>1, <1>4, <2>4
    <3>2. PICK g \in Files : \A f \in Files \ {g} : d[f] = disk[f]
      BY <1>2, <3>1
    <3>3. \A f \in Files : ReadAsStarted(f)
      BY <2>4, <3>1 DEF LoadOK
    <3>4. \A f \in Files \ {g} : ReadAsStarted(f)'
      BY <1>3, <1>9, <3>2, <3>3
    <3>5. g < w'.next => w'.read[g] \in {w'.start[g], Contribution(disk')[g]}
      BY <1>8, <3>3 DEF ReadAsStarted
    <3> QED BY <1>8, <2>4, <3>4, <3>5 DEF LoadOK
  <2>5. CASE w.pc \in Loading /\ torn' # 0 /\ torn' # 1
    BY <1>8, <2>5 DEF LoadOK
  <2> QED BY <2>1, <2>2, <2>3, <2>4, <2>5
<1> QED BY <1>7, <1>10 DEF Typed

\* A request that moves keeps what it validated, or validates it now.
LEMMA EditMoves ==
    ASSUME Typed, EditOK, NEW e \in Editors, NEW r \in Editor, ed' = [ed EXCEPT ![e] = r],
           r.pc \in {"truncate", "write"} => Valid([r.copy EXCEPT ![r.file] = r.content])
    PROVE  ed' \in [Editors -> Editor] /\ EditOK'
<1>1. ed' \in [Editors -> Editor] /\ ed'[e] = r /\ \A x \in Editors \ {e} : ed'[x] = ed[x]
  BY DEF Typed
<1>2. ASSUME NEW x \in Editors, ed'[x].pc \in {"truncate", "write"}
      PROVE  Valid([ed'[x].copy EXCEPT ![ed'[x].file] = ed'[x].content])
  <2>1. CASE x = e
    BY <1>1, <1>2, <2>1
  <2>2. CASE x # e
    BY <1>1, <1>2, <2>2 DEF EditOK, Overlay
  <2> QED BY <2>1, <2>2
<1>3. EditOK'
  BY <1>2 DEF EditOK, Overlay
<1> QED BY <1>1, <1>3

LEMMA SaveKeeps ==
    ASSUME ReloadInv, NEW e \in Editors,
           \/ \E f \in Files, c \in Contents : SaveBegin(e, f, c)
           \/ SaveCopy(e) \/ SaveValidate(e) \/ SaveTruncate(e) \/ SaveWrite(e) \/ SaveFails(e)
    PROVE  ReloadInv'
<1>1. Typed /\ TypeOK /\ LoadOK /\ EditOK /\ ed[e] \in Editor
  BY DEF ReloadInv, Typed
<1>2. Ready \in Editor /\ Ready.pc = "idle"
  BY <1>1, NothingTree DEF Typed
<1>3. ASSUME NEW r \in Editor, ed' = [ed EXCEPT ![e] = r],
             r.pc \in {"truncate", "write"} => Valid([r.copy EXCEPT ![r.file] = r.content]),
             UNCHANGED <<disk, served, w, events, timer, debounced, changes, touched, torn>>
      PROVE  ReloadInv'
  <2>1. ed' \in [Editors -> Editor] /\ EditOK'
    BY <1>1, <1>3, EditMoves
  <2>2. TypeOK'
    BY <1>1, <1>3, <2>1 DEF TypeOK
  <2> QED BY <1>1, <1>3, <2>1, <2>2, LoadStays DEF ReloadInv, Typed
<1>4. ASSUME NEW f \in Files, NEW c \in Contents, SaveBegin(e, f, c) PROVE ReloadInv'
  <2> DEFINE r == [Ready EXCEPT !.pc = "copy", !.file = f, !.content = c]
  <2>1. r \in Editor /\ r.pc = "copy"
    BY <1>2 DEF Editor
  <2>2. ed' = [ed EXCEPT ![e] = r] /\ UNCHANGED <<disk, served, w, events, timer, debounced, changes, touched, torn>>
    BY <1>4 DEF SaveBegin
  <2> HIDE DEF r
  <2> QED BY <1>3, <2>1, <2>2
<1>5. CASE SaveCopy(e)
  <2> DEFINE m == ed[e].next
             y == [ed[e].copy EXCEPT ![m] = Contribution(disk)[m]]
             r == [ed[e] EXCEPT !.copy = y, !.next = m + 1]
  <2>1. ed[e].pc = "copy" /\ m \in Files /\ m + 1 \in 1..NumFiles + 1
    BY <1>1, <1>5, ReloadAssumption DEF SaveCopy, Editor, Files
  <2>2. Contribution(disk) \in Tree /\ ed[e].copy \in Tree
    BY <1>1, ContributionTree DEF TypeOK, Editor
  <2>3. y \in Tree
    BY <2>1, <2>2 DEF Tree
  <2>4. ed' = [ed EXCEPT ![e] = r] /\ UNCHANGED <<disk, served, w, events, timer, debounced, changes, touched, torn>>
    BY <1>1, <1>5 DEF SaveCopy, Typed
  <2> HIDE DEF y
  <2>5. r \in Editor /\ r.pc = "copy"
    BY <1>1, <2>1, <2>3 DEF Editor
  <2> HIDE DEF r
  <2> QED BY <1>3, <2>4, <2>5
<1>6. CASE SaveValidate(e)
  <2> DEFINE v == [ed[e] EXCEPT !.pc = "truncate", !.next = 1]
             r == IF ValidateEdit(e) THEN v ELSE Ready
  <2>1. ed' = [ed EXCEPT ![e] = r] /\ UNCHANGED <<disk, served, w, events, timer, debounced, changes, touched, torn>>
    BY <1>6 DEF SaveValidate
  <2>2. v \in Editor /\ v.copy = ed[e].copy /\ v.file = ed[e].file /\ v.content = ed[e].content
    <3>1. 1 \in 1..NumFiles + 1
      BY ReloadAssumption
    <3> QED BY <1>1, <3>1 DEF Editor
  <2> HIDE DEF v
  <2>3. CASE ValidateEdit(e)
    <3>1. Valid([v.copy EXCEPT ![v.file] = v.content])
      BY <2>2, <2>3 DEF ValidateEdit, Overlay
    <3>2. ed' = [ed EXCEPT ![e] = v]
      BY <2>1, <2>3
    <3> QED BY <1>3, <2>1, <2>2, <3>1, <3>2
  <2>4. CASE ~ValidateEdit(e)
    <3>1. ed' = [ed EXCEPT ![e] = Ready]
      BY <2>1, <2>4
    <3> QED BY <1>2, <1>3, <2>1, <3>1
  <2> QED BY <2>3, <2>4
<1>7. CASE SaveTruncate(e)
  <2> DEFINE r == [ed[e] EXCEPT !.pc = "write"]
             d == [disk EXCEPT ![ed[e].file] = Empty]
  <2>1. ed[e].pc = "truncate" /\ ed' = [ed EXCEPT ![e] = r] /\ Change(d) /\ UNCHANGED <<served, w, timer, debounced>>
    BY <1>1, <1>7 DEF SaveTruncate, Typed
  <2>2. r \in Editor /\ r.copy = ed[e].copy /\ r.file = ed[e].file /\ r.content = ed[e].content
    BY <1>1 DEF Editor
  <2>3. d \in [Files -> Contents \cup {Empty, Absent}]
    BY <1>1 DEF TypeOK
  <2>4. Valid([ed[e].copy EXCEPT ![ed[e].file] = ed[e].content])
    BY <1>1, <2>1 DEF EditOK, Overlay
  <2> HIDE DEF r, d
  <2>5. Valid([r.copy EXCEPT ![r.file] = r.content])
    BY <2>2, <2>4
  <2>6. ed' \in [Editors -> Editor] /\ EditOK'
    BY <1>1, <2>1, <2>2, <2>5, EditMoves
  <2> QED BY <1>1, <2>1, <2>3, <2>6, ChangeKeeps DEF ReloadInv
<1>8. CASE SaveWrite(e)
  <2> DEFINE d == [disk EXCEPT ![ed[e].file] = ed[e].content]
  <2>1. ed' = [ed EXCEPT ![e] = Ready] /\ Change(d) /\ UNCHANGED <<served, w, timer, debounced>>
    BY <1>8 DEF SaveWrite
  <2>2. d \in [Files -> Contents \cup {Empty, Absent}]
    BY <1>1 DEF TypeOK, Editor
  <2> HIDE DEF d
  <2>3. ed' \in [Editors -> Editor] /\ EditOK'
    BY <1>1, <1>2, <2>1, EditMoves
  <2> QED BY <1>1, <2>1, <2>2, <2>3, ChangeKeeps DEF ReloadInv
<1>9. CASE SaveFails(e)
  BY <1>2, <1>3, <1>9 DEF SaveFails
<1> QED BY <1>4, <1>5, <1>6, <1>7, <1>8, <1>9

LEMMA ReloadNext == ReloadInv /\ [Next]_vars => ReloadInv'
<1> SUFFICES ASSUME ReloadInv, [Next]_vars PROVE ReloadInv'
  OBVIOUS
<1>1. CASE UNCHANGED vars
  <2>1. Typed'
    BY <1>1 DEF vars, ReloadInv, Typed, TypeOK
  <2> QED BY <1>1, <2>1, LoadStays, EditStays DEF vars, ReloadInv
<1>2. ASSUME NEW d \in [Files -> Contents \cup {Absent}], ExternalChange(d) PROVE ReloadInv'
  <2>1. d \in [Files -> Contents \cup {Empty, Absent}]
    OBVIOUS
  <2>2. Change(d) /\ UNCHANGED <<served, w, timer, debounced, ed>>
    BY <1>2 DEF ExternalChange
  <2>3. ed' \in [Editors -> Editor] /\ EditOK'
    BY <2>2, EditStays DEF ReloadInv, Typed
  <2> QED BY <2>1, <2>2, <2>3, ChangeKeeps DEF ReloadInv
<1> QED BY <1>1, <1>2, WatcherKeeps, SaveKeeps DEF Next

-----------------------------------------------------------------------------
(* The theorems.                                                           *)

\* Every reachable state has the types of the directory, the snapshot, the
\* watcher's variables and the requests'.
THEOREM ReloadTypes == Spec => []TypeOK
<1>1. ReloadInv => TypeOK
  BY DEF ReloadInv, Typed
<1> QED BY <1>1, ReloadInit, ReloadNext, PTL DEF Spec

\* A load during which at most one file changed has read the directory as it
\* was when the load began, or as it is now.
THEOREM TornByTwo == Spec => []ServedTreeExisted
<1>1. ReloadInv => ServedTreeExisted
  <2> SUFFICES ASSUME ReloadInv, w.next > NumFiles, torn <= 1
               PROVE  w.read \in {w.start, Contribution(disk)}
    BY DEF ServedTreeExisted
  <2>1. w \in Watcher /\ torn \in Nat /\ w.read \in Tree /\ w.start \in Tree /\ Contribution(disk) \in Tree
    BY ContributionTree DEF ReloadInv, Typed, TypeOK, Watcher
  <2>2. w.pc \in Loading /\ \A f \in Files : f < w.next
    BY <2>1, ReloadAssumption DEF ReloadInv, LoadOK, Watcher, Files
  <2>3. CASE torn = 0
    <3>1. \A f \in Files : w.read[f] = w.start[f]
      BY <2>2, <2>3 DEF ReloadInv, LoadOK, ReadAsStarted
    <3>2. w.read = w.start
      BY <2>1, <3>1 DEF Tree
    <3> QED BY <3>2
  <2>4. CASE torn = 1
    <3>1. PICK g \in Files : /\ \A f \in Files \ {g} : ReadAsStarted(f)
                             /\ w.read[g] \in {w.start[g], Contribution(disk)[g]}
      BY <2>2, <2>4 DEF ReloadInv, LoadOK
    <3>2. \A f \in Files \ {g} : w.read[f] = w.start[f] /\ w.read[f] = Contribution(disk)[f]
      BY <2>2, <3>1 DEF ReadAsStarted
    <3>3. ASSUME w.read[g] = w.start[g] PROVE w.read = w.start
      BY <2>1, <3>2, <3>3 DEF Tree
    <3>4. ASSUME w.read[g] = Contribution(disk)[g] PROVE w.read = Contribution(disk)
      BY <2>1, <3>2, <3>4 DEF Tree
    <3> QED BY <3>1, <3>3, <3>4
  <2>5. torn = 0 \/ torn = 1
    BY <2>1
  <2> QED BY <2>3, <2>4, <2>5
<1> QED BY <1>1, ReloadInit, ReloadNext, PTL DEF Spec

\* A save under which nothing else changed the directory leaves one that loads.
THEOREM SavesLoad == Spec => UndisturbedSaveLoads
<1> DEFINE A == \A e \in Editors :
                  /\ ed[e].pc = "write" /\ ed'[e].pc = "idle" /\ disk' # disk
                  /\ \A f \in Files \ {ed[e].file} : Contribution(disk)[f] = ed[e].copy[f]
                  => Valid(Contribution(disk'))
<1>1. ReloadInv /\ [Next]_vars => [A]_vars
  <2> SUFFICES ASSUME ReloadInv, Next, NEW e \in Editors,
                      ed[e].pc = "write", ed'[e].pc = "idle", disk' # disk,
                      \A f \in Files \ {ed[e].file} : Contribution(disk)[f] = ed[e].copy[f]
               PROVE  Valid(Contribution(disk'))
    OBVIOUS
  <2>1. Typed /\ TypeOK /\ EditOK /\ ed[e] \in Editor /\ ed \in [Editors -> Editor]
    BY DEF ReloadInv, Typed
  <2>2. SaveWrite(e)
    <3>1. ASSUME NEW x \in Editors, SaveTruncate(x) \/ SaveWrite(x)
          PROVE  x = e /\ SaveWrite(e)
      <4>1. CASE x # e
        BY <2>1, <3>1, <4>1 DEF SaveTruncate, SaveWrite
      <4>2. CASE x = e
        BY <3>1, <4>2 DEF SaveTruncate
      <4> QED BY <4>1, <4>2
    <3>2. ASSUME NEW d, ExternalChange(d) PROVE FALSE
      BY <3>2 DEF ExternalChange
    <3>3. ASSUME NEW x \in Editors,
                 \/ \E f \in Files, c \in Contents : SaveBegin(x, f, c)
                 \/ SaveCopy(x) \/ SaveValidate(x) \/ SaveFails(x)
          PROVE  FALSE
      BY <3>3 DEF SaveBegin, SaveCopy, SaveValidate, SaveFails
    <3>4. ~(Start \/ ReadFile \/ ReadFails \/ LoadInitial \/ Watch \/ TakeEvents \/ ReloadBegin \/ ReloadEnd)
      BY DEF Start, ReadFile, ReadFails, LoadInitial, Watch, TakeEvents, ReloadBegin, ReloadEnd
    <3>5. ~Fire /\ ~Crash
      BY DEF Fire, Crash
    <3> QED BY <3>1, <3>2, <3>3, <3>4, <3>5 DEF Next
  <2>3. disk' = [disk EXCEPT ![ed[e].file] = ed[e].content]
    BY <2>2 DEF SaveWrite, Change
  <2>4. /\ disk \in [Files -> Contents \cup {Empty, Absent}] /\ ed[e].copy \in Tree
        /\ ed[e].file \in Files /\ ed[e].content \in Contents
    BY <2>1 DEF TypeOK, Editor
  <2>5. /\ disk' \in [Files -> Contents \cup {Empty, Absent}] /\ disk'[ed[e].file] = ed[e].content
        /\ \A f \in Files \ {ed[e].file} : disk'[f] = disk[f]
    BY <2>3, <2>4
  <2>6. \A f \in Files : Contribution(disk')[f] = Overlay(e)[f]
    <3> SUFFICES ASSUME NEW f \in Files PROVE Contribution(disk')[f] = Overlay(e)[f]
      OBVIOUS
    <3>1. CASE f = ed[e].file
      BY <2>4, <2>5, <3>1, ReloadAssumption DEF Contribution, Overlay, Tree
    <3>2. CASE f # ed[e].file
      <4>1. Contribution(disk')[f] = Contribution(disk)[f]
        BY <2>5, <3>2 DEF Contribution
      <4>2. Overlay(e)[f] = ed[e].copy[f]
        BY <2>4, <3>2 DEF Overlay, Tree
      <4> QED BY <3>2, <4>1, <4>2
    <3> QED BY <3>1, <3>2
  <2>7. Contribution(disk') \in Tree /\ Overlay(e) \in Tree
    BY <2>4, <2>5, ContributionTree DEF Overlay, Tree
  <2>8. Contribution(disk') = Overlay(e)
    BY <2>6, <2>7 DEF Tree
  <2>9. Valid(Overlay(e))
    BY <2>1 DEF EditOK
  <2> QED BY <2>8, <2>9
<1> QED BY <1>1, ReloadInit, ReloadNext, PTL DEF Spec, UndisturbedSaveLoads
=============================================================================

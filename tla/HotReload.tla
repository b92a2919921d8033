----------------------------- MODULE HotReload ------------------------------
(***************************************************************************)
(* The identity directory, the watcher that reloads it, and the admin      *)
(* pages that write to it.                                                 *)
(*                                                                         *)
(* Files are numbered in the order of their paths, in which LoadIdentity   *)
(* reads them, one at a time, while others write.  A file contributes what *)
(* it declares; an empty one, which has no header, and one that is not     *)
(* there contribute nothing.  Valid says whether LoadIdentity accepts what *)
(* it read; a snapshot is known by what was read for it.                   *)
(***************************************************************************)
EXTENDS Naturals, FiniteSets, Sequences

CONSTANTS
    NumFiles,
    Contents,   \* what a file can declare
    Empty,      \* os.WriteFile truncates the file before it writes
    Absent,     \* a path without a file
    Valid(_),   \* what LoadIdentity accepts, of a function from files to contents
    Editors,    \* requests to /admin/config/save
    MaxChanges, \* bound: changes to the directory and crashes of the server
    None        \* no snapshot

VARIABLES
    disk,       \* the identity directory
    served,     \* SnapshotHolder
    w,          \* the local variables of the watcher
    events,     \* fsnotify has events for the watcher
    timer,      \* the debounce timer runs
    debounced,  \* the channel of capacity one
    ed,         \* the local variables of each save request
    changes,    \* changes and crashes so far
    touched,    \* history: a change since the watches were added
    torn        \* history: file changes since the load under way began

vars == <<disk, served, w, events, timer, debounced, ed, changes, touched, torn>>

Files == 1..NumFiles
Tree == [Files -> Contents \cup {Empty}]

ASSUME ReloadAssumption ==
    /\ NumFiles \in Nat \ {0} /\ MaxChanges \in Nat
    /\ Empty \notin Contents /\ Absent \notin Contents \cup {Empty} /\ None \notin Tree
    /\ \A t \in Tree : Valid(t) \in BOOLEAN

\* What the files contribute.
Contribution(d) == [f \in Files |-> IF d[f] = Absent THEN Empty ELSE d[f]]

Nothing == [f \in Files |-> Empty]

\* next: the file to read; listed: yamlFilesUnder; start: the directory when
\* the load began (history).
Watcher == [pc : {"down", "loading", "loaded", "watching", "reloading", "deaf"}, next : 1..NumFiles + 1,
            listed : SUBSET Files, read : Tree, start : Tree]
Down == [pc |-> "down", next |-> 1, listed |-> {}, read |-> Nothing, start |-> Nothing]

Editor == [pc : {"idle", "copy", "truncate", "write"}, next : 1..NumFiles + 1,
           file : Files, content : Contents, copy : Tree]

TypeOK ==
    /\ disk \in [Files -> Contents \cup {Empty, Absent}]
    /\ served \in Tree \cup {None}
    /\ w \in Watcher
    /\ {events, timer, debounced, touched} \subseteq BOOLEAN
    /\ \A e \in Editors : ed[e] \in Editor
    /\ changes \in 0..MaxChanges
    /\ torn \in Nat

Ready == [pc |-> "idle", next |-> 1, file |-> 1, content |-> CHOOSE c \in Contents : TRUE, copy |-> Nothing]

Init ==
    /\ disk \in [Files -> Contents]
    /\ Valid(disk)
    /\ served = None
    /\ w = Down
    /\ events = FALSE /\ timer = FALSE /\ debounced = FALSE
    /\ ed = [e \in Editors |-> Ready]
    /\ changes = 0
    /\ touched = FALSE
    /\ torn = 0

-----------------------------------------------------------------------------
(* The directory.                                                          *)

\* The watches are inotify's: a change is queued if they have been added.
Change(d) ==
    /\ changes < MaxChanges
    /\ disk' = d
    /\ changes' = changes + 1
    /\ events' = (events \/ w.pc \in {"watching", "reloading"})
    /\ touched' = (touched \/ w.pc \in {"watching", "reloading"})
    /\ torn' = IF w.pc \in {"loading", "reloading"}
               THEN torn + Cardinality({f \in Files : d[f] # disk[f]}) ELSE 0

\* A ConfigMap swap, or any other tool that replaces files.
ExternalChange(d) ==
    /\ d # disk
    /\ Change(d)
    /\ UNCHANGED <<served, w, timer, debounced, ed>>

-----------------------------------------------------------------------------
(* /admin/config/save.                                                     *)

\* The server takes requests once it has loaded the directory; only a file that
\* LoadIdentity would read can be saved.
SaveBegin(e, f, c) ==
    /\ ed[e].pc = "idle"
    /\ w.pc \notin {"down", "loading"}
    /\ disk[f] \in Contents
    /\ ed' = [ed EXCEPT ![e] = [Ready EXCEPT !.pc = "copy", !.file = f, !.content = c]]
    /\ UNCHANGED <<disk, served, w, events, timer, debounced, changes, touched, torn>>

\* copyDirTree, file by file.
SaveCopy(e) ==
    /\ ed[e].pc = "copy"
    /\ ed[e].next <= NumFiles
    /\ ed' = [ed EXCEPT ![e].copy[ed[e].next] = Contribution(disk)[ed[e].next], ![e].next = @ + 1]
    /\ UNCHANGED <<disk, served, w, events, timer, debounced, changes, touched, torn>>

Overlay(e) == [ed[e].copy EXCEPT ![ed[e].file] = ed[e].content]

\* Wrong variant: the new content is validated on its own.
ValidateEdit_FileOnly(e) == Valid([Nothing EXCEPT ![ed[e].file] = ed[e].content])

\* validateEdit: the scratch copy with the new content.
ValidateEdit(e) == Valid(Overlay(e))

SaveValidate(e) ==
    /\ ed[e].pc = "copy"
    /\ ed[e].next > NumFiles
    /\ ed' = [ed EXCEPT ![e] = IF ValidateEdit(e) THEN [@ EXCEPT !.pc = "truncate", !.next = 1] ELSE Ready]
    /\ UNCHANGED <<disk, served, w, events, timer, debounced, changes, touched, torn>>

\* os.WriteFile opens the file with O_TRUNC ...
SaveTruncate(e) ==
    /\ ed[e].pc = "truncate"
    /\ Change([disk EXCEPT ![ed[e].file] = Empty])
    /\ ed' = [ed EXCEPT ![e].pc = "write"]
    /\ UNCHANGED <<served, w, timer, debounced>>

\* ... and writes.
SaveWrite(e) ==
    /\ ed[e].pc = "write"
    /\ Change([disk EXCEPT ![ed[e].file] = ed[e].content])
    /\ ed' = [ed EXCEPT ![e] = Ready]
    /\ UNCHANGED <<served, w, timer, debounced>>

\* A write that fails leaves what it had done.
SaveFails(e) ==
    /\ ed[e].pc \in {"truncate", "write"}
    /\ ed' = [ed EXCEPT ![e] = Ready]
    /\ UNCHANGED <<disk, served, w, events, timer, debounced, changes, touched, torn>>

-----------------------------------------------------------------------------
(* Loading.                                                                *)

\* yamlFilesUnder.
LoadBegin(pc) ==
    /\ w' = [Down EXCEPT !.pc = pc, !.listed = {f \in Files : disk[f] # Absent},
                         !.start = Contribution(disk)]
    /\ torn' = 0

\* Wrong variant: a path without a file is read all the same.
ReadFile_Unlisted ==
    /\ w.pc \in {"loading", "reloading"}
    /\ w.next <= NumFiles
    /\ w' = [w EXCEPT !.next = @ + 1, !.read[w.next] = disk[w.next]]
    /\ UNCHANGED <<disk, served, events, timer, debounced, ed, changes, touched, torn>>

\* Wrong variant: a file that is empty keeps what it contributed before.
ReadFile_KeepsOld ==
    /\ w.pc \in {"loading", "reloading"}
    /\ w.next <= NumFiles
    /\ w.next \in w.listed => disk[w.next] # Absent
    /\ w' = [w EXCEPT !.next = @ + 1,
                      !.read[w.next] = IF disk[w.next] \in Contents \/ served = None
                                       THEN Contribution(disk)[w.next] ELSE served[w.next]]
    /\ UNCHANGED <<disk, served, events, timer, debounced, ed, changes, touched, torn>>

ReadFile ==
    /\ w.pc \in {"loading", "reloading"}
    /\ w.next <= NumFiles
    /\ w.next \in w.listed => disk[w.next] # Absent
    /\ w' = [w EXCEPT !.next = @ + 1,
                      !.read[w.next] = IF w.next \in w.listed THEN disk[w.next] ELSE Empty]
    /\ UNCHANGED <<disk, served, events, timer, debounced, ed, changes, touched, torn>>

\* A file that was listed has gone: LoadIdentity fails.
ReadFails ==
    /\ w.pc \in {"loading", "reloading"}
    /\ w.next <= NumFiles
    /\ w.next \in w.listed /\ disk[w.next] = Absent
    /\ w' = [Down EXCEPT !.pc = IF w.pc = "loading" THEN "down" ELSE "watching"]
    /\ torn' = 0
    /\ UNCHANGED <<disk, served, events, timer, debounced, ed, changes, touched>>

-----------------------------------------------------------------------------
(* The server's start, and Watcher.Run.                                    *)

Start ==
    /\ w.pc = "down"
    /\ LoadBegin("loading")
    /\ UNCHANGED <<disk, served, events, timer, debounced, ed, changes, touched>>

\* LoadInitial: an invalid directory is fatal.
LoadInitial ==
    /\ w.pc = "loading"
    /\ w.next > NumFiles
    /\ \/ /\ Valid(w.read)
          /\ served' = w.read
          /\ w' = [Down EXCEPT !.pc = "loaded"]
       \/ /\ ~Valid(w.read)
          /\ w' = Down
          /\ UNCHANGED served
    /\ torn' = 0
    /\ UNCHANGED <<disk, events, timer, debounced, ed, changes, touched>>

\* addRecursive.  Its failure is logged, and the server runs on without it.
Watch ==
    /\ w.pc = "loaded"
    /\ \E pc \in {"watching", "deaf"} : w' = [Down EXCEPT !.pc = pc]
    /\ UNCHANGED <<disk, served, events, timer, debounced, ed, changes, touched, torn>>

\* The timer is started, or started again.
TakeEvents ==
    /\ w.pc = "watching"
    /\ events
    /\ events' = FALSE
    /\ timer' = TRUE
    /\ UNCHANGED <<disk, served, w, debounced, ed, changes, touched, torn>>

\* The timer's own goroutine; a full channel is left as it is.
Fire ==
    /\ timer
    /\ timer' = FALSE
    /\ debounced' = TRUE
    /\ UNCHANGED <<disk, served, w, events, ed, changes, touched, torn>>

ReloadBegin ==
    /\ w.pc = "watching"
    /\ debounced
    /\ debounced' = FALSE
    /\ LoadBegin("reloading")
    /\ UNCHANGED <<disk, served, events, timer, ed, changes, touched>>

\* Wrong variant: the events of a reload's own time are drained after it.
ReloadEnd_Drains ==
    /\ w.pc = "reloading"
    /\ w.next > NumFiles
    /\ served' = IF Valid(w.read) THEN w.read ELSE served
    /\ w' = [Down EXCEPT !.pc = "watching"]
    /\ events' = FALSE
    /\ torn' = 0
    /\ UNCHANGED <<disk, timer, debounced, ed, changes, touched>>

\* An invalid directory keeps the last-good snapshot, and so does one with the
\* same source hash.
ReloadEnd ==
    /\ w.pc = "reloading"
    /\ w.next > NumFiles
    /\ served' = IF Valid(w.read) THEN w.read ELSE served
    /\ w' = [Down EXCEPT !.pc = "watching"]
    /\ torn' = 0
    /\ UNCHANGED <<disk, events, timer, debounced, ed, changes, touched>>

\* The server dies, with its watches, its timer and the saves it was serving.
Crash ==
    /\ w.pc # "down"
    /\ changes < MaxChanges
    /\ changes' = changes + 1
    /\ served' = None
    /\ w' = Down
    /\ events' = FALSE /\ timer' = FALSE /\ debounced' = FALSE /\ touched' = FALSE /\ torn' = 0
    /\ ed' = [e \in Editors |-> Ready]
    /\ UNCHANGED disk

-----------------------------------------------------------------------------

\* The goroutine of the server's start, and then of the watcher.
Step == Start \/ ReadFile \/ ReadFails \/ LoadInitial \/ Watch \/ TakeEvents \/ ReloadBegin \/ ReloadEnd

Next ==
    \/ Start \/ ReadFile \/ ReadFails \/ LoadInitial \/ Watch \/ TakeEvents \/ ReloadBegin \/ ReloadEnd
    \/ Fire
    \/ Crash
    \/ \E d \in [Files -> Contents \cup {Absent}] : ExternalChange(d)
    \/ \E e \in Editors :
          \/ \E f \in Files, c \in Contents : SaveBegin(e, f, c)
          \/ SaveCopy(e) \/ SaveValidate(e) \/ SaveTruncate(e) \/ SaveWrite(e) \/ SaveFails(e)

\* The watcher's goroutine and the timer run; nobody has to save anything.
Spec == Init /\ [][Next]_vars /\ WF_vars(Step) /\ WF_vars(Fire)

-----------------------------------------------------------------------------
(* Properties.                                                             *)

\* When at most one file changed while a load read them one by one, what it
\* read was on disk before the change or is after it: a snapshot is torn only
\* by two changes within one load.
ServedTreeExisted ==
    w.next > NumFiles /\ torn <= 1 => w.read \in {w.start, Contribution(disk)}

\* A save that nothing else changed the directory under leaves a directory
\* that loads: it was validated with all the other files.
UndisturbedSaveLoads ==
    [][\A e \in Editors :
          /\ ed[e].pc = "write" /\ ed'[e].pc = "idle" /\ disk' # disk
          /\ \A f \in Files \ {ed[e].file} : Contribution(disk)[f] = ed[e].copy[f]
          => Valid(Contribution(disk'))]_vars

\* While the watches stand, the last change is served in the end if it loads,
\* whenever it came: during a reload, between two files it read, or before the
\* events of an earlier one were taken.
LastChangeIsServed ==
    <>[](touched /\ w.pc \in {"watching", "reloading"} /\ Valid(Contribution(disk)) =>
            served = Contribution(disk))
=============================================================================

---------------------------- MODULE DesktopIcons ----------------------------
(***************************************************************************)
(* The icons of the desktop folder (DesktopIconModel) and the trash icon   *)
(* (TrashIconState).  Both run on the shell's GUI thread, which does one   *)
(* thing at a time; other programs change the folder between any two of    *)
(* its system calls.  A file holds the number of the write that made it.   *)
(***************************************************************************)
EXTENDS Integers, FiniteSets, Sequences, SequencesExt, FiniteSetsExt

CONSTANTS
    Names,          \* file names on the desktop, as numbers in sort order
    Folders,        \* those that are folders
    HiddenNames,
    NewName,        \* [kind -> candidates of uniqueName, in order]
    Start,          \* names on the desktop at the start
    MaxCalls,       \* bound: acts of the user
    MaxOutside      \* bound: acts of other programs

ASSUME IconsAssumption ==
    /\ Names \subseteq Nat /\ Folders \subseteq Names /\ HiddenNames \subseteq Names
    /\ \E last \in Names : \A n \in Names : n <= last
    /\ DOMAIN NewName \subseteq {"file", "folder", "shortcut"}
    /\ NewName \in [DOMAIN NewName -> Seq(Names)]
    /\ Start \subseteq Names \ {0} /\ MaxCalls \in Nat /\ MaxOutside \in Nat

Dir == -1           \* the folder itself, among the things watched
Missing == 0        \* content of a file that is gone when it is read

VARIABLES
    desk,           \* [names in the folder -> content]
    there,          \* the folder exists
    trash,          \* contents in Trash/files
    entries,        \* icons shown: <<name, content>>
    showHidden,
    watched,        \* paths in the QFileSystemWatcher ...
    dead,           \* ... those whose inode is gone
    notices,        \* notifications not yet delivered
    gui,            \* what the GUI thread is doing
    trashWatch,     \* the trash icon's watch: "on", "dead" or "off"
    trashNotice, itemCount,
    writes,         \* contents made so far
    calls, outside,
    forgone,        \* history: contents that other programs deleted, or put under
                    \* a name between a check of it here and the act; emptied trash
    missed          \* history: files written between their reading and their watch

folder == <<desk, there, watched, dead, notices>>
trashIcon == <<trashWatch, trashNotice, itemCount>>
history == <<forgone, missed>>
iconVars == <<folder, trash, entries, showHidden, gui, trashIcon, writes, calls, outside, history>>

visible(n) == showHidden' \/ n \notin HiddenNames
before(a, b) == (a \in Folders /\ b \notin Folders) \/ ((a \in Folders <=> b \in Folders) /\ a < b)
InOrder(S) == {s \in SetToSeqs(S) : \A i, j \in DOMAIN s : i < j => before(s[i], s[j])}

Idle == [pc |-> "idle", todo |-> <<>>, rows |-> <<>>, name |-> 0, data |-> 0]
Scanning(S) == {[Idle EXCEPT !.pc = "read", !.todo = s] : s \in InOrder(S)}

\* The constructors: the folder is made if needed, watched and scanned.
IconsInit ==
    /\ desk = [n \in Start |-> n] /\ there = TRUE /\ trash = {}
    /\ entries = <<>> /\ showHidden = FALSE
    /\ watched = {Dir} /\ dead = {} /\ notices = {}
    /\ gui \in Scanning(Start \ HiddenNames)
    /\ trashWatch = "on" /\ trashNotice = FALSE /\ itemCount = 0
    /\ writes = Max(Names) /\ calls = 0 /\ outside = 0
    /\ forgone = {} /\ missed = {}

-----------------------------------------------------------------------------
(* External: what the system does with the folder.                         *)

Live(x) == x \in watched /\ x \notin dead

\* The folder's content becomes f; names in gone have lost their inode,
\* those in edited were written in place.
becomes(f, gone, edited) ==
    /\ desk' = f
    /\ dead' = dead \cup (gone \cap watched)
    /\ notices' = notices
          \cup {n \in gone \cup edited : Live(n)}
          \cup (IF Live(Dir) /\ (gone # {} \/ DOMAIN f # DOMAIN desk) THEN {Dir} ELSE {})
    /\ UNCHANGED <<there, watched>>

with(n, c) == [m \in DOMAIN desk \cup {n} |-> IF m = n THEN c ELSE desk[m]]
without(n) == [m \in DOMAIN desk \ {n} |-> desk[m]]

intoTrash(c) ==
    /\ trash' = trash \cup {c}
    /\ trashNotice' = (trashNotice \/ trashWatch = "on")
    /\ UNCHANGED <<trashWatch, itemCount>>

-----------------------------------------------------------------------------
(* Scanning.                                                               *)

\* A missing folder empties the list and leaves it unwatched.  A file that is
\* gone is no longer watched, and its notification is dropped.
scanDirectory(w, d, ns) ==
    IF ~there
    THEN entries' = <<>> /\ gui' = Idle /\ watched' = w /\ dead' = d /\ notices' = ns
    ELSE LET stale == w \ ({Dir} \cup DOMAIN desk) IN
         /\ watched' = {Dir} \cup (w \ stale) /\ dead' = d \ stale /\ notices' = ns \ stale
         /\ gui' \in Scanning({n \in DOMAIN desk : visible(n)})
         /\ UNCHANGED entries

\* entryFromInfo and parseDesktopFile read the file.
readEntry ==
    LET n == Head(gui.todo)
        c == IF n \in DOMAIN desk THEN desk[n] ELSE Missing
    IN  /\ gui.pc = "read" /\ gui.todo # <<>>
        /\ gui' = [gui EXCEPT !.pc = "watch", !.rows = Append(@, <<n, c>>)]
        /\ missed' = missed \ {n}
        /\ UNCHANGED <<folder, trash, entries, showHidden, trashIcon, writes, calls, outside, forgone>>

\* Mutant: files are not watched, only the folder.
watchEntry_FolderOnly ==
    /\ gui.pc = "watch"
    /\ gui' = [gui EXCEPT !.pc = "read", !.todo = Tail(@)]
    /\ UNCHANGED <<folder, trash, entries, showHidden, trashIcon, writes, calls, outside, history>>

watchEntry ==
    LET n == Head(gui.todo) IN
    /\ gui.pc = "watch"
    /\ gui' = [gui EXCEPT !.pc = "read", !.todo = Tail(@)]
    /\ watched' = watched \cup ({n} \cap (DOMAIN desk \ Folders))
    /\ UNCHANGED <<desk, there, dead, notices, trash, entries, showHidden, trashIcon, writes,
                   calls, outside, history>>

endScan ==
    /\ gui.pc = "read" /\ gui.todo = <<>>
    /\ entries' = gui.rows /\ gui' = Idle
    /\ UNCHANGED <<folder, trash, showHidden, trashIcon, writes, calls, outside, history>>

\* onDirectoryChanged and onFileChanged.  QFileSystemWatcher first forgets a
\* path that is gone, and says nothing of one it no longer has.
onChanged(x) ==
    /\ gui = Idle /\ x \in notices
    /\ UNCHANGED <<desk, there, trash, showHidden, trashIcon, writes, calls, outside, history>>
    /\ IF x \in watched
       THEN scanDirectory(watched \ (dead \cap {x}), dead \ {x}, notices \ {x})
       ELSE notices' = notices \ {x} /\ UNCHANGED <<watched, dead, entries, gui>>

-----------------------------------------------------------------------------
(* The user.                                                               *)

call == gui = Idle /\ calls < MaxCalls /\ calls' = calls + 1

refresh ==
    /\ call /\ UNCHANGED <<desk, there, trash, showHidden, trashIcon, writes, outside, history>>
    /\ scanDirectory(watched, dead, notices)

setShowHidden ==
    /\ call /\ showHidden' = ~showHidden
    /\ UNCHANGED <<desk, there, trash, trashIcon, writes, outside, history>>
    /\ scanDirectory(watched, dead, notices)

\* n is the first candidate that is free.
uniqueName(kind, n) ==
    \E i \in DOMAIN NewName[kind] :
        /\ n = NewName[kind][i] /\ n \notin DOMAIN desk
        /\ \A j \in 1..(i - 1) : NewName[kind][j] \in DOMAIN desk

\* createFolder, createFile and createShortcut find a name (fewer than the
\* ten thousand that are tried are taken), ...
create(kind) ==
    /\ call
    /\ \E n \in Names : uniqueName(kind, n) /\ gui' = [Idle EXCEPT !.pc = kind, !.name = n]
    /\ UNCHANGED <<folder, trash, entries, showHidden, trashIcon, writes, outside, history>>

\* ... and make it.  mkpath makes the desktop folder too and accepts a folder
\* that is there; opening a file for writing truncates it.
makeNew ==
    /\ gui.pc \in DOMAIN NewName /\ gui' = Idle
    /\ \/ /\ there /\ ~(gui.pc = "folder" /\ gui.name \in DOMAIN desk)
          /\ becomes(with(gui.name, writes + 1), {}, {gui.name} \cap DOMAIN desk)
          /\ writes' = writes + 1
       \/ /\ ~there /\ gui.pc = "folder" /\ there' = TRUE
          /\ desk' = with(gui.name, writes + 1) /\ UNCHANGED <<watched, dead, notices>>
          /\ writes' = writes + 1
       \/ /\ there => gui.pc = "folder" /\ gui.name \in DOMAIN desk
          /\ ~there => gui.pc # "folder"
          /\ UNCHANGED <<folder, writes>>
    /\ UNCHANGED <<trash, entries, showHidden, trashIcon, calls, outside, history>>

\* renameEntry: the check, then QFile::rename, which never overwrites.
renameEntry(row, new) ==
    /\ call /\ row \in DOMAIN entries
    /\ new \notin DOMAIN desk \/ new = entries[row][1]
    /\ gui' = [Idle EXCEPT !.pc = "rename", !.name = entries[row][1], !.data = new]
    /\ UNCHANGED <<folder, trash, entries, showHidden, trashIcon, writes, outside, history>>

rename ==
    /\ gui.pc = "rename" /\ gui' = Idle
    /\ IF gui.name \notin DOMAIN desk \/ gui.data \in DOMAIN desk THEN UNCHANGED folder
       ELSE LET c == desk[gui.name]
                f == [m \in (DOMAIN desk \ {gui.name}) \cup {gui.data} |->
                         IF m = gui.data THEN c ELSE desk[m]]
            IN  becomes(f, {gui.name}, {})
    /\ UNCHANGED <<trash, entries, showHidden, trashIcon, writes, calls, outside, history>>

\* trashEntry takes the path of a row ...
trashEntry(row) ==
    /\ call /\ row \in DOMAIN entries
    /\ gui' = [Idle EXCEPT !.pc = "gio", !.name = entries[row][1]]
    /\ UNCHANGED <<folder, trash, entries, showHidden, trashIcon, writes, outside, history>>

\* ... and moveToTrash moves it in one step: gio does, before or after the
\* ten seconds it is given, or QFile::rename does.
moveToTrash ==
    /\ gui.pc \in {"gio", "rename to trash"} /\ gui.name \in DOMAIN desk
    /\ becomes(without(gui.name), {gui.name}, {})
    /\ intoTrash(desk[gui.name])
    /\ \/ gui' = Idle
       \/ gui.pc = "gio" /\ gui' = [gui EXCEPT !.pc = "rename to trash"]
    /\ UNCHANGED <<entries, showHidden, writes, calls, outside, history>>

\* gio is missing, fails or is killed; then rename fails.
trashStepFails ==
    /\ gui.pc \in {"gio", "rename to trash"}
    /\ gui' = [gui EXCEPT !.pc = IF gui.pc = "gio" THEN "rename to trash" ELSE "copy"]
    /\ UNCHANGED <<folder, trash, entries, showHidden, trashIcon, writes, calls, outside, history>>

\* Mutant: the original is removed whether or not it was copied.
copyToTrash_Anyway ==
    /\ gui.pc = "copy"
    /\ \/ gui.name \in DOMAIN desk /\ intoTrash(desk[gui.name])
       \/ UNCHANGED <<trash, trashIcon>>
    /\ gui' = [gui EXCEPT !.pc = "remove"]
    /\ UNCHANGED <<folder, entries, showHidden, writes, calls, outside, history>>

copyToTrash ==
    /\ gui.pc = "copy"
    /\ \/ /\ gui.name \in DOMAIN desk /\ intoTrash(desk[gui.name])
          /\ gui' = [gui EXCEPT !.pc = "remove", !.data = desk[gui.name]]
       \/ gui' = Idle /\ UNCHANGED <<trash, trashIcon>>
    /\ UNCHANGED <<folder, entries, showHidden, writes, calls, outside, history>>

removeCopied ==
    /\ gui.pc = "remove" /\ gui' = Idle
    /\ IF gui.name \in DOMAIN desk THEN becomes(without(gui.name), {gui.name}, {}) \/ UNCHANGED folder
       ELSE UNCHANGED folder
    /\ UNCHANGED <<trash, entries, showHidden, trashIcon, writes, calls, outside, history>>

-----------------------------------------------------------------------------
(* The trash icon.                                                         *)

\* Mutant: the count is taken when the trash is emptied, not on a change.
onTrashChanged_NoRescan ==
    /\ gui = Idle /\ trashNotice /\ trashNotice' = FALSE
    /\ trashWatch' = IF trashWatch = "dead" THEN "off" ELSE trashWatch
    /\ UNCHANGED <<folder, trash, entries, showHidden, gui, itemCount, writes, calls, outside, history>>

onTrashChanged ==
    /\ gui = Idle /\ trashNotice /\ trashNotice' = FALSE
    /\ trashWatch' = IF trashWatch = "dead" THEN "off" ELSE trashWatch
    /\ itemCount' = Cardinality(trash)
    /\ UNCHANGED <<folder, trash, entries, showHidden, gui, writes, calls, outside, history>>

\* rm -rf takes the watched directory along; mkpath makes a new one that
\* nobody watches.  It may also fail after removing a part.
emptyTrash ==
    /\ call
    /\ \/ trash' = {} /\ trashWatch' = IF trashWatch = "on" THEN "dead" ELSE trashWatch
       \/ trash' \in SUBSET trash \ {{}} /\ UNCHANGED trashWatch
    /\ trashNotice' = (trashNotice \/ trashWatch = "on")
    /\ itemCount' = Cardinality(trash')
    /\ forgone' = forgone \cup (trash \ trash')
    /\ UNCHANGED <<folder, entries, showHidden, gui, writes, outside, missed>>

-----------------------------------------------------------------------------
(* External: other programs.                                               *)

another == outside < MaxOutside /\ outside' = outside + 1

\* Between the check of name n and the act on it.
exposed(n) == gui.name = n /\ gui.pc \in {"file", "shortcut", "remove"}

\* A file is created, written in place or replaced by another.
put(n, how) ==
    /\ another /\ there
    /\ how = "create" <=> n \notin DOMAIN desk
    /\ how # "create" => n \notin Folders
    /\ writes' = writes + 1
    /\ becomes(with(n, writes + 1), IF how = "replace" THEN {n} ELSE {}, IF how = "write" THEN {n} ELSE {})
    /\ forgone' = forgone \cup (IF how = "create" THEN {} ELSE {desk[n]})
                          \cup (IF exposed(n) THEN {writes + 1} ELSE {})
    /\ missed' = missed \cup (IF gui.pc = "watch" /\ Head(gui.todo) = n /\ ~Live(n) /\ how = "write"
                             THEN {n} ELSE {})
    /\ UNCHANGED <<trash, entries, showHidden, gui, trashIcon, calls>>

delete(n) ==
    /\ another /\ n \in DOMAIN desk
    /\ becomes(without(n), {n}, {})
    /\ forgone' = forgone \cup {desk[n]}
    /\ UNCHANGED <<trash, entries, showHidden, gui, trashIcon, writes, calls, missed>>

\* The folder itself is removed, with what is in it, or made again.
removeFolder ==
    /\ another /\ there /\ there' = FALSE
    /\ desk' = [n \in {} |-> 0]
    /\ dead' = watched
    /\ notices' = notices \cup {x \in watched : Live(x)}
    /\ forgone' = forgone \cup Range(desk)
    /\ UNCHANGED <<trash, entries, showHidden, watched, gui, trashIcon, writes, calls, missed>>

makeFolder ==
    /\ another /\ ~there /\ there' = TRUE
    /\ UNCHANGED <<desk, watched, dead, notices, trash, entries, showHidden, gui, trashIcon, writes, calls, history>>

-----------------------------------------------------------------------------
Scan == readEntry \/ watchEntry \/ endScan
Step == makeNew \/ rename \/ moveToTrash \/ trashStepFails \/ copyToTrash \/ removeCopied
Notify == (\E x \in Names \cup {Dir} : onChanged(x)) \/ onTrashChanged

User ==
    \/ refresh \/ setShowHidden \/ emptyTrash
    \/ \E kind \in DOMAIN NewName : create(kind)
    \/ \E row \in DOMAIN entries : trashEntry(row) \/ \E n \in Names : renameEntry(row, n)

Others ==
    \/ \E n \in Names : delete(n) \/ \E how \in {"create", "write", "replace"} : put(n, how)
    \/ removeFolder \/ makeFolder

IconsNext == Scan \/ Step \/ Notify \/ User \/ Others

IconsSpec == IconsInit /\ [][IconsNext]_iconVars

\* The GUI thread does not stop while a handler is unfinished or a
\* notification waits.
IconsFairSpec == IconsSpec /\ WF_iconVars(Scan \/ Step \/ Notify)

-----------------------------------------------------------------------------
(* Properties.                                                             *)

\* Every variable has its type.
IconsTypeOK ==
    /\ DOMAIN desk \subseteq Names /\ there \in BOOLEAN /\ (~there => DOMAIN desk = {})
    /\ Range(desk) \subseteq 1..writes /\ trash \subseteq 1..writes
    /\ entries \in Seq(Names \X (0..writes)) /\ showHidden \in BOOLEAN
    /\ watched \subseteq Names \cup {Dir} /\ notices \subseteq Names \cup {Dir}
    /\ dead \subseteq Names \cup {Dir}
    /\ trashWatch \in {"on", "dead", "off"} /\ trashNotice \in BOOLEAN /\ itemCount \in Nat
    /\ forgone \subseteq 1..writes /\ missed \subseteq Names

\* A watch whose file or folder is gone has its notification on the way, so
\* the next scan watches again: the pair of a dropped watch and a name that
\* exists again is never the resting state (scanDirectory, QFileSystemWatcher).
DeadIsReported == dead \subseteq watched \cap notices

\* What was ever written to the desktop is on the desktop or in the trash,
\* whichever steps of a rename, a creation or a move to the trash fail or are
\* cut short, unless another program removed it, put it under a name that a
\* call here had just found free or copied, or the trash was emptied.
NothingLost == (Start \cup (Max(Names) + 1)..writes) \subseteq Range(desk) \cup trash \cup forgone

\* Once the changes stop, the icons are those of the folder, with the content
\* last written, as long as the folder is watched: replaced files are watched
\* again (onDirectoryChanged, onFileChanged, scanDirectory).  The exception
\* is a file written between its reading and its watch.
IconsFollow ==
    <>[](Dir \in watched =>
           /\ {r[1] : r \in ToSet(entries)} = {n \in DOMAIN desk : showHidden \/ n \notin HiddenNames}
           /\ \A r \in ToSet(entries) : r[2] = desk[r[1]] \/ r[1] \in missed)

\* The trash icon follows the trash as long as its directory is watched, that
\* is until the trash is first emptied (TrashIconState.cpp).
TrashIconFollows == <>[](trashWatch = "on" => itemCount = Cardinality(trash))

\* Files and watches are accounted for.
DesktopKept == IconsTypeOK /\ DeadIsReported /\ NothingLost
=============================================================================

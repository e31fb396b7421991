---------------------------- MODULE FileOperations ----------------------------
(***************************************************************************)
(* The operations of the Files application on a directory tree.  copy,     *)
(* move, delete_ and duplicate run on Qt's thread pool, any number at a    *)
(* time and without a lock; one system call is one step, and any of them   *)
(* may fail.  rename, createFolder and createFile run on the GUI thread.   *)
(* A path is a sequence of names, its first the device; a name <<b, i>> is *)
(* the i-th variant ("b (i)", "b (copy i)") of b.  A symbolic link is an   *)
(* entry whose content is one of Links; it is followed once, and what lies *)
(* behind it is named by its own path.  Names that FileListing has too     *)
(* begin with Ops: FilesProofs extends both modules.                       *)
(***************************************************************************)
EXTENDS Naturals, Sequences, SequencesExt, FiniteSets, FiniteSetsExt

CONSTANTS
    Bases,          \* names without their variant
    Jobs,           \* calls that run on the pool
    Requests,       \* the calls the user may make: <<kind, source, destination>>
    Hidden,         \* names that begin with a dot
    Tree,           \* the tree at the start: [paths -> content]
    LinkTo,         \* [contents of links -> the path they lead to]
    Trash,          \* path of Trash/files, on the home device
    MaxErrors,      \* bound: system calls that fail
    MaxVariants,    \* bound: names tried before an existing one is taken
    MaxDepth,       \* bound: names in a path (the system's path limit)
    MaxLinks        \* bound: links followed on one path (the system's limit)

Dir == 0            \* content of a directory; 1: empty file; 2, ...: data, links
Empty == 1
Links == DOMAIN LinkTo
Pool == {"copy", "move", "duplicate", "trash", "delete"}
Paths == Seq(Bases \X Nat) \ {<<>>}
Under(p, q) == IsPrefix(p, q)                   \* q is p or inside p
Above(p) == {SubSeq(p, 1, n) : n \in 1..(Len(p) - 1)}

ASSUME TreeAssumption ==
    /\ Tree \in [DOMAIN Tree -> Nat] /\ IsFiniteSet(DOMAIN Tree) /\ DOMAIN Tree \subseteq Paths
    /\ \A p \in DOMAIN Tree : \A q \in Above(p) : q \in DOMAIN Tree /\ Tree[q] = Dir
    /\ LinkTo \in [Links -> Paths] /\ Links \subseteq Nat \ {Dir, Empty}
    /\ Hidden \subseteq Bases \X Nat /\ Trash \in Paths
    /\ Requests \subseteq (Pool \cup {"rename", "createFolder", "createFile"}) \X Paths \X (Paths \cup {<<>>})
    /\ {MaxErrors, MaxVariants, MaxDepth, MaxLinks} \subseteq Nat

VARIABLES
    fs,             \* [existing paths -> content]
    job,            \* per call: what it is doing
    errors,
    forfeited       \* history: data deleted for good, truncated, or put where
                    \* another call copies and then deletes

opsVars == <<fs, job, errors, forfeited>>

IsDir(p) == p \in DOMAIN fs /\ fs[p] = Dir
Name(p) == Last(p)
Folder(p) == Front(p)
Inside(p) == {q \in DOMAIN fs : Under(p, q)}
Children(f, p) == {q \in DOMAIN f : Len(q) = Len(p) + 1 /\ Under(p, q)}
Device(p) == p[1]
Data == {Tree[p] : p \in DOMAIN Tree} \ ({Dir, Empty} \cup Links)
Present == {fs[p] : p \in DOMAIN fs}

\* What p names: QFileInfo follows a link.  A link to a link counts as broken.
Target(f, p) == IF p \in DOMAIN f /\ f[p] \in Links THEN LinkTo[f[p]] ELSE p
OpsExists(p) == Target(fs, p) \in DOMAIN fs /\ fs[Target(fs, p)] \notin Links

\* entryInfoList: neither hidden entries nor broken links.
Shown(f, p) == {q \in Children(f, p) : Name(q) \notin Hidden /\ (f[q] \in Links => LinkTo[f[q]] \in DOMAIN f)}
Entries(f, p) == SetToSeq(Shown(f, p))

\* p is s, or found in s by listing folder after folder.
Plain(s, p) == Under(s, p) /\ \A i \in (Len(s) + 1)..Len(p) : p[i] \notin Hidden

\* A subtree, by paths relative to its root; what a listing shows of it, but
\* for links.
Relative(f, s) == {<<SubSeq(p, Len(s) + 1, Len(p)), f[p]>> : p \in {q \in DOMAIN f : Under(s, q)}}
Listed(f, s) ==
    {<<SubSeq(p, Len(s) + 1, Len(p)), f[p]>> : p \in {q \in DOMAIN f : Plain(s, q) /\ f[q] \notin Links}}

None == [kind |-> "none", src |-> <<>>, dst |-> <<>>, to |-> <<>>, step |-> "none",
         todo |-> <<>>, after |-> "none", result |-> "none", lone |-> TRUE, was |-> {}]

OpsInit ==
    /\ fs = Tree /\ job = [j \in Jobs |-> None] /\ errors = 0 /\ forfeited = {}

-----------------------------------------------------------------------------
(* The system calls (external): Qt refuses to overwrite in copy and rename, *)
(* moves files but not directories between devices.                         *)

CanCreate(p) == p \notin DOMAIN fs /\ IsDir(Folder(p)) /\ Len(p) <= MaxDepth

CanRename(s, d) ==
    /\ OpsExists(s) /\ CanCreate(d) /\ ~Under(s, d)
    /\ Device(s) = Device(d) \/ ~IsDir(Target(fs, s))

\* mkpath: p and what is missing above it, unless a file is in the way.
CanMake(p) == p # <<>> /\ Len(p) <= MaxDepth /\ \A q \in Above(p) \cup {p} : q \in DOMAIN fs => IsDir(q)
Made(p) == [q \in DOMAIN fs \cup Above(p) \cup {p} |-> IF q \in DOMAIN fs THEN fs[q] ELSE Dir]

\* The tree after s has become d.
Renamed(s, d) ==
    LET moved(p) == IF Under(d, p) THEN s \o SubSeq(p, Len(d) + 1, Len(p)) ELSE p
        new == {d \o SubSeq(p, Len(s) + 1, Len(p)) : p \in Inside(s)}
    IN  [p \in (DOMAIN fs \ Inside(s)) \cup new |-> fs[moved(p)]]

\* A file is carried to another device: what a link leads to takes its place.
Carried(s, d) == [p \in (DOMAIN fs \ {s}) \cup {d} |-> IF p = d THEN fs[Target(fs, s)] ELSE fs[p]]

qtRename(s, d) ==
    CanRename(s, d) /\ fs' = IF Device(s) = Device(d) THEN Renamed(s, d) ELSE Carried(s, d)

Added(p, c) == [q \in DOMAIN fs \cup {p} |-> IF q = p THEN c ELSE fs[q]]
Removed(p) == [q \in DOMAIN fs \ {p} |-> fs[q]]

\* The first variant of a name that is free in directory d.
Unique(d, b, first) ==
    LET free == {i \in first..MaxVariants : Append(d, <<b, i>>) \notin DOMAIN fs}
    IN  Append(d, <<b, IF free = {} THEN MaxVariants ELSE Min(free)>>)

-----------------------------------------------------------------------------
(* A call on the pool.                                                     *)

\* A call overlaps another when both have begun and neither has ended.
running(k) == job[k].step \notin {"none", "done"}

Goto(j, r) == job' = [job EXCEPT ![j] = r]

ended(j, ok) == [job[j] EXCEPT !.step = "done", !.todo = <<>>,
                               !.result = IF ok THEN "ok" ELSE "failed"]

end(j, ok) == Goto(j, ended(j, ok))

\* Data that call j leaves in paths where a call will delete what is there:
\* another one, or j itself when it found no free name and copies into a
\* folder above its source.
expose(j, paths) ==
    forfeited' = forfeited \cup
        {fs'[p] : p \in {q \in paths : \E k \in Jobs :
                            /\ job[k].after = "delete" /\ running(k) /\ Under(job[k].src, q)
                            /\ k = j => Under(job[k].to, job[k].src)}}

\* A call enters as r; the calls that are under way are no longer alone.
enter(j, r) ==
    /\ job[j] = None
    /\ job' = [k \in Jobs |-> IF k = j THEN r
                             ELSE [job[k] EXCEPT !.lone = @ /\ ~running(k)]]

begin(j, r) ==
    /\ enter(j, [None EXCEPT !.kind = r[1], !.src = r[2], !.dst = r[3], !.step = "start",
                             !.lone = ~\E k \in Jobs : running(k), !.was = Listed(fs, r[2])])
    /\ UNCHANGED <<fs, errors, forfeited>>

resolveDestination(s, d) == IF IsDir(Target(fs, d)) THEN Append(Target(fs, d), Name(s)) ELSE d

\* isDir() as a QFileInfo remembers it.
kindOf(f, p) ==
    IF Target(f, p) \in DOMAIN f /\ f[Target(f, p)] = Dir THEN "dir" ELSE "file"

\* A pool thread takes the call up: what happens before the first change.
starts(j, kind, r) ==
    /\ job[j].step = "start" /\ job[j].kind = kind
    /\ Goto(j, r) /\ UNCHANGED <<fs, errors, forfeited>>

copyTo(j, d) == [job[j] EXCEPT !.step = "copying", !.dst = d, !.to = d,
                               !.todo = <<<<job[j].src, d, kindOf(fs, job[j].src)>>>>, !.after = "end"]

copy(j) ==
    starts(j, "copy", IF OpsExists(job[j].src)
                      THEN copyTo(j, resolveDestination(job[j].src, job[j].dst))
                      ELSE ended(j, FALSE))

move(j) ==
    LET target == resolveDestination(job[j].src, job[j].dst)
    IN  starts(j, "move", [job[j] EXCEPT !.step = "rename", !.after = "trash",
                                         !.dst = target, !.to = target])

duplicate(j) ==
    starts(j, "duplicate", copyTo(j, Unique(Folder(job[j].src), Name(job[j].src)[1], 1)))

\* performDelete: nothing to delete is a success.
delete_(j) ==
    LET s == job[j].src
    IN  \/ starts(j, "trash", IF OpsExists(s) THEN [job[j] EXCEPT !.step = "trash"] ELSE ended(j, TRUE))
        \/ starts(j, "delete", IF OpsExists(s) THEN [job[j] EXCEPT !.step = "deleting",
                                                                !.todo = <<<<s, kindOf(fs, s)>>>>]
                               ELSE ended(j, TRUE))

\* QFile::rename, or else a copy that is followed by job.after.
tryRename(j) ==
    LET r == job[j]
    IN  /\ r.step = "rename"
        /\ \/ /\ qtRename(r.src, r.to) /\ end(j, TRUE)
              /\ expose(j, DOMAIN fs' \ DOMAIN fs) /\ UNCHANGED errors
           \/ /\ ~CanRename(r.src, r.to) \/ errors < MaxErrors
              /\ errors' = IF CanRename(r.src, r.to) THEN errors + 1 ELSE errors
              /\ Goto(j, [r EXCEPT !.step = "copying", !.todo = <<<<r.src, r.to, kindOf(fs, r.src)>>>>])
              /\ UNCHANGED <<fs, forfeited>>

\* gio moves the source away, or does so and is killed for being slow, or
\* does nothing; then the fallback makes the trash and picks a free name for
\* the move by hand.
moveToTrash(j) ==
    LET r == job[j]
        target == Unique(Trash, Name(r.src)[1], 0)
        trashed == /\ r.src \in DOMAIN fs /\ CanCreate(target) /\ ~Under(r.src, target)
                   /\ fs' = Renamed(r.src, target) /\ expose(j, DOMAIN fs' \ DOMAIN fs)
    IN  /\ r.step = "trash"
        /\ \/ trashed /\ end(j, TRUE) /\ UNCHANGED errors
           \/ /\ errors < MaxErrors /\ errors' = errors + 1 /\ end(j, FALSE)
              /\ \/ trashed
                 \/ r.src \notin DOMAIN fs /\ UNCHANGED <<fs, forfeited>>
           \/ /\ fs' = IF CanMake(Trash) THEN Made(Trash) ELSE fs
              /\ Goto(j, [r EXCEPT !.step = "rename", !.to = target, !.after = "delete"])
              /\ UNCHANGED <<errors, forfeited>>

\* Mutant: an existing file is replaced.
copyFile_Over(s, d) == OpsExists(s) /\ IsDir(Folder(d)) /\ fs' = Added(d, fs[Target(fs, s)])

copyFile(s, d) == OpsExists(s) /\ CanCreate(d) /\ fs' = Added(d, fs[Target(fs, s)])

\* The copy is complete: performDelete or performRecursiveDelete follows.
copied(j) ==
    \/ job[j].after = "end" /\ end(j, TRUE)
    \/ job[j].after = "trash" /\ OpsExists(job[j].src) /\ Goto(j, [job[j] EXCEPT !.step = "trash"])
    \/ job[j].after = "trash" /\ ~OpsExists(job[j].src) /\ end(j, TRUE)
    \/ /\ job[j].after = "delete"
       /\ Goto(j, [job[j] EXCEPT !.step = "deleting", !.todo = <<<<job[j].src, "dir">>>>])

\* One entry of performRecursiveCopy: a directory is created and its entries
\* are listed, a file is copied.  What the entry is was read with the list.
copyEntry(j) ==
    LET r == job[j]
        s == Head(r.todo)[1]
        d == Head(r.todo)[2]
        as == Head(r.todo)[3]
        copies(list) == [i \in DOMAIN list |-> <<list[i], Append(d, Name(list[i])), kindOf(fs', list[i])>>]
    IN  /\ r.step = "copying" /\ r.todo # <<>>
        /\ \/ /\ as = "dir" /\ IsDir(Target(fs, s)) /\ CanMake(d) /\ fs' = Made(d)
              /\ Goto(j, [r EXCEPT !.todo = copies(Entries(fs', Target(fs, s))) \o Tail(@)])
              /\ UNCHANGED <<errors, forfeited>>
           \/ /\ as = "file" /\ ~IsDir(Target(fs, s)) /\ copyFile(s, d)
              /\ Goto(j, [r EXCEPT !.todo = Tail(@)])
              /\ expose(j, {d}) /\ UNCHANGED errors

\* Mutant: the entry is skipped.
copyFails_Skips(j) ==
    /\ job[j].step = "copying" /\ job[j].todo # <<>> /\ errors < MaxErrors
    /\ errors' = errors + 1 /\ Goto(j, [job[j] EXCEPT !.todo = Tail(@)])
    /\ UNCHANGED <<fs, forfeited>>

\* The call fails and leaves what it has copied so far.
copyFails(j) ==
    LET s == Head(job[j].todo)[1]
        d == Head(job[j].todo)[2]
        as == Head(job[j].todo)[3]
        possible == \/ as = "dir" /\ IsDir(Target(fs, s)) /\ CanMake(d)
                    \/ as = "file" /\ ~IsDir(Target(fs, s)) /\ OpsExists(s) /\ CanCreate(d)
    IN  /\ job[j].step = "copying" /\ job[j].todo # <<>>
        /\ ~possible \/ errors < MaxErrors
        /\ errors' = IF possible THEN errors + 1 ELSE errors
        /\ end(j, FALSE) /\ UNCHANGED <<fs, forfeited>>

copyDone(j) ==
    /\ job[j].step = "copying" /\ job[j].todo = <<>>
    /\ copied(j) /\ UNCHANGED <<fs, errors, forfeited>>

\* One entry of performRecursiveDelete, or QFile::remove of a single file.
\* A path that is no directory (any more) where one is expected counts as
\* deleted: so does a plain file after moveToTrash has copied it.  A link to a
\* directory is a directory: what it leads to is emptied, and the link stays.
deleteEntry(j) ==
    LET r == job[j]
        p == Head(r.todo)[1]
        as == Head(r.todo)[2]
        listable == /\ IsDir(Target(fs, p))
                    /\ IsDir(p) \/ Cardinality({i \in DOMAIN r.todo : r.todo[i][2] = "link"}) < MaxLinks
        list == Entries(fs, Target(fs, p))
        next(todo) == Goto(j, [r EXCEPT !.todo = todo])
    IN  /\ r.step = "deleting" /\ r.todo # <<>> /\ UNCHANGED errors
        /\ \/ as = "dir" /\ ~listable /\ next(Tail(r.todo)) /\ UNCHANGED fs
           \/ /\ as = "dir" /\ listable /\ UNCHANGED fs
              /\ next([i \in DOMAIN list |-> <<list[i], kindOf(fs, list[i])>>]
                      \o <<<<p, IF IsDir(p) THEN "rmdir" ELSE "link">>>> \o Tail(r.todo))
           \/ as = "file" /\ p \in DOMAIN fs /\ ~IsDir(p) /\ fs' = Removed(p) /\ next(Tail(r.todo))
           \/ as = "rmdir" /\ IsDir(p) /\ Children(fs, p) = {} /\ fs' = Removed(p) /\ next(Tail(r.todo))
        /\ forfeited' = IF r.kind = "delete" \/ ~Plain(r.src, p)
                        THEN forfeited \cup {fs[q] : q \in DOMAIN fs \ DOMAIN fs'} ELSE forfeited

\* remove or rmdir fails: the directory is no longer empty, holds something
\* hidden or is a link, the file is gone.
deleteFails(j) ==
    LET p == Head(job[j].todo)[1]
        as == Head(job[j].todo)[2]
        possible == \/ as = "rmdir" /\ IsDir(p) /\ Children(fs, p) = {}
                    \/ as = "file" /\ p \in DOMAIN fs /\ ~IsDir(p)
    IN  /\ job[j].step = "deleting" /\ job[j].todo # <<>> /\ as # "dir"
        /\ ~possible \/ errors < MaxErrors
        /\ errors' = IF possible THEN errors + 1 ELSE errors
        /\ end(j, FALSE) /\ UNCHANGED <<fs, forfeited>>

deleteDone(j) ==
    /\ job[j].step = "deleting" /\ job[j].todo = <<>>
    /\ end(j, TRUE) /\ UNCHANGED <<fs, errors, forfeited>>

-----------------------------------------------------------------------------
(* The calls on the GUI thread.                                            *)

\* rename within the folder; an existing name is refused.
rename(j, r) ==
    /\ r[1] = "rename" /\ enter(j, [None EXCEPT !.kind = r[1], !.step = "done"])
    /\ \/ qtRename(r[2], r[3])
       \/ ~CanRename(r[2], r[3]) /\ UNCHANGED fs
    /\ expose(j, DOMAIN fs' \ DOMAIN fs) /\ UNCHANGED errors

createFolder(j, r) ==
    /\ r[1] = "createFolder" /\ enter(j, [None EXCEPT !.kind = r[1], !.step = "done"])
    /\ fs' = IF CanMake(r[2]) THEN Made(r[2]) ELSE fs
    /\ UNCHANGED <<errors, forfeited>>

\* QIODevice::WriteOnly empties a file that exists, through a link too.
createFile(j, r) ==
    LET p == Target(fs, r[2])
    IN  /\ r[1] = "createFile" /\ enter(j, [None EXCEPT !.kind = r[1], !.step = "done"])
        /\ IsDir(Folder(p)) /\ ~IsDir(p) /\ p = Target(fs, p) /\ fs' = Added(p, Empty)
        /\ forfeited' = forfeited \cup ({fs[q] : q \in DOMAIN fs \cap {p}} \ {Empty})
        /\ UNCHANGED errors

\* Mutant: a finished deletion is not reported.
step_NoDeleteDone(j) ==
    \/ copy(j) \/ move(j) \/ duplicate(j) \/ delete_(j) \/ tryRename(j) \/ moveToTrash(j)
    \/ copyEntry(j) \/ copyFails(j) \/ copyDone(j)
    \/ deleteEntry(j) \/ deleteFails(j)

step(j) ==
    \/ copy(j) \/ move(j) \/ duplicate(j) \/ delete_(j) \/ tryRename(j) \/ moveToTrash(j)
    \/ copyEntry(j) \/ copyFails(j) \/ copyDone(j)
    \/ deleteEntry(j) \/ deleteFails(j) \/ deleteDone(j)

OpsNext ==
    \E j \in Jobs :
        \/ \E r \in Requests :
             \/ r[1] \in Pool /\ begin(j, r)
             \/ rename(j, r) \/ createFolder(j, r) \/ createFile(j, r)
        \/ step(j)

OpsSpec == OpsInit /\ [][OpsNext]_opsVars

\* The pool runs every call it has been given.
OpsFairSpec == OpsSpec /\ \A j \in Jobs : WF_opsVars(step(j))
-----------------------------------------------------------------------------
(* Properties.                                                             *)

\* Types; the tree is closed under parents.
OpsTypeOK ==
    /\ \A p \in DOMAIN fs : Len(p) > 1 => IsDir(Folder(p))
    /\ \A j \in Jobs : job[j].result \in {"none", "ok", "failed"}
    /\ errors \in 0..MaxErrors /\ forfeited \subseteq Nat

\* Whatever calls overlap and wherever they fail, the data of every file is
\* still somewhere in the tree, unless it was deleted for good, truncated by
\* createFile, put into a folder that a call was just moving to the trash by
\* copy and delete, or removed by a call that a link led out of its folder
\* (performRecursiveDelete follows links to folders: see DeletesInside).
NothingLost == Data \subseteq Present \cup forfeited

\* A copy, move or duplicate that reports success, and that no other call
\* overlapped, has brought to the target everything that a listing shows at
\* the source; performRecursiveCopy does not list hidden entries, and brings
\* what a link leads to in its place.  Excepted is a move onto its source or a
\* folder above it, or into a hidden folder inside it: what it brings there is
\* then trashed with the source (performMove).
ArrivesWhole ==
    [][\A j \in Jobs :
         LET r == job'[j] IN
         /\ job[j].result = "none" /\ r.result = "ok" /\ r.lone
         /\ r.kind \in {"copy", "move", "duplicate"}
         /\ r.kind = "move" => ~Under(r.dst, r.src) /\ (Under(r.src, r.dst) => Plain(r.src, r.dst))
         => r.was \subseteq Relative(fs', r.dst)]_opsVars

\* The code does not meet this: a deletion removes nothing outside its source.
\* A link to a folder in it is followed.
DeletesInside ==
    [][\A j \in Jobs : deleteEntry(j) => \A p \in DOMAIN fs \ DOMAIN fs' : Under(job[j].src, p)]_opsVars

\* Every call ends, a copy of a folder into itself included: it stops at the
\* length limit for paths.
CallsEnd == \A j \in Jobs : job[j].step = "start" ~> job[j].step = "done"

\* The tree stays a tree, and keeps everything.
TreeKept == OpsTypeOK /\ NothingLost
=============================================================================

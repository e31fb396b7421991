---------------------------- MODULE FileListing ----------------------------
(***************************************************************************)
(* The directory list of the Files application: FileModel loads a          *)
(* directory on Qt's thread pool and shows it filtered and sorted,         *)
(* FileSystemWatcher collects change notifications and asks for a reload   *)
(* when they pause for 300 ms, SearchIndexer searches below the directory  *)
(* shown.  All but the load and the search themselves runs on the GUI      *)
(* thread.  The disk belongs to everybody.                                 *)
(***************************************************************************)
EXTENDS Naturals, FiniteSets, Sequences, SequencesExt

CONSTANTS
    Dirs, Names,
    Parent,         \* [Dirs -> Dirs], the root its own parent
    NameOf,         \* [Dirs -> Names]: a directory is an entry of its parent
    Home,           \* the directory at the start
    NoDir,
    Disk,           \* [Dirs -> SUBSET Names] at the start
    Volatile,       \* entries <<d, n>> that come and go
    HiddenNames,
    Queries,        \* what can be typed to search for
    Filters,        \* name filters
    Passes,         \* [Queries -> SUBSET Names]: the names that contain it
    Key,            \* [Columns -> [Names -> Nat]]: order in a sort column
    MaxMoves,       \* bound: acts of the user
    MaxChanges      \* bound: changes of the disk

NoText == ""    \* an empty filter or search field

ASSUME ListingAssumption ==
    /\ Home \in Dirs /\ NoDir \notin Dirs
    /\ Parent \in [Dirs -> Dirs] /\ NameOf \in [Dirs -> Names]
    /\ IsFiniteSet(Dirs) /\ IsFiniteSet(Names)
    /\ Disk \in [Dirs -> SUBSET Names] /\ Volatile \subseteq Dirs \X Names
    /\ \A d \in Dirs : Parent[d] = d \/ NameOf[d] \in Disk[Parent[d]] \/ Disk[d] = {}
    /\ NoText \in Filters /\ Filters \subseteq Queries
    /\ Passes \in [Queries -> SUBSET Names] /\ Passes[NoText] = Names
    /\ "name" \in DOMAIN Key
    /\ MaxMoves \in Nat /\ MaxChanges \in Nat

VARIABLES
    disk,
    currentPath, showHidden, nameFilter, sortColumn, sortOrder,
    entries,        \* the rows shown: <<directory, name>>
    loading,
    load,           \* the load that the QFutureWatcher watches
    watchedPath,    \* the watcher's path ...
    watching,       \* ... and the directories the system really watches
    notices,        \* notifications on their way to the GUI thread
    pendingDirs, debounce,
    since,          \* history: listings of currentPath since the last request
    searchText, searchTimer, searchActive,
    search,         \* the search that SearchIndexer's QFutureWatcher watches
    results,        \* searchResults of the popup, and of which search they are
    wanted,         \* history: the last search asked for
    moves, changes

settings == <<showHidden, nameFilter, sortColumn, sortOrder>>
watch == <<watchedPath, watching, notices, pendingDirs, debounce>>
searching == <<searchText, searchTimer, searchActive, search, results, wanted>>
vars == <<disk, currentPath, settings, entries, loading, load, watch, since, searching, moves, changes>>

IsRoot(d) == Parent[d] = d
exists(d) == IsRoot(d) \/ NameOf[d] \in disk[Parent[d]]

\* The directories at and below d: they are in every set that holds d and,
\* with a directory, those directly in it.
Below(d) ==
    {e \in Dirs : \A S \in SUBSET Dirs :
        d \in S /\ (\A c \in Dirs : ~IsRoot(c) /\ Parent[c] \in S => c \in S) => e \in S}

Folders == {NameOf[d] : d \in {e \in Dirs : ~IsRoot(e)}}

Idle == [path |-> NoDir, state |-> "idle", result |-> {}]
Running(p) == [path |-> p, state |-> "running", result |-> {}]

NoSearch == [of |-> <<NoDir, NoText>>, state |-> "idle", result |-> {}]
Searching(q) == [of |-> <<currentPath, q>>, state |-> "running", result |-> {}]
NoResults == [of |-> <<NoDir, NoText>>, rows |-> {}]

\* main.cpp sets the home directory before it connects the model to the
\* watcher: the first directory is loaded but not watched.
Init ==
    /\ disk = Disk /\ currentPath = Home
    /\ showHidden = FALSE /\ nameFilter = NoText /\ sortColumn = "name" /\ sortOrder = "ascending"
    /\ entries = <<>> /\ loading = TRUE /\ load = Running(Home)
    /\ watchedPath = NoDir /\ watching = {} /\ notices = {} /\ pendingDirs = {} /\ debounce = FALSE
    /\ since = {Disk[Home]} /\ moves = 0 /\ changes = 0
    /\ searchText = NoText /\ searchTimer = FALSE /\ searchActive = FALSE
    /\ search = NoSearch /\ results = NoResults /\ wanted = NoResults.of

-----------------------------------------------------------------------------
(* Loading and showing.                                                    *)

\* Mutant: no second load while one is running.
startDirectoryLoad_IfIdle(p) ==
    /\ load' = IF loading THEN load ELSE Running(p)
    /\ loading' = TRUE
    /\ since' = {disk[p]}

\* The future that was watched before is abandoned with its result.
startDirectoryLoad(p) ==
    /\ load' = Running(p)
    /\ loading' = TRUE
    /\ since' = {disk[p]}

refresh == startDirectoryLoad(currentPath')

loadDirectory ==
    /\ load.state = "running"
    /\ load' = [load EXCEPT !.state = "finished",
                            !.result = IF exists(load.path) THEN disk[load.path] ELSE {}]
    /\ UNCHANGED <<disk, currentPath, settings, entries, loading, watch, since, searching, moves, changes>>

\* The comparison of sortEntries.
less(a, b, column, order) ==
    LET ka == Key[column][a[2]]  kb == Key[column][b[2]]
    IN  \/ a[2] \in Folders /\ b[2] \notin Folders
        \/ /\ a[2] \in Folders <=> b[2] \in Folders
           /\ IF order = "ascending" THEN ka < kb ELSE ka > kb

Sorted(s, column, order) == \A i, j \in DOMAIN s : i < j => ~less(s[j], s[i], column, order)

\* std::sort leaves equal rows in any order.
sortEntries(rows) ==
    entries' \in {s \in SetToSeqs(rows) : Sorted(s, sortColumn', sortOrder')}

\* The settings are those of now, not those of the request.
onDirectoryLoaded ==
    /\ load.state = "finished"
    /\ UNCHANGED settings
    /\ sortEntries({load.path} \X
          {n \in load.result \cap Passes[nameFilter] : showHidden \/ n \notin HiddenNames})
    /\ loading' = FALSE /\ load' = Idle
    /\ UNCHANGED <<disk, currentPath, watch, since, searching, moves, changes>>

-----------------------------------------------------------------------------
(* The user.                                                               *)

act == moves < MaxMoves /\ moves' = moves + 1

setWatchedPath(p) ==
    /\ watchedPath' = p
    /\ IF p = watchedPath THEN UNCHANGED <<watching, notices>>
       ELSE /\ watching' = {d \in {p} : exists(d)}
            /\ notices' = notices \ {watchedPath}
    /\ UNCHANGED <<pendingDirs, debounce>>

\* currentPathChanged reaches the watcher before the load is started.
setCurrentPath(p) ==
    /\ p # currentPath
    /\ currentPath' = p
    /\ setWatchedPath(p)
    /\ refresh
    /\ UNCHANGED <<disk, settings, entries, changes>>

\* What the places, the history and the path bar ask for with a call of
\* setCurrentPath (FileModel.h offers QML only the property currentPath).
openPath(p) == act /\ setCurrentPath(p) /\ UNCHANGED searching

navigateTo(p) == act /\ exists(p) /\ setCurrentPath(p) /\ UNCHANGED searching

\* In a directory that is gone, this leaves its parent too.
navigateUp ==
    LET dir == IF exists(currentPath) THEN currentPath ELSE Parent[currentPath]
    IN  act /\ exists(dir) /\ setCurrentPath(Parent[dir]) /\ UNCHANGED searching

setNameFilter(f) ==
    /\ act /\ f # nameFilter
    /\ nameFilter' = f /\ UNCHANGED currentPath
    /\ refresh
    /\ UNCHANGED <<disk, showHidden, sortColumn, sortOrder, entries, watch, searching, changes>>

setShowHidden ==
    /\ act
    /\ showHidden' = ~showHidden /\ UNCHANGED currentPath
    /\ refresh
    /\ UNCHANGED <<disk, nameFilter, sortColumn, sortOrder, entries, watch, searching, changes>>

\* setSortColumn and setSortOrder, with applySort.
setSort(column, order) ==
    /\ act
    /\ <<column, order>> \notin {<<sortColumn, sortOrder>>}
    /\ column = sortColumn \/ order = sortOrder
    /\ sortColumn' = column /\ sortOrder' = order
    /\ sortEntries(ToSet(entries))
    /\ UNCHANGED <<disk, currentPath, showHidden, nameFilter, loading, load, watch, since, searching, changes>>

-----------------------------------------------------------------------------
(* The disk and the watcher.                                               *)

\* External: entry n of d is created or removed, a folder with all that is
\* below it; the system reports the directories it watches and forgets one that
\* is removed.
change(d, n) ==
    LET gone == UNION {Below(e) : e \in {c \in Dirs :
                    ~IsRoot(c) /\ Parent[c] = d /\ NameOf[c] = n /\ n \in disk[d]}}
        hit == {d} \cup gone
    IN  /\ changes < MaxChanges /\ changes' = changes + 1
        /\ exists(d)
        /\ disk' = [e \in Dirs |->
              IF e \in gone THEN {}
              ELSE IF e = d THEN (disk[d] \ {n}) \cup ({n} \ disk[d]) ELSE disk[e]]
        /\ notices' = notices \cup (hit \cap watching)
        /\ watching' = watching \ gone
        /\ since' = since \cup {disk'[currentPath]}
        /\ UNCHANGED <<currentPath, settings, entries, loading, load, watchedPath, pendingDirs,
                       debounce, searching, moves>>

onDirectoryChanged(d) ==
    /\ d \in notices /\ notices' = notices \ {d}
    /\ pendingDirs' = pendingDirs \cup {d} /\ debounce' = TRUE
    /\ UNCHANGED <<disk, currentPath, settings, entries, loading, load, watchedPath, watching,
                   since, searching, moves, changes>>

\* Mutant: a notification about another directory keeps the reload away.
onDebounceTimeout_First ==
    /\ debounce /\ debounce' = FALSE
    /\ pendingDirs' = {}
    /\ UNCHANGED <<disk, currentPath, settings, entries, watchedPath, watching, notices, searching, moves, changes>>
    /\ IF pendingDirs = {currentPath} THEN refresh ELSE UNCHANGED <<loading, load, since>>

\* Whatever directory it is about, the model reloads the current one.
onDebounceTimeout ==
    /\ debounce /\ debounce' = FALSE
    /\ pendingDirs' = {}
    /\ UNCHANGED <<disk, currentPath, settings, entries, watchedPath, watching, notices, searching, moves, changes>>
    /\ IF pendingDirs # {} THEN refresh ELSE UNCHANGED <<loading, load, since>>

-----------------------------------------------------------------------------
(* Searching.                                                              *)

\* The field's onTextChanged.
typeQuery(q) ==
    /\ act /\ q # searchText
    /\ searchText' = q /\ searchTimer' = TRUE
    /\ UNCHANGED <<disk, currentPath, settings, entries, loading, load, watch, since, searchActive,
                   search, results, wanted, changes>>

\* Mutant: a search that is still running is left to finish.
startSearch_IfIdle(q) ==
    search' = IF search.state = "running" THEN search ELSE Searching(q)

\* SearchIndexer::search.  The search before is cancelled and waited for;
\* what it found, or has reported but not delivered, goes with its future.
startSearch(q) == search' = Searching(q)

\* SearchIndexer::cancel.  The finished signal of a cancelled search brings
\* no results; that of a search which had ended still does.
cancel == search' = IF search.state = "running" THEN NoSearch ELSE search

onSearchTimer ==
    /\ searchTimer /\ searchTimer' = FALSE
    /\ searchActive' = (searchText # NoText)
    /\ IF searchText # NoText THEN startSearch(searchText) /\ wanted' = <<currentPath, searchText>>
                          ELSE cancel /\ UNCHANGED wanted
    /\ UNCHANGED <<disk, currentPath, settings, entries, loading, load, watch, since, searchText,
                   results, moves, changes>>

\* The names below the root that contain the query, but for hidden ones; a
\* pass over the tree is one step.
performSearch ==
    /\ search.state = "running"
    /\ search' = [search EXCEPT !.state = "finished",
          !.result = UNION {{d} \X ((disk[d] \ HiddenNames) \cap Passes[search.of[2]]) :
                              d \in {e \in Below(search.of[1]) : exists(e)}}]
    /\ UNCHANGED <<disk, currentPath, settings, entries, loading, load, watch, since, searchText,
                   searchTimer, searchActive, results, wanted, moves, changes>>

onResultsFound ==
    /\ search.state = "finished"
    /\ results' = [of |-> search.of, rows |-> search.result]
    /\ search' = NoSearch
    /\ UNCHANGED <<disk, currentPath, settings, entries, loading, load, watch, since, searchText,
                   searchTimer, searchActive, wanted, moves, changes>>

\* A click on a result: a folder is entered, whether it still exists or not.
openResult(e) ==
    LET dirs == {d \in Dirs : ~IsRoot(d) /\ <<Parent[d], NameOf[d]>> = e}
    IN  /\ act
        /\ searchActive /\ e \in results.rows
        /\ \/ \E d \in dirs : setCurrentPath(d)
           \/ /\ dirs \subseteq {currentPath}
              /\ UNCHANGED <<disk, currentPath, settings, entries, loading, load, watch, since, changes>>
        /\ searchText' = NoText /\ searchTimer' = (searchTimer \/ searchText # NoText)
        /\ searchActive' = FALSE
        /\ UNCHANGED <<search, results, wanted>>

-----------------------------------------------------------------------------
User ==
    \/ \E p \in Dirs : openPath(p) \/ navigateTo(p)
    \/ navigateUp
    \/ \E f \in Filters : setNameFilter(f)
    \/ setShowHidden
    \/ \E c \in DOMAIN Key, o \in {"ascending", "descending"} : setSort(c, o)
    \/ \E q \in Queries : typeQuery(q)
    \/ \E e \in Dirs \X Names : openResult(e)

Next ==
    \/ User
    \/ loadDirectory \/ onDirectoryLoaded
    \/ \E e \in Volatile : change(e[1], e[2])
    \/ \E d \in Dirs : onDirectoryChanged(d)
    \/ onDebounceTimeout
    \/ onSearchTimer \/ performSearch \/ onResultsFound

Spec == Init /\ [][Next]_vars

\* The pool runs what it is given, the event loop delivers what is posted,
\* the timer fires.
FairSpec ==
    /\ Spec
    /\ WF_vars(loadDirectory) /\ WF_vars(onDirectoryLoaded)
    /\ WF_vars(\E d \in Dirs : onDirectoryChanged(d)) /\ WF_vars(onDebounceTimeout)

-----------------------------------------------------------------------------
(* Properties.                                                             *)

\* Every variable has its type; no row is shown twice.
TypeOK ==
    /\ disk \in [Dirs -> SUBSET Names] /\ currentPath \in Dirs
    /\ showHidden \in BOOLEAN /\ nameFilter \in Filters
    /\ sortColumn \in DOMAIN Key /\ sortOrder \in {"ascending", "descending"}
    /\ entries \in Seq(Dirs \X Names) /\ Cardinality(ToSet(entries)) = Len(entries)
    /\ loading \in BOOLEAN
    /\ load \in [path : Dirs \cup {NoDir}, state : {"idle", "running", "finished"}, result : SUBSET Names]
    /\ watchedPath \in Dirs \cup {NoDir} /\ watching \subseteq {watchedPath}
    /\ notices \subseteq Dirs /\ pendingDirs \subseteq Dirs /\ debounce \in BOOLEAN
    /\ searchText \in Queries /\ searchTimer \in BOOLEAN /\ searchActive \in BOOLEAN
    /\ search.state \in {"idle", "running", "finished"} /\ results.rows \subseteq Dirs \X Names
    /\ wanted \in (Dirs \cup {NoDir}) \X Queries
    /\ since \subseteq SUBSET Names /\ moves \in Nat /\ changes \in Nat

\* The rows are in the order the header shows, also when the sort column or
\* order changed between a request and its result (setSortColumn,
\* setSortOrder and onDirectoryLoaded).
RowsInOrder == Sorted(entries, sortColumn, sortOrder)

View == INSTANCE DirectoryView WITH
    Settings <- BOOLEAN \X Filters,
    Visible <- LAMBDA s, n : n \in Passes[s[2]] /\ (s[1] \/ n \notin HiddenNames),
    asked <- [dir |-> currentPath, settings |-> <<showHidden, nameFilter>>],
    shown <- ToSet(entries),
    busy <- loading

\* FileModel implements the directory view: while it loads it keeps its
\* rows, and what it then shows is the current directory as it was at some
\* moment since the last request, through the current filter, however many
\* loads were abandoned in between (startDirectoryLoad and
\* onDirectoryLoaded); every load ends.
ImplementsView == View!Spec

\* Once the changes stop, a directory that the system watches is shown as it
\* is: no notification is lost between the load, the move to another
\* directory and the debounce timer (FileSystemWatcher.cpp).
EventuallyFresh ==
    <>[](currentPath \in watching =>
            ToSet(entries) = {currentPath} \X {n \in disk[currentPath] \cap Passes[nameFilter] :
                                                  showHidden \/ n \notin HiddenNames})

\* Results are never those of an earlier search: when the popup may show and
\* no search is under way, they come from the last one the user asked for,
\* however many were cancelled on the way (SearchIndexer::search, cancel).
ResultsOfLastSearch == searchActive /\ search.state = "idle" => results.of = wanted

\* What the window shows fits together: rows that are distinct and in the
\* order of the header, results of the search that was asked for.
WindowConsistent == TypeOK /\ RowsInOrder /\ ResultsOfLastSearch
=============================================================================

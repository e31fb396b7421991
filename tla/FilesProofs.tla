---------------------------- MODULE FilesProofs ----------------------------
(***************************************************************************)
(* Proofs about the two halves of the Files application.                   *)
(*                                                                         *)
(* FileListing, for every directory tree, every sequence of acts and       *)
(* changes: FileModel implements the directory view of module              *)
(* DirectoryView (its safety part), and the window stays consistent.       *)
(*                                                                         *)
(* FileOperations, for every tree, any number of calls and failures: the   *)
(* tree stays a tree and no data is lost (OperationsKeepTree).  The        *)
(* inductive invariant TreeInv follows each content from path to path: a   *)
(* call that is going to delete a path of its source still has to copy it  *)
(* first; what it deletes elsewhere, through a link, is forfeited.         *)
(* WholeInv follows a call that no other overlaps: its success means that  *)
(* what a listing showed at its source is at its target                    *)
(* (SuccessMeansArrived): a deletion that strays through a link fails.     *)
(***************************************************************************)
EXTENDS FileListing, FileOperations, FiniteSetTheorems, SequenceTheorems,
        NaturalsInduction, WellFoundedInduction, TLAPS

-----------------------------------------------------------------------------
(* Rows and directories.                                                   *)

\* A permutation of a finite set of rows shows each of them exactly once.
LEMMA Permutation ==
    ASSUME NEW R, IsFiniteSet(R), NEW s \in SetToSeqs(R)
    PROVE  s \in Seq(R) /\ ToSet(s) = R /\ Len(s) = Cardinality(R)
<1> DEFINE n == Cardinality(R)
<1>1. n \in Nat
  BY FS_CardinalityType
<1>2. s \in [1..n -> R] /\ \A i, j \in 1..n : i # j => s[i] # s[j]
  BY DEF SetToSeqs
<1>3. IsFiniteSet(1..n) /\ Cardinality(1..n) = n
  BY <1>1, FS_Interval
<1> HIDE DEF n
<1>4. s \in Injection(1..n, R)
  BY <1>2 DEF Injection, IsInjective
<1>5. s \in Surjection(1..n, R)
  BY <1>3, <1>4, FS_Injection DEF n
<1>6. \A r \in R : \E i \in 1..n : s[i] = r
  BY <1>5 DEF Surjection
<1>7. s \in Seq(R) /\ DOMAIN s = 1..n /\ Len(s) = n
  BY <1>1, <1>2
<1>8. ToSet(s) = R
  BY <1>2, <1>6, <1>7 DEF ToSet
<1>9. QED
  BY <1>7, <1>8 DEF n

\* Directories below a removed one are removed with it.
LEMMA BelowClosed ==
    ASSUME NEW d \in Dirs
    PROVE  /\ d \in Below(d) /\ Below(d) \subseteq Dirs
           /\ \A c \in Dirs : ~IsRoot(c) /\ Parent[c] \in Below(d) => c \in Below(d)
  BY DEF Below

-----------------------------------------------------------------------------
(* The steps, seen from the list.                                          *)

\* Every path that reloads: a move to another directory, a new filter, the
\* debounce timer.
Reload ==
    /\ startDirectoryLoad(currentPath')
    /\ currentPath' \in Dirs /\ nameFilter' \in Filters
    /\ UNCHANGED <<disk, entries, sortColumn, sortOrder>>

Changes == \E e \in Volatile : change(e[1], e[2])

Resort == \E c \in DOMAIN Key, o \in {"ascending", "descending"} : setSort(c, o)

list == <<disk, currentPath, settings, entries, loading, load, since>>

\* The four ways to another directory.
LEMMA MoveReloads ==
    ASSUME TypeOK, NEW p \in Dirs, setCurrentPath(p)
    PROVE  Reload
  BY DEF TypeOK, setCurrentPath, refresh, startDirectoryLoad, Reload, settings

\* No other kind of step exists.
LEMMA Kinds ==
    ASSUME TypeOK, [Next]_vars
    PROVE  \/ Reload \/ Resort \/ Changes \/ loadDirectory \/ onDirectoryLoaded
           \/ UNCHANGED list
<1>1. CASE User
  <2>1. ASSUME NEW p \in Dirs, openPath(p) \/ navigateTo(p)
        PROVE  Reload
    BY <2>1, MoveReloads DEF openPath, navigateTo
  <2>2. CASE navigateUp
    <3> DEFINE dir == IF exists(currentPath) THEN currentPath ELSE Parent[currentPath]
    <3>1. Parent[dir] \in Dirs
      BY ListingAssumption DEF TypeOK
    <3>2. setCurrentPath(Parent[dir])
      BY <2>2 DEF navigateUp
    <3>3. QED
      BY <3>1, <3>2, MoveReloads
  <2>3. ASSUME NEW f \in Filters, setNameFilter(f)
        PROVE  Reload
    BY <2>3 DEF TypeOK, setNameFilter, refresh, startDirectoryLoad, Reload
  <2>4. CASE setShowHidden
    BY <2>4 DEF TypeOK, setShowHidden, refresh, startDirectoryLoad, Reload
  <2>5. ASSUME NEW q \in Queries, typeQuery(q)
        PROVE  UNCHANGED list
    BY <2>5 DEF typeQuery, list
  <2>6. ASSUME NEW e \in Dirs \X Names, openResult(e)
        PROVE  Reload \/ UNCHANGED list
    BY <2>6, MoveReloads DEF openResult, list
  <2>7. QED
    BY <1>1, <2>1, <2>2, <2>3, <2>4, <2>5, <2>6 DEF User, Resort
<1>2. ASSUME NEW d \in Dirs, onDirectoryChanged(d)
      PROVE  UNCHANGED list
  BY <1>2 DEF onDirectoryChanged, list
<1>3. CASE onDebounceTimeout
  BY <1>3 DEF TypeOK, onDebounceTimeout, refresh, startDirectoryLoad, Reload, list, settings
<1>4. CASE onSearchTimer \/ performSearch \/ onResultsFound \/ UNCHANGED vars
  BY <1>4 DEF onSearchTimer, performSearch, onResultsFound, vars, list
<1>5. QED
  BY <1>1, <1>2, <1>3, <1>4 DEF Next, Changes

-----------------------------------------------------------------------------
(* The list.                                                               *)

\* The load under way is the one last asked for, what it has found was the
\* directory's listing at some moment since then, and a directory that does
\* not exist lists nothing.
ListInv ==
    /\ loading <=> load.state # "idle"
    /\ load.state # "idle" => load.path = currentPath
    /\ load.state = "finished" => load.result \in since
    /\ disk[currentPath] \in since
    /\ \A d \in Dirs : exists(d) \/ disk[d] = {}

\* A change of the disk is seen in every listing taken from now on.
LEMMA ChangeKeeps ==
    ASSUME TypeOK, ListInv, NEW d \in Dirs, NEW n \in Names, change(d, n)
    PROVE  ListInv' /\ disk' \in [Dirs -> SUBSET Names]
<1> DEFINE gone == UNION {Below(e) : e \in {c \in Dirs :
                       ~IsRoot(c) /\ Parent[c] = d /\ NameOf[c] = n /\ n \in disk[d]}}
<1>1. /\ disk' = [e \in Dirs |-> IF e \in gone THEN {}
                    ELSE IF e = d THEN (disk[d] \ {n}) \cup ({n} \ disk[d]) ELSE disk[e]]
      /\ exists(d) /\ UNCHANGED <<currentPath, loading, load>>
      /\ since' = since \cup {disk'[currentPath]}
  BY DEF change
<1>2. \A c \in Dirs : ~IsRoot(c) /\ Parent[c] \in gone => c \in gone
  BY BelowClosed
<1>3. \A c \in Dirs : ~IsRoot(c) /\ Parent[c] = d /\ NameOf[c] = n /\ n \in disk[d] => c \in gone
  BY BelowClosed
<1> HIDE DEF gone
<1>4. disk \in [Dirs -> SUBSET Names] /\ currentPath \in Dirs /\ Parent \in [Dirs -> Dirs]
  BY ListingAssumption DEF TypeOK
<1>5. disk' \in [Dirs -> SUBSET Names]
  BY <1>1, <1>4
<1>6. ASSUME NEW e \in Dirs, ~exists(e)'
      PROVE  disk'[e] = {}
  <2>1. ~IsRoot(e) /\ NameOf[e] \notin disk'[Parent[e]]
    BY <1>6 DEF exists, IsRoot
  <2>2. CASE e \in gone
    BY <1>1, <2>2
  <2>3. CASE e \notin gone
    <3>1. Parent[e] \in Dirs /\ Parent[e] \notin gone
      BY <1>2, <1>4, <2>1, <2>3
    <3>2. ~exists(e)
      BY <1>1, <1>3, <2>1, <2>3, <3>1 DEF exists
    <3>3. e # d /\ disk[e] = {}
      BY <1>1, <3>2 DEF ListInv
    <3>4. QED
      BY <1>1, <2>3, <3>3
  <2>4. QED
    BY <2>2, <2>3
<1>7. QED
  BY <1>1, <1>5, <1>6 DEF ListInv

\* Asking again, the load on the pool, and its result.
LEMMA ListStep ==
    ASSUME TypeOK, ListInv, [Next]_vars
    PROVE  ListInv'
<1>1. CASE Reload
  BY <1>1 DEF Reload, startDirectoryLoad, Running, ListInv, exists
<1>2. CASE Resort
  BY <1>2 DEF Resort, setSort, ListInv, exists
<1>3. CASE Changes
  BY <1>3, ChangeKeeps, ListingAssumption DEF Changes
<1>4. CASE loadDirectory
  BY <1>4 DEF loadDirectory, ListInv, exists, TypeOK
<1>5. CASE onDirectoryLoaded
  BY <1>5 DEF onDirectoryLoaded, Idle, ListInv, exists
<1>6. CASE UNCHANGED list
  BY <1>6 DEF list, ListInv, exists
<1>7. QED
  BY <1>1, <1>2, <1>3, <1>4, <1>5, <1>6, Kinds

-----------------------------------------------------------------------------
(* The refinement.                                                         *)

\* The flags of the view and of the search field.
Flags ==
    /\ showHidden \in BOOLEAN /\ loading \in BOOLEAN /\ debounce \in BOOLEAN
    /\ searchTimer \in BOOLEAN /\ searchActive \in BOOLEAN

\* Every step leaves them flags.
LEMMA FlagsStep == Flags /\ [Next]_vars => Flags'
<1> SUFFICES ASSUME Flags, [Next]_vars
             PROVE  Flags'
  OBVIOUS
<1> USE DEF Flags, settings, watch, searching, setCurrentPath, setWatchedPath, refresh,
            startDirectoryLoad
<1>1. ASSUME NEW p, setCurrentPath(p)
      PROVE  showHidden' \in BOOLEAN /\ loading' \in BOOLEAN /\ debounce' \in BOOLEAN
  BY <1>1, Zenon
<1>2. CASE User
  <2>1. ASSUME NEW p \in Dirs, openPath(p) \/ navigateTo(p)
        PROVE  Flags'
    BY <1>1, <2>1, Zenon DEF openPath, navigateTo
  <2>2. CASE navigateUp
    BY <1>1, <2>2, Zenon DEF navigateUp
  <2>3. ASSUME NEW f \in Filters, setNameFilter(f)
        PROVE  Flags'
    BY <2>3, Zenon DEF setNameFilter
  <2>4. CASE setShowHidden
    BY <2>4, Zenon DEF setShowHidden
  <2>5. ASSUME NEW c \in DOMAIN Key, NEW o \in {"ascending", "descending"}, setSort(c, o)
        PROVE  Flags'
    BY <2>5, Zenon DEF setSort
  <2>6. ASSUME NEW q \in Queries, typeQuery(q)
        PROVE  Flags'
    BY <2>6, Zenon DEF typeQuery
  <2>7. ASSUME NEW e \in Dirs \X Names, openResult(e)
        PROVE  Flags'
    <3>1. showHidden' \in BOOLEAN /\ loading' \in BOOLEAN /\ debounce' \in BOOLEAN
      BY <1>1, <2>7, Zenon DEF openResult
    <3>2. searchTimer' \in BOOLEAN /\ searchActive' \in BOOLEAN
      BY <2>7, Zenon DEF openResult
    <3>3. QED
      BY <3>1, <3>2
  <2>8. QED
    BY <1>2, <2>1, <2>2, <2>3, <2>4, <2>5, <2>6, <2>7, Zenon DEF User
<1>3. CASE loadDirectory \/ onDirectoryLoaded
  BY <1>3, Zenon DEF loadDirectory, onDirectoryLoaded
<1>4. ASSUME NEW e \in Volatile, change(e[1], e[2])
      PROVE  Flags'
  BY <1>4, Zenon DEF change
<1>5. ASSUME NEW d \in Dirs, onDirectoryChanged(d)
      PROVE  Flags'
  BY <1>5, Zenon DEF onDirectoryChanged
<1>6. CASE onDebounceTimeout \/ onSearchTimer \/ performSearch \/ onResultsFound
  BY <1>6, Zenon DEF onDebounceTimeout, onSearchTimer, performSearch, onResultsFound
<1>7. CASE UNCHANGED vars
  BY <1>7, Zenon DEF vars
<1>8. QED
  BY <1>2, <1>3, <1>4, <1>5, <1>6, <1>7, Zenon DEF Next

\* What the view is asked for is a directory and settings there are.
LEMMA Question ==
    ASSUME NEW d \in Dirs, NEW h \in BOOLEAN, NEW f \in Filters
    PROVE  [dir |-> d, settings |-> <<h, f>>] \in [dir : Dirs, settings : BOOLEAN \X Filters]
<1>1. <<h, f>> \in BOOLEAN \X Filters
  BY Zenon
<1>2. QED
  BY <1>1

\* The rows of a finished load are finitely many.
LEMMA RowsFinite ==
    ASSUME NEW R, R \subseteq Dirs \X Names
    PROVE  IsFiniteSet(R)
<1>1. IsFiniteSet(Dirs \X Names)
  BY ListingAssumption, FS_Product
<1>2. QED
  BY <1>1, FS_Subset

\* Sorting shows exactly the rows it is given, each once and in order.
LEMMA SortedRows ==
    ASSUME NEW R, R \subseteq Dirs \X Names, sortEntries(R)
    PROVE  /\ entries' \in Seq(Dirs \X Names) /\ ToSet(entries') = R
           /\ Cardinality(ToSet(entries')) = Len(entries')
           /\ Sorted(entries', sortColumn', sortOrder')
<1>1. entries' \in SetToSeqs(R) /\ Sorted(entries', sortColumn', sortOrder')
  BY DEF sortEntries
<1>2. /\ entries' \in Seq(R) /\ ToSet(entries') = R /\ Len(entries') = Cardinality(R)
  BY <1>1, RowsFinite, Permutation
<1>3. \A q \in Seq(R) : q \in Seq(Dirs \X Names)
  OBVIOUS
<1>4. QED
  BY <1>1, <1>2, <1>3

\* The rows a finished load puts on the screen.
Rows == {load.path} \X
           {n \in load.result \cap Passes[nameFilter] : showHidden \/ n \notin HiddenNames}

\* They belong to the current directory, and are a listing it had since the
\* last request, seen through the settings of that request.
LEMMA RowsAnswer ==
    ASSUME TypeOK, ListInv, onDirectoryLoaded
    PROVE  /\ Rows \subseteq Dirs \X Names /\ sortEntries(Rows)
           /\ loading /\ ~loading'
           /\ \E listing \in since : Rows = {currentPath} \X
                {n \in listing : n \in Passes[nameFilter] /\ (showHidden \/ n \notin HiddenNames)}
<1>1. /\ load.state = "finished" /\ sortEntries(Rows) /\ loading' = FALSE
  BY DEF onDirectoryLoaded, Rows
<1>2. /\ loading /\ load.path = currentPath /\ load.result \in since
      /\ currentPath \in Dirs /\ load.result \subseteq Names
  BY <1>1 DEF ListInv, TypeOK
<1>3. Rows = {currentPath} \X
        {n \in load.result : n \in Passes[nameFilter] /\ (showHidden \/ n \notin HiddenNames)}
  BY <1>2 DEF Rows
<1>4. Rows \subseteq Dirs \X Names
  BY <1>2, <1>3
<1>5. QED
  BY <1>1, <1>2, <1>3, <1>4

\* Every step of the application is one of the directory view, or none.
LEMMA ViewStep ==
    ASSUME TypeOK, TypeOK', ListInv, [Next]_vars
    PROVE  [View!Next]_(View!viewVars)
<1>1. CASE Reload
  <2>1. View!Ask
    <3>1. since' = {disk'[currentPath']} /\ loading' = TRUE /\ UNCHANGED <<disk, entries>>
      BY <1>1 DEF Reload, startDirectoryLoad
    <3>2. UNCHANGED <<disk, ToSet(entries)>>
      BY <3>1
    <3>3. [dir |-> currentPath', settings |-> <<showHidden', nameFilter'>>] \in
             [dir : Dirs, settings : BOOLEAN \X Filters]
      <4>1. currentPath' \in Dirs /\ showHidden' \in BOOLEAN /\ nameFilter' \in Filters
        BY DEF TypeOK
      <4>2. QED
        BY <4>1, Question
    <3>4. QED
      BY <3>1, <3>2, <3>3 DEF View!Ask
  <2>2. QED
    BY <2>1 DEF View!Next
<1>2. CASE Resort
  <2>1. UNCHANGED <<disk, currentPath, showHidden, nameFilter, loading, since>>
    BY <1>2 DEF Resort, setSort
  <2>2. ToSet(entries') = ToSet(entries)
    <3>1. ToSet(entries) \subseteq Dirs \X Names
      BY DEF TypeOK, ToSet
    <3>2. QED
      BY <1>2, <3>1, SortedRows DEF Resort, setSort
  <2>3. QED
    BY <2>1, <2>2 DEF View!viewVars
<1>3. CASE Changes
  <2>1. PICK e \in Volatile : change(e[1], e[2])
    BY <1>3 DEF Changes
  <2>2. e[1] \in Dirs /\ e[2] \in Names
    BY ListingAssumption
  <2>3. disk' \in [Dirs -> SUBSET Names]
    BY <2>1, <2>2, ChangeKeeps
  <2>4. /\ since' = since \cup {disk'[currentPath]}
        /\ UNCHANGED <<currentPath, showHidden, nameFilter, entries, loading>>
    BY <2>1 DEF change, settings
  <2>5. View!Change
    BY <2>3, <2>4 DEF View!Change
  <2>6. QED
    BY <2>5 DEF View!Next
<1>4. CASE loadDirectory
  BY <1>4 DEF loadDirectory, settings, View!viewVars
<1>5. CASE onDirectoryLoaded
  <2>1. ToSet(entries') = Rows
    BY <1>5, RowsAnswer, SortedRows
  <2>2. UNCHANGED <<disk, currentPath, showHidden, nameFilter, since>>
    BY <1>5 DEF onDirectoryLoaded, settings
  <2>3. loading = TRUE /\ loading' = FALSE
    BY <1>5, RowsAnswer DEF TypeOK, onDirectoryLoaded
  <2>4. PICK listing \in since : Rows = {currentPath} \X
          {n \in listing : n \in Passes[nameFilter] /\ (showHidden \/ n \notin HiddenNames)}
    BY <1>5, RowsAnswer
  <2>5. View!Answer
    BY <2>1, <2>2, <2>3, <2>4 DEF View!Answer
  <2>6. QED
    BY <2>5 DEF View!Next
<1>6. CASE UNCHANGED list
  BY <1>6 DEF list, settings, View!viewVars
<1>7. QED
  BY <1>1, <1>2, <1>3, <1>4, <1>5, <1>6, Kinds

-----------------------------------------------------------------------------
(* The search.                                                             *)

\* A question of the search field: where it searches and what for.
Asked == (Dirs \cup {NoDir}) \X Queries

\* The future watched is that of the search asked for last, whatever was
\* cancelled before it.
SearchInv ==
    /\ search \in [of : Asked, state : {"idle", "running", "finished"}, result : SUBSET (Dirs \X Names)]
    /\ search.state # "idle" => search.of = wanted
    /\ ResultsOfLastSearch

\* An act of the user: at most the watcher moves to another directory, and
\* at most the text of the search field changes.
LEMMA Acts ==
    ASSUME TypeOK, User
    PROVE  /\ moves' = moves + 1 /\ UNCHANGED changes
           /\ UNCHANGED watch \/ \E p \in Dirs : setWatchedPath(p)
           /\ searchText' \in Queries /\ (searchActive' => searchActive)
           /\ UNCHANGED <<search, results, wanted>>
<1>1. ASSUME NEW p \in Dirs, setCurrentPath(p)
      PROVE  (\E q \in Dirs : setWatchedPath(q)) /\ UNCHANGED changes
  BY <1>1 DEF setCurrentPath
<1>2. searchText \in Queries /\ NoText \in Queries
  BY ListingAssumption DEF TypeOK
<1>3. ASSUME NEW p \in Dirs, openPath(p) \/ navigateTo(p)
      PROVE  act /\ setCurrentPath(p) /\ UNCHANGED searching
  BY <1>3 DEF openPath, navigateTo
<1>4. ASSUME navigateUp
      PROVE  \E p \in Dirs : act /\ setCurrentPath(p) /\ UNCHANGED searching
  BY <1>4, ListingAssumption DEF navigateUp, TypeOK
<1>5. ASSUME NEW p \in Dirs, act, setCurrentPath(p), UNCHANGED searching
      PROVE  /\ moves' = moves + 1 /\ UNCHANGED changes
             /\ UNCHANGED watch \/ \E q \in Dirs : setWatchedPath(q)
             /\ searchText' \in Queries /\ (searchActive' => searchActive)
             /\ UNCHANGED <<search, results, wanted>>
  BY <1>1, <1>2, <1>5 DEF act, searching
<1>6. ASSUME \/ \E f \in Filters : setNameFilter(f)
             \/ setShowHidden
             \/ \E c \in DOMAIN Key, o \in {"ascending", "descending"} : setSort(c, o)
      PROVE  act /\ UNCHANGED <<watch, searching, changes>>
  BY <1>6 DEF setNameFilter, setShowHidden, setSort
<1>7. ASSUME NEW q \in Queries, typeQuery(q)
      PROVE  /\ act /\ searchText' = q /\ UNCHANGED <<searchActive, watch, changes>>
             /\ UNCHANGED <<search, results, wanted>>
  BY <1>7 DEF typeQuery
<1>8. ASSUME NEW e \in Dirs \X Names, openResult(e)
      PROVE  /\ act /\ UNCHANGED changes /\ searchText' = NoText /\ searchActive' = FALSE
             /\ UNCHANGED watch \/ \E p \in Dirs : setWatchedPath(p)
             /\ UNCHANGED <<search, results, wanted>>
  BY <1>1, <1>8 DEF openResult
<1>9. CASE \E p \in Dirs : openPath(p) \/ navigateTo(p)
  BY <1>3, <1>5, <1>9
<1>10. CASE navigateUp
  BY <1>4, <1>5, <1>10
<1>11. CASE \/ \E f \in Filters : setNameFilter(f)
            \/ setShowHidden
            \/ \E c \in DOMAIN Key, o \in {"ascending", "descending"} : setSort(c, o)
  BY <1>2, <1>6, <1>11 DEF act, searching
<1>12. CASE \E q \in Queries : typeQuery(q)
  BY <1>7, <1>12 DEF act
<1>13. CASE \E e \in Dirs \X Names : openResult(e)
  BY <1>2, <1>8, <1>13 DEF act
<1>14. QED
  BY <1>9, <1>10, <1>11, <1>12, <1>13 DEF User

\* A search that is asked for, cancelled, ends or is delivered.
LEMMA SearchStep ==
    ASSUME TypeOK, SearchInv, [Next]_vars
    PROVE  SearchInv'
<1> USE DEF SearchInv, ResultsOfLastSearch
<1>1. CASE User
  BY <1>1, Acts
<1>2. CASE onSearchTimer
  <2>1. <<currentPath, searchText>> \in Asked
    BY DEF TypeOK, Asked
  <2>2. CASE searchText # NoText
    BY <1>2, <2>1, <2>2 DEF onSearchTimer, startSearch, Searching
  <2>3. CASE searchText = NoText
    <3>1. NoSearch \in [of : Asked, state : {"idle", "running", "finished"},
                        result : SUBSET (Dirs \X Names)]
      BY ListingAssumption DEF NoSearch, Asked
    <3>2. searchActive' = FALSE /\ search' \in {NoSearch, search} /\ UNCHANGED wanted
      BY <1>2, <2>3 DEF onSearchTimer, cancel
    <3>3. QED
      BY <3>1, <3>2 DEF NoSearch
  <2>4. QED
    BY <2>2, <2>3
<1>3. CASE performSearch
  <2> DEFINE found == UNION {{d} \X ((disk[d] \ HiddenNames) \cap Passes[search.of[2]]) :
                              d \in {e \in Below(search.of[1]) : exists(e)}}
  <2>1. /\ search' = [search EXCEPT !.state = "finished", !.result = found]
        /\ UNCHANGED <<wanted, searchActive, results>> /\ search.state = "running"
    BY <1>3 DEF performSearch
  <2>2. \A d \in Below(search.of[1]) : d \in Dirs /\ disk[d] \subseteq Names
    BY DEF Below, TypeOK
  <2>3. ASSUME NEW x \in found
        PROVE  x \in Dirs \X Names
    <3>1. PICK d \in Below(search.of[1]) : x \in {d} \X ((disk[d] \ HiddenNames) \cap Passes[search.of[2]])
      OBVIOUS
    <3>2. d \in Dirs /\ disk[d] \subseteq Names
      BY <2>2
    <3>3. QED
      BY <3>1, <3>2
  <2> HIDE DEF found
  <2>4. QED
    BY <2>1, <2>3
<1>4. CASE onResultsFound
  <2>1. NoSearch \in [of : Asked, state : {"idle", "running", "finished"},
                      result : SUBSET (Dirs \X Names)]
    BY ListingAssumption DEF NoSearch, Asked
  <2>2. QED
    BY <1>4, <2>1 DEF onResultsFound, NoSearch
<1>5. CASE loadDirectory \/ onDirectoryLoaded \/ onDebounceTimeout
  BY <1>5 DEF loadDirectory, onDirectoryLoaded, onDebounceTimeout, searching
<1>6. CASE Changes
  BY <1>6 DEF Changes, change, searching
<1>7. CASE \E d \in Dirs : onDirectoryChanged(d)
  BY <1>7 DEF onDirectoryChanged, searching
<1>8. CASE UNCHANGED vars
  BY <1>8 DEF vars, searching
<1>9. QED
  BY <1>1, <1>2, <1>3, <1>4, <1>5, <1>6, <1>7, <1>8 DEF Next, Changes

-----------------------------------------------------------------------------
(* Types and order.                                                        *)

\* The watcher watches at most the directory it was given.
WatchTypes ==
    /\ watchedPath \in Dirs \cup {NoDir} /\ watching \subseteq {watchedPath}
    /\ notices \subseteq Dirs /\ pendingDirs \subseteq Dirs

LEMMA WatchStep ==
    ASSUME TypeOK, [Next]_vars
    PROVE  WatchTypes'
<1>1. WatchTypes
  BY DEF WatchTypes, TypeOK
<1>2. CASE UNCHANGED watch
  BY <1>1, <1>2 DEF watch, WatchTypes
<1>3. CASE User
  <2>1. ASSUME NEW p \in Dirs, setWatchedPath(p)
        PROVE  WatchTypes'
    BY <1>1, <2>1 DEF setWatchedPath, WatchTypes
  <2>2. QED
    BY <1>2, <1>3, <2>1, Acts
<1>4. CASE Changes
  <2>1. PICK e \in Volatile : change(e[1], e[2])
    BY <1>4 DEF Changes
  <2>2. e[1] \in Dirs
    BY ListingAssumption
  <2> DEFINE gone == UNION {Below(c) : c \in {b \in Dirs : ~IsRoot(b) /\ Parent[b] = e[1]
                               /\ NameOf[b] = e[2] /\ e[2] \in disk[e[1]]}}
  <2>3. /\ notices' = notices \cup (({e[1]} \cup gone) \cap watching)
        /\ watching' = watching \ gone /\ UNCHANGED <<watchedPath, pendingDirs>>
    BY <2>1 DEF change
  <2>4. gone \subseteq Dirs
    BY DEF Below
  <2> HIDE DEF gone
  <2>5. QED
    BY <1>1, <2>2, <2>3, <2>4 DEF WatchTypes
<1>5. CASE \E d \in Dirs : onDirectoryChanged(d)
  BY <1>1, <1>5 DEF onDirectoryChanged, WatchTypes
<1>6. CASE onDebounceTimeout
  BY <1>1, <1>6 DEF onDebounceTimeout, WatchTypes
<1>7. CASE loadDirectory \/ onDirectoryLoaded \/ onSearchTimer \/ performSearch \/ onResultsFound
  BY <1>2, <1>7 DEF loadDirectory, onDirectoryLoaded, onSearchTimer, performSearch, onResultsFound
<1>8. CASE UNCHANGED vars
  BY <1>2, <1>8 DEF vars
<1>9. QED
  BY <1>3, <1>4, <1>5, <1>6, <1>7, <1>8 DEF Next, Changes

\* The list, its settings and the listings seen.
ListTypes ==
    /\ disk \in [Dirs -> SUBSET Names] /\ currentPath \in Dirs /\ nameFilter \in Filters
    /\ sortColumn \in DOMAIN Key /\ sortOrder \in {"ascending", "descending"}
    /\ entries \in Seq(Dirs \X Names) /\ Cardinality(ToSet(entries)) = Len(entries)
    /\ load \in [path : Dirs \cup {NoDir}, state : {"idle", "running", "finished"}, result : SUBSET Names]
    /\ since \subseteq SUBSET Names

\* The rows keep their types and the order of the header.
LEMMA RowsStep ==
    ASSUME TypeOK, ListInv, RowsInOrder, [Next]_vars
    PROVE  ListTypes' /\ RowsInOrder'
<1>1. ListTypes /\ RowsInOrder
  BY DEF TypeOK, ListTypes
<1>2. ASSUME UNCHANGED <<entries, sortColumn, sortOrder>>
      PROVE  RowsInOrder'
  BY <1>1, <1>2 DEF RowsInOrder, Sorted, less
<1>3. CASE Reload
  <2>1. UNCHANGED <<disk, entries, sortColumn, sortOrder>>
    BY <1>3 DEF Reload
  <2>2. load' = Running(currentPath') /\ since' = {disk[currentPath']}
        /\ currentPath' \in Dirs /\ nameFilter' \in Filters
    BY <1>3 DEF Reload, startDirectoryLoad
  <2>3. QED
    BY <1>1, <1>2, <2>1, <2>2 DEF ListTypes, Running
<1>4. CASE Resort
  <2>1. PICK c \in DOMAIN Key, o \in {"ascending", "descending"} : setSort(c, o)
    BY <1>4 DEF Resort
  <2>2. ToSet(entries) \subseteq Dirs \X Names
    BY <1>1 DEF ListTypes, ToSet
  <2>3. /\ sortEntries(ToSet(entries)) /\ sortColumn' = c /\ sortOrder' = o
        /\ UNCHANGED <<disk, currentPath, nameFilter, load, since>>
    BY <2>1 DEF setSort
  <2>4. /\ entries' \in Seq(Dirs \X Names) /\ Cardinality(ToSet(entries')) = Len(entries')
        /\ Sorted(entries', sortColumn', sortOrder')
    BY <2>2, <2>3, SortedRows
  <2>5. QED
    BY <1>1, <2>3, <2>4 DEF ListTypes, RowsInOrder
<1>5. CASE Changes
  <2>1. PICK e \in Volatile : change(e[1], e[2])
    BY <1>5 DEF Changes
  <2>2. e[1] \in Dirs /\ e[2] \in Names
    BY ListingAssumption
  <2>3. disk' \in [Dirs -> SUBSET Names]
    BY <2>1, <2>2, ChangeKeeps
  <2>4. /\ since' = since \cup {disk'[currentPath]}
        /\ UNCHANGED <<currentPath, nameFilter, entries, load, sortColumn, sortOrder>>
    BY <2>1 DEF change, settings
  <2>5. QED
    BY <1>1, <1>2, <2>3, <2>4 DEF ListTypes
<1>6. CASE loadDirectory
  <2>1. UNCHANGED <<disk, currentPath, nameFilter, sortColumn, sortOrder, entries, since>>
    BY <1>6 DEF loadDirectory, settings
  <2>2. load' = [load EXCEPT !.state = "finished",
                             !.result = IF exists(load.path) THEN disk[load.path] ELSE {}]
        /\ load.path = currentPath
    BY <1>6 DEF loadDirectory, ListInv
  <2>3. QED
    BY <1>1, <1>2, <2>1, <2>2 DEF ListTypes
<1>7. CASE onDirectoryLoaded
  <2>1. UNCHANGED <<disk, currentPath, nameFilter, sortColumn, sortOrder, since>> /\ load' = Idle
    BY <1>7 DEF onDirectoryLoaded, settings
  <2>2. /\ entries' \in Seq(Dirs \X Names) /\ Cardinality(ToSet(entries')) = Len(entries')
        /\ Sorted(entries', sortColumn', sortOrder')
    BY <1>7, RowsAnswer, SortedRows
  <2>3. QED
    BY <1>1, <2>1, <2>2 DEF ListTypes, Idle, RowsInOrder
<1>8. CASE UNCHANGED list
  <2>1. UNCHANGED <<disk, currentPath, nameFilter, sortColumn, sortOrder, entries, load, since>>
    BY <1>8 DEF list, settings
  <2>2. QED
    BY <1>1, <1>2, <2>1 DEF ListTypes
<1>9. QED
  BY <1>3, <1>4, <1>5, <1>6, <1>7, <1>8, Kinds

\* The text of the search field, the searches and the bounds.
SearchTypes ==
    /\ searchText \in Queries
    /\ results.rows \subseteq Dirs \X Names /\ wanted \in (Dirs \cup {NoDir}) \X Queries
    /\ moves \in Nat /\ changes \in Nat

LEMMA SearchTypesStep ==
    ASSUME TypeOK, SearchInv, [Next]_vars
    PROVE  SearchTypes'
<1>1. SearchTypes
  BY DEF SearchTypes, TypeOK
<1>2. CASE UNCHANGED <<searchText, results, wanted, moves, changes>>
  BY <1>1, <1>2 DEF SearchTypes
<1>3. CASE User
  BY <1>1, <1>3, Acts DEF SearchTypes
<1>4. CASE Changes
  BY <1>1, <1>4 DEF Changes, change, searching, SearchTypes
<1>5. CASE onSearchTimer
  <2>1. /\ UNCHANGED <<searchText, results, moves, changes>>
        /\ wanted' \in {wanted, <<currentPath, searchText>>}
    BY <1>5 DEF onSearchTimer
  <2>2. <<currentPath, searchText>> \in (Dirs \cup {NoDir}) \X Queries
    BY DEF TypeOK
  <2>3. QED
    BY <1>1, <2>1, <2>2 DEF SearchTypes
<1>6. CASE onResultsFound
  <2>1. results' = [of |-> search.of, rows |-> search.result]
        /\ UNCHANGED <<searchText, wanted, moves, changes>>
    BY <1>6 DEF onResultsFound
  <2>2. search.result \subseteq Dirs \X Names
    BY DEF SearchInv
  <2>3. QED
    BY <1>1, <2>1, <2>2 DEF SearchTypes
<1>7. CASE \/ loadDirectory \/ onDirectoryLoaded \/ onDebounceTimeout \/ performSearch
           \/ \E d \in Dirs : onDirectoryChanged(d)
  BY <1>2, <1>7 DEF loadDirectory, onDirectoryLoaded, onDebounceTimeout, performSearch,
                    onDirectoryChanged, searching
<1>8. CASE UNCHANGED vars
  BY <1>2, <1>8 DEF vars, searching
<1>9. QED
  BY <1>3, <1>4, <1>5, <1>6, <1>7, <1>8 DEF Next, Changes

-----------------------------------------------------------------------------
(* The theorems.                                                           *)

IInv == TypeOK /\ RowsInOrder /\ ListInv /\ SearchInv

\* The empty window of the start is consistent.
LEMMA InitInv == Init => IInv
<1> SUFFICES ASSUME Init
             PROVE  IInv
  OBVIOUS
<1> USE ListingAssumption DEF Init
<1>1. entries = <<>> /\ DOMAIN entries = {} /\ Len(entries) = 0
  OBVIOUS
<1>2. Cardinality(ToSet(entries)) = Len(entries)
  <2>1. ToSet(entries) = {}
    BY <1>1 DEF ToSet
  <2>2. QED
    BY <1>1, <2>1, FS_EmptySet
<1>3. ListTypes
  <2>1. load \in [path : Dirs \cup {NoDir}, state : {"idle", "running", "finished"},
                  result : SUBSET Names]
    BY DEF Running
  <2>2. NoText \in Filters /\ since \subseteq SUBSET Names
    OBVIOUS
  <2>3. entries \in Seq(Dirs \X Names)
    BY <1>1
  <2>4. QED
    BY <1>2, <2>1, <2>2, <2>3 DEF ListTypes
<1>4. RowsInOrder
  BY <1>1 DEF RowsInOrder, Sorted
<1>5. wanted = <<NoDir, NoText>> /\ search = NoSearch /\ results = NoResults
  BY DEF NoResults
<1>6. SearchInv
  BY <1>5 DEF SearchInv, ResultsOfLastSearch, NoSearch, Asked
<1>7. WatchTypes /\ SearchTypes
  BY <1>5 DEF WatchTypes, SearchTypes, NoResults
<1>8. Flags
  BY Zenon DEF Flags
<1>9. TypeOK
  BY <1>3, <1>6, <1>7, <1>8 DEF TypeOK, ListTypes, WatchTypes, SearchTypes, Flags, SearchInv
<1>10. ListInv
  BY DEF ListInv, Running, exists, IsRoot
<1>11. QED
  BY <1>4, <1>6, <1>9, <1>10 DEF IInv

\* Every step keeps it.
LEMMA StepInv == IInv /\ [Next]_vars => IInv'
<1> SUFFICES ASSUME IInv, [Next]_vars
             PROVE  IInv'
  OBVIOUS
<1>1. TypeOK /\ RowsInOrder /\ ListInv /\ SearchInv
  BY DEF IInv
<1>2. Flags
  BY <1>1 DEF TypeOK, Flags
<1>3. Flags'
  BY <1>2, FlagsStep
<1>4. ListTypes' /\ WatchTypes' /\ SearchTypes' /\ RowsInOrder'
  BY <1>1, RowsStep, WatchStep, SearchTypesStep
<1>5. ListInv' /\ SearchInv'
  BY <1>1, ListStep, SearchStep
<1>6. TypeOK'
  BY <1>3, <1>4, <1>5 DEF TypeOK, ListTypes, WatchTypes, SearchTypes, Flags, SearchInv
<1>7. QED
  BY <1>4, <1>5, <1>6 DEF IInv

LEMMA Invariant == Spec => []IInv
  BY InitInv, StepInv, PTL DEF Spec

\* What the window shows always fits together: rows that are distinct and in
\* the order of the header (FileModel::sortEntries), results of the search
\* that was asked for last (SearchIndexer::search, cancel).
THEOREM FilesWindow == Spec => []WindowConsistent
<1>1. IInv => WindowConsistent
  BY DEF IInv, SearchInv, WindowConsistent
<1>2. QED
  BY <1>1, Invariant, PTL

\* The window opens as a view that was asked for the home directory.
LEMMA ViewInit == Init => View!Init
<1> SUFFICES ASSUME Init
             PROVE  View!Init
  OBVIOUS
<1>1. ToSet(entries) = {}
  BY DEF Init, ToSet
<1>2. Home \in Dirs /\ FALSE \in BOOLEAN /\ NoText \in Filters /\ Disk \in [Dirs -> SUBSET Names]
  BY ListingAssumption
<1>3. [dir |-> currentPath, settings |-> <<showHidden, nameFilter>>] \in
         [dir : Dirs, settings : BOOLEAN \X Filters]
  BY <1>2, Question DEF Init
<1>4. QED
  BY <1>1, <1>2, <1>3 DEF Init, View!Init

\* FileModel implements the directory view: it never shows anything but the
\* directory last asked for, as it was at some moment since then, through the
\* filter last set, however many loads were abandoned in between
\* (startDirectoryLoad, onDirectoryLoaded).
THEOREM FileModelImplementsView == Spec => View!Safety
<1>1. IInv /\ IInv' /\ [Next]_vars => [View!Next]_(View!viewVars)
  BY ViewStep DEF IInv
<1>2. QED
  BY <1>1, ViewInit, Invariant, PTL DEF Spec, View!Safety

-----------------------------------------------------------------------------
(* FileOperations: paths.                                                  *)

AllNames == Bases \X Nat
AnyPath == Seq(AllNames)

\* Under, name by name.
LEMMA UnderIs ==
    ASSUME NEW p \in AnyPath, NEW q \in AnyPath
    PROVE  Under(p, q) <=> Len(p) <= Len(q) /\ \A i \in 1..Len(p) : p[i] = q[i]
<1>1. SubSeq(p, 1, Len(p)) = p
  BY DEF AnyPath
<1>2. CASE Len(p) <= Len(q)
  <2> DEFINE t == SubSeq(q, 1, Len(p))
  <2>1. t \in AnyPath /\ Len(t) = Len(p) /\ \A i \in 1..Len(p) : t[i] = q[i]
    BY <1>2 DEF AnyPath
  <2>2. p = t <=> \A i \in 1..Len(p) : p[i] = t[i]
    BY <2>1 DEF AnyPath
  <2>3. QED
    BY <1>1, <1>2, <2>1, <2>2 DEF Under, IsPrefix
<1>3. QED
  BY <1>2 DEF Under, IsPrefix

LEMMA UnderLaws ==
    /\ \A p \in AnyPath : Under(p, p) /\ (p # <<>> <=> p \in Paths) /\ (p = <<>> <=> Len(p) = 0)
    /\ \A p, q, r \in AnyPath : Under(p, q) /\ Under(q, r) => Under(p, r)
    /\ \A p, q, r \in AnyPath : Under(p, r) /\ Under(q, r) => Under(p, q) \/ Under(q, p)
    /\ \A p, q \in AnyPath : Under(p, q) => Len(p) <= Len(q) /\ (Len(p) = Len(q) <=> p = q)
<1>1. \A p \in AnyPath : Under(p, p) /\ (p # <<>> <=> p \in Paths) /\ (p = <<>> <=> Len(p) = 0)
  BY UnderIs DEF AnyPath, Paths, AllNames
<1>2. ASSUME NEW p \in AnyPath, NEW q \in AnyPath, NEW r \in AnyPath, Under(p, q), Under(q, r)
      PROVE  Under(p, r)
  <2>1. Len(p) <= Len(q) /\ \A i \in 1..Len(p) : p[i] = q[i]
    BY <1>2, UnderIs
  <2>2. Len(q) <= Len(r) /\ \A i \in 1..Len(q) : q[i] = r[i]
    BY <1>2, UnderIs
  <2>3. Len(p) \in Nat /\ Len(q) \in Nat /\ Len(r) \in Nat
    BY DEF AnyPath
  <2>4. Len(p) <= Len(r) /\ \A i \in 1..Len(p) : p[i] = r[i]
    BY <2>1, <2>2, <2>3
  <2>5. QED
    BY <2>4, UnderIs
<1>3. ASSUME NEW p \in AnyPath, NEW q \in AnyPath, NEW r \in AnyPath, Under(p, r), Under(q, r)
      PROVE  Under(p, q) \/ Under(q, p)
  <2>1. Len(p) <= Len(r) /\ \A i \in 1..Len(p) : p[i] = r[i]
    BY <1>3, UnderIs
  <2>2. Len(q) <= Len(r) /\ \A i \in 1..Len(q) : q[i] = r[i]
    BY <1>3, UnderIs
  <2>3. Len(p) \in Nat /\ Len(q) \in Nat
    BY DEF AnyPath
  <2>4. CASE Len(p) <= Len(q)
    BY <2>1, <2>2, <2>3, <2>4, UnderIs
  <2>5. CASE Len(q) <= Len(p)
    BY <2>1, <2>2, <2>3, <2>5, UnderIs
  <2>6. QED
    BY <2>3, <2>4, <2>5
<1>4. ASSUME NEW p \in AnyPath, NEW q \in AnyPath, Under(p, q)
      PROVE  Len(p) <= Len(q) /\ (Len(p) = Len(q) <=> p = q)
  <2>1. Len(p) <= Len(q) /\ \A i \in 1..Len(p) : p[i] = q[i]
    BY <1>4, UnderIs
  <2>2. QED
    BY <2>1 DEF AnyPath
<1>5. QED
  BY <1>1, <1>2, <1>3, <1>4

\* What is above a path.
LEMMA AboveIs ==
    ASSUME NEW p \in AnyPath
    PROVE  /\ \A q : q \in Above(p) <=> q \in Paths /\ Under(q, p) /\ q # p
           /\ Above(p) = {SubSeq(p, 1, n) : n \in 1..(Len(p) - 1)}
<1>1. ASSUME NEW q \in Above(p)
      PROVE  q \in Paths /\ Under(q, p) /\ q # p
  <2>1. PICK n \in 1..(Len(p) - 1) : q = SubSeq(p, 1, n)
    BY DEF Above
  <2>2. q \in AnyPath /\ Len(q) = n /\ n >= 1 /\ n < Len(p) /\ \A i \in 1..n : q[i] = p[i]
    BY <2>1 DEF AnyPath
  <2>3. q # <<>> /\ q # p
    BY <2>2, UnderLaws
  <2>4. QED
    BY <2>2, <2>3, UnderIs, UnderLaws
<1>2. ASSUME NEW q \in Paths, Under(q, p), q # p
      PROVE  q \in Above(p)
  <2>1. q \in AnyPath /\ Len(q) \in Nat /\ Len(p) \in Nat
    BY DEF Paths, AnyPath, AllNames
  <2>2. Len(q) >= 1 /\ Len(q) < Len(p)
    BY <1>2, <2>1, UnderLaws
  <2>3. q = SubSeq(p, 1, Len(q))
    BY <1>2, <2>1, <2>2 DEF Under, IsPrefix, AnyPath
  <2>4. Len(q) \in 1..(Len(p) - 1)
    BY <2>1, <2>2
  <2>5. QED
    BY <2>3, <2>4 DEF Above
<1>3. QED
  BY <1>1, <1>2 DEF Above

\* A path, one name longer.
LEMMA AppendLaws ==
    ASSUME NEW d \in AnyPath, NEW n \in AllNames
    PROVE  LET p == Append(d, n)
           IN  /\ p \in Paths /\ Folder(p) = d /\ Name(p) = n /\ Len(p) = Len(d) + 1
               /\ Under(d, p) /\ d # p
<1> DEFINE p == Append(d, n)
<1>1. p \in AnyPath /\ Len(p) = Len(d) + 1 /\ Len(d) \in Nat /\ (\A i \in 1..Len(d) : p[i] = d[i]) /\ p[Len(p)] = n
  BY DEF AnyPath
<1>2. SubSeq(p, 1, Len(d)) = d
  BY <1>1 DEF AnyPath
<1> HIDE DEF p
<1>3. p \in Paths
  BY <1>1, UnderLaws
<1>4. Under(d, p) /\ d # p
  BY <1>1, UnderIs
<1>5. SubSeq(p, 1, Len(p) - 1) = d
  BY <1>1, <1>2
<1>6. Folder(p) = d /\ Name(p) = n
  BY <1>1, <1>5 DEF Folder, Front, Name, Last
<1>7. QED
  BY <1>1, <1>3, <1>4, <1>6 DEF p

\* A path and the one it is in.
LEMMA ParentLaws ==
    ASSUME NEW p \in Paths
    PROVE  /\ Folder(p) \in AnyPath /\ Len(Folder(p)) = Len(p) - 1 /\ Name(p) \in AllNames
           /\ Under(Folder(p), p) /\ Folder(p) # p /\ p = Append(Folder(p), Name(p))
           /\ \A q \in AnyPath : Under(q, p) /\ q # p => Under(q, Folder(p))
<1>1. p \in AnyPath /\ Len(p) \in Nat /\ Len(p) >= 1
  BY UnderLaws DEF Paths, AnyPath, AllNames
<1> DEFINE d == SubSeq(p, 1, Len(p) - 1)
<1>2. d \in AnyPath /\ Len(d) = Len(p) - 1 /\ \A i \in 1..Len(d) : d[i] = p[i]
  <2>1. d \in AnyPath /\ Len(d) = Len(p) - 1
    <3>1. CASE Len(p) = 1
      <4>1. SubSeq(p, 1, 0) = <<>>
        BY SubSeqEmpty
      <4>2. QED
        BY <3>1, <4>1 DEF AnyPath
    <3>2. CASE Len(p) - 1 \in 1..Len(p)
      BY <1>1, <3>2 DEF AnyPath
    <3>3. \A n \in Nat : n >= 1 => n = 1 \/ n - 1 \in 1..n
      OBVIOUS
    <3>4. Len(p) = 1 \/ Len(p) - 1 \in 1..Len(p)
      BY <1>1, <3>3, Zenon
    <3>5. QED
      BY <3>1, <3>2, <3>4, Zenon
  <2>2. \A i \in 1..(Len(p) - 1) : d[i] = p[i]
    BY <1>1 DEF AnyPath
  <2>3. QED
    BY <2>1, <2>2
<1>0. Folder(p) = d /\ Name(p) = p[Len(p)]
  BY DEF Folder, Front, Name, Last
<1> HIDE DEF d
<1>3. p[Len(p)] \in AllNames
  BY <1>1 DEF AnyPath
<1>4. Under(d, p) /\ d # p
  BY <1>1, <1>2, UnderIs
<1>5. p = Append(d, p[Len(p)])
  <2> DEFINE t == Append(d, p[Len(p)])
  <2>1. t \in AnyPath /\ Len(t) = Len(p)
    BY <1>1, <1>2, <1>3 DEF AnyPath
  <2>2. ASSUME NEW i \in 1..Len(p)
        PROVE  p[i] = t[i]
    BY <1>1, <1>2, <1>3 DEF AnyPath
  <2>3. QED
    BY <1>1, <2>1, <2>2 DEF AnyPath
<1>6. ASSUME NEW q \in AnyPath, Under(q, p), q # p
      PROVE  Under(q, d)
  <2>1. Len(q) <= Len(p) /\ Len(q) # Len(p) /\ Len(q) \in Nat /\ \A i \in 1..Len(q) : q[i] = p[i]
    BY <1>1, <1>6, UnderIs, UnderLaws DEF AnyPath
  <2>2. Len(q) <= Len(d) /\ \A i \in 1..Len(q) : q[i] = d[i]
    BY <1>1, <1>2, <2>1
  <2>3. QED
    BY <1>2, <2>2, UnderIs
<1>7. QED
  BY <1>0, <1>2, <1>3, <1>4, <1>5, <1>6

\* The way down from s to p.
Toward(s, p) == SubSeq(p, 1, Len(s) + 1)

LEMMA TowardLaws ==
    ASSUME NEW s \in AnyPath, NEW p \in AnyPath, Under(s, p), s # p
    PROVE  LET x == Toward(s, p)
           IN  /\ x \in Paths /\ Len(x) = Len(s) + 1 /\ Under(s, x) /\ Under(x, p)
               /\ x = p \/ x \in Above(p)
<1> DEFINE x == Toward(s, p)
<1>1. Len(s) < Len(p) /\ Len(s) \in Nat /\ Len(p) \in Nat /\ \A i \in 1..Len(s) : s[i] = p[i]
  BY UnderIs, UnderLaws DEF AnyPath
<1>2. x \in AnyPath /\ Len(x) = Len(s) + 1 /\ \A i \in 1..Len(x) : x[i] = p[i]
  BY <1>1 DEF Toward, AnyPath
<1>3. Under(s, x) /\ Under(x, p) /\ x \in Paths
  BY <1>1, <1>2, UnderIs, UnderLaws
<1>4. QED
  BY <1>2, <1>3, AboveIs

\* The path p of something in s, once s has become d.
Moved(s, d, p) == d \o SubSeq(p, Len(s) + 1, Len(p))

LEMMA MovedIs ==
    ASSUME NEW s \in AnyPath, NEW d \in AnyPath, NEW p \in AnyPath, Under(s, p)
    PROVE  LET m == Moved(s, d, p)
           IN  /\ m \in AnyPath /\ Len(m) = Len(d) + Len(p) - Len(s)
               /\ \A i \in 1..Len(m) : m[i] = IF i <= Len(d) THEN d[i] ELSE p[i - Len(d) + Len(s)]
<1> DEFINE rest == SubSeq(p, Len(s) + 1, Len(p))
<1>1. Len(s) <= Len(p) /\ Len(s) \in Nat /\ Len(p) \in Nat /\ Len(d) \in Nat
  BY UnderLaws DEF AnyPath
<1>2. rest \in AnyPath /\ Len(rest) = Len(p) - Len(s)
  BY <1>1 DEF AnyPath
<1>3. \A i \in 1..Len(rest) : rest[i] = p[i + Len(s)]
  BY <1>1 DEF AnyPath
<1> HIDE DEF rest
<1>4. d \o rest \in AnyPath /\ Len(d \o rest) = Len(d) + Len(rest)
  <2>1. d \in Seq(AllNames) /\ rest \in Seq(AllNames)
    BY <1>2 DEF AnyPath
  <2>2. QED
    BY <2>1 DEF AnyPath
<1>5. \A i \in 1..Len(d \o rest) : (d \o rest)[i] = IF i <= Len(d) THEN d[i] ELSE rest[i - Len(d)]
  BY <1>2 DEF AnyPath
<1>6. ASSUME NEW i \in 1..Len(d \o rest), i > Len(d)
      PROVE  rest[i - Len(d)] = p[i - Len(d) + Len(s)]
  <2>1. i - Len(d) \in 1..Len(rest)
    BY <1>1, <1>2, <1>4, <1>6
  <2>2. QED
    BY <1>3, <2>1
<1>7. QED
  BY <1>1, <1>2, <1>4, <1>5, <1>6 DEF Moved, rest

LEMMA MovedLaws ==
    ASSUME NEW s \in AnyPath, NEW d \in AnyPath
    PROVE  /\ Moved(s, d, s) = d
           /\ \A p \in AnyPath : Under(s, p) =>
                /\ Moved(s, d, p) \in AnyPath /\ Under(d, Moved(s, d, p))
                /\ Moved(d, s, Moved(s, d, p)) = p
           /\ \A p, q \in AnyPath : Under(s, q) /\ Under(q, p) => Under(Moved(s, d, q), Moved(s, d, p))
<1>1. Moved(s, d, s) = d
  <2> DEFINE m == Moved(s, d, s)
  <2>1. /\ m \in AnyPath /\ Len(m) = Len(d) + Len(s) - Len(s)
        /\ \A i \in 1..Len(m) : m[i] = IF i <= Len(d) THEN d[i] ELSE s[i - Len(d) + Len(s)]
    <3>1. Under(s, s)
      BY UnderLaws
    <3>2. QED
      BY <3>1, MovedIs
  <2> HIDE DEF m
  <2>2. Len(m) = Len(d) /\ Len(d) \in Nat
    BY <2>1 DEF AnyPath
  <2>3. \A i \in 1..Len(d) : m[i] = d[i]
    BY <2>1, <2>2
  <2>4. m = d
    BY <2>1, <2>2, <2>3 DEF AnyPath
  <2>5. QED
    BY <2>4 DEF m
<1>2. ASSUME NEW p \in AnyPath, Under(s, p)
      PROVE  /\ Moved(s, d, p) \in AnyPath /\ Under(d, Moved(s, d, p))
             /\ Moved(d, s, Moved(s, d, p)) = p
  <2> DEFINE m == Moved(s, d, p)
  <2>1. /\ m \in AnyPath /\ Len(m) = Len(d) + Len(p) - Len(s)
        /\ \A i \in 1..Len(m) : m[i] = IF i <= Len(d) THEN d[i] ELSE p[i - Len(d) + Len(s)]
    BY <1>2, MovedIs
  <2> HIDE DEF m
  <2>2. /\ Len(s) \in Nat /\ Len(p) \in Nat /\ Len(d) \in Nat /\ Len(m) \in Nat
        /\ Len(s) <= Len(p) /\ \A i \in 1..Len(s) : s[i] = p[i]
    BY <1>2, <2>1, UnderIs DEF AnyPath
  <2>3. Under(d, m)
    <3>1. \A i \in 1..Len(d) : d[i] = m[i]
      BY <2>1, <2>2
    <3>2. QED
      BY <2>1, <2>2, <3>1, UnderIs
  <2> DEFINE b == Moved(d, s, m)
  <2>4. /\ b \in AnyPath /\ Len(b) = Len(s) + Len(m) - Len(d)
        /\ \A i \in 1..Len(b) : b[i] = IF i <= Len(s) THEN s[i] ELSE m[i - Len(s) + Len(d)]
    BY <2>1, <2>3, MovedIs
  <2> HIDE DEF b
  <2>5. Len(b) = Len(p)
    BY <2>1, <2>2, <2>4
  <2>6. ASSUME NEW i \in 1..Len(p)
        PROVE  b[i] = p[i]
    <3>1. CASE i <= Len(s)
      BY <2>2, <2>4, <2>5, <3>1
    <3>2. CASE i > Len(s)
      <4>1. i - Len(s) + Len(d) \in 1..Len(m) /\ ~(i - Len(s) + Len(d) <= Len(d))
        BY <2>1, <2>2, <3>2
      <4>2. (i - Len(s) + Len(d)) - Len(d) + Len(s) = i
        BY <2>2
      <4>3. b[i] = m[i - Len(s) + Len(d)]
        BY <2>4, <2>5, <3>2
      <4>4. m[i - Len(s) + Len(d)] = p[(i - Len(s) + Len(d)) - Len(d) + Len(s)]
        BY <2>1, <4>1
      <4>5. QED
        BY <4>2, <4>3, <4>4
    <3>3. QED
      BY <2>2, <3>1, <3>2
  <2>7. b = p
    <3>1. b \in Seq(AllNames) /\ p \in Seq(AllNames)
      BY <2>4 DEF AnyPath
    <3>2. QED
      BY <2>5, <2>6, <3>1
  <2>8. QED
    BY <2>1, <2>3, <2>7 DEF b, m
<1>3. ASSUME NEW p \in AnyPath, NEW q \in AnyPath, Under(s, q), Under(q, p)
      PROVE  Under(Moved(s, d, q), Moved(s, d, p))
  <2> DEFINE m == Moved(s, d, p)
             n == Moved(s, d, q)
  <2>1. /\ m \in AnyPath /\ Len(m) = Len(d) + Len(p) - Len(s)
        /\ \A i \in 1..Len(m) : m[i] = IF i <= Len(d) THEN d[i] ELSE p[i - Len(d) + Len(s)]
    <3>1. Under(s, p)
      BY <1>3, UnderLaws
    <3>2. QED
      BY <3>1, MovedIs
  <2>2. /\ n \in AnyPath /\ Len(n) = Len(d) + Len(q) - Len(s)
        /\ \A i \in 1..Len(n) : n[i] = IF i <= Len(d) THEN d[i] ELSE q[i - Len(d) + Len(s)]
    BY <1>3, MovedIs
  <2> HIDE DEF m, n
  <2>3. /\ Len(s) \in Nat /\ Len(p) \in Nat /\ Len(d) \in Nat /\ Len(q) \in Nat
        /\ Len(s) <= Len(q) /\ Len(q) <= Len(p) /\ \A i \in 1..Len(q) : q[i] = p[i]
    BY <1>3, UnderIs DEF AnyPath
  <2>4. ASSUME NEW i \in 1..Len(n)
        PROVE  n[i] = m[i]
    <3>1. i \in 1..Len(m)
      BY <2>1, <2>2, <2>3
    <3>2. CASE i <= Len(d)
      BY <2>1, <2>2, <3>1, <3>2
    <3>3. CASE i > Len(d)
      <4>1. i - Len(d) + Len(s) \in 1..Len(q)
        BY <2>2, <2>3, <3>3
      <4>2. QED
        BY <2>1, <2>2, <2>3, <3>1, <3>3, <4>1
    <3>4. QED
      BY <2>3, <3>2, <3>3
  <2>5. Under(n, m)
    BY <2>1, <2>2, <2>3, <2>4, UnderIs
  <2>6. QED
    BY <2>5 DEF m, n
<1>4. QED
  BY <1>1, <1>2, <1>3

\* What listings from s on lead to.
LEMMA PlainLaws ==
    /\ \A p, q \in AnyPath : Plain(p, q) => Under(p, q)
    /\ \A p \in AnyPath : Plain(p, p)
    /\ \A p, q, r \in AnyPath : Under(p, q) /\ Under(q, r) => (Plain(p, r) <=> Plain(p, q) /\ Plain(q, r))
    /\ \A p, q \in AnyPath : Under(p, q) /\ Len(q) = Len(p) + 1 => (Plain(p, q) <=> Name(q) \notin Hidden)
<1>1. \A p, q \in AnyPath : Plain(p, q) => Under(p, q)
  BY DEF Plain
<1>2. ASSUME NEW p \in AnyPath
      PROVE  Plain(p, p)
  <2>1. Len(p) \in Nat
    BY DEF AnyPath
  <2>2. \A i \in (Len(p) + 1)..Len(p) : FALSE
    BY <2>1
  <2>3. QED
    BY <2>2, UnderLaws DEF Plain
<1>3. ASSUME NEW p \in AnyPath, NEW q \in AnyPath, NEW r \in AnyPath, Under(p, q), Under(q, r)
      PROVE  Plain(p, r) <=> Plain(p, q) /\ Plain(q, r)
  <2>1. Len(p) <= Len(q) /\ Len(p) \in Nat /\ Len(q) \in Nat /\ Len(r) \in Nat
    BY <1>3, UnderIs DEF AnyPath
  <2>2. Len(q) <= Len(r) /\ \A i \in 1..Len(q) : q[i] = r[i]
    BY <1>3, UnderIs
  <2>3. \A i \in (Len(p) + 1)..Len(r) : i \in (Len(p) + 1)..Len(q) \/ i \in (Len(q) + 1)..Len(r)
    BY <2>1, <2>2
  <2>4. \A i \in (Len(p) + 1)..Len(q) : i \in (Len(p) + 1)..Len(r) /\ q[i] = r[i]
    BY <2>1, <2>2
  <2>5. \A i \in (Len(q) + 1)..Len(r) : i \in (Len(p) + 1)..Len(r)
    BY <2>1, <2>2
  <2>6. Under(p, r)
    BY <1>3, UnderLaws
  <2>7. QED
    BY <1>3, <2>3, <2>4, <2>5, <2>6 DEF Plain
<1>4. ASSUME NEW p \in AnyPath, NEW q \in AnyPath, Under(p, q), Len(q) = Len(p) + 1
      PROVE  Plain(p, q) <=> Name(q) \notin Hidden
  <2>1. Len(p) \in Nat
    BY DEF AnyPath
  <2>2. \A i : i \in (Len(p) + 1)..Len(q) <=> i = Len(q)
    BY <1>4, <2>1
  <2>3. QED
    BY <1>4, <2>2 DEF Plain, Name, Last
<1>5. QED
  BY <1>1, <1>2, <1>3, <1>4

\* The listing of a folder holds each entry that it shows.
LEMMA EntriesAre ==
    ASSUME NEW f, NEW p, IsFiniteSet(DOMAIN f)
    PROVE  /\ Entries(f, p) \in Seq(Shown(f, p)) /\ Entries(f, p) \in Seq(Children(f, p))
           /\ \A x \in Shown(f, p) : \E i \in DOMAIN Entries(f, p) : Entries(f, p)[i] = x
<1> DEFINE S == Shown(f, p)
           n == Cardinality(S)
           e == Entries(f, p)
<1>0. S \subseteq Children(f, p)
  BY DEF Shown
<1>1. IsFiniteSet(S)
  BY <1>0, FS_Subset DEF Children
<1>2. n \in Nat /\ ExistsBijection(1..n, S)
  BY <1>1, FS_CardinalityType
<1> HIDE DEF S
<1>3. \E g \in [1..n -> S] : IsInjective(g)
  BY <1>2 DEF ExistsBijection, Bijection, Injection, IsInjective
<1>4. e \in [1..n -> S] /\ IsInjective(e)
  BY <1>3 DEF Entries, SetToSeq, S
<1> HIDE DEF e
<1>5. e \in Injection(1..n, S)
  BY <1>4 DEF Injection, IsInjective
<1>6. Cardinality(1..n) = n
  BY <1>2, FS_Interval
<1>7. e \in Surjection(1..n, S)
  BY <1>1, <1>5, <1>6, FS_Injection
<1>8. \A x \in S : \E i \in 1..n : e[i] = x
  BY <1>7 DEF Surjection
<1>9. e \in Seq(S) /\ DOMAIN e = 1..n /\ e \in Seq(Children(f, p))
  BY <1>0, <1>2, <1>4
<1>10. QED
  BY <1>8, <1>9 DEF e, S

-----------------------------------------------------------------------------
(* The tree under the system calls.                                        *)

TreeTypes == fs \in [DOMAIN fs -> Nat] /\ IsFiniteSet(DOMAIN fs) /\ DOMAIN fs \subseteq Paths

\* A tree: whatever is above an entry is a folder.
Rooted == \A p \in DOMAIN fs : \A q \in Above(p) : IsDir(q)

Sound == TreeTypes /\ Rooted

LEMMA PathsAre == Paths \subseteq AnyPath /\ <<>> \in AnyPath /\ <<>> \notin Paths
  BY DEF Paths, AnyPath, AllNames

\* Where links lead.
LEMMA TargetIs ==
    ASSUME NEW p \in AnyPath
    PROVE  /\ Dir \notin Links /\ \A f : Target(f, p) \in AnyPath
           /\ \A f : p \in DOMAIN f /\ f[p] \notin Links => Target(f, p) = p
           /\ \A f : p \in DOMAIN f /\ f[p] = Dir => Target(f, p) = p
           /\ Target(fs, p) \in DOMAIN fs => p \in DOMAIN fs
           /\ OpsExists(p) => p \in DOMAIN fs
           /\ IsDir(p) => Target(fs, p) = p
<1>1. Dir \notin Links /\ LinkTo \in [Links -> Paths]
  BY TreeAssumption DEF Dir
<1>2. QED
  BY <1>1, PathsAre DEF Target, OpsExists, IsDir

LEMMA UpIsThere ==
    ASSUME Sound, NEW p \in DOMAIN fs, NEW q \in Paths, Under(q, p)
    PROVE  q \in DOMAIN fs /\ (q # p => fs[q] = Dir)
  BY AboveIs, PathsAre DEF Sound, TreeTypes, Rooted, IsDir

LEMMA ParentIsDir ==
    ASSUME Sound, NEW p \in AnyPath, IsDir(Folder(p))
    PROVE  p \in Paths /\ \A q \in Above(p) : IsDir(q)
<1>1. p # <<>>
  <2> SUFFICES ASSUME p = <<>>
               PROVE  FALSE
    OBVIOUS
  <2>1. SubSeq(<<>>, 1, Len(<<>>) - 1) = <<>>
    BY SubSeqEmpty
  <2>2. Folder(p) = <<>>
    BY <2>1 DEF Folder, Front
  <2>3. QED
    BY <2>2, PathsAre DEF IsDir, Sound, TreeTypes
<1>2. p \in Paths
  BY <1>1, UnderLaws
<1>3. ASSUME NEW q \in Above(p)
      PROVE  IsDir(q)
  <2>1. q \in Paths /\ Under(q, p) /\ q # p
    BY <1>3, AboveIs
  <2>2. Under(q, Folder(p))
    BY <1>2, <2>1, ParentLaws, PathsAre
  <2>3. QED
    BY <2>1, <2>2, UpIsThere DEF IsDir
<1>4. QED
  BY <1>2, <1>3

LEMMA AddedTree ==
    ASSUME Sound, NEW p \in AnyPath, NEW c \in Nat, IsDir(Folder(p)), ~IsDir(p), fs' = Added(p, c)
    PROVE  /\ Sound' /\ DOMAIN fs' = DOMAIN fs \cup {p} /\ fs'[p] = c
           /\ \A q \in DOMAIN fs : q # p => fs'[q] = fs[q]
<1>1. p \in Paths /\ \A q \in Above(p) : IsDir(q)
  BY ParentIsDir
<1>2. DOMAIN fs' = DOMAIN fs \cup {p} /\ fs'[p] = c /\ \A q \in DOMAIN fs : q # p => fs'[q] = fs[q]
  BY DEF Added
<1>3. TreeTypes'
  <2>1. IsFiniteSet(DOMAIN fs')
    BY <1>2, FS_AddElement DEF Sound, TreeTypes
  <2>2. fs' \in [DOMAIN fs \cup {p} -> Nat]
    BY DEF Added, Sound, TreeTypes
  <2>3. QED
    BY <1>1, <1>2, <2>1, <2>2 DEF Sound, TreeTypes
<1>4. ASSUME NEW x \in DOMAIN fs', NEW q \in Above(x)
      PROVE  IsDir(q)'
  <2>1. IsDir(q)
    BY <1>1, <1>2 DEF Sound, Rooted
  <2>2. q # p
    BY <2>1
  <2>3. QED
    BY <1>2, <2>1, <2>2 DEF IsDir
<1>5. QED
  BY <1>2, <1>3, <1>4 DEF Sound, Rooted

LEMMA RemovedTree ==
    ASSUME Sound, NEW p \in DOMAIN fs, ~IsDir(p) \/ Children(fs, p) = {}, fs' = Removed(p)
    PROVE  /\ Sound' /\ DOMAIN fs' = DOMAIN fs \ {p}
           /\ \A q \in DOMAIN fs : q # p => fs'[q] = fs[q]
<1>1. DOMAIN fs' = DOMAIN fs \ {p} /\ \A q \in DOMAIN fs : q # p => fs'[q] = fs[q]
  BY DEF Removed
<1>2. TreeTypes'
  <2>1. IsFiniteSet(DOMAIN fs')
    BY <1>1, FS_RemoveElement DEF Sound, TreeTypes
  <2>2. fs' \in [DOMAIN fs \ {p} -> Nat]
    BY DEF Removed, Sound, TreeTypes
  <2>3. QED
    BY <1>1, <2>1, <2>2 DEF Sound, TreeTypes
<1>3. ASSUME NEW x \in DOMAIN fs, NEW q \in Above(x), x # p
      PROVE  q # p
  <2> SUFFICES ASSUME q = p
               PROVE  FALSE
    OBVIOUS
  <2>1. p \in AnyPath /\ x \in AnyPath
    BY PathsAre DEF Sound, TreeTypes
  <2>2. IsDir(p) /\ Under(p, x)
    BY <2>1, AboveIs DEF Sound, Rooted
  <2>3. Toward(p, x) \in Children(fs, p)
    <3>1. Toward(p, x) \in Paths /\ Len(Toward(p, x)) = Len(p) + 1
          /\ Under(p, Toward(p, x)) /\ Under(Toward(p, x), x)
      BY <1>3, <2>1, <2>2, TowardLaws
    <3>2. QED
      BY <3>1, UpIsThere DEF Children
  <2>4. QED
    BY <2>2, <2>3
<1>4. Rooted'
  BY <1>1, <1>3 DEF Sound, Rooted, IsDir
<1>5. QED
  BY <1>1, <1>2, <1>4 DEF Sound

LEMMA MadeTree ==
    ASSUME Sound, NEW p \in AnyPath, CanMake(p), fs' = Made(p)
    PROVE  /\ Sound' /\ DOMAIN fs \subseteq DOMAIN fs' /\ p \in DOMAIN fs' /\ fs'[p] = Dir
           /\ \A q \in DOMAIN fs : fs'[q] = fs[q]
           /\ \A q \in DOMAIN fs' : q \notin DOMAIN fs => fs'[q] = Dir /\ Under(q, p)
<1>1. p \in Paths /\ \A q \in Above(p) : q \in Paths /\ Under(q, p)
  BY UnderLaws, AboveIs DEF CanMake
<1>2. /\ DOMAIN fs' = DOMAIN fs \cup Above(p) \cup {p}
      /\ \A q \in DOMAIN fs' : fs'[q] = IF q \in DOMAIN fs THEN fs[q] ELSE Dir
  BY DEF Made
<1>3. TreeTypes'
  <2>1. IsFiniteSet(Above(p))
    <3>1. Len(p) \in Nat
      BY DEF AnyPath
    <3>2. IsFiniteSet(1..(Len(p) - 1))
      <4>1. 1 \in Int /\ Len(p) - 1 \in Int
        BY <3>1
      <4>2. QED
        BY <4>1, FS_Interval, Zenon
    <3> DEFINE up == [n \in 1..(Len(p) - 1) |-> SubSeq(p, 1, n)]
    <3>3. up \in Surjection(1..(Len(p) - 1), Above(p))
      BY DEF Surjection, Above
    <3> HIDE DEF up
    <3>4. QED
      BY <3>2, <3>3, FS_Surjection
  <2>2. IsFiniteSet(DOMAIN fs')
    <3> DEFINE with == DOMAIN fs \cup Above(p)
    <3>1. IsFiniteSet(with)
      BY <2>1, FS_Union DEF Sound, TreeTypes
    <3>2. DOMAIN fs' = with \cup {p}
      BY <1>2
    <3> HIDE DEF with
    <3>3. QED
      BY <3>1, <3>2, FS_AddElement
  <2>3. fs' \in [DOMAIN fs' -> Nat]
    BY <1>2 DEF Made, Sound, TreeTypes, Dir
  <2>4. QED
    BY <1>1, <1>2, <2>2, <2>3 DEF Sound, TreeTypes
<1>4. ASSUME NEW x \in DOMAIN fs', NEW q \in Above(x)
      PROVE  IsDir(q)'
  <2>1. CASE x \in DOMAIN fs
    BY <1>2, <2>1 DEF Sound, Rooted, IsDir
  <2>2. CASE x \notin DOMAIN fs
    <3>1. x \in Paths /\ Under(x, p) /\ q \in Paths /\ Under(q, x) /\ q # x
      BY <1>1, <1>2, <2>2, AboveIs, UnderLaws, PathsAre
    <3>2. Under(q, p) /\ q # p
      BY <3>1, UnderLaws, PathsAre
    <3>3. q \in Above(p)
      BY <3>1, <3>2, AboveIs
    <3>4. QED
      BY <1>2, <3>3 DEF CanMake, IsDir
  <2>3. QED
    BY <2>1, <2>2
<1>5. Sound'
  BY <1>3, <1>4 DEF Sound, Rooted
<1>6. fs'[p] = Dir
  BY <1>2 DEF CanMake, IsDir
<1>7. ASSUME NEW q \in DOMAIN fs', q \notin DOMAIN fs
      PROVE  fs'[q] = Dir /\ Under(q, p)
  <2>1. Under(p, p)
    BY UnderLaws
  <2>2. QED
    BY <1>1, <1>2, <1>7, <2>1
<1>8. /\ DOMAIN fs \subseteq DOMAIN fs' /\ p \in DOMAIN fs'
      /\ \A q \in DOMAIN fs : fs'[q] = fs[q]
  BY <1>2
<1>9. QED
  BY <1>5, <1>6, <1>7, <1>8

LEMMA RenamedTree ==
    ASSUME Sound, NEW s \in DOMAIN fs, NEW d \in AnyPath, d \notin DOMAIN fs, IsDir(Folder(d)),
           ~Under(s, d), fs' = Renamed(s, d)
    PROVE  /\ Sound'
           /\ \A p \in DOMAIN fs : ~Under(s, p) => p \in DOMAIN fs' /\ fs'[p] = fs[p]
           /\ \A p \in DOMAIN fs : Under(s, p) =>
                 Moved(s, d, p) \in DOMAIN fs' \ DOMAIN fs /\ fs'[Moved(s, d, p)] = fs[p]
           /\ \A q \in DOMAIN fs' :
                 \/ q \in DOMAIN fs /\ ~Under(s, q) /\ ~Under(d, q)
                 \/ q \notin DOMAIN fs /\ Under(d, q) /\ Moved(d, s, q) \in DOMAIN fs
<1>1. s \in Paths /\ s \in AnyPath
  BY PathsAre DEF Sound, TreeTypes
<1>2. d \in Paths /\ \A q \in Above(d) : IsDir(q)
  BY ParentIsDir
<1>3. \A p \in DOMAIN fs : ~Under(d, p)
  BY <1>2, UpIsThere
<1> DEFINE new == {Moved(s, d, p) : p \in Inside(s)}
           old == DOMAIN fs \ Inside(s)
<1>4. /\ DOMAIN fs' = old \cup new
      /\ \A p \in DOMAIN fs' : fs'[p] = fs[IF Under(d, p) THEN Moved(d, s, p) ELSE p]
  BY DEF Renamed, Moved
<1>5. ASSUME NEW p \in Inside(s)
      PROVE  /\ p \in DOMAIN fs /\ Under(s, p) /\ p \in AnyPath
             /\ Moved(s, d, p) \in AnyPath /\ Under(d, Moved(s, d, p))
             /\ Moved(d, s, Moved(s, d, p)) = p /\ Moved(s, d, p) \notin DOMAIN fs
  <2>1. p \in DOMAIN fs /\ Under(s, p) /\ p \in AnyPath
    BY PathsAre DEF Inside, Sound, TreeTypes
  <2>2. QED
    BY <1>1, <1>3, <2>1, MovedLaws
<1>6. \A p \in DOMAIN fs : ~Under(s, p) => p \in DOMAIN fs' /\ fs'[p] = fs[p]
  BY <1>3, <1>4 DEF Inside
<1>7. \A p \in DOMAIN fs : Under(s, p) =>
         Moved(s, d, p) \in DOMAIN fs' \ DOMAIN fs /\ fs'[Moved(s, d, p)] = fs[p]
  BY <1>4, <1>5 DEF Inside
<1>8. \A q \in DOMAIN fs' :
         \/ q \in DOMAIN fs /\ ~Under(s, q) /\ ~Under(d, q)
         \/ q \notin DOMAIN fs /\ Under(d, q) /\ Moved(d, s, q) \in DOMAIN fs
  BY <1>3, <1>4, <1>5 DEF Inside
<1>9. TreeTypes'
  <2>1. IsFiniteSet(Inside(s)) /\ IsFiniteSet(old)
    BY FS_Subset DEF Sound, TreeTypes, Inside
  <2>2. IsFiniteSet(new)
    <3> DEFINE becomes == [p \in Inside(s) |-> Moved(s, d, p)]
    <3>1. becomes \in Surjection(Inside(s), new)
      BY DEF Surjection
    <3> HIDE DEF becomes, new
    <3>2. QED
      BY <2>1, <3>1, FS_Surjection
  <2>3. IsFiniteSet(DOMAIN fs')
    <3> HIDE DEF old, new
    <3>1. QED
      BY <1>4, <2>1, <2>2, FS_Union
  <2>4. \A q \in new : q \in Paths
    <3>1. \A p \in AnyPath : Under(d, p) => p # <<>>
      BY <1>2, UnderLaws, PathsAre
    <3>2. QED
      BY <1>5, <3>1, UnderLaws
  <2>5. \A q \in DOMAIN fs' : q \in Paths /\ fs'[q] \in Nat
    BY <1>4, <1>6, <1>7, <1>8, <2>4 DEF Sound, TreeTypes, Inside
  <2>6. fs' = [q \in DOMAIN fs' |-> fs'[q]]
    BY <1>4 DEF Renamed
  <2>7. QED
    BY <2>3, <2>5, <2>6 DEF TreeTypes
<1>10. ASSUME NEW x \in DOMAIN fs', NEW q \in Above(x)
       PROVE  IsDir(q)'
  <2>1. x \in AnyPath /\ q \in Paths /\ q \in AnyPath /\ Under(q, x) /\ q # x
    BY <1>9, AboveIs, PathsAre DEF TreeTypes
  <2>2. CASE x \in DOMAIN fs /\ ~Under(s, x)
    <3>1. IsDir(q)
      BY <2>2 DEF Sound, Rooted
    <3>2. ~Under(s, q)
      BY <1>1, <2>1, <2>2, UnderLaws
    <3>3. QED
      BY <1>6, <3>1, <3>2 DEF IsDir
  <2>3. CASE Under(d, x) /\ Moved(d, s, x) \in DOMAIN fs /\ x \notin DOMAIN fs
    <3>1. Under(q, d) \/ Under(d, q)
      BY <2>1, <2>3, UnderLaws
    <3>2. CASE Under(q, d) /\ q # d
      <4>1. IsDir(q)
        BY <1>2, <2>1, <3>2, AboveIs
      <4>2. ~Under(s, q)
        BY <1>1, <2>1, <3>2, UnderLaws
      <4>3. QED
        BY <1>6, <4>1, <4>2 DEF IsDir
    <3>3. CASE Under(d, q)
      <4> DEFINE b == Moved(d, s, q)
                 y == Moved(d, s, x)
      <4>1. /\ b \in AnyPath /\ Under(s, b) /\ Moved(s, d, b) = q
            /\ y \in AnyPath /\ Moved(s, d, y) = x /\ Under(b, y)
        BY <1>1, <2>1, <2>3, <3>3, MovedLaws
      <4> HIDE DEF b, y
      <4>2. b # y
        BY <2>1, <4>1
      <4>3. b \in Paths
        BY <1>1, <4>1, UnderLaws, PathsAre
      <4>4. b \in DOMAIN fs /\ fs[b] = Dir
        BY <2>3, <4>1, <4>2, <4>3, UpIsThere DEF y
      <4>5. QED
        BY <1>7, <4>1, <4>4 DEF IsDir
    <3>4. QED
      BY <3>1, <3>2, <3>3, <2>1, UnderLaws
  <2>4. QED
    BY <1>8, <2>2, <2>3
<1>11. QED
  BY <1>6, <1>7, <1>8, <1>9, <1>10 DEF Sound, Rooted

LEMMA CarriedTree ==
    ASSUME Sound, NEW s \in DOMAIN fs, OpsExists(s), ~IsDir(Target(fs, s)), NEW d \in AnyPath,
           d \notin DOMAIN fs, IsDir(Folder(d)), fs' = Carried(s, d)
    PROVE  /\ Sound' /\ d \in DOMAIN fs' /\ fs'[d] = fs[Target(fs, s)]
           /\ \A p \in DOMAIN fs : p # s => p \in DOMAIN fs' /\ fs'[p] = fs[p]
           /\ \A p \in DOMAIN fs : Under(s, p) => p = s
<1>1. s \in Paths /\ s \in AnyPath /\ DOMAIN fs \subseteq AnyPath
  BY PathsAre DEF Sound, TreeTypes
<1>2. ~IsDir(s)
  BY <1>1, TargetIs
<1>3. d \in Paths /\ \A q \in Above(d) : IsDir(q)
  BY ParentIsDir
<1>4. /\ DOMAIN fs' = (DOMAIN fs \ {s}) \cup {d}
      /\ \A p \in DOMAIN fs' : fs'[p] = IF p = d THEN fs[Target(fs, s)] ELSE fs[p]
  BY DEF Carried
<1>5. fs[Target(fs, s)] \in Nat
  BY DEF OpsExists, Sound, TreeTypes
<1>6. TreeTypes'
  <2>1. IsFiniteSet(DOMAIN fs')
    <3>1. IsFiniteSet(DOMAIN fs \ {s})
      BY FS_RemoveElement DEF Sound, TreeTypes
    <3>2. QED
      BY <1>4, <3>1, FS_AddElement
  <2>2. fs' \in [DOMAIN fs' -> Nat]
    BY <1>4, <1>5 DEF Carried, Sound, TreeTypes
  <2>3. QED
    BY <1>3, <1>4, <2>1, <2>2 DEF Sound, TreeTypes
<1>7. ASSUME NEW x \in DOMAIN fs', NEW q \in Above(x)
      PROVE  IsDir(q)'
  <2>1. IsDir(q)
    BY <1>3, <1>4 DEF Sound, Rooted
  <2>2. q # s /\ q # d
    BY <1>2, <2>1 DEF IsDir
  <2>3. QED
    BY <1>4, <2>1, <2>2 DEF IsDir
<1>8. \A p \in DOMAIN fs : Under(s, p) => p = s
  BY <1>1, <1>2, UpIsThere DEF IsDir
<1>9. QED
  BY <1>4, <1>6, <1>7, <1>8 DEF Sound, Rooted

-----------------------------------------------------------------------------
(* The calls.                                                              *)

CopyOf == Paths \X AnyPath \X {"dir", "file"}
Copies == Seq(CopyOf)
MarkOf == Paths \X {"dir", "file", "rmdir", "link"}
Marks == Seq(MarkOf)

LEMMA EntryIs ==
    ASSUME NEW a \in Paths, NEW as \in {"dir", "file"}
    PROVE  /\ \A b \in AnyPath : <<a, b, as>> \in CopyOf
           /\ <<a, as>> \in MarkOf
  BY DEF CopyOf, MarkOf

\* A folder is copied to a path that its own listing leads to.
IntoItself(s, d) == Plain(s, d) /\ s # d

Typed(r) ==
    /\ DOMAIN r = DOMAIN None
    /\ r.kind \in Pool \cup {"none", "rename", "createFolder", "createFile"}
    /\ r.src \in AnyPath /\ r.dst \in AnyPath /\ r.to \in AnyPath
    /\ r.result \in {"none", "ok", "failed"}

\* How far call r can be.
Doing(r) ==
    /\ r.step \in {"start", "rename", "trash", "copying", "deleting"} => r.src # <<>>
    /\ r.step \in {"none", "start", "trash"} => r.after # "delete"
    /\ r.step = "rename" => r.after \in {"trash", "delete"}
    /\ r.step = "copying" =>
          /\ r.todo \in Copies /\ r.after \in {"end", "trash", "delete"}
          /\ \A i \in DOMAIN r.todo : Under(r.to, r.todo[i][2])
    /\ r.step = "deleting" =>
          /\ r.todo \in Marks /\ (r.kind = "delete" \/ r.after = "delete")
    /\ r.step \in {"none", "start", "rename", "trash", "copying", "deleting", "done"}
    /\ r.step # "done" => r.result = "none"

\* A copy of a folder into itself does not come to a good end.
Endless(r) ==
    IntoItself(r.src, r.to) =>
       /\ r.after = "delete" => r.step # "deleting"
       /\ r.step = "copying" => \E i \in DOMAIN r.todo : IntoItself(r.todo[i][1], r.todo[i][2])

\* Call r is going to delete p, which it finds in its source by listing ...
Doomed(r, p) ==
    /\ r.after = "delete" /\ r.step \notin {"none", "done"}
    /\ Plain(r.src, p) /\ ~IntoItself(r.src, r.to)

\* ... but has yet to copy it.
ToCopy(r, p) ==
    \/ r.step = "rename"
    \/ r.step = "copying" /\ \E i \in DOMAIN r.todo : Plain(r.todo[i][1], p)

Spares(r, p) == Doomed(r, p) => ToCopy(r, p)
Fine(r) == Typed(r) /\ Doing(r) /\ Endless(r)

JobInv == DOMAIN job = Jobs /\ \A k \in Jobs : Fine(job[k])

\* Whatever is neither forfeited nor a folder is where no call deletes it
\* before it has copied it.
Held == \A c \in Data \ forfeited : \E p \in DOMAIN fs : fs[p] = c /\ \A k \in Jobs : Spares(job[k], p)

Bounds == errors \in 0..MaxErrors /\ forfeited \subseteq Nat

TreeInv == Sound /\ JobInv /\ Bounds /\ Held

\* x is y, with another value of lone.
Alike(x, y) ==
    /\ DOMAIN x = DOMAIN y /\ x.kind = y.kind /\ x.src = y.src /\ x.dst = y.dst /\ x.to = y.to
    /\ x.step = y.step /\ x.todo = y.todo /\ x.after = y.after /\ x.result = y.result

LEMMA AlikeFine ==
    ASSUME NEW x, NEW y, Alike(x, y)
    PROVE  (Fine(y) => Fine(x)) /\ \A p : Spares(y, p) => Spares(x, p)
  BY DEF Alike, Fine, Typed, Doing, Endless, Spares, Doomed, ToCopy

LEMMA GotoIs ==
    ASSUME DOMAIN job = Jobs, NEW j \in Jobs, NEW r, Goto(j, r)
    PROVE  DOMAIN job' = Jobs /\ job'[j] = r /\ \A k \in Jobs : k # j => Alike(job'[k], job[k])
  BY DEF Goto, Alike

LEMMA EnterIs ==
    ASSUME JobInv, NEW j \in Jobs, NEW r, enter(j, r)
    PROVE  /\ DOMAIN job' = Jobs /\ job'[j] = r /\ job[j] = None
           /\ \A k \in Jobs : k # j => Alike(job'[k], job[k])
<1>1. DOMAIN job' = Jobs /\ job'[j] = r /\ job[j] = None
  BY DEF enter
<1>2. ASSUME NEW k \in Jobs, k # j
      PROVE  Alike(job'[k], job[k])
  <2>1. job'[k] = [job[k] EXCEPT !.lone = @ /\ ~running(k)]
    BY <1>2 DEF enter
  <2>2. DOMAIN job[k] = DOMAIN None
    BY DEF JobInv, Fine, Typed
  <2>3. QED
    BY <2>1, <2>2 DEF Alike, None
<1>3. QED
  BY <1>1, <1>2

\* What a step of call j has to show.
LEMMA StepKeeps ==
    ASSUME TreeInv, NEW j \in Jobs, Sound', Bounds', forfeited \subseteq forfeited',
           DOMAIN job' = Jobs, Fine(job'[j]),
           \A k \in Jobs : k # j => Alike(job'[k], job[k]),
           \A p \in DOMAIN fs :
              fs[p] \in Data \ forfeited' /\ (\A k \in Jobs : Spares(job[k], p)) =>
              \E q \in DOMAIN fs' : /\ fs'[q] = fs[p] /\ Spares(job'[j], q)
                                   /\ \A k \in Jobs : k # j => Spares(job[k], q)
    PROVE  TreeInv'
<1>1. JobInv'
  BY AlikeFine DEF TreeInv, JobInv
<1>2. ASSUME NEW c \in Data \ forfeited'
      PROVE  \E q \in DOMAIN fs' : fs'[q] = c /\ \A k \in Jobs : Spares(job'[k], q)
  <2>1. PICK p \in DOMAIN fs : fs[p] = c /\ \A k \in Jobs : Spares(job[k], p)
    BY <1>2 DEF TreeInv, Held
  <2>2. PICK q \in DOMAIN fs' : /\ fs'[q] = c /\ Spares(job'[j], q)
                                /\ \A k \in Jobs : k # j => Spares(job[k], q)
    BY <2>1
  <2>3. \A k \in Jobs : Spares(job'[k], q)
    BY <2>2, AlikeFine
  <2>4. QED
    BY <2>2, <2>3
<1>3. Held'
  <2>1. Data' = Data
    BY DEF Data
  <2>2. QED
    BY <1>2, <2>1 DEF Held
<1>4. QED
  BY <1>1, <1>3 DEF TreeInv

\* The same for a step that leaves the tree alone.
LEMMA QuietStep ==
    ASSUME TreeInv, NEW j \in Jobs, UNCHANGED <<fs, forfeited>>, errors' \in 0..MaxErrors,
           DOMAIN job' = Jobs, Fine(job'[j]),
           \A k \in Jobs : k # j => Alike(job'[k], job[k]),
           \A p \in DOMAIN fs : fs[p] \in Data /\ Spares(job[j], p) => Spares(job'[j], p)
    PROVE  TreeInv'
<1>1. Sound' /\ Bounds'
  BY DEF TreeInv, Sound, TreeTypes, Rooted, IsDir, Bounds
<1>2. \A p \in DOMAIN fs :
         fs[p] \in Data \ forfeited' /\ (\A k \in Jobs : Spares(job[k], p)) =>
         \E q \in DOMAIN fs' : /\ fs'[q] = fs[p] /\ Spares(job'[j], q)
                              /\ \A k \in Jobs : k # j => Spares(job[k], q)
  BY DEF Data
<1>3. QED
  BY <1>1, <1>2, StepKeeps

\* What expose leaves out is spared by the other calls.
LEMMA ExposeIs ==
    ASSUME NEW j \in Jobs, NEW paths, expose(j, paths)
    PROVE  /\ forfeited \subseteq forfeited'
           /\ \A q \in paths : fs'[q] \notin forfeited' =>
                /\ \A k \in Jobs : k # j => Spares(job[k], q)
                /\ Doomed(job[j], q) => ~Under(job[j].to, job[j].src)
           /\ forfeited \subseteq Nat /\ (\A q \in paths : fs'[q] \in Nat) => forfeited' \subseteq Nat
  BY DEF expose, Spares, Doomed, running, Plain

\* A finished call.
LEMMA DoneFine ==
    ASSUME NEW r, Fine(r), NEW ok
    PROVE  LET e == [r EXCEPT !.step = "done", !.todo = <<>>, !.result = IF ok THEN "ok" ELSE "failed"]
           IN  Fine(e) /\ \A p : Spares(e, p)
<1> DEFINE e == [r EXCEPT !.step = "done", !.todo = <<>>, !.result = IF ok THEN "ok" ELSE "failed"]
<1>1. /\ DOMAIN e = DOMAIN r /\ e.kind = r.kind /\ e.src = r.src /\ e.dst = r.dst /\ e.to = r.to
      /\ e.step = "done" /\ e.todo = <<>> /\ e.after = r.after
      /\ e.result = (IF ok THEN "ok" ELSE "failed")
  BY DEF Fine, Typed, None
<1> HIDE DEF e
<1>2. Fine(e)
  BY <1>1 DEF Fine, Typed, Doing, Endless
<1>3. \A p : Spares(e, p)
  BY <1>1 DEF Spares, Doomed
<1>4. QED
  BY <1>2, <1>3 DEF e

LEMMA EndIs ==
    ASSUME TreeInv, NEW j \in Jobs, NEW ok, end(j, ok)
    PROVE  /\ DOMAIN job' = Jobs /\ \A k \in Jobs : k # j => Alike(job'[k], job[k])
           /\ Fine(job'[j]) /\ \A p : Spares(job'[j], p)
<1>1. DOMAIN job = Jobs /\ Fine(job[j])
  BY DEF TreeInv, JobInv
<1>2. Goto(j, ended(j, ok))
  BY DEF end
<1>3. DOMAIN job' = Jobs /\ job'[j] = ended(j, ok) /\ \A k \in Jobs : k # j => Alike(job'[k], job[k])
  BY <1>1, <1>2, GotoIs
<1>4. Fine(ended(j, ok)) /\ \A p : Spares(ended(j, ok), p)
  BY <1>1, DoneFine DEF ended
<1>5. QED
  BY <1>3, <1>4

\* Every variant of a name is a name.
LEMMA UniqueIs ==
    ASSUME TreeAssumption, NEW d \in AnyPath, NEW b \in Bases, NEW first \in Nat
    PROVE  Unique(d, b, first) \in Paths
<1> DEFINE free == {i \in first..MaxVariants : Append(d, <<b, i>>) \notin DOMAIN fs}
<1>1. MaxVariants \in Nat /\ free \subseteq Nat
  BY DEF TreeAssumption
<1> HIDE DEF free
<1>2. ASSUME free # {}
      PROVE  Min(free) \in Nat
  <2> DEFINE R == {s \in Nat \X Nat : s[1] < s[2]}
  <2>1. IsWellFoundedOn(R, Nat)
    BY NatLessThanWellFounded DEF OpToRel
  <2>2. PICK x \in free : \A y \in free : <<y, x>> \notin R
    <3> HIDE DEF R
    <3>1. QED
      BY <1>1, <1>2, <2>1, WFMin
  <2>3. \A y \in free : x <= y
    <3>1. \A m, n \in Nat : m < n => <<m, n>> \in R
      OBVIOUS
    <3> HIDE DEF R
    <3>2. ASSUME NEW y \in free, y < x
          PROVE  FALSE
      BY <1>1, <2>2, <3>1, <3>2
    <3>3. QED
      BY <1>1, <3>2
  <2>4. Min(free) \in free
    BY <2>3 DEF Min
  <2>5. QED
    BY <1>1, <2>4
<1>3. \E i \in Nat : Unique(d, b, first) = Append(d, <<b, i>>)
  BY <1>1, <1>2 DEF Unique, free
<1>4. \A i \in Nat : <<b, i>> \in AllNames
  BY DEF AllNames
<1>5. QED
  BY <1>3, <1>4, AppendLaws

-----------------------------------------------------------------------------
(* The steps.                                                              *)

LEMMA ReqTypes ==
    ASSUME TreeAssumption, NEW r \in Requests
    PROVE  /\ r[1] \in Pool \cup {"rename", "createFolder", "createFile"}
           /\ r[2] \in Paths /\ r[2] \in AnyPath /\ r[2] # <<>> /\ r[3] \in AnyPath
  BY PathsAre DEF TreeAssumption

LEMMA NoneFine ==
    /\ Fine(None)
    /\ \A kind \in Pool \cup {"rename", "createFolder", "createFile"} :
         LET e == [None EXCEPT !.kind = kind, !.step = "done"]
         IN  Fine(e) /\ \A p : Spares(e, p)
  BY PathsAre DEF None, Fine, Typed, Doing, Endless, Spares, Doomed, Pool

LEMMA BeginStep ==
    ASSUME TreeAssumption, TreeInv, NEW j \in Jobs, NEW r \in Requests, r[1] \in Pool, begin(j, r)
    PROVE  TreeInv'
<1> DEFINE e == [None EXCEPT !.kind = r[1], !.src = r[2], !.dst = r[3], !.step = "start",
                             !.lone = ~\E k \in Jobs : running(k), !.was = Listed(fs, r[2])]
<1>1. /\ DOMAIN e = DOMAIN None /\ e.kind = r[1] /\ e.src = r[2] /\ e.dst = r[3] /\ e.to = <<>>
      /\ e.step = "start" /\ e.after = "none" /\ e.result = "none"
  BY DEF None
<1>2. enter(j, e) /\ UNCHANGED <<fs, errors, forfeited>>
  BY DEF begin
<1> HIDE DEF e
<1>3. Fine(e) /\ \A p : Spares(e, p)
  BY <1>1, ReqTypes, PathsAre DEF Fine, Typed, Doing, Endless, Spares, Doomed
<1>4. DOMAIN job' = Jobs /\ job'[j] = e /\ \A k \in Jobs : k # j => Alike(job'[k], job[k])
  BY <1>2, EnterIs DEF TreeInv
<1>5. QED
  BY <1>2, <1>3, <1>4, QuietStep DEF TreeInv, Bounds

\* A call on the pool is taken up.
LEMMA TakenUp ==
    ASSUME TreeInv, NEW j \in Jobs, NEW kind, NEW r, starts(j, kind, r), Fine(r), \A p : Spares(r, p)
    PROVE  TreeInv'
<1>1. Goto(j, r) /\ UNCHANGED <<fs, errors, forfeited>>
  BY DEF starts
<1>2. DOMAIN job' = Jobs /\ job'[j] = r /\ \A k \in Jobs : k # j => Alike(job'[k], job[k])
  BY <1>1, GotoIs DEF TreeInv, JobInv
<1>3. QED
  BY <1>1, <1>2, QuietStep DEF TreeInv, Bounds

\* What is known of a call that has not been taken up.
LEMMA StartIs ==
    ASSUME TreeInv, NEW j \in Jobs, job[j].step = "start"
    PROVE  /\ Fine(job[j]) /\ job[j].src \in Paths /\ job[j].src \in AnyPath
           /\ job[j].dst \in AnyPath /\ job[j].after # "delete" /\ job[j].result = "none"
  BY UnderLaws DEF TreeInv, JobInv, Fine, Typed, Doing

LEMMA CopyListIs ==
    ASSUME NEW s \in Paths, NEW d \in AnyPath
    PROVE  LET l == <<<<s, d, kindOf(fs, s)>>>>
           IN  l \in Copies /\ DOMAIN l = {1} /\ l[1] = <<s, d, kindOf(fs, s)>>
<1> DEFINE as == kindOf(fs, s)
<1>1. as \in {"dir", "file"}
  BY DEF kindOf
<1> HIDE DEF as
<1> DEFINE entry == <<s, d, as>>
<1>3. entry \in CopyOf
  BY <1>1 DEF CopyOf
<1> HIDE DEF entry
<1>4. <<entry>> \in Copies /\ DOMAIN <<entry>> = {1} /\ <<entry>>[1] = entry
  BY <1>3 DEF Copies
<1>5. QED
  BY <1>4 DEF as, entry

LEMMA MarkListIs ==
    ASSUME NEW s \in Paths, NEW m \in {"dir", "file", "rmdir", "link"}
    PROVE  <<<<s, m>>>> \in Marks /\ DOMAIN <<<<s, m>>>> = {1} /\ <<<<s, m>>>>[1] = <<s, m>>
  BY DEF Marks, MarkOf

LEMMA CopyToFine ==
    ASSUME TreeInv, NEW j \in Jobs, job[j].step = "start", NEW d \in AnyPath
    PROVE  Fine(copyTo(j, d)) /\ \A p : Spares(copyTo(j, d), p)
<1>1. Fine(job[j]) /\ job[j].src \in Paths /\ job[j].src \in AnyPath /\ job[j].result = "none"
  BY StartIs
<1> DEFINE e == copyTo(j, d)
           l == <<<<job[j].src, d, kindOf(fs, job[j].src)>>>>
<1>2. /\ DOMAIN e = DOMAIN None /\ e.kind = job[j].kind /\ e.src = job[j].src /\ e.dst = d
      /\ e.to = d /\ e.step = "copying" /\ e.after = "end" /\ e.result = job[j].result
      /\ e.todo = l
  BY <1>1 DEF copyTo, Fine, Typed, None
<1>3. l \in Copies /\ DOMAIN l = {1} /\ l[1][1] = job[j].src /\ l[1][2] = d
  BY <1>1, CopyListIs
<1> HIDE DEF e, l
<1>4. Under(d, d)
  BY UnderLaws
<1>5. Doing(e)
  BY <1>1, <1>2, <1>3, <1>4, PathsAre DEF Doing
<1>6. Fine(e) /\ \A p : Spares(e, p)
  BY <1>1, <1>2, <1>3, <1>5 DEF Fine, Typed, Endless, Spares, Doomed
<1>7. QED
  BY <1>6 DEF e

LEMMA ResolveIs ==
    ASSUME NEW s \in Paths, NEW d \in AnyPath
    PROVE  resolveDestination(s, d) \in AnyPath
  BY ParentLaws, AppendLaws, TargetIs, PathsAre DEF resolveDestination

LEMMA CopyStep ==
    ASSUME TreeInv, NEW j \in Jobs, copy(j)
    PROVE  TreeInv'
<1> DEFINE d == resolveDestination(job[j].src, job[j].dst)
<1>1. job[j].step = "start"
  BY DEF copy, starts
<1>2. Fine(job[j]) /\ job[j].src \in Paths /\ job[j].dst \in AnyPath
  BY <1>1, StartIs
<1>3. d \in AnyPath
  BY <1>2, ResolveIs
<1> HIDE DEF d
<1>4. CASE OpsExists(job[j].src)
  <2>1. starts(j, "copy", copyTo(j, d))
    BY <1>4 DEF copy, d
  <2>2. QED
    BY <1>1, <1>3, <2>1, CopyToFine, TakenUp
<1>5. CASE ~OpsExists(job[j].src)
  <2>1. starts(j, "copy", ended(j, FALSE))
    BY <1>5 DEF copy
  <2>2. Fine(ended(j, FALSE)) /\ \A p : Spares(ended(j, FALSE), p)
    BY <1>2, DoneFine DEF ended
  <2>3. QED
    BY <2>1, <2>2, TakenUp
<1>6. QED
  BY <1>4, <1>5

LEMMA MoveStep ==
    ASSUME TreeInv, NEW j \in Jobs, move(j)
    PROVE  TreeInv'
<1> DEFINE d == resolveDestination(job[j].src, job[j].dst)
           e == [job[j] EXCEPT !.step = "rename", !.after = "trash", !.dst = d, !.to = d]
<1>1. starts(j, "move", e) /\ job[j].step = "start"
  BY DEF move, starts
<1>2. Fine(job[j]) /\ job[j].src \in Paths /\ job[j].dst \in AnyPath /\ job[j].result = "none"
  BY <1>1, StartIs
<1>3. d \in AnyPath
  BY <1>2, ResolveIs
<1> HIDE DEF d
<1>4. /\ DOMAIN e = DOMAIN None /\ e.kind = job[j].kind /\ e.src = job[j].src /\ e.dst = d /\ e.to = d
      /\ e.step = "rename" /\ e.after = "trash" /\ e.result = job[j].result
  BY <1>2 DEF Fine, Typed, None
<1> HIDE DEF e
<1>5. Fine(e) /\ \A p : Spares(e, p)
  BY <1>2, <1>3, <1>4, PathsAre DEF Fine, Typed, Doing, Endless, Spares, Doomed
<1>6. QED
  BY <1>1, <1>5, TakenUp

LEMMA DuplicateStep ==
    ASSUME TreeAssumption, TreeInv, NEW j \in Jobs, duplicate(j)
    PROVE  TreeInv'
<1> DEFINE d == Unique(Folder(job[j].src), Name(job[j].src)[1], 1)
<1>1. starts(j, "duplicate", copyTo(j, d)) /\ job[j].step = "start"
  BY DEF duplicate, starts
<1>2. job[j].src \in Paths
  BY <1>1, StartIs
<1>3. Folder(job[j].src) \in AnyPath /\ Name(job[j].src)[1] \in Bases
  BY <1>2, ParentLaws DEF AllNames
<1>4. d \in AnyPath
  BY <1>3, UniqueIs, PathsAre
<1> HIDE DEF d
<1>5. QED
  BY <1>1, <1>4, CopyToFine, TakenUp

LEMMA DeleteStep ==
    ASSUME TreeInv, NEW j \in Jobs, delete_(j)
    PROVE  TreeInv'
<1> DEFINE t == [job[j] EXCEPT !.step = "trash"]
           l == <<<<job[j].src, kindOf(fs, job[j].src)>>>>
           e == [job[j] EXCEPT !.step = "deleting", !.todo = l]
<1>1. /\ job[j].step = "start"
      /\ \/ starts(j, "trash", t)
         \/ starts(j, "delete", e) /\ job[j].kind = "delete"
         \/ \E kind \in {"trash", "delete"} : starts(j, kind, ended(j, TRUE))
  BY DEF delete_, starts
<1>2. /\ Fine(job[j]) /\ job[j].src \in Paths /\ job[j].src \in AnyPath
      /\ job[j].after # "delete" /\ job[j].result = "none"
  BY <1>1, StartIs
<1>3. CASE starts(j, "trash", t)
  <2>1. /\ DOMAIN t = DOMAIN None /\ t.kind = job[j].kind /\ t.src = job[j].src /\ t.dst = job[j].dst
        /\ t.to = job[j].to /\ t.step = "trash" /\ t.after = job[j].after /\ t.result = job[j].result
    BY <1>2 DEF Fine, Typed, None
  <2> HIDE DEF t
  <2>2. Fine(t) /\ \A p : Spares(t, p)
    BY <1>2, <2>1, PathsAre DEF Fine, Typed, Doing, Endless, Spares, Doomed
  <2>3. QED
    BY <1>3, <2>2, TakenUp
<1>4. CASE starts(j, "delete", e) /\ job[j].kind = "delete"
  <2>1. /\ DOMAIN e = DOMAIN None /\ e.kind = job[j].kind /\ e.src = job[j].src /\ e.dst = job[j].dst
        /\ e.to = job[j].to /\ e.step = "deleting" /\ e.after = job[j].after /\ e.result = job[j].result
        /\ e.todo = l
    BY <1>2 DEF Fine, Typed, None
  <2>2. l \in Marks
    <3>1. kindOf(fs, job[j].src) \in {"dir", "file", "rmdir", "link"}
      BY DEF kindOf
    <3>2. QED
      BY <1>2, <3>1, MarkListIs
  <2> HIDE DEF e, l
  <2>4. Fine(e) /\ \A p : Spares(e, p)
    BY <1>2, <1>4, <2>1, <2>2, PathsAre DEF Fine, Typed, Doing, Endless, Spares, Doomed
  <2>5. QED
    BY <1>4, <2>4, TakenUp
<1>5. CASE \E kind \in {"trash", "delete"} : starts(j, kind, ended(j, TRUE))
  <2>1. Fine(ended(j, TRUE)) /\ \A p : Spares(ended(j, TRUE), p)
    BY <1>2, DoneFine DEF ended
  <2>2. QED
    BY <1>5, <2>1, TakenUp
<1>6. QED
  BY <1>1, <1>3, <1>4, <1>5

\* What is at s is at d, but for a link that was replaced by what it leads to;
\* everything else is where it was.
MovesTo(s, d) ==
    /\ \A p \in DOMAIN fs : ~Under(s, p) => p \in DOMAIN fs' /\ fs'[p] = fs[p]
    /\ \A p \in DOMAIN fs : Under(s, p) /\ fs[p] \notin Links =>
          Moved(s, d, p) \in DOMAIN fs' \ DOMAIN fs /\ fs'[Moved(s, d, p)] = fs[p]

\* Qt's rename: the entry, or what a link leads to on another device.
LEMMA RenameIs ==
    ASSUME Sound, NEW s \in AnyPath, NEW d \in AnyPath, qtRename(s, d)
    PROVE  /\ Sound' /\ s \in DOMAIN fs /\ OpsExists(s) /\ d \notin DOMAIN fs /\ ~Under(s, d)
           /\ MovesTo(s, d)
<1>1. /\ OpsExists(s) /\ d \notin DOMAIN fs /\ IsDir(Folder(d)) /\ ~Under(s, d)
      /\ Device(s) = Device(d) \/ ~IsDir(Target(fs, s))
      /\ fs' = IF Device(s) = Device(d) THEN Renamed(s, d) ELSE Carried(s, d)
  BY DEF qtRename, CanRename, CanCreate
<1>2. s \in DOMAIN fs
  BY <1>1, TargetIs
<1>3. CASE fs' = Renamed(s, d)
  BY <1>1, <1>2, <1>3, RenamedTree DEF MovesTo
<1>4. CASE ~IsDir(Target(fs, s)) /\ fs' = Carried(s, d)
  <2>1. /\ Sound' /\ d \in DOMAIN fs' /\ fs'[d] = fs[Target(fs, s)]
        /\ \A p \in DOMAIN fs : p # s => p \in DOMAIN fs' /\ fs'[p] = fs[p]
        /\ \A p \in DOMAIN fs : Under(s, p) => p = s
    BY <1>1, <1>2, <1>4, CarriedTree
  <2>2. fs[s] \notin Links => Target(fs, s) = s
    BY <1>2, TargetIs
  <2>3. Moved(s, d, s) = d /\ Under(s, s)
    BY MovedLaws, UnderLaws
  <2>4. QED
    BY <1>1, <1>2, <2>1, <2>2, <2>3 DEF MovesTo
<1>5. QED
  BY <1>1, <1>3, <1>4

\* What is renamed is found at its new name, and everything else where it was.
LEMMA RenamedKeeps ==
    ASSUME TreeInv, NEW j \in Jobs, NEW s, NEW d, Sound', MovesTo(s, d),
           expose(j, DOMAIN fs' \ DOMAIN fs), errors' \in 0..MaxErrors,
           DOMAIN job' = Jobs, Fine(job'[j]), \A p : Spares(job'[j], p),
           \A k \in Jobs : k # j => Alike(job'[k], job[k])
    PROVE  TreeInv'
<1>1. /\ forfeited \subseteq forfeited' /\ forfeited' \subseteq Nat
      /\ \A q \in DOMAIN fs' \ DOMAIN fs : fs'[q] \notin forfeited' =>
            \A k \in Jobs : k # j => Spares(job[k], q)
  <2>1. \A q \in DOMAIN fs' \ DOMAIN fs : fs'[q] \in Nat
    BY DEF Sound, TreeTypes
  <2>2. QED
    BY <2>1, ExposeIs DEF TreeInv, Bounds
<1>2. ASSUME NEW p \in DOMAIN fs, fs[p] \in Data \ forfeited', \A k \in Jobs : Spares(job[k], p)
      PROVE  \E q \in DOMAIN fs' : /\ fs'[q] = fs[p] /\ Spares(job'[j], q)
                                  /\ \A k \in Jobs : k # j => Spares(job[k], q)
  <2>1. fs[p] \notin Links
    BY <1>2 DEF Data
  <2>2. CASE Under(s, p)
    BY <1>1, <1>2, <2>1, <2>2 DEF MovesTo
  <2>3. CASE ~Under(s, p)
    BY <1>2, <2>3 DEF MovesTo
  <2>4. QED
    BY <2>2, <2>3
<1>3. Bounds'
  BY <1>1 DEF Bounds
<1>4. QED
  BY <1>1, <1>2, <1>3, StepKeeps

LEMMA TryRenameStep ==
    ASSUME TreeAssumption, TreeInv, NEW j \in Jobs, tryRename(j)
    PROVE  TreeInv'
<1> DEFINE r == job[j]
           l == <<<<r.src, r.to, kindOf(fs, r.src)>>>>
           e == [r EXCEPT !.step = "copying", !.todo = l]
<1>1. r.step = "rename" /\ Fine(r) /\ r.src \in Paths /\ r.src \in AnyPath /\ r.to \in AnyPath
  BY UnderLaws DEF tryRename, TreeInv, JobInv, Fine, Typed, Doing
<1>2. CASE /\ qtRename(r.src, r.to) /\ end(j, TRUE)
           /\ expose(j, DOMAIN fs' \ DOMAIN fs) /\ UNCHANGED errors
  <2>1. /\ DOMAIN job' = Jobs /\ \A k \in Jobs : k # j => Alike(job'[k], job[k])
        /\ Fine(job'[j]) /\ \A p : Spares(job'[j], p)
    BY <1>2, EndIs
  <2>2. Sound /\ errors' \in 0..MaxErrors
    BY <1>2 DEF TreeInv, Bounds
  <2>3. Sound' /\ MovesTo(r.src, r.to)
    BY <1>1, <1>2, <2>2, RenameIs
  <2> HIDE DEF r
  <2>4. QED
    BY <1>2, <2>1, <2>2, <2>3, RenamedKeeps
<1>3. CASE /\ ~CanRename(r.src, r.to) \/ errors < MaxErrors
           /\ errors' = IF CanRename(r.src, r.to) THEN errors + 1 ELSE errors
           /\ Goto(j, e) /\ UNCHANGED <<fs, forfeited>>
  <2>1. l \in Copies /\ DOMAIN l = {1} /\ l[1][1] = r.src /\ l[1][2] = r.to
    BY <1>1, CopyListIs
  <2>2. /\ DOMAIN e = DOMAIN None /\ e.kind = r.kind /\ e.src = r.src /\ e.dst = r.dst /\ e.to = r.to
        /\ e.step = "copying" /\ e.after = r.after /\ e.result = r.result /\ e.todo = l
    BY <1>1 DEF Fine, Typed, None
  <2> HIDE DEF e, l
  <2>3. Under(r.to, r.to)
    BY <1>1, UnderLaws
  <2>4. Fine(e)
    <3>1. Typed(e) /\ Endless(e)
      BY <1>1, <2>1, <2>2 DEF Fine, Typed, Endless
    <3>2. Doing(e)
      BY <1>1, <2>1, <2>2, <2>3, PathsAre DEF Fine, Doing
    <3>3. QED
      BY <3>1, <3>2 DEF Fine
  <2>5. \A p : Spares(e, p)
    BY <2>1, <2>2 DEF Spares, Doomed, ToCopy
  <2>6. DOMAIN job' = Jobs /\ job'[j] = e /\ \A k \in Jobs : k # j => Alike(job'[k], job[k])
    BY <1>3, GotoIs DEF TreeInv, JobInv
  <2>7. errors' \in 0..MaxErrors
    BY <1>3 DEF TreeInv, Bounds, TreeAssumption
  <2>8. QED
    BY <1>3, <2>4, <2>5, <2>6, <2>7, QuietStep
<1>4. QED
  BY <1>2, <1>3 DEF tryRename

\* The tree only gains folders: everything is where it was.
LEMMA MadeKeeps ==
    ASSUME TreeInv, NEW j \in Jobs, NEW d \in AnyPath, fs' = IF CanMake(d) THEN Made(d) ELSE fs,
           UNCHANGED <<errors, forfeited>>, DOMAIN job' = Jobs, Fine(job'[j]),
           \A p \in DOMAIN fs : fs[p] \in Data /\ Spares(job[j], p) => Spares(job'[j], p),
           \A k \in Jobs : k # j => Alike(job'[k], job[k])
    PROVE  TreeInv'
<1>1. Sound' /\ \A p \in DOMAIN fs : p \in DOMAIN fs' /\ fs'[p] = fs[p]
  <2>1. CASE CanMake(d)
    BY <2>1, MadeTree DEF TreeInv
  <2>2. CASE ~CanMake(d)
    BY <2>2 DEF TreeInv, Sound, TreeTypes, Rooted, IsDir
  <2>3. QED
    BY <2>1, <2>2
<1>2. Bounds'
  BY DEF TreeInv, Bounds
<1>3. \A p \in DOMAIN fs :
         fs[p] \in Data \ forfeited' /\ (\A k \in Jobs : Spares(job[k], p)) =>
         \E q \in DOMAIN fs' : /\ fs'[q] = fs[p] /\ Spares(job'[j], q)
                              /\ \A k \in Jobs : k # j => Spares(job[k], q)
  BY <1>1 DEF Data
<1>4. QED
  BY <1>1, <1>2, <1>3, StepKeeps

LEMMA MoveToTrashStep ==
    ASSUME TreeAssumption, TreeInv, NEW j \in Jobs, moveToTrash(j)
    PROVE  TreeInv'
<1> DEFINE r == job[j]
           target == Unique(Trash, Name(r.src)[1], 0)
           trashed == /\ r.src \in DOMAIN fs /\ CanCreate(target) /\ ~Under(r.src, target)
                      /\ fs' = Renamed(r.src, target) /\ expose(j, DOMAIN fs' \ DOMAIN fs)
           e == [r EXCEPT !.step = "rename", !.to = target, !.after = "delete"]
<1>1. r.step = "trash" /\ Fine(r) /\ r.src \in Paths /\ r.src \in AnyPath /\ r.after # "delete"
  BY UnderLaws DEF moveToTrash, TreeInv, JobInv, Fine, Typed, Doing
<1>2. Name(r.src)[1] \in Bases
  BY <1>1, ParentLaws DEF AllNames
<1>3. target \in AnyPath /\ Trash \in AnyPath
  BY <1>2, UniqueIs, PathsAre DEF TreeAssumption
<1>4. \/ trashed /\ end(j, TRUE) /\ UNCHANGED errors
      \/ /\ errors < MaxErrors /\ errors' = errors + 1 /\ end(j, FALSE)
         /\ \/ trashed
            \/ r.src \notin DOMAIN fs /\ UNCHANGED <<fs, forfeited>>
      \/ /\ fs' = IF CanMake(Trash) THEN Made(Trash) ELSE fs
         /\ Goto(j, e)
         /\ UNCHANGED <<errors, forfeited>>
  BY DEF moveToTrash
<1> HIDE DEF target
<1>5. ASSUME errors' \in {errors, errors + 1}, errors' = errors \/ errors < MaxErrors
      PROVE  errors' \in 0..MaxErrors
  BY <1>5 DEF TreeInv, Bounds, TreeAssumption
<1>6. ASSUME NEW ok \in BOOLEAN, end(j, ok), trashed, errors' \in 0..MaxErrors
      PROVE  TreeInv'
  <2>1. /\ DOMAIN job' = Jobs /\ \A k \in Jobs : k # j => Alike(job'[k], job[k])
        /\ Fine(job'[j]) /\ \A p : Spares(job'[j], p)
    BY <1>6, EndIs
  <2>2. Sound' /\ MovesTo(r.src, target)
    BY <1>3, <1>6, RenamedTree DEF TreeInv, CanCreate, MovesTo
  <2> HIDE DEF r
  <2>3. QED
    BY <1>6, <2>1, <2>2, RenamedKeeps
<1>7. CASE trashed /\ end(j, TRUE) /\ UNCHANGED errors
  BY <1>5, <1>6, <1>7
<1>8. CASE errors < MaxErrors /\ errors' = errors + 1 /\ end(j, FALSE) /\ trashed
  BY <1>5, <1>6, <1>8
<1>9. CASE errors < MaxErrors /\ errors' = errors + 1 /\ end(j, FALSE) /\ UNCHANGED <<fs, forfeited>>
  <2>1. /\ DOMAIN job' = Jobs /\ \A k \in Jobs : k # j => Alike(job'[k], job[k])
        /\ Fine(job'[j]) /\ \A p : Spares(job'[j], p)
    BY <1>9, EndIs
  <2>2. QED
    BY <1>5, <1>9, <2>1, QuietStep
<1>10. CASE /\ fs' = IF CanMake(Trash) THEN Made(Trash) ELSE fs
            /\ Goto(j, e)
            /\ UNCHANGED <<errors, forfeited>>
  <2>1. /\ DOMAIN e = DOMAIN None /\ e.kind = r.kind /\ e.src = r.src /\ e.dst = r.dst /\ e.to = target
        /\ e.step = "rename" /\ e.after = "delete" /\ e.result = r.result
    BY <1>1 DEF Fine, Typed, None
  <2> HIDE DEF e
  <2>2. Fine(e) /\ \A p : Spares(e, p)
    BY <1>1, <1>3, <2>1, PathsAre DEF Fine, Typed, Doing, Endless, Spares, ToCopy
  <2>3. DOMAIN job' = Jobs /\ job'[j] = e /\ \A k \in Jobs : k # j => Alike(job'[k], job[k])
    BY <1>10, GotoIs DEF TreeInv, JobInv
  <2>4. QED
    BY <1>3, <1>10, <2>2, <2>3, MadeKeeps
<1>11. QED
  BY <1>4, <1>7, <1>8, <1>9, <1>10

\* A call ends without touching the tree.
LEMMA QuietEnd ==
    ASSUME TreeInv, NEW j \in Jobs, NEW ok, end(j, ok), UNCHANGED <<fs, forfeited>>, errors' \in 0..MaxErrors
    PROVE  TreeInv'
  BY EndIs, QuietStep

LEMMA FailSteps ==
    ASSUME TreeAssumption, TreeInv, NEW j \in Jobs, copyFails(j) \/ deleteFails(j) \/ deleteDone(j)
    PROVE  TreeInv'
<1>1. ASSUME NEW possible, ~possible \/ errors < MaxErrors,
             errors' = IF possible THEN errors + 1 ELSE errors
      PROVE  errors' \in 0..MaxErrors
  BY <1>1 DEF TreeInv, Bounds, TreeAssumption
<1>2. CASE copyFails(j)
  <2>1. errors' \in 0..MaxErrors
    BY <1>1, <1>2 DEF copyFails
  <2>2. QED
    BY <1>2, <2>1, QuietEnd DEF copyFails
<1>3. CASE deleteFails(j)
  <2> DEFINE p == Head(job[j].todo)[1]
             as == Head(job[j].todo)[2]
             possible == \/ as = "rmdir" /\ IsDir(p) /\ Children(fs, p) = {}
                         \/ as = "file" /\ p \in DOMAIN fs /\ ~IsDir(p)
  <2>1. (~possible \/ errors < MaxErrors) /\ errors' = IF possible THEN errors + 1 ELSE errors
    BY <1>3 DEF deleteFails
  <2> HIDE DEF possible
  <2>2. errors' \in 0..MaxErrors
    BY <1>1, <2>1
  <2>3. QED
    BY <1>3, <2>2, QuietEnd DEF deleteFails
<1>4. CASE deleteDone(j)
  BY <1>4, QuietEnd DEF deleteDone, TreeInv, Bounds
<1>5. QED
  BY <1>2, <1>3, <1>4

LEMMA CopyDoneStep ==
    ASSUME TreeInv, NEW j \in Jobs, copyDone(j)
    PROVE  TreeInv'
<1> DEFINE r == job[j]
           l == <<<<r.src, "dir">>>>
           t == [r EXCEPT !.step = "trash"]
           e == [r EXCEPT !.step = "deleting", !.todo = l]
<1>1. /\ r.step = "copying" /\ r.todo = <<>> /\ UNCHANGED <<fs, errors, forfeited>>
      /\ Fine(r) /\ r.src \in Paths /\ r.src \in AnyPath
  BY UnderLaws DEF copyDone, TreeInv, JobInv, Fine, Typed, Doing
<1>2. DOMAIN r.todo = {}
  BY <1>1
<1>3. errors' \in 0..MaxErrors
  BY <1>1 DEF TreeInv, Bounds
<1>4. CASE end(j, TRUE)
  BY <1>1, <1>3, <1>4, QuietEnd
<1>5. CASE r.after = "trash" /\ Goto(j, t)
  <2>1. /\ DOMAIN t = DOMAIN None /\ t.kind = r.kind /\ t.src = r.src /\ t.dst = r.dst
        /\ t.to = r.to /\ t.step = "trash" /\ t.after = "trash" /\ t.result = r.result
    BY <1>1, <1>5 DEF Fine, Typed, None
  <2> HIDE DEF t
  <2>2. Fine(t) /\ \A p : Spares(t, p)
    BY <1>1, <2>1, PathsAre DEF Fine, Typed, Doing, Endless, Spares, Doomed
  <2>3. DOMAIN job' = Jobs /\ job'[j] = t /\ \A k \in Jobs : k # j => Alike(job'[k], job[k])
    BY <1>5, GotoIs DEF TreeInv, JobInv
  <2>4. QED
    BY <1>1, <1>3, <2>2, <2>3, QuietStep
<1>6. CASE r.after = "delete" /\ Goto(j, e)
  <2>1. /\ DOMAIN e = DOMAIN None /\ e.kind = r.kind /\ e.src = r.src /\ e.dst = r.dst /\ e.to = r.to
        /\ e.step = "deleting" /\ e.after = "delete" /\ e.result = r.result /\ e.todo = l
    BY <1>1, <1>6 DEF Fine, Typed, None
  <2>2. l \in Marks
    BY <1>1, MarkListIs
  <2> HIDE DEF e, l
  <2>4. ~IntoItself(r.src, r.to)
    BY <1>1, <1>2, <1>6 DEF Fine, Endless
  <2>5. Fine(e)
    BY <1>1, <2>1, <2>2, <2>4, PathsAre DEF Fine, Typed, Doing, Endless
  <2>6. \A p : Spares(r, p) => Spares(e, p)
    BY <1>1, <1>2, <1>6, <2>1 DEF Spares, Doomed, ToCopy
  <2>7. DOMAIN job' = Jobs /\ job'[j] = e /\ \A k \in Jobs : k # j => Alike(job'[k], job[k])
    BY <1>6, GotoIs DEF TreeInv, JobInv
  <2>8. QED
    BY <1>1, <1>3, <2>5, <2>6, <2>7, QuietStep
<1>7. QED
  BY <1>4, <1>5, <1>6 DEF copyDone, copied

\* w is list t with its head replaced by the entries of l.
Spliced(w, l, t) ==
    /\ \A i \in DOMAIN t : i = 1 \/ \E n \in DOMAIN w : w[n] = t[i]
    /\ \A m \in DOMAIN l : \E n \in DOMAIN w : w[n] = l[m]
    /\ \A n \in DOMAIN w : \/ \E m \in DOMAIN l : w[n] = l[m]
                           \/ \E i \in DOMAIN t : w[n] = t[i]

LEMMA HeadIs ==
    ASSUME NEW S, NEW t \in Seq(S), t # <<>>
    PROVE  /\ 1 \in DOMAIN t /\ Head(t) = t[1] /\ t[1] \in S /\ Tail(t) \in Seq(S)
           /\ DOMAIN t = 1..Len(t) /\ Len(t) \in Nat
           /\ DOMAIN Tail(t) = 1..(Len(t) - 1) /\ Len(Tail(t)) = Len(t) - 1
           /\ \A m \in 1..(Len(t) - 1) : Tail(t)[m] = t[m + 1]
<1>1. Len(t) \in Nat /\ Len(t) >= 1 /\ DOMAIN t = 1..Len(t)
  BY LenProperties
<1>2. Head(t) = t[1] /\ t[1] \in S
  BY <1>1
<1>3. Tail(t) \in Seq(S) /\ Len(Tail(t)) = Len(t) - 1
  BY <1>1
<1>4. \A m \in 1..(Len(t) - 1) : Tail(t)[m] = t[m + 1]
  BY <1>1
<1>5. DOMAIN Tail(t) = 1..(Len(t) - 1)
  BY <1>3, LenProperties
<1>6. QED
  BY <1>1, <1>2, <1>3, <1>4, <1>5

LEMMA TailIs ==
    ASSUME NEW S, NEW t \in Seq(S), t # <<>>
    PROVE  Spliced(Tail(t), <<>>, t) /\ Tail(t) \in Seq(S)
<1> DEFINE u == Tail(t)
<1>1. /\ u \in Seq(S) /\ DOMAIN t = 1..Len(t) /\ DOMAIN u = 1..(Len(t) - 1) /\ Len(t) \in Nat
      /\ \A m \in 1..(Len(t) - 1) : u[m] = t[m + 1]
  BY HeadIs
<1> HIDE DEF u
<1>2. ASSUME NEW i \in DOMAIN t, i # 1
      PROVE  \E n \in DOMAIN u : u[n] = t[i]
  <2>1. i - 1 \in 1..(Len(t) - 1) /\ (i - 1) + 1 = i
    BY <1>1, <1>2
  <2>2. QED
    BY <1>1, <2>1
<1>3. ASSUME NEW n \in DOMAIN u
      PROVE  \E i \in DOMAIN t : u[n] = t[i]
  <2>1. n + 1 \in 1..Len(t)
    BY <1>1
  <2>2. QED
    BY <1>1, <2>1
<1>4. DOMAIN <<>> = {}
  OBVIOUS
<1>5. Spliced(u, <<>>, t)
  BY <1>2, <1>3, <1>4 DEF Spliced
<1>6. QED
  BY <1>1, <1>5 DEF u

LEMMA ConcatIs ==
    ASSUME NEW S, NEW t \in Seq(S), NEW l \in Seq(S), t # <<>>
    PROVE  Spliced(l \o Tail(t), l, t) /\ l \o Tail(t) \in Seq(S)
<1> DEFINE u == Tail(t)
<1>1. u \in Seq(S) /\ DOMAIN u = 1..Len(u) /\ Len(u) \in Nat /\ Spliced(u, <<>>, t)
  BY TailIs, LenProperties
<1> HIDE DEF u
<1> DEFINE w == l \o u
<1>2. /\ w \in Seq(S) /\ Len(w) = Len(l) + Len(u) /\ DOMAIN w = 1..Len(w) /\ Len(l) \in Nat
      /\ DOMAIN l = 1..Len(l) /\ \A n \in 1..Len(w) : w[n] = IF n <= Len(l) THEN l[n] ELSE u[n - Len(l)]
  BY <1>1, ConcatProperties, LenProperties
<1> HIDE DEF w
<1>3. ASSUME NEW m \in DOMAIN u
      PROVE  \E n \in DOMAIN w : w[n] = u[m]
  <2>1. m + Len(l) \in 1..Len(w) /\ ~(m + Len(l) <= Len(l)) /\ (m + Len(l)) - Len(l) = m
    BY <1>1, <1>2
  <2>2. QED
    BY <1>2, <2>1
<1>4. ASSUME NEW n \in DOMAIN w
      PROVE  \/ \E m \in DOMAIN l : w[n] = l[m]
             \/ \E m \in DOMAIN u : w[n] = u[m]
  <2>1. CASE n <= Len(l)
    BY <1>2, <2>1
  <2>2. CASE ~(n <= Len(l))
    <3>1. n - Len(l) \in DOMAIN u
      BY <1>1, <1>2, <2>2
    <3>2. QED
      BY <1>2, <2>2, <3>1
  <2>3. QED
    BY <2>1, <2>2
<1>5. \A m \in DOMAIN l : m \in DOMAIN w /\ w[m] = l[m]
  BY <1>1, <1>2
<1>6. DOMAIN <<>> = {}
  OBVIOUS
<1>7. Spliced(w, l, t)
  BY <1>1, <1>3, <1>4, <1>5, <1>6 DEF Spliced
<1>8. QED
  BY <1>2, <1>7 DEF u, w

\* The entries of s, each with its path in d and what it is.
CopyList(f, s, d) ==
    [i \in DOMAIN Entries(f, s) |->
       <<Entries(f, s)[i], Append(d, Name(Entries(f, s)[i])), kindOf(f, Entries(f, s)[i])>>]

LEMMA CopyListed ==
    ASSUME NEW f, IsFiniteSet(DOMAIN f), DOMAIN f \subseteq Paths, NEW s \in AnyPath, NEW d \in AnyPath
    PROVE  LET l == CopyList(f, s, d)
           IN  /\ l \in Copies
               /\ \A m \in DOMAIN l :
                    /\ l[m][1] \in Paths /\ l[m][2] \in Paths /\ Under(s, l[m][1])
                    /\ Under(d, l[m][2]) /\ Len(l[m][2]) = Len(d) + 1
                    /\ l[m][1] \in Children(f, s) /\ l[m][2] = Append(d, Name(l[m][1]))
                    /\ Name(l[m][1]) \notin Hidden
               /\ \A p \in AnyPath : Plain(s, p) /\ s # p /\ Toward(s, p) \in DOMAIN f /\ f[Toward(s, p)] \notin Links =>
                     \E m \in DOMAIN l : l[m][1] = Toward(s, p)
<1> DEFINE entry == Entries(f, s)
           l == CopyList(f, s, d)
<1>1. /\ entry \in Seq(Shown(f, s))
      /\ \A x \in Shown(f, s) : \E i \in DOMAIN entry : entry[i] = x
  BY EntriesAre
<1>2. l = [i \in DOMAIN entry |-> <<entry[i], Append(d, Name(entry[i])), kindOf(f, entry[i])>>]
  BY DEF CopyList
<1> HIDE DEF entry, l
<1>3. DOMAIN entry = 1..Len(entry) /\ Len(entry) \in Nat /\ \A i \in DOMAIN entry : entry[i] \in Shown(f, s)
  BY <1>1, ElementOfSeq, LenProperties
<1>4. DOMAIN l = DOMAIN entry
  BY <1>2
<1>5. ASSUME NEW m \in DOMAIN l
      PROVE  /\ l[m] \in CopyOf /\ l[m][1] = entry[m]
             /\ l[m][1] \in Paths /\ l[m][2] \in Paths /\ Under(s, l[m][1])
             /\ Under(d, l[m][2]) /\ Len(l[m][2]) = Len(d) + 1
             /\ l[m][1] \in Children(f, s) /\ l[m][2] = Append(d, Name(l[m][1]))
             /\ Name(l[m][1]) \notin Hidden
  <2>1. l[m] = <<entry[m], Append(d, Name(entry[m])), kindOf(f, entry[m])>>
    BY <1>2, <1>4
  <2>2. /\ entry[m] \in Children(f, s) /\ entry[m] \in Paths /\ Under(s, entry[m])
        /\ Name(entry[m]) \notin Hidden
    BY <1>3, <1>4 DEF Children, Shown
  <2>3. Name(entry[m]) \in AllNames
    BY <2>2, ParentLaws
  <2> DEFINE a == Append(d, Name(entry[m]))
             as == kindOf(f, entry[m])
  <2>4. a \in Paths /\ Under(d, a) /\ Len(a) = Len(d) + 1
    BY <2>3, AppendLaws
  <2>5. as \in {"dir", "file"}
    BY DEF kindOf
  <2> HIDE DEF a, as
  <2>6. l[m] = <<entry[m], a, as>>
    BY <2>1 DEF a, as
  <2>7. l[m][1] = entry[m] /\ l[m][2] = a /\ a = Append(d, Name(l[m][1]))
    BY <2>6 DEF a
  <2>8. l[m] \in CopyOf
    BY <2>2, <2>4, <2>5, <2>6, PathsAre, EntryIs
  <2>9. QED
    BY <2>2, <2>4, <2>7, <2>8
<1>6. l \in Copies
  <2>1. \A m \in DOMAIN l : l[m] \in CopyOf
    BY <1>5
  <2>2. l \in [1..Len(entry) -> CopyOf]
    BY <1>2, <1>3, <1>4, <2>1
  <2>3. QED
    BY <1>3, <2>2 DEF Copies
<1>7. ASSUME NEW p \in AnyPath, Plain(s, p), s # p, Toward(s, p) \in DOMAIN f, f[Toward(s, p)] \notin Links
      PROVE  \E m \in DOMAIN l : l[m][1] = Toward(s, p)
  <2> DEFINE x == Toward(s, p)
  <2>1. x \in AnyPath /\ Len(x) = Len(s) + 1 /\ Under(s, x) /\ Under(x, p)
    BY <1>7, PlainLaws, TowardLaws, PathsAre
  <2> HIDE DEF x
  <2>2. Plain(s, x)
    BY <1>7, <2>1, PlainLaws
  <2>3. Name(x) \notin Hidden
    BY <2>1, <2>2, PlainLaws
  <2>4. x \in Shown(f, s)
    BY <1>7, <2>1, <2>3 DEF Shown, Children, x
  <2>5. PICK m \in DOMAIN entry : entry[m] = x
    BY <1>1, <2>4
  <2>6. QED
    BY <1>4, <1>5, <2>5 DEF x
<1>8. \A m \in DOMAIN l :
         /\ l[m][1] \in Paths /\ l[m][2] \in Paths /\ Under(s, l[m][1])
         /\ Under(d, l[m][2]) /\ Len(l[m][2]) = Len(d) + 1
         /\ l[m][1] \in Children(f, s) /\ l[m][2] = Append(d, Name(l[m][1]))
         /\ Name(l[m][1]) \notin Hidden
  BY <1>5
<1>9. QED
  BY <1>6, <1>7, <1>8 DEF l

\* After what s leads to, at the head of the list, has been created as d, its
\* entries stand in for it.  A path into itself is no way through a link.
LEMMA FolderListed ==
    ASSUME NEW f, IsFiniteSet(DOMAIN f), DOMAIN f \subseteq Paths,
           NEW r, Fine(r), r.step = "copying",
           NEW s \in Paths, NEW x \in AnyPath, NEW d \in Paths,
           1 \in DOMAIN r.todo, r.todo[1][1] = s, r.todo[1][2] = d,
           Under(s, d) /\ s # d => x = s,
           d \in DOMAIN f, f[d] = Dir, \A q \in Above(d) : q \in DOMAIN f /\ f[q] = Dir,
           NEW w \in Copies, Spliced(w, CopyList(f, x, d), r.todo),
           NEW e, DOMAIN e = DOMAIN r, e.kind = r.kind, e.src = r.src, e.dst = r.dst, e.to = r.to,
           e.step = r.step, e.after = r.after, e.result = r.result, e.todo = w
    PROVE  /\ Fine(e)
           /\ \A p \in AnyPath :
                 /\ Plain(s, p) => x = s /\ s # p /\ Toward(s, p) \in DOMAIN f /\ f[Toward(s, p)] \notin Links
                 /\ Spares(r, p)
                 => Spares(e, p)
<1> DEFINE l == CopyList(f, x, d)
<1>1. s \in AnyPath /\ d \in AnyPath /\ Dir \notin Links
  BY PathsAre, TargetIs
<1>2. /\ \A m \in DOMAIN l :
            /\ l[m][1] \in Paths /\ l[m][2] \in Paths /\ Under(x, l[m][1])
            /\ Under(d, l[m][2]) /\ Len(l[m][2]) = Len(d) + 1
            /\ l[m][2] = Append(d, Name(l[m][1])) /\ Name(l[m][1]) \notin Hidden
      /\ \A p \in AnyPath : Plain(x, p) /\ x # p /\ Toward(x, p) \in DOMAIN f /\ f[Toward(x, p)] \notin Links =>
            \E m \in DOMAIN l : l[m][1] = Toward(x, p)
  BY <1>1, CopyListed
<1>3. /\ \A i \in DOMAIN r.todo : i = 1 \/ \E n \in DOMAIN w : w[n] = r.todo[i]
      /\ \A m \in DOMAIN l : \E n \in DOMAIN w : w[n] = l[m]
      /\ \A n \in DOMAIN w : \/ \E m \in DOMAIN l : w[n] = l[m]
                             \/ \E i \in DOMAIN r.todo : w[n] = r.todo[i]
  BY DEF Spliced
<1> HIDE DEF l
<1>4. /\ r.src \in AnyPath /\ r.to \in AnyPath
      /\ \A i \in DOMAIN r.todo : Under(r.to, r.todo[i][2])
  BY DEF Fine, Typed, Doing
<1>5. Under(r.to, d)
  BY <1>4
<1>6. Doing(e)
  <2>1. ASSUME NEW m \in DOMAIN l
        PROVE  Under(r.to, l[m][2])
    <3>1. l[m][2] \in AnyPath /\ Under(d, l[m][2])
      BY <1>2, PathsAre
    <3>2. QED
      BY <1>1, <1>4, <1>5, <3>1, UnderLaws
  <2>2. ASSUME NEW n \in DOMAIN w
        PROVE  Under(r.to, w[n][2])
    BY <1>3, <1>4, <2>1
  <2>3. QED
    BY <2>2 DEF Fine, Doing
<1>7. ASSUME IntoItself(e.src, e.to)
      PROVE  \E n \in DOMAIN w : IntoItself(w[n][1], w[n][2])
  <2>1. PICK i \in DOMAIN r.todo : IntoItself(r.todo[i][1], r.todo[i][2])
    BY <1>7 DEF Fine, Endless
  <2>2. CASE i # 1
    BY <1>3, <2>1, <2>2
  <2>3. CASE i = 1
    <3>1. Plain(s, d) /\ Under(s, d) /\ s # d /\ x = s
      BY <1>1, <2>1, <2>3, PlainLaws DEF IntoItself
    <3> DEFINE c == Toward(s, d)
    <3>2. c \in AnyPath /\ Under(s, c) /\ Under(c, d) /\ (c = d \/ c \in Above(d))
      BY <1>1, <3>1, TowardLaws, PathsAre
    <3>3. PICK m \in DOMAIN l : l[m][1] = c
      BY <1>1, <1>2, <3>1, <3>2
    <3> HIDE DEF c
    <3>4. /\ l[m][1] \in AnyPath /\ l[m][2] \in AnyPath /\ Under(d, l[m][2])
          /\ Len(l[m][2]) = Len(d) + 1 /\ Name(l[m][2]) = Name(c) /\ Name(c) \notin Hidden
      <4>1. /\ l[m][1] \in Paths /\ l[m][2] \in Paths /\ Under(d, l[m][2])
            /\ Len(l[m][2]) = Len(d) + 1 /\ l[m][2] = Append(d, Name(c)) /\ Name(c) \notin Hidden
        BY <1>2, <3>3
      <4>2. Name(c) \in AllNames
        BY <3>3, <4>1, ParentLaws
      <4>3. Name(Append(d, Name(c))) = Name(c)
        BY <1>1, <4>2, AppendLaws
      <4>4. QED
        BY <4>1, <4>3, PathsAre
    <3>5. Plain(c, d) /\ Plain(d, l[m][2])
      BY <1>1, <3>1, <3>2, <3>4, PlainLaws
    <3>6. Plain(c, l[m][2])
      BY <1>1, <3>2, <3>4, <3>5, PlainLaws
    <3>7. Len(c) <= Len(d) /\ Len(d) \in Nat
      BY <1>1, <3>2, UnderLaws DEF AnyPath
    <3>8. c # l[m][2]
      BY <3>4, <3>7
    <3>9. QED
      BY <1>3, <3>3, <3>6, <3>8 DEF IntoItself
  <2>4. QED
    BY <2>2, <2>3
<1>8. Fine(e)
  BY <1>6, <1>7 DEF Fine, Typed, Endless
<1>9. ASSUME NEW p \in AnyPath, Spares(r, p), Doomed(e, p),
             Plain(s, p) => x = s /\ s # p /\ Toward(s, p) \in DOMAIN f /\ f[Toward(s, p)] \notin Links
      PROVE  \E n \in DOMAIN w : Plain(w[n][1], p)
  <2>1. Doomed(r, p)
    BY <1>9 DEF Doomed
  <2>2. PICK i \in DOMAIN r.todo : Plain(r.todo[i][1], p)
    BY <1>9, <2>1 DEF Spares, ToCopy
  <2>3. CASE i # 1
    BY <1>3, <2>2, <2>3
  <2>4. CASE i = 1
    <3>1. Plain(s, p) /\ Under(s, p) /\ x = s /\ s # p
      BY <1>1, <1>9, <2>2, <2>4, PlainLaws
    <3>2. Toward(s, p) \in AnyPath /\ Under(s, Toward(s, p)) /\ Under(Toward(s, p), p)
      BY <1>1, <3>1, TowardLaws, PathsAre
    <3>3. PICK m \in DOMAIN l : l[m][1] = Toward(s, p)
      BY <1>2, <1>9, <3>1
    <3>4. Plain(Toward(s, p), p)
      BY <1>1, <3>1, <3>2, PlainLaws
    <3>5. QED
      BY <1>3, <3>3, <3>4
  <2>5. QED
    BY <2>3, <2>4
<1>10. \A p \in AnyPath :
          /\ Plain(s, p) => x = s /\ s # p /\ Toward(s, p) \in DOMAIN f /\ f[Toward(s, p)] \notin Links
          /\ Spares(r, p)
          => Spares(e, p)
  BY <1>9 DEF Spares, ToCopy
<1>11. QED
  BY <1>8, <1>10

\* The entry at the head of the list.
LEMMA HeadCopy ==
    ASSUME TreeInv, NEW j \in Jobs, job[j].step = "copying", job[j].todo # <<>>
    PROVE  LET s == Head(job[j].todo)[1]
               d == Head(job[j].todo)[2]
           IN  /\ Fine(job[j]) /\ job[j].todo \in Copies /\ 1 \in DOMAIN job[j].todo
               /\ job[j].todo[1][1] = s /\ job[j].todo[1][2] = d /\ s \in Paths /\ d \in AnyPath
<1> DEFINE t == job[j].todo
<1>1. Fine(job[j]) /\ t \in Copies
  BY DEF TreeInv, JobInv, Fine, Doing
<1> HIDE DEF t
<1>2. 1 \in DOMAIN t /\ Head(t) = t[1] /\ t[1] \in CopyOf
  <2>1. t # <<>> /\ t \in Seq(CopyOf)
    BY <1>1 DEF t, Copies
  <2>2. QED
    BY <2>1, HeadIs
<1>3. t[1][1] \in Paths /\ t[1][2] \in AnyPath
  BY <1>2 DEF CopyOf
<1>4. QED
  BY <1>1, <1>2, <1>3 DEF t

LEMMA CopyFolder ==
    ASSUME TreeInv, NEW j \in Jobs, job[j].step = "copying", job[j].todo # <<>>,
           NEW s, NEW d, s = Head(job[j].todo)[1], d = Head(job[j].todo)[2],
           NEW x, x = Target(fs, s), IsDir(x), CanMake(d), fs' = Made(d), UNCHANGED <<errors, forfeited>>,
           Goto(j, [job[j] EXCEPT !.todo = CopyList(fs', x, d) \o Tail(@)])
    PROVE  TreeInv'
<1> DEFINE r == job[j]
           l == CopyList(fs', x, d)
           w == l \o Tail(r.todo)
           e == [r EXCEPT !.todo = w]
<1>1. /\ Fine(r) /\ r.todo \in Copies /\ 1 \in DOMAIN r.todo /\ r.todo[1][1] = s /\ r.todo[1][2] = d
      /\ s \in Paths /\ d \in AnyPath
  BY HeadCopy
<1>2. d \in Paths /\ s \in AnyPath /\ x \in AnyPath /\ Sound /\ Dir \notin Links /\ s \in DOMAIN fs
  BY <1>1, UnderLaws, PathsAre, TargetIs DEF CanMake, TreeInv, IsDir
<1>3. /\ Sound' /\ d \in DOMAIN fs' /\ fs'[d] = Dir /\ \A p \in DOMAIN fs : p \in DOMAIN fs' /\ fs'[p] = fs[p]
  BY <1>1, MadeTree DEF TreeInv
<1>4. /\ IsFiniteSet(DOMAIN fs') /\ DOMAIN fs' \subseteq Paths
      /\ \A q \in Above(d) : q \in DOMAIN fs' /\ fs'[q] = Dir
  BY <1>3 DEF Sound, TreeTypes, Rooted, IsDir
<1>0. Under(s, d) /\ s # d => x = s
  <2> SUFFICES ASSUME Under(s, d), s # d
               PROVE  x = s
    OBVIOUS
  <2>1. s \in Above(d)
    BY <1>1, AboveIs
  <2>2. IsDir(s)
    BY <1>2, <2>1 DEF CanMake
  <2>3. QED
    BY <1>2, <2>2, TargetIs
<1>5. l \in Copies
  BY <1>1, <1>2, <1>4, CopyListed
<1> HIDE DEF l
<1>6. Spliced(w, l, r.todo) /\ w \in Copies
  BY <1>1, <1>5, ConcatIs DEF Copies
<1>7. /\ DOMAIN e = DOMAIN r /\ e.kind = r.kind /\ e.src = r.src /\ e.dst = r.dst /\ e.to = r.to
      /\ e.step = r.step /\ e.after = r.after /\ e.result = r.result /\ e.todo = w
  BY <1>1 DEF Fine, Typed, None
<1>8. DOMAIN job' = Jobs /\ job'[j] = e /\ \A k \in Jobs : k # j => Alike(job'[k], job[k])
  <2>1. Goto(j, e)
    BY DEF l
  <2>2. QED
    BY <2>1, GotoIs DEF TreeInv, JobInv
<1> HIDE DEF w, e
<1>9. /\ Fine(e)
      /\ \A p \in AnyPath :
            /\ Plain(s, p) => x = s /\ s # p /\ Toward(s, p) \in DOMAIN fs' /\ fs'[Toward(s, p)] \notin Links
            /\ Spares(r, p)
            => Spares(e, p)
  <2> DEFINE f == fs'
  <2>1. /\ IsFiniteSet(DOMAIN f) /\ DOMAIN f \subseteq Paths /\ d \in DOMAIN f /\ f[d] = Dir
        /\ \A q \in Above(d) : q \in DOMAIN f /\ f[q] = Dir
    BY <1>3, <1>4
  <2>2. Spliced(w, CopyList(f, x, d), r.todo)
    BY <1>6 DEF l
  <2>3. r.step = "copying"
    OBVIOUS
  <2> HIDE DEF f, r
  <2>4. /\ Fine(e)
        /\ \A p \in AnyPath :
              /\ Plain(s, p) => x = s /\ s # p /\ Toward(s, p) \in DOMAIN f /\ f[Toward(s, p)] \notin Links
              /\ Spares(r, p)
              => Spares(e, p)
    BY <1>0, <1>1, <1>2, <1>6, <1>7, <2>1, <2>2, <2>3, FolderListed
  <2>5. QED
    BY <2>4 DEF f, r
<1>10. ASSUME NEW p \in DOMAIN fs, fs[p] \in Data, Spares(r, p)
       PROVE  Spares(e, p)
  <2>1. p \in AnyPath /\ fs[p] # Dir /\ fs[p] \notin Links
    BY <1>10, PathsAre DEF TreeInv, Sound, TreeTypes, Data
  <2>2. ASSUME Plain(s, p)
        PROVE  x = s /\ s # p /\ Toward(s, p) \in DOMAIN fs' /\ fs'[Toward(s, p)] \notin Links
    <3>1. Under(s, p)
      BY <1>2, <2>1, <2>2, PlainLaws
    <3>2. s # p
      BY <1>2, <2>1, TargetIs DEF IsDir
    <3>3. IsDir(s)
      BY <1>1, <1>2, <3>1, <3>2, UpIsThere DEF IsDir
    <3>4. x = s
      BY <1>2, <3>3, TargetIs
    <3>5. Toward(s, p) \in Paths /\ Under(Toward(s, p), p)
      BY <1>2, <2>1, <3>1, <3>2, TowardLaws
    <3>6. Toward(s, p) \in DOMAIN fs /\ fs[Toward(s, p)] \notin Links
      BY <1>2, <2>1, <3>5, UpIsThere
    <3>7. QED
      BY <1>3, <3>2, <3>4, <3>6
  <2>3. QED
    BY <1>9, <1>10, <2>1, <2>2
<1>11. QED
  BY <1>1, <1>8, <1>9, <1>10, MadeKeeps

\* A file that has been copied is safe at its copy, or was exposed there.
LEMMA CopyFileStep ==
    ASSUME TreeInv, NEW j \in Jobs, job[j].step = "copying", job[j].todo # <<>>,
           NEW s, NEW d, s = Head(job[j].todo)[1], d = Head(job[j].todo)[2],
           NEW x, x = Target(fs, s), ~IsDir(x), OpsExists(s), CanCreate(d), fs' = Added(d, fs[x]),
           UNCHANGED errors,
           Goto(j, [job[j] EXCEPT !.todo = Tail(@)]), expose(j, {d})
    PROVE  TreeInv'
<1> DEFINE r == job[j]
           w == Tail(r.todo)
           e == [r EXCEPT !.todo = w]
<1>1. /\ Fine(r) /\ r.todo \in Copies /\ 1 \in DOMAIN r.todo /\ r.todo[1][1] = s /\ r.todo[1][2] = d
      /\ s \in Paths /\ s \in AnyPath /\ d \in AnyPath
  BY HeadCopy, PathsAre
<1>2. Spliced(w, <<>>, r.todo) /\ w \in Copies
  BY <1>1, TailIs DEF Copies
<1>0. /\ s \in DOMAIN fs /\ ~IsDir(s) /\ x \in DOMAIN fs /\ fs[x] \in Nat
      /\ fs[s] \notin Links => x = s
  BY <1>1, TargetIs DEF OpsExists, TreeInv, Sound, TreeTypes
<1>3. /\ DOMAIN e = DOMAIN r /\ e.kind = r.kind /\ e.src = r.src /\ e.dst = r.dst /\ e.to = r.to
      /\ e.step = r.step /\ e.after = r.after /\ e.result = r.result /\ e.todo = w
  BY <1>1 DEF Fine, Typed, None
<1>4. DOMAIN job' = Jobs /\ job'[j] = e /\ \A k \in Jobs : k # j => Alike(job'[k], job[k])
  BY GotoIs DEF TreeInv, JobInv
<1> HIDE DEF w, e
<1>5. /\ \A i \in DOMAIN r.todo : i = 1 \/ \E n \in DOMAIN w : w[n] = r.todo[i]
      /\ \A n \in DOMAIN w : \E i \in DOMAIN r.todo : w[n] = r.todo[i]
  BY <1>2 DEF Spliced
<1>6. /\ r.src \in AnyPath /\ r.to \in AnyPath
      /\ \A i \in DOMAIN r.todo : Under(r.to, r.todo[i][2])
  BY <1>1 DEF Fine, Typed, Doing
<1>7. Under(r.to, d)
  BY <1>1, <1>6
<1>8. d \notin DOMAIN fs /\ IsDir(Folder(d)) /\ Sound
  BY DEF CanCreate, TreeInv
<1>9. /\ Sound' /\ d \in DOMAIN fs' /\ fs'[d] = fs[x]
      /\ \A p \in DOMAIN fs : p \in DOMAIN fs' /\ fs'[p] = fs[p]
  BY <1>0, <1>1, <1>8, AddedTree DEF IsDir
<1>10. /\ forfeited \subseteq forfeited' /\ forfeited' \subseteq Nat
       /\ fs[x] \notin forfeited' =>
             /\ \A k \in Jobs : k # j => Spares(job[k], d)
             /\ Doomed(r, d) => ~Under(r.to, r.src)
  <2>1. \A q \in {d} : fs'[q] \in Nat
    BY <1>0, <1>9
  <2>2. forfeited \subseteq Nat
    BY DEF TreeInv, Bounds
  <2>3. d \in {d}
    OBVIOUS
  <2> DEFINE paths == {d}
  <2> HIDE DEF paths, r
  <2>6. expose(j, paths)
    BY DEF paths
  <2>7. \A q \in paths : fs'[q] \in Nat
    BY <2>1 DEF paths
  <2>8. /\ forfeited \subseteq forfeited' /\ forfeited' \subseteq Nat
        /\ \A q \in paths : fs'[q] \notin forfeited' =>
             /\ \A k \in Jobs : k # j => Spares(job[k], q)
             /\ Doomed(job[j], q) => ~Under(job[j].to, job[j].src)
    BY <2>2, <2>6, <2>7, ExposeIs
  <2>4. /\ forfeited \subseteq forfeited' /\ forfeited' \subseteq Nat
        /\ fs'[d] \notin forfeited' =>
             /\ \A k \in Jobs : k # j => Spares(job[k], d)
             /\ Doomed(job[j], d) => ~Under(job[j].to, job[j].src)
    BY <2>8, <2>3 DEF paths
  <2>5. QED
    BY <1>9, <2>4 DEF r
<1>11. Fine(e)
  <2>1. Doing(e)
    BY <1>1, <1>2, <1>3, <1>5, <1>6 DEF Fine, Doing
  <2>2. ASSUME IntoItself(e.src, e.to)
        PROVE  \E n \in DOMAIN w : IntoItself(w[n][1], w[n][2])
    <3>1. PICK i \in DOMAIN r.todo : IntoItself(r.todo[i][1], r.todo[i][2])
      BY <1>1, <1>3, <2>2 DEF Fine, Endless
    <3>2. i # 1
      <4> SUFFICES ASSUME i = 1
                   PROVE  FALSE
        OBVIOUS
      <4>1. Under(s, d) /\ s # d
        BY <1>1, <3>1, PlainLaws DEF IntoItself
      <4>2. s \in Above(d)
        BY <1>1, <4>1, AboveIs
      <4>3. QED
        BY <1>0, <1>1, <1>8, <4>2, ParentIsDir
    <3>3. QED
      BY <1>5, <3>1, <3>2
  <2>3. QED
    BY <1>1, <1>3, <2>1, <2>2 DEF Fine, Typed, Endless
<1>12. ASSUME NEW p \in DOMAIN fs, p # s, Spares(r, p)
       PROVE  Spares(e, p)
  <2> SUFFICES ASSUME Doomed(e, p)
               PROVE  \E n \in DOMAIN w : Plain(w[n][1], p)
    BY <1>3 DEF Spares, ToCopy
  <2>1. Doomed(r, p)
    BY <1>3 DEF Doomed
  <2>2. PICK i \in DOMAIN r.todo : Plain(r.todo[i][1], p)
    BY <1>12, <2>1 DEF Spares, ToCopy
  <2>3. i # 1
    <3> SUFFICES ASSUME i = 1
                 PROVE  FALSE
      OBVIOUS
    <3>1. p \in AnyPath
      BY <1>8, PathsAre DEF Sound, TreeTypes
    <3>2. Under(s, p)
      BY <1>1, <2>2, <3>1, PlainLaws
    <3>3. QED
      BY <1>0, <1>1, <1>8, <1>12, <3>2, UpIsThere DEF IsDir
  <2>4. QED
    BY <1>5, <2>2, <2>3
<1>13. ASSUME NEW p \in DOMAIN fs, fs[p] \in Data \ forfeited', \A k \in Jobs : Spares(job[k], p)
       PROVE  \E q \in DOMAIN fs' : /\ fs'[q] = fs[p] /\ Spares(e, q)
                                   /\ \A k \in Jobs : k # j => Spares(job[k], q)
  <2>1. CASE p # s
    BY <1>9, <1>12, <1>13, <2>1
  <2>2. CASE p = s
    <3>0. x = s
      BY <1>0, <1>13, <2>2 DEF Data
    <3>1. \A k \in Jobs : k # j => Spares(job[k], d)
      BY <1>10, <1>13, <2>2, <3>0
    <3>2. ~Doomed(r, d)
      <4> SUFFICES ASSUME Doomed(r, d)
                   PROVE  FALSE
        OBVIOUS
      <4>1. ~Under(r.to, r.src)
        BY <1>10, <1>13, <2>2, <3>0
      <4>2. Plain(r.src, d) /\ Under(r.src, d) /\ ~IntoItself(r.src, r.to)
        BY <1>1, <1>6, PlainLaws DEF Doomed
      <4>3. Under(r.src, r.to)
        BY <1>1, <1>6, <1>7, <4>1, <4>2, UnderLaws
      <4>4. r.src # r.to
        BY <1>6, <4>1, UnderLaws
      <4>5. QED
        BY <1>1, <1>6, <1>7, <4>2, <4>3, <4>4, PlainLaws DEF IntoItself
    <3>3. Spares(e, d)
      BY <1>3, <3>2 DEF Spares, Doomed
    <3>4. QED
      BY <1>9, <2>2, <3>0, <3>1, <3>3
  <2>3. QED
    BY <2>1, <2>2
<1>14. Bounds'
  BY <1>10 DEF TreeInv, Bounds
<1>15. /\ Sound' /\ Bounds' /\ forfeited \subseteq forfeited' /\ DOMAIN job' = Jobs /\ Fine(job'[j])
       /\ \A k \in Jobs : k # j => Alike(job'[k], job[k])
       /\ \A p \in DOMAIN fs :
            fs[p] \in Data \ forfeited' /\ (\A k \in Jobs : Spares(job[k], p)) =>
            \E q \in DOMAIN fs' : /\ fs'[q] = fs[p] /\ Spares(job'[j], q)
                                 /\ \A k \in Jobs : k # j => Spares(job[k], q)
  <2> HIDE DEF r
  <2>1. QED
    BY <1>4, <1>9, <1>10, <1>11, <1>13, <1>14
<1>16. QED
  BY <1>15, StepKeeps

LEMMA CopyEntryStep ==
    ASSUME TreeInv, NEW j \in Jobs, copyEntry(j)
    PROVE  TreeInv'
<1> DEFINE r == job[j]
           s == Head(r.todo)[1]
           d == Head(r.todo)[2]
           x == Target(fs, s)
<1>1. CASE /\ IsDir(x) /\ CanMake(d) /\ fs' = Made(d)
           /\ Goto(j, [r EXCEPT !.todo = CopyList(fs', x, d) \o Tail(@)])
           /\ UNCHANGED <<errors, forfeited>>
  BY <1>1, CopyFolder DEF copyEntry
<1>2. CASE /\ ~IsDir(x) /\ copyFile(s, d)
           /\ Goto(j, [r EXCEPT !.todo = Tail(@)])
           /\ expose(j, {d}) /\ UNCHANGED errors
  BY <1>2, CopyFileStep DEF copyEntry, copyFile
<1>3. QED
  BY <1>1, <1>2 DEF copyEntry, CopyList

\* The entry at the head of a deletion.
LEMMA HeadMark ==
    ASSUME TreeInv, NEW j \in Jobs, job[j].step = "deleting", job[j].todo # <<>>
    PROVE  Fine(job[j]) /\ job[j].todo \in Marks /\ Head(job[j].todo)[1] \in Paths
<1> DEFINE t == job[j].todo
<1>1. Fine(job[j]) /\ t \in Marks
  BY DEF TreeInv, JobInv, Fine, Doing
<1> HIDE DEF t
<1>2. Head(t) = t[1] /\ t[1] \in MarkOf
  <2>1. t # <<>> /\ t \in Seq(MarkOf)
    BY <1>1 DEF t, Marks
  <2>2. QED
    BY <2>1, HeadIs
<1>3. t[1][1] \in Paths
  BY <1>2 DEF MarkOf
<1>4. QED
  BY <1>1, <1>2, <1>3 DEF t

\* The entries of a folder, marked for deletion.
MarkList(p) == [i \in DOMAIN Entries(fs, p) |-> <<Entries(fs, p)[i], kindOf(fs, Entries(fs, p)[i])>>]

LEMMA MarkListFine ==
    ASSUME Sound, NEW p
    PROVE  /\ MarkList(p) \in Marks
           /\ \A m \in DOMAIN MarkList(p) : Under(p, MarkList(p)[m][1]) /\ MarkList(p)[m][1] \in Paths
<1> DEFINE entry == Entries(fs, p)
           l == MarkList(p)
<1>1. entry \in Seq(Children(fs, p))
  BY EntriesAre DEF Sound, TreeTypes
<1>2. l = [i \in DOMAIN entry |-> <<entry[i], kindOf(fs, entry[i])>>]
  BY DEF MarkList
<1> HIDE DEF entry, l
<1>3. DOMAIN entry = 1..Len(entry) /\ Len(entry) \in Nat /\ \A i \in DOMAIN entry : entry[i] \in Children(fs, p)
  BY <1>1, ElementOfSeq, LenProperties
<1>4. DOMAIN l = DOMAIN entry
  BY <1>2
<1>5. ASSUME NEW m \in DOMAIN l
      PROVE  l[m] \in MarkOf /\ Under(p, l[m][1]) /\ l[m][1] \in Paths
  <2> DEFINE as == kindOf(fs, entry[m])
  <2>1. entry[m] \in Paths /\ Under(p, entry[m])
    BY <1>3, <1>4 DEF Children, Sound, TreeTypes
  <2>2. l[m] = <<entry[m], as>>
    BY <1>2, <1>4
  <2>3. as \in {"dir", "file"}
    BY DEF kindOf
  <2> HIDE DEF as
  <2>4. l[m][1] = entry[m]
    BY <2>2
  <2>5. <<entry[m], as>> \in MarkOf
    BY <2>1, <2>3, EntryIs
  <2>6. QED
    BY <2>1, <2>2, <2>4, <2>5
<1>6. l \in Marks
  <2>1. l \in [1..Len(entry) -> MarkOf]
    BY <1>2, <1>3, <1>4, <1>5
  <2>2. QED
    BY <1>3, <2>1 DEF Marks
<1>7. QED
  BY <1>5, <1>6 DEF l

\* The list of a deletion goes on.
LEMMA DeleteListed ==
    ASSUME NEW r, Fine(r), r.step = "deleting", NEW w \in Marks
    PROVE  LET e == [r EXCEPT !.todo = w]
           IN  Fine(e) /\ \A p : Spares(r, p) => Spares(e, p)
<1> DEFINE e == [r EXCEPT !.todo = w]
<1>1. /\ DOMAIN e = DOMAIN r /\ e.kind = r.kind /\ e.src = r.src /\ e.dst = r.dst /\ e.to = r.to
      /\ e.step = r.step /\ e.after = r.after /\ e.result = r.result /\ e.todo = w
  BY DEF Fine, Typed, None
<1> HIDE DEF e
<1>3. Fine(e)
  BY <1>1 DEF Fine, Typed, Doing, Endless
<1>4. \A p : Spares(r, p) => Spares(e, p)
  BY <1>1 DEF Spares, Doomed, ToCopy
<1>5. QED
  BY <1>3, <1>4 DEF e

\* The list goes on in a tree that is as it was, or has lost p.
LEMMA DeleteKeeps ==
    ASSUME TreeInv, NEW j \in Jobs, job[j].step = "deleting", job[j].todo # <<>>,
           NEW p, p = Head(job[j].todo)[1], NEW w, w \in Marks,
           Goto(j, [job[j] EXCEPT !.todo = w]), UNCHANGED errors,
           forfeited' = IF job[j].kind = "delete" \/ ~Plain(job[j].src, p)
                        THEN forfeited \cup {fs[q] : q \in DOMAIN fs \ DOMAIN fs'} ELSE forfeited,
           \/ UNCHANGED fs
           \/ p \in DOMAIN fs /\ (~IsDir(p) \/ Children(fs, p) = {}) /\ fs' = Removed(p)
    PROVE  TreeInv'
<1> DEFINE r == job[j]
           e == [r EXCEPT !.todo = w]
<1>1. Fine(r) /\ p \in Paths
  BY HeadMark
<1>2. DOMAIN job' = Jobs /\ job'[j] = e /\ \A k \in Jobs : k # j => Alike(job'[k], job[k])
  BY GotoIs DEF TreeInv, JobInv
<1>3. Fine(e) /\ \A q : Spares(r, q) => Spares(e, q)
  BY <1>1, DeleteListed
<1> HIDE DEF e
<1>4. Sound' /\ \A q \in DOMAIN fs : q # p => q \in DOMAIN fs' /\ fs'[q] = fs[q]
  <2>1. CASE UNCHANGED fs
    BY <2>1 DEF TreeInv, Sound, TreeTypes, Rooted, IsDir
  <2>2. CASE p \in DOMAIN fs /\ (~IsDir(p) \/ Children(fs, p) = {}) /\ fs' = Removed(p)
    BY <2>2, RemovedTree DEF TreeInv
  <2>3. QED
    BY <2>1, <2>2
<1>5. forfeited \subseteq forfeited' /\ forfeited' \subseteq Nat
  BY DEF TreeInv, Bounds, Sound, TreeTypes
<1>6. ASSUME NEW q \in DOMAIN fs, fs[q] \in Data \ forfeited', Spares(r, q)
      PROVE  q \in DOMAIN fs' /\ fs'[q] = fs[q]
  <2>1. CASE q # p
    BY <1>4, <2>1
  <2>2. CASE UNCHANGED fs
    BY <2>2
  <2>3. CASE q = p /\ (r.kind = "delete" \/ ~Plain(r.src, p)) /\ fs' = Removed(p)
    <3>1. q \notin DOMAIN fs'
      BY <2>3 DEF Removed
    <3>2. fs[q] \in forfeited'
      BY <2>3, <3>1
    <3>3. QED
      BY <1>6, <3>2
  <2>4. CASE q = p /\ r.kind # "delete" /\ Plain(r.src, p)
    <3>1. r.after = "delete"
      BY <1>1, <2>4 DEF Fine, Doing
    <3>2. Doomed(r, q)
      BY <1>1, <2>4, <3>1 DEF Fine, Endless, Doomed
    <3>3. QED
      BY <1>6, <3>2 DEF Spares, ToCopy
  <2>5. QED
    BY <2>1, <2>2, <2>3, <2>4
<1>7. /\ Bounds' /\ Fine(job'[j])
      /\ \A q \in DOMAIN fs :
            fs[q] \in Data \ forfeited' /\ (\A k \in Jobs : Spares(job[k], q)) =>
            \E x \in DOMAIN fs' : /\ fs'[x] = fs[q] /\ Spares(job'[j], x)
                                 /\ \A k \in Jobs : k # j => Spares(job[k], x)
  <2>1. Bounds' /\ Fine(job'[j])
    BY <1>2, <1>3, <1>5 DEF TreeInv, Bounds
  <2>2. ASSUME NEW q \in DOMAIN fs, fs[q] \in Data \ forfeited', \A k \in Jobs : Spares(job[k], q)
        PROVE  \E x \in DOMAIN fs' : /\ fs'[x] = fs[q] /\ Spares(job'[j], x)
                                    /\ \A k \in Jobs : k # j => Spares(job[k], x)
    BY <1>2, <1>3, <1>6, <2>2
  <2>3. QED
    BY <2>1, <2>2
<1>8. QED
  BY <1>2, <1>4, <1>5, <1>7, StepKeeps

LEMMA DeleteEntryStep ==
    ASSUME TreeInv, NEW j \in Jobs, deleteEntry(j)
    PROVE  TreeInv'
<1> DEFINE r == job[j]
           t == r.todo
           p == Head(t)[1]
           l == MarkList(Target(fs, p))
           mark == IF IsDir(p) THEN "rmdir" ELSE "link"
           gone == p \in DOMAIN fs /\ (~IsDir(p) \/ Children(fs, p) = {}) /\ fs' = Removed(p)
<1>1. /\ r.step = "deleting" /\ t # <<>> /\ UNCHANGED errors
      /\ forfeited' = IF r.kind = "delete" \/ ~Plain(r.src, p)
                      THEN forfeited \cup {fs[q] : q \in DOMAIN fs \ DOMAIN fs'} ELSE forfeited
      /\ \/ Goto(j, [r EXCEPT !.todo = Tail(t)]) /\ (UNCHANGED fs \/ gone)
         \/ Goto(j, [r EXCEPT !.todo = l \o <<<<p, mark>>>> \o Tail(t)]) /\ UNCHANGED fs
  <2> DEFINE as == Head(t)[2]
             listable == /\ IsDir(Target(fs, p))
                         /\ IsDir(p) \/ Cardinality({i \in DOMAIN t : t[i][2] = "link"}) < MaxLinks
             next(todo) == Goto(j, [r EXCEPT !.todo = todo])
  <2>1. /\ r.step = "deleting" /\ t # <<>> /\ UNCHANGED errors
        /\ \/ as = "dir" /\ ~listable /\ next(Tail(t)) /\ UNCHANGED fs
           \/ as = "dir" /\ listable /\ UNCHANGED fs /\ next(l \o <<<<p, mark>>>> \o Tail(t))
           \/ as = "file" /\ p \in DOMAIN fs /\ ~IsDir(p) /\ fs' = Removed(p) /\ next(Tail(t))
           \/ as = "rmdir" /\ IsDir(p) /\ Children(fs, p) = {} /\ fs' = Removed(p) /\ next(Tail(t))
        /\ forfeited' = IF r.kind = "delete" \/ ~Plain(r.src, p)
                        THEN forfeited \cup {fs[q] : q \in DOMAIN fs \ DOMAIN fs'} ELSE forfeited
    BY Zenon DEF deleteEntry, MarkList
  <2> HIDE DEF listable, l, mark, as
  <2>2. QED
    BY <2>1 DEF IsDir
<1>2. t \in Marks /\ p \in Paths /\ Sound
  BY <1>1, HeadMark DEF TreeInv
<1>3. CASE Goto(j, [r EXCEPT !.todo = Tail(t)]) /\ (UNCHANGED fs \/ gone)
  <2> DEFINE w == Tail(t)
  <2>1. w \in Marks
    BY <1>1, <1>2, TailIs DEF Marks
  <2> HIDE DEF w
  <2>3. Goto(j, [r EXCEPT !.todo = w])
    BY <1>3 DEF w
  <2>4. QED
    BY <1>1, <1>3, <2>1, <2>3, DeleteKeeps
<1>4. CASE Goto(j, [r EXCEPT !.todo = l \o <<<<p, mark>>>> \o Tail(t)]) /\ UNCHANGED fs
  <2> DEFINE last == <<<<p, mark>>>>
             m == l \o last
             w == m \o Tail(t)
  <2>0. mark \in {"dir", "file", "rmdir", "link"}
    OBVIOUS
  <2> HIDE DEF mark
  <2>1. last \in Seq(MarkOf)
    BY <1>2, <2>0, MarkListIs DEF Marks
  <2>2. l \in Seq(MarkOf)
    BY <1>2, MarkListFine DEF Marks
  <2>4. Goto(j, [r EXCEPT !.todo = w])
    BY <1>4
  <2> HIDE DEF last, l
  <2>3. m \in Seq(MarkOf)
    BY <2>1, <2>2, ConcatProperties
  <2> HIDE DEF m
  <2>5. w \in Marks
    BY <1>1, <1>2, <2>3, ConcatIs DEF Marks
  <2> HIDE DEF w
  <2>7. QED
    BY <1>1, <1>4, <2>4, <2>5, DeleteKeeps
<1>5. QED
  BY <1>1, <1>3, <1>4

\* A call on the GUI thread is over when it begins.
LEMMA DoneAtOnce ==
    ASSUME TreeInv, NEW j \in Jobs, NEW kind \in {"rename", "createFolder", "createFile"},
           enter(j, [None EXCEPT !.kind = kind, !.step = "done"])
    PROVE  /\ DOMAIN job' = Jobs /\ \A k \in Jobs : k # j => Alike(job'[k], job[k])
           /\ Fine(job'[j]) /\ \A p : Spares(job'[j], p)
<1> DEFINE e == [None EXCEPT !.kind = kind, !.step = "done"]
<1>1. Fine(e) /\ \A p : Spares(e, p)
  BY NoneFine
<1>2. DOMAIN job' = Jobs /\ job'[j] = e /\ \A k \in Jobs : k # j => Alike(job'[k], job[k])
  BY EnterIs DEF TreeInv
<1>3. QED
  BY <1>1, <1>2

LEMMA RenameStep ==
    ASSUME TreeAssumption, TreeInv, NEW j \in Jobs, NEW r \in Requests, rename(j, r)
    PROVE  TreeInv'
<1>1. /\ DOMAIN job' = Jobs /\ \A k \in Jobs : k # j => Alike(job'[k], job[k])
      /\ Fine(job'[j]) /\ \A p : Spares(job'[j], p)
  BY DoneAtOnce DEF rename
<1>2. errors' \in 0..MaxErrors /\ r[3] \in AnyPath
  BY ReqTypes DEF rename, TreeInv, Bounds
<1>3. CASE qtRename(r[2], r[3])
  <2>1. Sound' /\ MovesTo(r[2], r[3])
    BY <1>2, <1>3, ReqTypes, RenameIs DEF TreeInv
  <2>2. expose(j, DOMAIN fs' \ DOMAIN fs)
    BY DEF rename
  <2>3. QED
    BY <1>1, <1>2, <2>1, <2>2, RenamedKeeps
<1>4. CASE UNCHANGED fs
  <2>1. DOMAIN fs' \ DOMAIN fs = {}
    BY <1>4
  <2>2. UNCHANGED forfeited
    BY <2>1 DEF rename, expose
  <2>3. QED
    BY <1>1, <1>2, <1>4, <2>2, QuietStep
<1>5. QED
  BY <1>3, <1>4 DEF rename

LEMMA CreateFolderStep ==
    ASSUME TreeAssumption, TreeInv, NEW j \in Jobs, NEW r \in Requests, createFolder(j, r)
    PROVE  TreeInv'
<1>1. /\ DOMAIN job' = Jobs /\ \A k \in Jobs : k # j => Alike(job'[k], job[k])
      /\ Fine(job'[j]) /\ \A p : Spares(job'[j], p)
  BY DoneAtOnce DEF createFolder
<1>2. QED
  BY <1>1, ReqTypes, MadeKeeps DEF createFolder

LEMMA CreateFileStep ==
    ASSUME TreeAssumption, TreeInv, NEW j \in Jobs, NEW r \in Requests, createFile(j, r)
    PROVE  TreeInv'
<1> DEFINE p == Target(fs, r[2])
<1>1. /\ DOMAIN job' = Jobs /\ \A k \in Jobs : k # j => Alike(job'[k], job[k])
      /\ Fine(job'[j]) /\ \A q : Spares(job'[j], q)
  BY DoneAtOnce DEF createFile
<1>2. /\ IsDir(Folder(p)) /\ ~IsDir(p) /\ fs' = Added(p, Empty) /\ UNCHANGED errors
      /\ forfeited' = forfeited \cup ({fs[q] : q \in DOMAIN fs \cap {p}} \ {Empty})
  BY DEF createFile
<1>3. p \in AnyPath /\ Empty \in Nat
  BY ReqTypes, TargetIs DEF Empty
<1> HIDE DEF p
<1>4. Sound' /\ \A q \in DOMAIN fs : q # p => q \in DOMAIN fs' /\ fs'[q] = fs[q]
  BY <1>2, <1>3, AddedTree DEF TreeInv
<1>5. /\ forfeited \subseteq forfeited' /\ Bounds'
      /\ \A q \in DOMAIN fs : fs[q] \in Data \ forfeited' => q # p
  BY <1>2 DEF TreeInv, Bounds, Sound, TreeTypes, Data
<1>6. QED
  BY <1>1, <1>4, <1>5, StepKeeps

LEMMA InitHolds ==
    ASSUME TreeAssumption, OpsInit
    PROVE  TreeInv
<1>1. Sound
  BY DEF OpsInit, TreeAssumption, Sound, TreeTypes, Rooted, IsDir
<1>2. JobInv
  BY NoneFine DEF OpsInit, JobInv
<1>3. Bounds
  BY DEF OpsInit, Bounds, TreeAssumption
<1>4. Held
  BY DEF OpsInit, Held, Data, None, Spares, Doomed
<1>5. QED
  BY <1>1, <1>2, <1>3, <1>4 DEF TreeInv

LEMMA NextHolds ==
    ASSUME TreeAssumption, TreeInv, [OpsNext]_opsVars
    PROVE  TreeInv'
<1>1. ASSUME NEW j \in Jobs, NEW r \in Requests,
             (r[1] \in Pool /\ begin(j, r)) \/ rename(j, r) \/ createFolder(j, r) \/ createFile(j, r)
      PROVE  TreeInv'
  BY <1>1, BeginStep, RenameStep, CreateFolderStep, CreateFileStep
<1>2. ASSUME NEW j \in Jobs, step(j)
      PROVE  TreeInv'
  BY <1>2, CopyStep, MoveStep, DuplicateStep, DeleteStep, TryRenameStep, MoveToTrashStep, CopyEntryStep,
     CopyDoneStep, DeleteEntryStep, FailSteps DEF step
<1>3. CASE UNCHANGED opsVars
  BY <1>3 DEF opsVars, TreeInv, Sound, TreeTypes, Rooted, IsDir, JobInv, Bounds, Held, Data
<1>4. QED
  BY <1>1, <1>2, <1>3 DEF OpsNext

LEMMA InvKeepsTree ==
    ASSUME TreeInv
    PROVE  TreeKept
<1>1. ASSUME NEW p \in DOMAIN fs, Len(p) > 1
      PROVE  IsDir(Folder(p))
  <2>1. p \in Paths /\ p \in AnyPath
    BY PathsAre DEF TreeInv, Sound, TreeTypes
  <2>2. /\ Folder(p) \in AnyPath /\ Len(Folder(p)) = Len(p) - 1 /\ Under(Folder(p), p) /\ Folder(p) # p
    BY <2>1, ParentLaws
  <2>3. Folder(p) \in Paths
    BY <1>1, <2>1, <2>2, UnderLaws DEF AnyPath
  <2>4. Folder(p) \in Above(p)
    BY <2>1, <2>2, <2>3, AboveIs
  <2>5. QED
    BY <2>4 DEF TreeInv, Sound, Rooted
<1>2. OpsTypeOK
  BY <1>1 DEF OpsTypeOK, TreeInv, JobInv, Fine, Typed, Bounds
<1>3. NothingLost
  BY DEF NothingLost, TreeInv, Held, Present
<1>4. QED
  BY <1>2, <1>3 DEF TreeKept

\* Whatever calls overlap and wherever they fail, the tree stays a tree and
\* the data of every file is still in it, unless it was deleted for good,
\* truncated, exposed to another call's deletion, or behind a link that a
\* deletion followed out of its folder (NothingLost lists the exceptions).
THEOREM OperationsKeepTree == OpsSpec => []TreeKept
<1>1. OpsInit => TreeInv
  BY TreeAssumption, InitHolds
<1>2. TreeInv /\ [OpsNext]_opsVars => TreeInv'
  BY TreeAssumption, NextHolds
<1>3. TreeInv => TreeKept
  BY InvKeepsTree
<1>4. QED
  BY <1>1, <1>2, <1>3, PTL DEF OpsSpec

-----------------------------------------------------------------------------
(* What a call that is alone brings to its target.                         *)

Rest(s, p) == SubSeq(p, Len(s) + 1, Len(p))

LEMMA SamePath ==
    ASSUME NEW p \in AnyPath, NEW q \in AnyPath, Len(p) = Len(q), \A i \in 1..Len(p) : p[i] = q[i]
    PROVE  p = q
<1>1. Len(p) \in Nat
  BY DEF AnyPath
<1>2. Under(p, q)
  BY <1>1, UnderIs
<1>3. QED
  BY <1>2, UnderLaws

LEMMA RestIs ==
    ASSUME NEW s \in AnyPath, NEW p \in AnyPath, Len(s) <= Len(p)
    PROVE  LET b == Rest(s, p)
           IN  /\ b \in AnyPath /\ Len(b) = Len(p) - Len(s)
               /\ \A i \in 1..Len(b) : b[i] = p[i + Len(s)]
<1> DEFINE b == SubSeq(p, Len(s) + 1, Len(p))
<1>1. Len(s) \in Nat /\ Len(p) \in Nat
  BY DEF AnyPath
<1>2. b \in AnyPath /\ Len(b) = Len(p) - Len(s)
  BY <1>1 DEF AnyPath
<1>3. \A i \in 1..Len(b) : b[i] = p[i + Len(s)]
  BY <1>1 DEF AnyPath
<1>4. QED
  BY <1>2, <1>3 DEF Rest

\* What is left of a path is the same after the move.
LEMMA RestMoved ==
    ASSUME NEW s \in AnyPath, NEW d \in AnyPath, NEW p \in AnyPath, Under(s, p)
    PROVE  Rest(d, Moved(s, d, p)) = Rest(s, p)
<1> DEFINE m == Moved(s, d, p)
           a == Rest(d, m)
           b == Rest(s, p)
<1>1. /\ m \in AnyPath /\ Len(m) = Len(d) + Len(p) - Len(s)
      /\ \A i \in 1..Len(m) : m[i] = IF i <= Len(d) THEN d[i] ELSE p[i - Len(d) + Len(s)]
  BY MovedIs
<1>2. Len(s) \in Nat /\ Len(d) \in Nat /\ Len(p) \in Nat /\ Len(s) <= Len(p)
  BY UnderLaws DEF AnyPath
<1>3. /\ b \in AnyPath /\ Len(b) = Len(p) - Len(s)
      /\ \A i \in 1..Len(b) : b[i] = p[i + Len(s)]
  BY <1>2, RestIs
<1> HIDE DEF m
<1>4. /\ a \in AnyPath /\ Len(a) = Len(m) - Len(d)
      /\ \A i \in 1..Len(a) : a[i] = m[i + Len(d)]
  <2>1. Len(d) <= Len(m)
    BY <1>1, <1>2
  <2>2. QED
    BY <1>1, <2>1, RestIs
<1> HIDE DEF a, b
<1>5. Len(a) = Len(b)
  BY <1>1, <1>2, <1>3, <1>4
<1>6. ASSUME NEW i \in 1..Len(a)
      PROVE  a[i] = b[i]
  <2>1. /\ i + Len(d) \in 1..Len(m) /\ ~(i + Len(d) <= Len(d))
        /\ (i + Len(d)) - Len(d) + Len(s) = i + Len(s)
    BY <1>1, <1>2, <1>3, <1>4, <1>5
  <2>2. a[i] = m[i + Len(d)] /\ b[i] = p[i + Len(s)]
    BY <1>3, <1>4, <1>5
  <2>3. QED
    BY <1>1, <2>1, <2>2
<1>7. a = b
  BY <1>3, <1>4, <1>5, <1>6, SamePath
<1>8. QED
  BY <1>7 DEF a, b, m

\* An entry of a folder moves with it.
LEMMA MovedAppend ==
    ASSUME NEW s \in AnyPath, NEW d \in AnyPath, NEW q \in AnyPath, Under(s, q), NEW n \in AllNames
    PROVE  Moved(s, d, Append(q, n)) = Append(Moved(s, d, q), n)
<1> DEFINE p == Append(q, n)
           m == Moved(s, d, q)
           a == Moved(s, d, p)
           b == Append(m, n)
<1>1. p \in AnyPath /\ Len(p) = Len(q) + 1 /\ (\A i \in 1..Len(q) : p[i] = q[i]) /\ p[Len(q) + 1] = n
  BY DEF AnyPath
<1>2. Under(s, p)
  BY AppendLaws, UnderLaws, PathsAre
<1>3. Len(s) \in Nat /\ Len(d) \in Nat /\ Len(q) \in Nat /\ Len(s) <= Len(q)
  BY UnderLaws DEF AnyPath
<1>4. /\ m \in AnyPath /\ Len(m) = Len(d) + Len(q) - Len(s)
      /\ \A i \in 1..Len(m) : m[i] = IF i <= Len(d) THEN d[i] ELSE q[i - Len(d) + Len(s)]
  BY MovedIs
<1> HIDE DEF p, m
<1>5. /\ a \in AnyPath /\ Len(a) = Len(d) + Len(p) - Len(s)
      /\ \A i \in 1..Len(a) : a[i] = IF i <= Len(d) THEN d[i] ELSE p[i - Len(d) + Len(s)]
  BY <1>1, <1>2, MovedIs
<1>6. b \in AnyPath /\ Len(b) = Len(m) + 1 /\ (\A i \in 1..Len(m) : b[i] = m[i]) /\ b[Len(m) + 1] = n
  BY <1>4 DEF AnyPath
<1> HIDE DEF a, b
<1>7. Len(a) = Len(b)
  BY <1>1, <1>3, <1>4, <1>5, <1>6
<1>8. ASSUME NEW i \in 1..Len(a)
      PROVE  a[i] = b[i]
  <2>1. CASE i \in 1..Len(m)
    <3>1. CASE i <= Len(d)
      BY <1>4, <1>5, <1>6, <2>1, <3>1
    <3>2. CASE ~(i <= Len(d))
      <4>1. i - Len(d) + Len(s) \in 1..Len(q)
        BY <1>3, <1>4, <2>1, <3>2
      <4>2. QED
        BY <1>1, <1>4, <1>5, <1>6, <2>1, <3>2, <4>1
    <3>3. QED
      BY <3>1, <3>2
  <2>2. CASE i = Len(m) + 1
    <3>1. ~(i <= Len(d)) /\ i - Len(d) + Len(s) = Len(q) + 1
      BY <1>3, <1>4, <2>2
    <3>2. QED
      BY <1>1, <1>5, <1>6, <2>2, <3>1
  <2>3. Len(m) \in Nat /\ i \in 1..(Len(m) + 1)
    BY <1>3, <1>4, <1>6, <1>7
  <2>4. QED
    BY <2>1, <2>2, <2>3
<1>9. a = b
  BY <1>5, <1>6, <1>7, <1>8, SamePath
<1>10. QED
  BY <1>9 DEF a, b, m, p

LEMMA ChildIs ==
    ASSUME NEW f, DOMAIN f \subseteq Paths, NEW q \in AnyPath, NEW p \in Children(f, q)
    PROVE  p \in Paths /\ p = Append(q, Name(p)) /\ Name(p) \in AllNames
<1>1. p \in Paths /\ Len(p) = Len(q) + 1 /\ Under(q, p) /\ Len(q) \in Nat
  BY DEF Children, AnyPath
<1>2. /\ Folder(p) \in AnyPath /\ Len(Folder(p)) = Len(p) - 1 /\ Name(p) \in AllNames
      /\ p = Append(Folder(p), Name(p)) /\ Under(Folder(p), p)
  BY <1>1, ParentLaws
<1>3. q # p
  BY <1>1
<1>4. Under(q, Folder(p))
  BY <1>1, <1>3, ParentLaws
<1>5. q = Folder(p)
  BY <1>1, <1>2, <1>4, UnderLaws
<1>6. QED
  BY <1>1, <1>2, <1>5

\* What is at p, under s, is in the subtree of s; brought to d, in that of d.
LEMMA RelativeIs ==
    /\ \A f, s, e : e \in Relative(f, s) <=>
          \E p \in DOMAIN f : Under(s, p) /\ e = <<Rest(s, p), f[p]>>
    /\ \A f, g, s : (\A p \in DOMAIN f : Under(s, p) => p \in DOMAIN g /\ g[p] = f[p])
                    => Relative(f, s) \subseteq Relative(g, s)
<1>1. ASSUME NEW f, NEW s, NEW e
      PROVE  e \in Relative(f, s) <=> \E p \in DOMAIN f : Under(s, p) /\ e = <<Rest(s, p), f[p]>>
  BY DEF Relative, Rest
<1>2. QED
  BY <1>1

LEMMA ListedIs ==
    ASSUME NEW f, NEW s, NEW e
    PROVE  e \in Listed(f, s) <=>
           \E p \in DOMAIN f : Plain(s, p) /\ f[p] \notin Links /\ e = <<Rest(s, p), f[p]>>
  BY DEF Listed, Rest

LEMMA BroughtIs ==
    ASSUME NEW s \in AnyPath, NEW d \in AnyPath, NEW p \in AnyPath, Under(s, p),
           NEW f, Moved(s, d, p) \in DOMAIN f
    PROVE  <<Rest(s, p), f[Moved(s, d, p)]>> \in Relative(f, d)
<1>1. Under(d, Moved(s, d, p))
  BY MovedLaws
<1>2. Rest(d, Moved(s, d, p)) = Rest(s, p)
  BY RestMoved
<1>3. QED
  BY <1>1, <1>2, RelativeIs

-----------------------------------------------------------------------------
(* The steps of a call.                                                    *)

LEMMA GotoExact ==
    ASSUME DOMAIN job = Jobs, NEW j \in Jobs, NEW r, Goto(j, r)
    PROVE  DOMAIN job' = Jobs /\ job'[j] = r /\ \A k \in Jobs : k # j => job'[k] = job[k]
  BY DEF Goto

\* y is the same call as x.
SameCall(x, y) == y.kind = x.kind /\ y.src = x.src /\ y.was = x.was /\ y.lone = x.lone

LEMMA EndedIs ==
    ASSUME JobInv, NEW j \in Jobs, NEW ok, end(j, ok)
    PROVE  /\ DOMAIN job' = Jobs /\ \A k \in Jobs : k # j => job'[k] = job[k]
           /\ SameCall(job[j], job'[j]) /\ job'[j].dst = job[j].dst /\ job'[j].step = "done"
           /\ job'[j].result = IF ok THEN "ok" ELSE "failed"
<1>1. DOMAIN job' = Jobs /\ job'[j] = ended(j, ok) /\ \A k \in Jobs : k # j => job'[k] = job[k]
  BY GotoExact DEF end, JobInv
<1>2. DOMAIN job[j] = DOMAIN None
  BY DEF JobInv, Fine, Typed
<1>3. QED
  BY <1>1, <1>2 DEF ended, SameCall, None

\* All that call r has still to delete is below its source.
Within(r) == r.step = "deleting" => \A i \in DOMAIN r.todo : Under(r.src, r.todo[i][1])

\* Only what is below its source does such a call take away.
LEMMA OutsideKept ==
    ASSUME TreeAssumption, TreeInv, NEW j \in Jobs, step(j), Within(job[j]),
           NEW p \in DOMAIN fs, ~Under(job[j].src, p)
    PROVE  p \in DOMAIN fs' /\ fs'[p] = fs[p]
<1> DEFINE r == job[j]
<1>1. Fine(r) /\ r.src \in AnyPath /\ r.to \in AnyPath /\ Sound
  BY DEF TreeInv, JobInv, Fine, Typed
<1>2. CASE UNCHANGED fs
  BY <1>2
<1>3. ASSUME NEW d \in AnyPath, r.src \in DOMAIN fs, CanCreate(d), ~Under(r.src, d), fs' = Renamed(r.src, d)
      PROVE  p \in DOMAIN fs' /\ fs'[p] = fs[p]
  BY <1>1, <1>3, RenamedTree DEF CanCreate
<1>4. ASSUME NEW d \in AnyPath, CanMake(d), fs' = Made(d)
      PROVE  p \in DOMAIN fs' /\ fs'[p] = fs[p]
  BY <1>1, <1>4, MadeTree
<1>5. CASE tryRename(j)
  <2>1. qtRename(r.src, r.to) \/ UNCHANGED fs
    BY <1>5 DEF tryRename
  <2>2. CASE qtRename(r.src, r.to)
    BY <1>1, <2>2, RenameIs DEF MovesTo
  <2>3. QED
    BY <1>2, <2>1, <2>2
<1>6. CASE moveToTrash(j)
  <2> DEFINE target == Unique(Trash, Name(r.src)[1], 0)
  <2>1. r.src \in Paths
    BY <1>1, <1>6, UnderLaws DEF moveToTrash, Fine, Doing
  <2>2. Name(r.src)[1] \in Bases
    BY <2>1, ParentLaws DEF AllNames
  <2>3. target \in AnyPath /\ Trash \in AnyPath
    BY <2>2, UniqueIs, PathsAre DEF TreeAssumption
  <2>4. \/ /\ r.src \in DOMAIN fs /\ CanCreate(target) /\ ~Under(r.src, target)
           /\ fs' = Renamed(r.src, target)
        \/ UNCHANGED fs
        \/ CanMake(Trash) /\ fs' = Made(Trash)
    BY <1>6 DEF moveToTrash
  <2> HIDE DEF target
  <2>5. QED
    BY <1>2, <1>3, <1>4, <2>3, <2>4
<1>7. CASE copyEntry(j)
  <2> DEFINE s == Head(r.todo)[1]
             d == Head(r.todo)[2]
  <2>1. s \in Paths /\ d \in AnyPath
    BY <1>7, HeadCopy DEF copyEntry
  <2>2. \/ CanMake(d) /\ fs' = Made(d)
        \/ CanCreate(d) /\ fs' = Added(d, fs[Target(fs, s)])
    BY <1>7 DEF copyEntry, copyFile
  <2> HIDE DEF s, d
  <2>3. CASE CanCreate(d) /\ fs' = Added(d, fs[Target(fs, s)])
    BY <2>3 DEF Added, CanCreate
  <2>4. QED
    BY <1>4, <2>1, <2>2, <2>3
<1>8. CASE deleteEntry(j)
  <2> DEFINE q == Head(r.todo)[1]
  <2>1. Under(r.src, q)
    <3>1. r.step = "deleting" /\ r.todo # <<>>
      BY <1>8 DEF deleteEntry
    <3>2. r.todo \in Marks
      BY <3>1, HeadMark
    <3>3. 1 \in DOMAIN r.todo /\ Head(r.todo) = r.todo[1]
      BY <3>1, <3>2, HeadIs DEF Marks
    <3>4. QED
      BY <3>1, <3>3 DEF Within
  <2>2. UNCHANGED fs \/ fs' = Removed(q)
    BY <1>8 DEF deleteEntry
  <2> HIDE DEF q
  <2>3. CASE fs' = Removed(q)
    BY <2>1, <2>3 DEF Removed
  <2>4. QED
    BY <1>2, <2>2, <2>3
<1>9. CASE copy(j) \/ move(j) \/ duplicate(j) \/ delete_(j)
  BY <1>2, <1>9 DEF copy, move, duplicate, delete_, starts
<1>10. CASE copyFails(j) \/ copyDone(j) \/ deleteFails(j) \/ deleteDone(j)
  BY <1>2, <1>10 DEF copyFails, copyDone, deleteFails, deleteDone
<1>11. QED
  BY <1>5, <1>6, <1>7, <1>8, <1>9, <1>10 DEF step

-----------------------------------------------------------------------------
(* Half-way through a call that is alone.                                  *)

\* Entry q of the list stands for path p of the source: the copy will list it.
StandsFor(r, q, p) == Under(r.src, q[1]) /\ Plain(q[1], p) /\ q[2] = Moved(r.src, r.dst, q[1])

\* The data e of the source is at the target, or is listed to be copied.
Arriving(f, r, e) ==
    \/ e \in Relative(f, r.dst)
    \/ \E p \in DOMAIN f : /\ Plain(r.src, p) /\ f[p] \notin Links /\ e = <<Rest(r.src, p), f[p]>>
                           /\ \E i \in DOMAIN r.todo : StandsFor(r, r.todo[i], p)

Copying(f, r) == \A e \in r.was : Arriving(f, r, e)

\* The move has copied everything and trashes its source.
Away(r) == r.step = "trash" \/ (r.after = "delete" /\ r.step \in {"rename", "copying", "deleting"})

Meant(r) == r.lone /\ r.kind \in {"copy", "move", "duplicate"}

\* A move away from its source, and not into a hidden folder inside it.
Apart(r) == r.kind = "move" => ~Under(r.dst, r.src) /\ (Under(r.src, r.dst) => Plain(r.src, r.dst))

\* A deletion that has followed a link: it will fail at the link.
Astray(r) == r.step = "deleting" /\ \E i \in DOMAIN r.todo : r.todo[i][2] = "link"

\* The target of a move holds what was meant, and is out of reach.
Safe(f, r) == ~Under(r.src, r.dst) /\ r.was \subseteq Relative(f, r.dst) /\ Within(r)

Whole(f, r) ==
    Meant(r) =>
    /\ r.step = "start" => r.was = Listed(f, r.src)
    /\ r.step = "rename" /\ r.after = "trash" =>
          r.kind = "move" /\ r.to = r.dst /\ r.was = Listed(f, r.src)
    /\ r.step = "copying" /\ r.after # "delete" =>
          /\ r.to = r.dst /\ Copying(f, r)
          /\ r.after = "trash" => r.kind = "move"
    /\ Away(r) =>
          /\ r.kind = "move"
          /\ Apart(r) => Astray(r) \/ Safe(f, r)

\* The call has said that it succeeded.
Brought(f, r) ==
    Meant(r) /\ r.step = "done" /\ r.result = "ok" /\ Apart(r) => r.was \subseteq Relative(f, r.dst)

\* What trashes the source of a move leaves the target alone, unless it has
\* followed a link.
LEMMA AwayKeeps ==
    ASSUME TreeAssumption, TreeInv, NEW j \in Jobs, step(j), Whole(fs, job[j]), Away(job[j]), ~Astray(job[j]),
           SameCall(job[j], job'[j]), job'[j].dst = job[j].dst,
           (Away(job'[j]) /\ (Astray(job'[j]) \/ Within(job'[j]))) \/ job'[j].step = "done"
    PROVE  Whole(fs', job'[j]) /\ Brought(fs', job'[j])
<1> DEFINE r == job[j]
           e == job'[j]
           f == fs'
<1>1. r.src \in AnyPath /\ r.dst \in AnyPath /\ DOMAIN fs \subseteq AnyPath
  BY PathsAre DEF TreeInv, JobInv, Fine, Typed, Sound, TreeTypes
<1>2. ASSUME Meant(r), Apart(r)
      PROVE  ~Under(r.src, r.dst) /\ r.was \subseteq Relative(f, r.dst)
  <2>1. Safe(fs, r)
    BY <1>2 DEF Whole
  <2>2. ASSUME NEW p \in DOMAIN fs, Under(r.dst, p)
        PROVE  p \in DOMAIN f /\ f[p] = fs[p]
    <3>1. ~Under(r.src, p)
      <4>1. ~Under(r.dst, r.src)
        BY <1>2 DEF Apart, Whole
      <4>2. QED
        BY <1>1, <2>1, <2>2, <4>1, UnderLaws DEF Safe
    <3>2. QED
      BY <2>1, <3>1, OutsideKept DEF Safe
  <2> HIDE DEF f
  <2>3. Relative(fs, r.dst) \subseteq Relative(f, r.dst)
    BY <2>2, RelativeIs
  <2>4. QED
    BY <2>1, <2>3 DEF Safe
<1>3. Meant(r) => r.kind = "move"
  BY DEF Whole
<1> HIDE DEF e, f
<1>4. /\ SameCall(r, e) /\ e.dst = r.dst
      /\ (Away(e) /\ (Astray(e) \/ Within(e))) \/ e.step = "done"
  BY DEF e
<1>5. (Meant(e) <=> Meant(r)) /\ e.src = r.src /\ e.was = r.was /\ e.kind = r.kind /\ (Apart(e) <=> Apart(r))
  BY <1>4 DEF SameCall, Meant, Apart
<1> HIDE DEF r
<1>6. Whole(f, e)
  BY <1>2, <1>3, <1>4, <1>5 DEF Whole, Away, Safe
<1>7. Brought(f, e)
  BY <1>2, <1>5, <1>4 DEF Brought
<1>8. QED
  BY <1>6, <1>7 DEF e, f

LEMMA EndWhole ==
    ASSUME JobInv, NEW j \in Jobs, NEW ok, end(j, ok),
           ok /\ Meant(job[j]) /\ Apart(job[j]) => job[j].was \subseteq Relative(fs', job[j].dst)
    PROVE  Whole(fs', job'[j]) /\ Brought(fs', job'[j])
<1> DEFINE r == job[j]
           e == job'[j]
           f == fs'
<1>1. SameCall(r, e) /\ e.dst = r.dst /\ e.step = "done" /\ e.result = IF ok THEN "ok" ELSE "failed"
  BY EndedIs
<1>2. ok /\ Meant(r) /\ Apart(r) => r.was \subseteq Relative(f, r.dst)
  OBVIOUS
<1> HIDE DEF e, f, r
<1>3. Whole(f, e)
  BY <1>1 DEF Whole, Away
<1>4. Brought(f, e)
  BY <1>1, <1>2 DEF Brought, Meant, SameCall, Apart
<1>5. QED
  BY <1>3, <1>4 DEF e, f

\* The first entry of a copy is its source.
LEMMA CopyBegins ==
    ASSUME NEW f, NEW r, r.src \in AnyPath, r.dst \in AnyPath, r.to = r.dst,
           r.step = "copying", r.after \in {"end", "trash"}, r.after = "trash" => r.kind = "move",
           NEW l, r.todo = l, DOMAIN l = {1}, l[1][1] = r.src, l[1][2] = r.dst,
           DOMAIN f \subseteq Paths, Meant(r) => r.was = Listed(f, r.src)
    PROVE  Whole(f, r) /\ Brought(f, r)
<1>1. Moved(r.src, r.dst, r.src) = r.dst /\ Under(r.src, r.src)
  BY MovedLaws, UnderLaws
<1>2. ASSUME Meant(r), NEW e \in r.was
      PROVE  Arriving(f, r, e)
  <2>1. PICK p \in DOMAIN f : Plain(r.src, p) /\ f[p] \notin Links /\ e = <<Rest(r.src, p), f[p]>>
    BY <1>2, ListedIs
  <2>2. 1 \in DOMAIN r.todo /\ StandsFor(r, r.todo[1], p)
    BY <1>1, <2>1 DEF StandsFor
  <2>3. QED
    BY <2>1, <2>2 DEF Arriving
<1>3. Meant(r) => Copying(f, r)
  BY <1>2 DEF Copying
<1>4. QED
  BY <1>3 DEF Whole, Brought, Away

LEMMA TakeUpWhole ==
    ASSUME TreeAssumption, TreeInv, NEW j \in Jobs, Whole(fs, job[j]),
           copy(j) \/ duplicate(j) \/ move(j) \/ delete_(j)
    PROVE  Whole(fs', job'[j]) /\ Brought(fs', job'[j])
<1> DEFINE r == job[j]
<1>1. r.step = "start" /\ UNCHANGED fs
  BY DEF copy, duplicate, move, delete_, starts
<1>2. Fine(r) /\ r.src \in Paths /\ r.src \in AnyPath /\ r.dst \in AnyPath /\ JobInv
      /\ DOMAIN fs \subseteq Paths
  BY <1>1, StartIs DEF TreeInv, Sound, TreeTypes
<1>3. Meant(r) => r.was = Listed(fs, r.src)
  BY <1>1 DEF Whole
<1>4. ASSUME NEW d \in AnyPath, Goto(j, copyTo(j, d))
      PROVE  Whole(fs', job'[j]) /\ Brought(fs', job'[j])
  <2> DEFINE e == copyTo(j, d)
             l == <<<<r.src, d, kindOf(fs, r.src)>>>>
  <2>1. /\ e.kind = r.kind /\ e.src = r.src /\ e.dst = d /\ e.to = d /\ e.step = "copying"
        /\ e.after = "end" /\ e.todo = l /\ e.was = r.was /\ e.lone = r.lone
    BY <1>2 DEF copyTo, Fine, Typed, None
  <2>2. DOMAIN l = {1} /\ l[1][1] = r.src /\ l[1][2] = d
    BY <1>2, CopyListIs
  <2>3. job'[j] = e
    BY <1>4, GotoExact DEF TreeInv, JobInv
  <2> HIDE DEF e, l
  <2>4. Meant(e) => e.was = Listed(fs, e.src)
    BY <1>3, <2>1 DEF Meant
  <2>5. Whole(fs, e) /\ Brought(fs, e)
    BY <1>2, <2>1, <2>2, <2>4, CopyBegins
  <2>6. QED
    BY <1>1, <2>3, <2>5
<1>5. CASE copy(j)
  <2> DEFINE d == resolveDestination(r.src, r.dst)
  <2>1. d \in AnyPath
    BY <1>2, ResolveIs
  <2>2. Goto(j, copyTo(j, d)) \/ end(j, FALSE)
    BY <1>5 DEF copy, starts, end
  <2> HIDE DEF d
  <2>3. QED
    BY <1>2, <1>4, <2>1, <2>2, EndWhole
<1>6. CASE duplicate(j)
  <2> DEFINE d == Unique(Folder(r.src), Name(r.src)[1], 1)
  <2>1. Folder(r.src) \in AnyPath /\ Name(r.src)[1] \in Bases
    BY <1>2, ParentLaws DEF AllNames
  <2>2. d \in AnyPath
    BY <2>1, UniqueIs, PathsAre
  <2>3. Goto(j, copyTo(j, d))
    BY <1>6 DEF duplicate, starts
  <2> HIDE DEF d
  <2>4. QED
    BY <1>4, <2>2, <2>3
<1>7. CASE move(j)
  <2> DEFINE d == resolveDestination(r.src, r.dst)
             e == [r EXCEPT !.step = "rename", !.after = "trash", !.dst = d, !.to = d]
  <2>1. Goto(j, e) /\ r.kind = "move"
    BY <1>7 DEF move, starts
  <2>2. /\ e.kind = r.kind /\ e.src = r.src /\ e.dst = d /\ e.to = d /\ e.step = "rename"
        /\ e.after = "trash" /\ e.was = r.was /\ e.lone = r.lone
    BY <1>2 DEF Fine, Typed, None
  <2>3. job'[j] = e
    BY <2>1, GotoExact DEF TreeInv, JobInv
  <2> HIDE DEF e, d
  <2>4. Whole(fs, e) /\ Brought(fs, e)
    BY <1>3, <2>1, <2>2 DEF Whole, Brought, Away, Meant
  <2>5. QED
    BY <1>1, <2>3, <2>4
<1>8. CASE delete_(j)
  <2>1. /\ r.kind \in {"trash", "delete"}
        /\ \/ Goto(j, [r EXCEPT !.step = "trash"])
           \/ Goto(j, [r EXCEPT !.step = "deleting", !.todo = <<<<r.src, kindOf(fs, r.src)>>>>])
           \/ end(j, TRUE)
    BY <1>8 DEF delete_, starts, end
  <2>2. job'[j].kind = r.kind
    <3>1. CASE end(j, TRUE)
      BY <1>2, <3>1, EndedIs DEF SameCall
    <3>2. CASE Goto(j, [r EXCEPT !.step = "trash"])
      BY <1>2, <3>2, GotoExact DEF JobInv, Fine, Typed, None
    <3>3. CASE Goto(j, [r EXCEPT !.step = "deleting", !.todo = <<<<r.src, kindOf(fs, r.src)>>>>])
      <4> DEFINE l == <<<<r.src, kindOf(fs, r.src)>>>>
      <4>1. Goto(j, [r EXCEPT !.step = "deleting", !.todo = l])
        BY <3>3
      <4>2. DOMAIN job = Jobs /\ DOMAIN r = DOMAIN None
        BY <1>2 DEF JobInv, Fine, Typed
      <4> HIDE DEF l, r
      <4>3. job'[j] = [r EXCEPT !.step = "deleting", !.todo = l]
        BY <4>1, <4>2, GotoExact
      <4>4. QED
        BY <4>2, <4>3 DEF None
    <3>4. QED
      BY <2>1, <3>1, <3>2, <3>3
  <2>3. QED
    BY <2>1, <2>2 DEF Whole, Brought, Meant
<1>9. QED
  BY <1>5, <1>6, <1>7, <1>8

LEMMA TryRenameWhole ==
    ASSUME TreeAssumption, TreeInv, NEW j \in Jobs, Whole(fs, job[j]), tryRename(j)
    PROVE  Whole(fs', job'[j]) /\ Brought(fs', job'[j])
<1> DEFINE r == job[j]
           f == fs'
           l == <<<<r.src, r.to, kindOf(fs, r.src)>>>>
           e == [r EXCEPT !.step = "copying", !.todo = l]
<1>1. /\ r.step = "rename" /\ Fine(r) /\ r.src \in Paths /\ r.src \in AnyPath /\ r.to \in AnyPath
      /\ r.dst \in AnyPath /\ r.after \in {"trash", "delete"} /\ JobInv /\ DOMAIN fs \subseteq AnyPath
  BY UnderLaws, PathsAre DEF tryRename, TreeInv, JobInv, Fine, Typed, Doing, Sound, TreeTypes
<1>2. step(j)
  BY DEF step
<1>3. \/ qtRename(r.src, r.to) /\ end(j, TRUE)
      \/ Goto(j, e) /\ UNCHANGED fs
  BY DEF tryRename
<1>4. DOMAIN l = {1} /\ l[1][1] = r.src /\ l[1][2] = r.to
  BY <1>1, CopyListIs
<1>5. /\ e.kind = r.kind /\ e.src = r.src /\ e.dst = r.dst /\ e.to = r.to /\ e.step = "copying"
      /\ e.after = r.after /\ e.todo = l /\ e.was = r.was /\ e.lone = r.lone
  BY <1>1 DEF Fine, Typed, None
<1> HIDE DEF e, l
<1>6. CASE r.after = "delete"
  <2>1. Away(r) /\ ~Astray(r)
    BY <1>1, <1>6 DEF Away, Astray
  <2>2. CASE end(j, TRUE)
    BY <1>1, <1>2, <2>1, <2>2, EndedIs, AwayKeeps
  <2>3. CASE Goto(j, e)
    <3>1. job'[j] = e
      BY <1>1, <2>3, GotoExact DEF JobInv
    <3>2. SameCall(r, e) /\ e.dst = r.dst /\ Away(e) /\ Within(e)
      BY <1>5, <1>6 DEF SameCall, Away, Within
    <3>3. QED
      BY <1>2, <2>1, <3>1, <3>2, AwayKeeps
  <2>4. QED
    BY <1>3, <2>2, <2>3
<1>7. CASE r.after = "trash"
  <2>1. Meant(r) => r.kind = "move" /\ r.to = r.dst /\ r.was = Listed(fs, r.src)
    BY <1>1, <1>7 DEF Whole
  <2>2. CASE qtRename(r.src, r.to) /\ end(j, TRUE)
    <3>2. MovesTo(r.src, r.to)
      BY <1>1, <2>2, RenameIs DEF TreeInv
    <3>3. ASSUME NEW x \in Listed(fs, r.src)
          PROVE  x \in Relative(f, r.to)
      <4>1. PICK p \in DOMAIN fs : Plain(r.src, p) /\ fs[p] \notin Links /\ x = <<Rest(r.src, p), fs[p]>>
        BY ListedIs
      <4>2. p \in AnyPath /\ Under(r.src, p)
        BY <1>1, <4>1, PlainLaws
      <4>3. Moved(r.src, r.to, p) \in DOMAIN f /\ f[Moved(r.src, r.to, p)] = fs[p]
        BY <3>2, <4>1, <4>2 DEF MovesTo
      <4> HIDE DEF f
      <4>4. <<Rest(r.src, p), f[Moved(r.src, r.to, p)]>> \in Relative(f, r.to)
        BY <1>1, <4>2, <4>3, BroughtIs
      <4>5. QED
        BY <4>1, <4>3, <4>4
    <3> HIDE DEF f
    <3>4. Meant(r) => r.was \subseteq Relative(f, r.dst)
      BY <2>1, <3>3
    <3>5. QED
      BY <1>1, <2>2, <3>4, EndWhole DEF f
  <2>3. CASE Goto(j, e) /\ UNCHANGED fs
    <3>1. job'[j] = e
      BY <1>1, <2>3, GotoExact DEF JobInv
    <3>2. CASE Meant(r)
      <4>1. e.dst = e.to /\ e.kind = "move" /\ e.was = Listed(fs, e.src)
        BY <1>5, <2>1, <3>2
      <4>2. DOMAIN fs \subseteq Paths
        BY DEF TreeInv, Sound, TreeTypes
      <4>4. Whole(fs, e) /\ Brought(fs, e)
        BY <1>1, <1>4, <1>5, <1>7, <4>1, <4>2, CopyBegins
      <4>3. QED
        BY <2>3, <3>1, <4>4
    <3>3. CASE ~Meant(r)
      BY <1>5, <3>1, <3>3 DEF Whole, Brought, Meant
    <3>4. QED
      BY <3>2, <3>3
  <2>4. QED
    BY <1>3, <2>2, <2>3
<1>8. QED
  BY <1>1, <1>6, <1>7

LEMMA MoveToTrashWhole ==
    ASSUME TreeAssumption, TreeInv, NEW j \in Jobs, Whole(fs, job[j]), moveToTrash(j)
    PROVE  Whole(fs', job'[j]) /\ Brought(fs', job'[j])
<1> DEFINE r == job[j]
           target == Unique(Trash, Name(r.src)[1], 0)
           e == [r EXCEPT !.step = "rename", !.to = target, !.after = "delete"]
<1>1. Away(r) /\ ~Astray(r) /\ step(j) /\ JobInv /\ Fine(r)
  BY DEF moveToTrash, Away, Astray, step, TreeInv, JobInv
<1>2. (\E ok \in BOOLEAN : end(j, ok)) \/ Goto(j, e)
  BY DEF moveToTrash
<1>3. CASE \E ok \in BOOLEAN : end(j, ok)
  BY <1>1, <1>3, EndedIs, AwayKeeps
<1>4. CASE Goto(j, e)
  <2>1. job'[j] = e
    BY <1>1, <1>4, GotoExact DEF JobInv
  <2>2. SameCall(r, e) /\ e.dst = r.dst /\ Away(e) /\ Within(e)
    BY <1>1 DEF SameCall, Away, Within, Fine, Typed, None
  <2>3. QED
    BY <1>1, <2>1, <2>2, AwayKeeps
<1>5. QED
  BY <1>2, <1>3, <1>4

\* A deletion in the course of a move, or one that was asked for.  Once it has
\* followed a link it does not come back with a success.
LEMMA DeleteWhole ==
    ASSUME TreeAssumption, TreeInv, NEW j \in Jobs, Whole(fs, job[j]),
           deleteEntry(j) \/ deleteFails(j) \/ deleteDone(j)
    PROVE  Whole(fs', job'[j]) /\ Brought(fs', job'[j])
<1> DEFINE r == job[j]
           e == job'[j]
<1>1. /\ step(j) /\ JobInv /\ Fine(r) /\ r.step = "deleting" /\ r.todo \in Marks /\ r.src \in AnyPath
      /\ DOMAIN r = DOMAIN None
  BY DEF deleteEntry, deleteFails, deleteDone, step, TreeInv, JobInv, Fine, Doing, Typed
<1>2. ASSUME r.kind # "delete", ~Astray(r), SameCall(r, e), e.dst = r.dst,
             (Away(e) /\ (Astray(e) \/ Within(e))) \/ e.step = "done"
      PROVE  Whole(fs', e) /\ Brought(fs', e)
  <2>1. Away(r)
    BY <1>1, <1>2 DEF Away, Fine, Doing
  <2>2. QED
    BY <1>1, <1>2, <2>1, AwayKeeps
<1>3. CASE deleteFails(j)
  <2>1. end(j, FALSE)
    BY <1>3 DEF deleteFails
  <2>2. QED
    BY <1>1, <2>1, EndWhole
<1>4. CASE deleteDone(j)
  <2>1. end(j, TRUE) /\ r.todo = <<>>
    BY <1>4 DEF deleteDone
  <2>2. ~Astray(r)
    <3>1. DOMAIN r.todo = {}
      BY <2>1
    <3>2. QED
      BY <3>1 DEF Astray
  <2>3. SameCall(r, e) /\ e.dst = r.dst /\ e.step = "done"
    BY <1>1, <2>1, EndedIs
  <2>4. CASE r.kind # "delete"
    BY <1>2, <2>2, <2>3, <2>4
  <2>5. CASE r.kind = "delete"
    BY <2>3, <2>5 DEF SameCall, Whole, Brought, Meant
  <2>6. QED
    BY <2>4, <2>5
<1>5. CASE deleteEntry(j)
  <2> DEFINE t == r.todo
             p == Head(t)[1]
             l == MarkList(Target(fs, p))
             mark == IF IsDir(p) THEN "rmdir" ELSE "link"
  <2>1. /\ t # <<>> /\ Head(t)[2] # "link"
        /\ \/ Goto(j, [r EXCEPT !.todo = Tail(t)])
           \/ Goto(j, [r EXCEPT !.todo = l \o <<<<p, mark>>>> \o Tail(t)])
    BY <1>5 DEF deleteEntry, MarkList
  <2>2. 1 \in DOMAIN t /\ Head(t) = t[1] /\ p \in Paths /\ p \in AnyPath
    BY <1>1, <2>1, HeadIs, HeadMark, PathsAre DEF Marks
  <2>3. ASSUME NEW w, Goto(j, [r EXCEPT !.todo = w])
        PROVE  /\ SameCall(r, e) /\ e.dst = r.dst /\ e.todo = w /\ e.step = "deleting"
               /\ e.after = r.after /\ e.src = r.src
    <3>1. e = [r EXCEPT !.todo = w]
      BY <1>1, <2>3, GotoExact DEF JobInv
    <3> HIDE DEF r, e
    <3>2. QED
      BY <1>1, <3>1 DEF SameCall, None
  <2>4. CASE r.kind = "delete"
    <3>1. \E w : Goto(j, [r EXCEPT !.todo = w])
      BY <2>1
    <3>2. QED
      BY <2>3, <2>4, <3>1 DEF SameCall, Whole, Brought, Meant
  <2>5. ASSUME r.kind # "delete", NEW w, NEW m, Spliced(w, m, t), Goto(j, [r EXCEPT !.todo = w]),
               \/ \E n \in DOMAIN m : m[n][2] = "link"
               \/ Under(r.src, p) => \A n \in DOMAIN m : Under(r.src, m[n][1])
        PROVE  Whole(fs', e) /\ Brought(fs', e)
    <3>1. /\ SameCall(r, e) /\ e.dst = r.dst /\ e.todo = w /\ e.step = "deleting" /\ e.after = r.after
          /\ e.src = r.src
      BY <2>3, <2>5
    <3>2. /\ \A i \in DOMAIN t : i = 1 \/ \E n \in DOMAIN w : w[n] = t[i]
          /\ \A n \in DOMAIN m : \E i \in DOMAIN w : w[i] = m[n]
          /\ \A n \in DOMAIN w : \/ \E i \in DOMAIN m : w[n] = m[i]
                                 \/ \E i \in DOMAIN t : w[n] = t[i]
      BY <2>5 DEF Spliced
    <3>3. r.after = "delete" /\ Away(e) /\ Away(r)
      BY <1>1, <2>5, <3>1 DEF Fine, Doing, Away
    <3>4. CASE Astray(r)
      <4>1. PICK i \in DOMAIN t : t[i][2] = "link"
        BY <3>4 DEF Astray
      <4>2. i # 1
        BY <2>1, <2>2, <4>1
      <4>3. Astray(e)
        BY <3>1, <3>2, <4>1, <4>2 DEF Astray
      <4>4. Meant(r) => r.kind = "move"
        BY <3>3 DEF Whole
      <4> HIDE DEF r, e
      <4>5. QED
        BY <3>1, <4>3, <4>4 DEF Whole, Brought, SameCall, Meant
    <3>5. CASE ~Astray(r) /\ Within(r)
      <4>1. Under(r.src, p)
        BY <1>1, <2>2, <3>5 DEF Within
      <4>2. Astray(e) \/ Within(e)
        <5>1. CASE \E n \in DOMAIN m : m[n][2] = "link"
          BY <3>1, <3>2, <5>1 DEF Astray
        <5>2. CASE \A n \in DOMAIN m : Under(r.src, m[n][1])
          <6>1. \A i \in DOMAIN t : Under(r.src, t[i][1])
            BY <1>1, <3>5 DEF Within
          <6>2. QED
            BY <3>1, <3>2, <5>2, <6>1 DEF Within
        <5>3. QED
          BY <2>5, <4>1, <5>1, <5>2
      <4>3. QED
        BY <1>2, <2>5, <3>1, <3>3, <3>5, <4>2
    <3>6. CASE ~Astray(r) /\ ~Within(r)
      <4>1. Meant(r) => r.kind = "move" /\ ~Apart(r)
        BY <3>3, <3>6 DEF Whole, Safe
      <4> HIDE DEF r, e
      <4>2. QED
        BY <3>1, <4>1 DEF Whole, Brought, SameCall, Meant, Apart
    <3>7. QED
      BY <3>4, <3>5, <3>6
  <2>6. CASE r.kind # "delete" /\ Goto(j, [r EXCEPT !.todo = Tail(t)])
    <3> DEFINE w == Tail(t)
               m == <<>>
    <3>1. Spliced(w, m, t)
      BY <1>1, <2>1, TailIs DEF Marks
    <3>2. DOMAIN m = {}
      OBVIOUS
    <3> HIDE DEF w, m, t, r, e
    <3>3. \A n \in DOMAIN m : Under(r.src, m[n][1])
      BY <3>2
    <3>4. Goto(j, [r EXCEPT !.todo = w])
      BY <2>6 DEF w
    <3>5. QED
      BY <2>5, <2>6, <3>1, <3>3, <3>4 DEF e
  <2>7. CASE r.kind # "delete" /\ Goto(j, [r EXCEPT !.todo = l \o <<<<p, mark>>>> \o Tail(t)])
    <3> DEFINE last == <<<<p, mark>>>>
               m == l \o last
               w == m \o Tail(t)
    <3>1. mark \in {"dir", "file", "rmdir", "link"}
      OBVIOUS
    <3>2. last \in Seq(MarkOf) /\ DOMAIN last = {1} /\ last[1] = <<p, mark>>
      <4> HIDE DEF mark, p
      <4>1. QED
        BY <2>2, <3>1, MarkListIs DEF Marks
    <3>3. l \in Seq(MarkOf) /\ \A n \in DOMAIN l : Under(Target(fs, p), l[n][1]) /\ l[n][1] \in Paths
      BY MarkListFine DEF Marks, TreeInv
    <3>4. last[1][1] = p /\ (~IsDir(p) => last[1][2] = "link")
      BY <3>2
    <3>5. IsDir(p) => Target(fs, p) = p
      BY <2>2, TargetIs
    <3>6. Goto(j, [r EXCEPT !.todo = w])
      BY <2>7
    <3> HIDE DEF last, l, mark
    <3>7. /\ m \in Seq(MarkOf) /\ DOMAIN m = 1..Len(m) /\ Len(m) = Len(l) + 1 /\ Len(l) \in Nat
          /\ DOMAIN l = 1..Len(l)
          /\ \A n \in 1..Len(m) : m[n] = IF n <= Len(l) THEN l[n] ELSE last[n - Len(l)]
      <4>1. /\ m \in Seq(MarkOf) /\ Len(m) = Len(l) + Len(last)
            /\ \A n \in 1..Len(m) : m[n] = IF n <= Len(l) THEN l[n] ELSE last[n - Len(l)]
        BY <3>2, <3>3, ConcatProperties
      <4> HIDE DEF m
      <4>2. DOMAIN m = 1..Len(m) /\ Len(l) \in Nat /\ DOMAIN l = 1..Len(l) /\ DOMAIN last = 1..Len(last) /\ Len(last) \in Nat
        BY <3>2, <3>3, <4>1, LenProperties
      <4>3. Len(last) = 1
        BY <3>2, <4>2
      <4>4. QED
        BY <4>1, <4>2, <4>3
    <3> HIDE DEF m
    <3>8. CASE ~IsDir(p)
      <4>1. Len(m) \in DOMAIN m /\ m[Len(m)][2] = "link"
        <5>1. Len(m) \in 1..Len(m) /\ ~(Len(m) <= Len(l)) /\ Len(m) - Len(l) = 1
          BY <3>7
        <5>2. QED
          BY <3>4, <3>7, <3>8, <5>1
      <4>2. QED
        BY <4>1, <2>5, <2>7, <3>6, <1>1, <2>1, <3>7, ConcatIs DEF Marks
    <3>9. CASE IsDir(p)
      <4>1. ASSUME Under(r.src, p), NEW n \in DOMAIN m
            PROVE  Under(r.src, m[n][1])
        <5>1. CASE n <= Len(l)
          <6>1. Under(p, l[n][1]) /\ l[n][1] \in AnyPath /\ m[n] = l[n]
            BY <3>3, <3>5, <3>7, <3>9, <4>1, <5>1, PathsAre
          <6>2. QED
            BY <1>1, <2>2, <4>1, <6>1, UnderLaws
        <5>2. CASE ~(n <= Len(l))
          <6>1. n - Len(l) = 1
            BY <3>7, <5>2
          <6>2. QED
            BY <3>4, <3>7, <4>1, <5>2, <6>1
        <5>3. QED
          BY <5>1, <5>2
      <4>2. Spliced(w, m, t)
        BY <1>1, <2>1, <3>7, ConcatIs DEF Marks
      <4>3. QED
        BY <2>5, <2>7, <3>6, <4>1, <4>2
    <3>10. QED
      BY <3>8, <3>9
  <2>8. QED
    BY <2>1, <2>4, <2>6, <2>7
<1>6. QED
  BY <1>3, <1>4, <1>5

\* The source is copied, and is not what holds its target: such a copy of a
\* folder into itself still has something to copy.
LEMMA CopyDoneWhole ==
    ASSUME TreeAssumption, TreeInv, NEW j \in Jobs, Whole(fs, job[j]), copyDone(j)
    PROVE  Whole(fs', job'[j]) /\ Brought(fs', job'[j])
<1> DEFINE r == job[j]
           t == [r EXCEPT !.step = "trash"]
           l == <<<<r.src, "dir">>>>
           e == [r EXCEPT !.step = "deleting", !.todo = l]
<1>1. /\ step(j) /\ JobInv /\ Fine(r) /\ DOMAIN r = DOMAIN None /\ r.step = "copying" /\ UNCHANGED fs
      /\ r.todo = <<>> /\ r.src \in AnyPath /\ r.dst \in AnyPath
  BY DEF copyDone, step, TreeInv, JobInv, Fine, Typed
<1>2. \/ r.after # "delete" /\ end(j, TRUE)
      \/ r.after = "trash" /\ Goto(j, t)
      \/ r.after = "delete" /\ Goto(j, e)
  BY DEF copyDone, copied
<1>3. /\ SameCall(r, t) /\ t.dst = r.dst /\ t.step = "trash"
      /\ SameCall(r, e) /\ e.dst = r.dst /\ e.step = "deleting" /\ e.after = r.after
      /\ e.todo = l /\ e.src = r.src
  <2> HIDE DEF l
  <2>1. QED
    BY <1>1 DEF SameCall, None
<1>4. DOMAIN r.todo = {}
  BY <1>1
<1> HIDE DEF t, e
<1>5. ASSUME r.after # "delete", Meant(r)
      PROVE  r.was \subseteq Relative(fs, r.dst) /\ r.to = r.dst
  BY <1>1, <1>4, <1>5 DEF Whole, Copying, Arriving
<1>6. CASE r.after # "delete" /\ end(j, TRUE)
  BY <1>1, <1>5, <1>6, EndWhole
<1>7. CASE r.after = "trash" /\ Goto(j, t)
  <2>1. job'[j] = t
    BY <1>1, <1>7, GotoExact DEF JobInv
  <2>2. ~IntoItself(r.src, r.to)
    BY <1>1, <1>4 DEF Fine, Endless
  <2>4. Meant(r) => r.kind = "move"
    BY <1>1, <1>7 DEF Whole
  <2>3. Meant(r) /\ Apart(r) => ~Under(r.src, r.dst)
    BY <1>1, <1>5, <1>7, <2>2, <2>4, UnderLaws DEF IntoItself, Apart
  <2> HIDE DEF r
  <2>5. Whole(fs, t) /\ Brought(fs, t)
    BY <1>3, <1>5, <1>7, <2>3, <2>4 DEF Whole, Brought, Meant, SameCall, Apart, Safe, Within
  <2>6. QED
    BY <1>1, <2>1, <2>5
<1>8. CASE r.after = "delete" /\ Goto(j, e)
  <2>1. job'[j] = e
    BY <1>1, <1>8, GotoExact DEF JobInv
  <2>2. Away(r) /\ ~Astray(r) /\ Away(e)
    BY <1>1, <1>3, <1>8 DEF Away, Astray
  <2>4. Within(e)
    <3>1. DOMAIN l = {1} /\ l[1][1] = r.src
      OBVIOUS
    <3>2. Under(r.src, r.src)
      BY <1>1, UnderLaws
    <3>3. QED
      BY <1>3, <3>1, <3>2 DEF Within
  <2>3. QED
    BY <1>1, <1>3, <2>1, <2>2, <2>4, AwayKeeps
<1>9. QED
  BY <1>2, <1>6, <1>7, <1>8

\* What the head of the list of r stands for has arrived or is in l.
HeadCopied(f, g, r, l) ==
    /\ \A p \in DOMAIN f : p \in DOMAIN g /\ g[p] = f[p]
    /\ \A p \in DOMAIN f : Plain(r.src, p) /\ f[p] \notin Links /\ StandsFor(r, r.todo[1], p) =>
          \/ <<Rest(r.src, p), f[p]>> \in Relative(g, r.dst)
          \/ \E m \in DOMAIN l : StandsFor(r, l[m], p)

\* The list goes on with l in place of its head.
LEMMA ListGoesOn ==
    ASSUME NEW f, NEW g, NEW r, NEW e, Meant(r), Whole(f, r), r.step = "copying", r.after # "delete",
           SameCall(r, e), e.dst = r.dst, e.to = r.to, e.step = "copying", e.after = r.after,
           NEW w, e.todo = w, NEW l, Spliced(w, l, r.todo), 1 \in DOMAIN r.todo,
           HeadCopied(f, g, r, l)
    PROVE  Whole(g, e) /\ Brought(g, e)
<1>1. /\ e.kind = r.kind /\ e.src = r.src /\ e.was = r.was /\ e.lone = r.lone
      /\ r.to = r.dst /\ Copying(f, r) /\ (r.after = "trash" => r.kind = "move")
  BY DEF Whole, SameCall
<1>2. /\ \A i \in DOMAIN r.todo : i = 1 \/ \E n \in DOMAIN w : w[n] = r.todo[i]
      /\ \A m \in DOMAIN l : \E n \in DOMAIN w : w[n] = l[m]
      /\ \A n \in DOMAIN w : \/ \E m \in DOMAIN l : w[n] = l[m]
                             \/ \E i \in DOMAIN r.todo : w[n] = r.todo[i]
  BY DEF Spliced
<1>3. \A q, p : StandsFor(r, q, p) => StandsFor(e, q, p)
  BY <1>1 DEF StandsFor
<1>4. ASSUME NEW x \in r.was
      PROVE  Arriving(g, e, x)
  <2>1. CASE x \in Relative(f, r.dst)
    <3>1. Relative(f, r.dst) \subseteq Relative(g, r.dst)
      BY RelativeIs DEF HeadCopied
    <3>2. QED
      BY <2>1, <3>1 DEF Arriving
  <2>2. ASSUME NEW p \in DOMAIN f, Plain(r.src, p), f[p] \notin Links, x = <<Rest(r.src, p), f[p]>>,
               NEW i \in DOMAIN r.todo, StandsFor(r, r.todo[i], p)
        PROVE  Arriving(g, e, x)
    <3>1. ASSUME NEW n \in DOMAIN w, StandsFor(r, w[n], p)
          PROVE  Arriving(g, e, x)
      BY <1>1, <1>3, <2>2, <3>1 DEF Arriving, HeadCopied
    <3>2. CASE <<Rest(r.src, p), f[p]>> \in Relative(g, r.dst)
      BY <2>2, <3>2 DEF Arriving
    <3>3. CASE i # 1
      BY <1>2, <2>2, <3>1, <3>3
    <3>4. ASSUME NEW m \in DOMAIN l, StandsFor(r, l[m], p)
          PROVE  Arriving(g, e, x)
      BY <1>2, <3>1, <3>4
    <3>5. QED
      BY <2>2, <3>2, <3>3, <3>4 DEF HeadCopied
  <2>3. QED
    BY <1>1, <2>1, <2>2 DEF Copying, Arriving
<1>5. Copying(g, e)
  BY <1>1, <1>4 DEF Copying
<1>6. QED
  BY <1>1, <1>5 DEF Whole, Brought, Away

LEMMA CopyEntryWhole ==
    ASSUME TreeAssumption, TreeInv, NEW j \in Jobs, Whole(fs, job[j]), copyEntry(j)
    PROVE  Whole(fs', job'[j]) /\ Brought(fs', job'[j])
<1> DEFINE r == job[j]
           f == fs'
           s == Head(r.todo)[1]
           d == Head(r.todo)[2]
           x == Target(fs, s)
           l == CopyList(f, x, d)
<1>1. /\ step(j) /\ JobInv /\ Fine(r) /\ DOMAIN r = DOMAIN None /\ r.step = "copying"
      /\ r.todo # <<>> /\ r.todo \in Copies /\ r.src \in AnyPath /\ r.dst \in AnyPath
  BY DEF copyEntry, step, TreeInv, JobInv, Fine, Typed, Doing
<1>2. /\ 1 \in DOMAIN r.todo /\ r.todo[1][1] = s /\ r.todo[1][2] = d
      /\ s \in Paths /\ s \in AnyPath /\ d \in AnyPath
  BY <1>1, HeadCopy, PathsAre
<1>3. \/ IsDir(x) /\ CanMake(d) /\ f = Made(d) /\ Goto(j, [r EXCEPT !.todo = l \o Tail(r.todo)])
      \/ ~IsDir(x) /\ CanCreate(d) /\ f = Added(d, fs[x]) /\ Goto(j, [r EXCEPT !.todo = Tail(r.todo)])
  BY DEF copyEntry, copyFile, CopyList
<1>0. /\ x \in AnyPath /\ (s \in DOMAIN fs /\ fs[s] \notin Links => x = s)
      /\ IsDir(s) => x = s
  BY <1>2, TargetIs
<1> HIDE DEF l, x
<1>4. ASSUME NEW w, Goto(j, [r EXCEPT !.todo = w])
      PROVE  /\ SameCall(r, job'[j]) /\ job'[j].dst = r.dst /\ job'[j].to = r.to
             /\ job'[j].step = "copying" /\ job'[j].after = r.after /\ job'[j].todo = w
  <2>1. job'[j] = [r EXCEPT !.todo = w]
    BY <1>1, <1>4, GotoExact DEF JobInv
  <2>2. QED
    BY <1>1, <2>1 DEF SameCall, None
<1>5. \E w : Goto(j, [r EXCEPT !.todo = w])
  BY <1>3
<1>6. CASE r.after = "delete"
  <2>1. Away(r) /\ ~Astray(r) /\ Away(job'[j]) /\ Within(job'[j])
    BY <1>1, <1>4, <1>5, <1>6 DEF Away, Astray, Within
  <2>2. QED
    BY <1>1, <1>4, <1>5, <2>1, AwayKeeps
<1>7. CASE ~Meant(r)
  BY <1>4, <1>5, <1>7 DEF SameCall, Whole, Brought, Meant
<1>8. CASE r.after # "delete" /\ Meant(r)
  <2>2. \A p : StandsFor(r, r.todo[1], p) => d = Moved(r.src, r.dst, s) /\ Under(r.src, s) /\ Plain(s, p)
    BY <1>2 DEF StandsFor
  <2>3. DOMAIN fs \subseteq AnyPath /\ Sound
    BY PathsAre DEF TreeInv, Sound, TreeTypes
  <2>0. ASSUME NEW p \in DOMAIN fs, Plain(s, p), p # s
        PROVE  Under(s, p) /\ IsDir(s) /\ x = s
    <3>1. Under(s, p)
      BY <1>2, <2>0, <2>3, PlainLaws
    <3>2. IsDir(s)
      BY <1>2, <2>0, <2>3, <3>1, UpIsThere DEF IsDir
    <3>3. QED
      BY <1>0, <3>1, <3>2
  <2> HIDE DEF s, d
  <2>4. CASE /\ IsDir(x) /\ CanMake(d) /\ f = Made(d)
             /\ Goto(j, [r EXCEPT !.todo = l \o Tail(r.todo)])
    <3> DEFINE w == l \o Tail(r.todo)
               e == job'[j]
    <3>1. /\ Sound' /\ d \in DOMAIN f /\ f[d] = Dir
          /\ \A p \in DOMAIN fs : p \in DOMAIN f /\ f[p] = fs[p]
      BY <1>2, <2>3, <2>4, MadeTree
    <3>2. IsFiniteSet(DOMAIN f) /\ DOMAIN f \subseteq Paths
      BY <3>1 DEF Sound, TreeTypes
    <3>3. \A p \in DOMAIN fs : \A q \in Paths : Under(q, p) => q \in DOMAIN fs /\ (q # p => fs[q] = Dir)
      BY <2>3, UpIsThere
    <3> HIDE DEF f
    <3>4. /\ l \in Copies
          /\ \A m \in DOMAIN l : l[m][1] \in Children(f, x) /\ l[m][2] = Append(d, Name(l[m][1]))
                                 /\ Under(x, l[m][1]) /\ l[m][1] \in Paths
          /\ \A p \in AnyPath : Plain(x, p) /\ x # p /\ Toward(x, p) \in DOMAIN f /\ f[Toward(x, p)] \notin Links =>
                \E m \in DOMAIN l : l[m][1] = Toward(x, p)
      BY <1>0, <1>2, <3>2, CopyListed DEF l
    <3>5. Spliced(w, l, r.todo)
      BY <1>1, <3>4, ConcatIs DEF Copies
    <3>6. /\ SameCall(r, e) /\ e.dst = r.dst /\ e.to = r.to /\ e.step = "copying"
          /\ e.after = r.after /\ e.todo = w
      BY <1>4, <2>4
    <3> HIDE DEF w, e
    <3>7. ASSUME NEW m \in DOMAIN l, x = s, d = Moved(r.src, r.dst, s), Under(r.src, s)
          PROVE  l[m][2] = Moved(r.src, r.dst, l[m][1])
      <4> DEFINE c == l[m][1]
                 n == Name(c)
      <4>1. c \in Children(f, s) /\ l[m][2] = Append(d, n)
        BY <3>4, <3>7
      <4> HIDE DEF c
      <4>2. c = Append(s, n) /\ n \in AllNames
        BY <1>2, <3>2, <4>1, ChildIs
      <4> HIDE DEF n
      <4>3. Moved(r.src, r.dst, Append(s, n)) = Append(d, n)
        BY <1>1, <1>2, <3>7, <4>2, MovedAppend
      <4>4. Moved(r.src, r.dst, c) = l[m][2]
        BY <4>1, <4>2, <4>3
      <4>5. QED
        BY <4>4 DEF c
    <3>8. ASSUME NEW p \in DOMAIN fs, Plain(r.src, p), fs[p] \notin Links, StandsFor(r, r.todo[1], p)
          PROVE  \/ <<Rest(r.src, p), fs[p]>> \in Relative(f, r.dst)
                 \/ \E m \in DOMAIN l : StandsFor(r, l[m], p)
      <4>0. d = Moved(r.src, r.dst, s) /\ Under(r.src, s) /\ Plain(s, p) /\ p \in AnyPath
        BY <2>2, <2>3, <3>8
      <4>1. CASE p = s
        <5>1. fs[p] = f[Moved(r.src, r.dst, p)] /\ Moved(r.src, r.dst, p) \in DOMAIN f
          BY <1>0, <2>4, <3>1, <3>8, <4>0, <4>1 DEF IsDir
        <5>2. QED
          BY <1>1, <1>2, <4>0, <4>1, <5>1, BroughtIs
      <4>2. CASE p # s
        <5>0. Under(s, p) /\ x = s
          BY <2>0, <4>0, <4>2
        <5>1. Toward(s, p) \in Paths /\ Under(s, Toward(s, p)) /\ Under(Toward(s, p), p)
          BY <1>2, <4>0, <4>2, <5>0, TowardLaws
        <5>2. Toward(s, p) \in DOMAIN fs /\ fs[Toward(s, p)] \notin Links
          <6>1. Dir \notin Links
            BY <1>2, TargetIs
          <6>2. QED
            BY <3>3, <3>8, <5>1, <6>1
        <5>3. PICK m \in DOMAIN l : l[m][1] = Toward(s, p)
          BY <3>1, <3>4, <4>0, <4>2, <5>0, <5>2
        <5>4. Plain(Toward(s, p), p) /\ Under(r.src, Toward(s, p))
          BY <1>1, <1>2, <4>0, <5>0, <5>1, PathsAre, PlainLaws, UnderLaws
        <5>5. StandsFor(r, l[m], p)
          BY <3>7, <4>0, <5>0, <5>3, <5>4 DEF StandsFor
        <5>6. QED
          BY <5>5
      <4>3. QED
        BY <4>1, <4>2
    <3>10. Whole(f, e) /\ Brought(f, e)
      <4>1. HeadCopied(fs, f, r, l)
        BY <3>1, <3>8 DEF HeadCopied
      <4> HIDE DEF r
      <4>2. QED
        BY <1>1, <1>2, <1>8, <4>1, <3>5, <3>6, ListGoesOn DEF r
    <3>11. QED
      BY <3>10 DEF f, e
  <2>5. CASE /\ ~IsDir(x) /\ CanCreate(d) /\ f = Added(d, fs[x])
             /\ Goto(j, [r EXCEPT !.todo = Tail(r.todo)])
    <3> DEFINE w == Tail(r.todo)
               e == job'[j]
    <3>1. /\ d \in DOMAIN f /\ f[d] = fs[x]
          /\ \A p \in DOMAIN fs : p \in DOMAIN f /\ f[p] = fs[p]
      BY <2>5 DEF Added, CanCreate
    <3>2. Spliced(w, <<>>, r.todo)
      BY <1>1, TailIs DEF Copies
    <3>3. /\ SameCall(r, e) /\ e.dst = r.dst /\ e.to = r.to /\ e.step = "copying"
          /\ e.after = r.after /\ e.todo = w
      BY <1>4, <2>5
    <3> HIDE DEF f, w, e
    <3>5. ASSUME NEW p \in DOMAIN fs, Plain(r.src, p), fs[p] \notin Links, StandsFor(r, r.todo[1], p)
          PROVE  <<Rest(r.src, p), fs[p]>> \in Relative(f, r.dst)
      <4>0. d = Moved(r.src, r.dst, s) /\ Under(r.src, s) /\ Plain(s, p) /\ p \in AnyPath
        BY <2>2, <2>3, <3>5
      <4>1. p = s /\ x = s
        BY <1>0, <2>0, <2>5, <3>5, <4>0
      <4>2. fs[p] = f[Moved(r.src, r.dst, p)] /\ Moved(r.src, r.dst, p) \in DOMAIN f
        BY <3>1, <4>0, <4>1
      <4>3. QED
        BY <1>1, <1>2, <4>0, <4>1, <4>2, BroughtIs
    <3>7. Whole(f, e) /\ Brought(f, e)
      <4>1. HeadCopied(fs, f, r, <<>>)
        BY <3>1, <3>5 DEF HeadCopied
      <4> HIDE DEF r
      <4>2. QED
        BY <1>1, <1>2, <1>8, <3>2, <3>3, <4>1, ListGoesOn DEF r
    <3>8. QED
      BY <3>7 DEF f, e
  <2>6. QED
    BY <1>3, <2>4, <2>5 DEF s, d
<1>9. QED
  BY <1>6, <1>7, <1>8

LEMMA StepWhole ==
    ASSUME TreeAssumption, TreeInv, NEW j \in Jobs, Whole(fs, job[j]), step(j)
    PROVE  Whole(fs', job'[j]) /\ Brought(fs', job'[j])
<1>1. CASE copyFails(j)
  <2>1. end(j, FALSE)
    BY <1>1 DEF copyFails
  <2>2. QED
    BY <2>1, EndWhole DEF TreeInv
<1>2. QED
  BY <1>1, TakeUpWhole, TryRenameWhole, MoveToTrashWhole, CopyEntryWhole, CopyDoneWhole, DeleteWhole DEF step

-----------------------------------------------------------------------------
(* All calls.                                                              *)

\* A call that is alone overlaps no other.
Alone == \A j, k \in Jobs : j # k /\ running(j) /\ job[j].lone => ~running(k)

WholeInv == TreeInv /\ Alone /\ \A j \in Jobs : Whole(fs, job[j])

\* A call takes a step: it is the same call, and the others stay as they are.
LEMMA StepIs ==
    ASSUME TreeInv, NEW j \in Jobs, step(j)
    PROVE  /\ DOMAIN job' = Jobs /\ \A k \in Jobs : k # j => job'[k] = job[k]
           /\ SameCall(job[j], job'[j]) /\ running(j)
<1> DEFINE r == job[j]
<1>1. JobInv /\ DOMAIN job = Jobs /\ DOMAIN r = DOMAIN None
  BY DEF TreeInv, JobInv, Fine, Typed
<1>2. ASSUME NEW e, Goto(j, e), SameCall(r, e)
      PROVE  /\ DOMAIN job' = Jobs /\ \A k \in Jobs : k # j => job'[k] = job[k]
             /\ SameCall(r, job'[j])
  BY <1>1, <1>2, GotoExact
<1>3. ASSUME NEW ok, end(j, ok)
      PROVE  /\ DOMAIN job' = Jobs /\ \A k \in Jobs : k # j => job'[k] = job[k]
             /\ SameCall(r, job'[j])
  BY <1>1, <1>3, EndedIs
<1>4. /\ \A x : SameCall(r, [r EXCEPT !.todo = x])
      /\ \A x, y : SameCall(r, [r EXCEPT !.step = x, !.todo = y])
      /\ \A x : SameCall(r, [r EXCEPT !.step = x])
      /\ \A d : SameCall(r, copyTo(j, d))
  <2> HIDE DEF r
  <2>1. /\ \A x : SameCall(r, [r EXCEPT !.todo = x])
        /\ \A x, y : SameCall(r, [r EXCEPT !.step = x, !.todo = y])
        /\ \A x : SameCall(r, [r EXCEPT !.step = x])
    BY <1>1 DEF SameCall, None
  <2>2. ASSUME NEW x, NEW y, NEW z, NEW u, NEW v
        PROVE  SameCall(r, [r EXCEPT !.step = x, !.dst = y, !.to = z, !.todo = u, !.after = v])
    BY <1>1 DEF SameCall, None
  <2>3. QED
    BY <2>1, <2>2 DEF copyTo, r
<1>5. running(j)
  BY DEF step, copy, move, duplicate, delete_, starts, tryRename, moveToTrash, copyEntry, copyFails,
     copyDone, deleteEntry, deleteFails, deleteDone, running
<1>6. \/ \E ok \in BOOLEAN : end(j, ok)
      \/ \E e : Goto(j, e) /\ SameCall(r, e)
  <2>1. CASE copy(j) \/ duplicate(j)
    BY <1>4, <2>1 DEF copy, duplicate, starts, end
  <2>2. CASE move(j)
    <3> DEFINE d == resolveDestination(r.src, r.dst)
               e == [r EXCEPT !.step = "rename", !.after = "trash", !.dst = d, !.to = d]
    <3>1. Goto(j, e)
      BY <2>2 DEF move, starts
    <3> HIDE DEF d
    <3>2. SameCall(r, e)
      BY <1>1 DEF SameCall, None
    <3>3. QED
      BY <3>1, <3>2
  <2>3. CASE delete_(j)
    BY <1>4, <2>3 DEF delete_, starts, end
  <2>4. CASE tryRename(j)
    BY <1>4, <2>4 DEF tryRename
  <2>5. CASE moveToTrash(j)
    <3> DEFINE d == Unique(Trash, Name(r.src)[1], 0)
               e == [r EXCEPT !.step = "rename", !.to = d, !.after = "delete"]
    <3>1. (\E ok \in BOOLEAN : end(j, ok)) \/ Goto(j, e)
      BY <2>5 DEF moveToTrash
    <3> HIDE DEF d
    <3>2. SameCall(r, e)
      BY <1>1 DEF SameCall, None
    <3>3. QED
      BY <3>1, <3>2
  <2>6. CASE copyEntry(j)
    BY <1>4, <2>6 DEF copyEntry
  <2>7. CASE copyDone(j)
    BY <1>4, <2>7 DEF copyDone, copied
  <2>8. CASE deleteEntry(j)
    BY <1>4, <2>8 DEF deleteEntry
  <2>9. CASE copyFails(j) \/ deleteFails(j) \/ deleteDone(j)
    BY <2>9 DEF copyFails, deleteFails, deleteDone
  <2>10. QED
    BY <2>1, <2>2, <2>3, <2>4, <2>5, <2>6, <2>7, <2>8, <2>9 DEF step
<1>7. QED
  BY <1>2, <1>3, <1>5, <1>6

\* A call enters: those that are under way are no longer alone.
LEMMA EnterWhole ==
    ASSUME TreeInv, Alone, \A k \in Jobs : Whole(fs, job[k]), NEW j \in Jobs, NEW r, enter(j, r),
           r.result = "none", Whole(fs', r), ~(r.step \in {"none", "done"}) /\ r.lone => \A k \in Jobs : ~running(k)
    PROVE  /\ Alone' /\ \A k \in Jobs : Whole(fs', job'[k])
           /\ \A k \in Jobs : job[k].result = "none" => job'[k].result = "none"
<1>1. DOMAIN job' = Jobs /\ job'[j] = r /\ job[j] = None /\ \A k \in Jobs : k # j => Alike(job'[k], job[k])
  BY EnterIs DEF TreeInv
<1>2. ASSUME NEW k \in Jobs, k # j
      PROVE  /\ running(k)' <=> running(k)
             /\ ~(running(k) /\ job'[k].lone)
             /\ job'[k].result = job[k].result
  <2>1. job'[k] = [job[k] EXCEPT !.lone = @ /\ ~running(k)]
    BY <1>2 DEF enter
  <2>2. DOMAIN job[k] = DOMAIN None
    BY DEF TreeInv, JobInv, Fine, Typed
  <2>3. job'[k].lone <=> job[k].lone /\ ~running(k)
    BY <2>1, <2>2 DEF None
  <2>4. QED
    BY <1>1, <1>2, <2>3 DEF Alike, running
<1>3. ~running(j)
  BY <1>1 DEF running, None
<1>4. Alone'
  <2>1. running(j)' <=> r.step \notin {"none", "done"}
    BY <1>1 DEF running
  <2>2. ASSUME NEW i \in Jobs, NEW k \in Jobs, i # k, running(i)', job'[i].lone
        PROVE  ~running(k)'
    <3>1. CASE i = j
      BY <1>1, <1>2, <2>1, <2>2, <3>1
    <3>2. CASE i # j
      BY <1>2, <2>2, <3>2
    <3>3. QED
      BY <3>1, <3>2
  <2>3. QED
    BY <2>2 DEF Alone
<1>5. ASSUME NEW k \in Jobs
      PROVE  Whole(fs', job'[k])
  <2>1. CASE k = j
    BY <1>1, <2>1
  <2>2. CASE k # j
    <3>1. ~(running(k)' /\ job'[k].lone)
      BY <1>2, <2>2
    <3>2. QED
      BY <3>1 DEF Whole, Meant, Away, running
  <2>3. QED
    BY <2>1, <2>2
<1>6. QED
  BY <1>1, <1>2, <1>4, <1>5

\* A call that has just said that it succeeded, as ArrivesWhole has it.
Arrived(j) ==
    LET r == job'[j] IN
    /\ job[j].result = "none" /\ r.result = "ok" /\ r.lone
    /\ r.kind \in {"copy", "move", "duplicate"}
    /\ r.kind = "move" => ~Under(r.dst, r.src) /\ (Under(r.src, r.dst) => Plain(r.src, r.dst))
    => r.was \subseteq Relative(fs', r.dst)

LEMMA WholeNext ==
    ASSUME TreeAssumption, WholeInv, TreeInv', [OpsNext]_opsVars
    PROVE  /\ Alone' /\ \A j \in Jobs : Whole(fs', job'[j])
           /\ \A j \in Jobs : Arrived(j)
<1>1. TreeInv /\ Alone /\ \A j \in Jobs : Whole(fs, job[j])
  BY DEF WholeInv
<1>2. ASSUME NEW j \in Jobs, NEW r, enter(j, r), r.result = "none", Whole(fs', r),
             ~(r.step \in {"none", "done"}) /\ r.lone => \A k \in Jobs : ~running(k)
      PROVE  /\ Alone' /\ \A k \in Jobs : Whole(fs', job'[k])
             /\ \A k \in Jobs : Arrived(k)
  BY <1>1, <1>2, EnterWhole DEF Arrived
<1>3. ASSUME NEW j \in Jobs, NEW r \in Requests, begin(j, r)
      PROVE  /\ Alone' /\ \A k \in Jobs : Whole(fs', job'[k])
             /\ \A k \in Jobs : Arrived(k)
  <2> DEFINE was == Listed(fs, r[2])
             alone == ~\E k \in Jobs : running(k)
             e == [None EXCEPT !.kind = r[1], !.src = r[2], !.dst = r[3], !.step = "start",
                               !.lone = alone, !.was = was]
  <2>1. enter(j, e) /\ UNCHANGED fs
    BY <1>3 DEF begin
  <2> HIDE DEF was
  <2>2. /\ e.src = r[2] /\ e.step = "start" /\ e.result = "none" /\ e.was = was /\ e.after = "none"
        /\ e.lone => \A k \in Jobs : ~running(k)
    BY DEF None
  <2> HIDE DEF e
  <2>3. Whole(fs, e)
    BY <2>2 DEF Whole, Away, was
  <2>4. QED
    BY <1>2, <2>1, <2>2, <2>3
<1>4. ASSUME NEW j \in Jobs, NEW r \in Requests, rename(j, r) \/ createFolder(j, r) \/ createFile(j, r)
      PROVE  /\ Alone' /\ \A k \in Jobs : Whole(fs', job'[k])
             /\ \A k \in Jobs : Arrived(k)
  <2> DEFINE e == [None EXCEPT !.kind = r[1], !.step = "done"]
  <2>1. enter(j, e)
    BY <1>4 DEF rename, createFolder, createFile
  <2>2. e.step = "done" /\ e.result = "none"
    BY DEF None
  <2> HIDE DEF e
  <2>3. Whole(fs', e)
    BY <2>2 DEF Whole, Away
  <2>4. QED
    BY <1>2, <2>1, <2>2, <2>3
<1>5. ASSUME NEW j \in Jobs, step(j)
      PROVE  /\ Alone' /\ \A k \in Jobs : Whole(fs', job'[k])
             /\ \A k \in Jobs : Arrived(k)
  <2>1. /\ DOMAIN job' = Jobs /\ \A k \in Jobs : k # j => job'[k] = job[k]
        /\ SameCall(job[j], job'[j]) /\ running(j)
    BY <1>1, <1>5, StepIs
  <2>2. Whole(fs', job'[j]) /\ Brought(fs', job'[j])
    BY <1>1, <1>5, StepWhole
  <2>3. Alone'
    <3>1. job'[j].lone = job[j].lone
      BY <2>1 DEF SameCall
    <3>2. ASSUME NEW i \in Jobs, NEW k \in Jobs, i # k, running(i)', job'[i].lone
          PROVE  ~running(k)'
      <4>1. running(i) /\ job[i].lone
        BY <2>1, <3>1, <3>2 DEF running
      <4>2. ~running(k)
        BY <1>1, <3>2, <4>1 DEF Alone
      <4>3. k # j
        BY <2>1, <4>2
      <4>4. QED
        BY <2>1, <4>2, <4>3 DEF running
    <3>3. QED
      BY <3>2 DEF Alone
  <2>4. ASSUME NEW k \in Jobs, k # j
        PROVE  Whole(fs', job'[k]) /\ Arrived(k)
    <3>1. job'[k] = job[k]
      BY <2>1, <2>4
    <3>2. ~(running(k) /\ job[k].lone)
      BY <1>1, <2>1, <2>4 DEF Alone
    <3>3. Whole(fs', job[k])
      BY <3>2 DEF Whole, Meant, Away, running
    <3>4. QED
      BY <3>1, <3>3 DEF Arrived
  <2>5. Arrived(j)
    <3>1. job'[j].result = "ok" => job'[j].step = "done"
      BY DEF TreeInv, JobInv, Fine, Doing
    <3>2. QED
      BY <2>2, <3>1 DEF Arrived, Brought, Meant, Apart
  <2>6. QED
    BY <2>2, <2>3, <2>4, <2>5
<1>6. CASE UNCHANGED opsVars
  BY <1>1, <1>6 DEF opsVars, Alone, running, Arrived
<1>7. QED
  BY <1>3, <1>4, <1>5, <1>6 DEF OpsNext

\* A copy, move or duplicate that says it has succeeded, and that no other call
\* overlapped, has brought everything that a listing showed at the source to
\* the target: performRecursiveCopy leaves hidden entries behind.  Excepted is
\* a move onto its source or above it, or into a hidden folder inside it.
THEOREM SuccessMeansArrived == OpsSpec => ArrivesWhole
<1>1. OpsInit => WholeInv
  <2> SUFFICES ASSUME OpsInit
               PROVE  WholeInv
    OBVIOUS
  <2>1. \A j \in Jobs : job[j].step = "none"
    BY DEF OpsInit, None
  <2>2. TreeInv
    BY TreeAssumption, InitHolds
  <2>3. QED
    BY <2>1, <2>2 DEF WholeInv, Alone, running, Whole, Away
<1>2. WholeInv /\ [OpsNext]_opsVars => WholeInv'
  <2> SUFFICES ASSUME WholeInv, [OpsNext]_opsVars
               PROVE  WholeInv'
    OBVIOUS
  <2>1. TreeInv'
    BY TreeAssumption, NextHolds DEF WholeInv
  <2>2. Alone' /\ \A j \in Jobs : Whole(fs', job'[j])
    BY <2>1, TreeAssumption, WholeNext
  <2>3. QED
    BY <2>1, <2>2 DEF WholeInv
<1>3. WholeInv /\ WholeInv' /\ [OpsNext]_opsVars =>
        [\A j \in Jobs :
           LET r == job'[j] IN
           /\ job[j].result = "none" /\ r.result = "ok" /\ r.lone
           /\ r.kind \in {"copy", "move", "duplicate"}
           /\ r.kind = "move" => ~Under(r.dst, r.src) /\ (Under(r.src, r.dst) => Plain(r.src, r.dst))
           => r.was \subseteq Relative(fs', r.dst)]_opsVars
  <2> SUFFICES ASSUME WholeInv, WholeInv', [OpsNext]_opsVars
               PROVE  \A j \in Jobs : Arrived(j)
    BY DEF Arrived
  <2>1. QED
    BY TreeAssumption, WholeNext DEF WholeInv
<1>4. QED
  BY <1>1, <1>2, <1>3, PTL DEF OpsSpec, ArrivesWhole
=============================================================================

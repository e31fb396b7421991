--------------------------- MODULE NotepadProofs ---------------------------
(***************************************************************************)
(* Proofs about Notepad for any set of documents, languages and bounds:    *)
(* the tabs that share one editor are never mixed, a save that is cut      *)
(* short at any call leaves a whole document, and the unsaved marker is    *)
(* exact for a tab that was not left.                                      *)
(***************************************************************************)
EXTENDS Notepad, TLAPS

-----------------------------------------------------------------------------
(* Tab entries.                                                            *)

Text == 0..MaxEdits
Entry == [savedContent : Text, modified : BOOLEAN]

LEMMA EntryMade ==
    ASSUME NEW s \in Text, NEW b \in BOOLEAN
    PROVE  [savedContent |-> s, modified |-> b] \in Entry
  BY DEF Entry

LEMMA EntryMarked ==
    ASSUME NEW r \in Entry, NEW b \in BOOLEAN
    PROVE  /\ [r EXCEPT !.modified = b] \in Entry
           /\ [r EXCEPT !.modified = b].savedContent = r.savedContent
           /\ [r EXCEPT !.modified = b].modified = b
<1>1. r.savedContent \in Text
  BY DEF Entry
<1>2. [r EXCEPT !.modified = b] = [savedContent |-> r.savedContent, modified |-> b]
  BY DEF Entry
<1>3. QED
  BY <1>1, <1>2, EntryMade

\* The text the user typed into a document is where the tab bar finds it.
LEMMA FlushedTabs ==
    ASSUME NEW m \in [Tabs -> Entry], editor \in Text, current \in open => current \in Tabs
    PROVE  /\ Flushed(m) \in [Tabs -> Entry]
           /\ \A t \in Tabs \ {current} : Flushed(m)[t] = m[t]
           /\ current \in open => Flushed(m)[current].savedContent = editor
<1>1. CASE current \notin open
  BY <1>1 DEF Flushed
<1>2. CASE current \in open
  <2> DEFINE b == editor # m[current].savedContent
             e == [savedContent |-> editor, modified |-> b]
  <2>1. b \in BOOLEAN
    BY Zenon
  <2>2. Flushed(m) = [m EXCEPT ![current] = e]
    BY <1>2 DEF Flushed, flushEditorToModel
  <2> HIDE DEF b
  <2>3. e \in Entry /\ e.savedContent = editor
    BY <2>1, EntryMade
  <2> HIDE DEF e
  <2>4. QED
    BY <1>2, <2>2, <2>3
<1>3. QED
  BY <1>1, <1>2

-----------------------------------------------------------------------------
(* The recent files.                                                       *)

\* A list of documents, none of them twice, and not too many.
RecentInv == recent \in Seq(Files) /\ IsInjective(recent) /\ Len(recent) <= MaxRecent

\* Without a document, the list still holds none of the others twice.
LEMMA WithoutIt ==
    ASSUME RecentInv, NEW f \in Files, NEW s \in Without(f)
    PROVE  s \in Seq(Files) /\ IsInjective(s) /\ \A i \in 1..Len(s) : s[i] # f
<1>1. CASE f \notin ToSet(recent)
  <2>1. s = recent
    BY <1>1 DEF Without
  <2>2. QED
    BY <1>1, <2>1 DEF RecentInv, ToSet
<1>2. CASE f \in ToSet(recent)
  <2>1. PICK k \in DOMAIN recent : recent[k] = f /\ s = RemoveAt(recent, k)
    BY <1>2 DEF Without
  <2>2. k \in 1..Len(recent) /\ Len(recent) \in Nat
    BY <2>1 DEF RecentInv
  <2> DEFINE a == SubSeq(recent, 1, k - 1)
             z == SubSeq(recent, k + 1, Len(recent))
  <2>3. a \in Seq(Files) /\ Len(a) = k - 1 /\ \A i \in 1..(k - 1) : a[i] = recent[i]
    BY <2>2 DEF RecentInv
  <2>4. /\ z \in Seq(Files) /\ Len(z) = Len(recent) - k
        /\ \A i \in 1..(Len(recent) - k) : z[i] = recent[i + k]
    BY <2>2 DEF RecentInv
  <2>5. s = a \o z
    BY <2>1 DEF RemoveAt
  <2> HIDE DEF a, z
  <2>6. s \in Seq(Files) /\ Len(s) = Len(recent) - 1
    BY <2>2, <2>3, <2>4, <2>5
  <2>7. ASSUME NEW i \in 1..Len(s)
        PROVE  s[i] = recent[IF i < k THEN i ELSE i + 1]
    <3>1. CASE i < k
      <4>1. s[i] = a[i]
        BY <2>2, <2>3, <2>4, <2>5, <2>6, <3>1
      <4>2. QED
        BY <2>2, <2>3, <2>6, <3>1, <4>1
    <3>2. CASE i >= k
      <4>1. s[i] = z[i - (k - 1)] /\ i - (k - 1) \in 1..(Len(recent) - k)
        BY <2>2, <2>3, <2>4, <2>5, <2>6, <3>2
      <4>2. (i - (k - 1)) + k = i + 1 /\ ~(i < k)
        BY <2>2, <2>6, <3>2
      <4>3. QED
        BY <2>4, <4>1, <4>2
    <3>3. QED
      BY <2>2, <2>6, <3>1, <3>2
  <2>8. \A i, j \in 1..Len(recent) : recent[i] = recent[j] => i = j
    BY DEF RecentInv, IsInjective
  <2>9. \A i \in 1..Len(s) : s[i] # f
    BY <2>1, <2>2, <2>6, <2>7, <2>8
  <2>10. \A i, j \in 1..Len(s) : s[i] = s[j] => i = j
    BY <2>2, <2>6, <2>7, <2>8
  <2>11. IsInjective(s)
    BY <2>6, <2>10 DEF IsInjective
  <2>12. QED
    BY <2>6, <2>9, <2>11
<1>3. QED
  BY <1>1, <1>2

\* A document in front of the others, cut to the length of the list.
LEMMA RecentStep ==
    ASSUME RecentInv, NEW f \in Files, addRecentFile(f)
    PROVE  RecentInv'
<1>1. PICK s \in Without(f) :
        recent' = SubSeq(<<f>> \o s, 1,
                         IF Len(<<f>> \o s) > MaxRecent THEN MaxRecent ELSE Len(<<f>> \o s))
  BY DEF addRecentFile
<1>2. s \in Seq(Files) /\ IsInjective(s) /\ \A i \in 1..Len(s) : s[i] # f
  BY WithoutIt
<1> DEFINE list == <<f>> \o s
           n == IF Len(list) > MaxRecent THEN MaxRecent ELSE Len(list)
<1>3. list \in Seq(Files) /\ Len(list) = Len(s) + 1 /\ Len(s) \in Nat
  BY <1>2
<1>4. list[1] = f /\ \A i \in 2..Len(list) : list[i] = s[i - 1]
  BY <1>2, <1>3
<1>5. \A i, j \in 1..Len(s) : s[i] = s[j] => i = j
  BY <1>2 DEF IsInjective
<1>6. recent' = SubSeq(list, 1, n)
  BY <1>1
<1> HIDE DEF list
<1>7. \A i, j \in 1..Len(list) : list[i] = list[j] => i = j
  <2> SUFFICES ASSUME NEW i \in 1..Len(list), NEW j \in 1..Len(list), list[i] = list[j], i # j
               PROVE  FALSE
    OBVIOUS
  <2>1. i \in 2..Len(list) \/ j \in 2..Len(list)
    BY <1>3
  <2>2. \A k \in 2..Len(list) : k - 1 \in 1..Len(s) /\ list[k] = s[k - 1] /\ list[k] # f
    BY <1>2, <1>3, <1>4
  <2>3. CASE i = 1 \/ j = 1
    BY <1>4, <2>1, <2>2, <2>3
  <2>4. CASE i # 1 /\ j # 1
    <3>1. i \in 2..Len(list) /\ j \in 2..Len(list)
      BY <1>3, <2>4
    <3>2. i - 1 = j - 1
      BY <1>5, <2>2, <3>1
    <3>3. QED
      BY <3>1, <3>2
  <2>5. QED
    BY <2>3, <2>4
<1>8. n \in Nat /\ n <= MaxRecent /\ n <= Len(list)
  BY <1>3, FilesAssumption
<1> HIDE DEF n
<1>9. /\ recent' \in Seq(Files) /\ Len(recent') = n
      /\ \A i \in 1..n : recent'[i] = list[i]
  BY <1>3, <1>6, <1>8
<1>10. \A i, j \in 1..n : recent'[i] = recent'[j] => i = j
  BY <1>3, <1>7, <1>8, <1>9
<1>11. IsInjective(recent')
  BY <1>9, <1>10 DEF IsInjective
<1>12. QED
  BY <1>8, <1>9, <1>11 DEF RecentInv

-----------------------------------------------------------------------------
(* The inductive invariant.                                                *)

Steps == {"none", "open", "write", "remove", "rename"}

Types ==
    /\ tabs \in [Tabs -> Entry] /\ doc \in Entry /\ editor \in Text /\ edits \in Text
    /\ count \in 0..MaxTabs /\ current \in open \cup {NoTab}
    /\ path \in [Tabs -> Files \cup {NoFile}] /\ \A t \in open : path[t] \in Files
    /\ disk \in [Files -> Text \cup {Absent, Partial}]
    /\ tmp \in [Files -> Text \cup {Absent, Partial}] /\ typed \in [Tabs -> Text]
    /\ save \in [step : Steps, by : {"user", "timer", "dialog"}]

\* A save, and the dialog that may start one, are about the shown tab.
Shown ==
    /\ saving \/ dialog => current \in open
    /\ kept \subseteq open \cap {current}

\* Unlike TypedTextKept, whatever has become of the process.
Texts == \A t \in open : typed[t] = IF t = current THEN editor ELSE tabs[t].savedContent

\* Only a save that has come as far as the rename has no document, and then
\* the temporary file has its text.
Saved ==
    /\ \A f \in Files : disk[f] # Partial
    /\ \A f \in Files : disk[f] = Absent /\ f \notin torn => f = docPath /\ save.step = "rename"
    /\ save.step \in {"remove", "rename"} => tmp[docPath] = editor

\* The marker compares with what the last save or opening left on disk.
Marker ==
    \A t \in kept :
        /\ tabs[t].modified <=> editor # doc.savedContent
        /\ doc.modified <=> tabs[t].modified
        /\ path[t] \notin torn /\ save.step # "rename" => disk[path[t]] = doc.savedContent

IInv == Types /\ Shown /\ Texts /\ Saved /\ Marker /\ HighlighterFollows /\ RecentInv

\* The open tabs are tabs, and each shows a document.
LEMMA Shows ==
    ASSUME Types
    PROVE  /\ open \subseteq Tabs /\ NoTab \notin open
           /\ current \in open => current \in Tabs /\ docPath \in Files
<1>1. count \in 0..MaxTabs /\ MaxTabs \in Nat /\ \A t \in open : path[t] \in Files
  BY FilesAssumption DEF Types
<1>2. QED
  BY <1>1 DEF open, Tabs, NoTab, docPath

LEMMA InitInv == Init => IInv
<1> SUFFICES ASSUME Init
             PROVE  IInv
  OBVIOUS
<1>1. 0 \in Text /\ 0 # Absent /\ 0 # Partial
  BY FilesAssumption DEF Text
<1>2. [savedContent |-> 0, modified |-> FALSE] \in Entry
  <2>1. FALSE \in BOOLEAN
    BY Zenon
  <2>2. QED
    BY <1>1, <2>1, EntryMade
<1>3. doc \in Entry /\ tabs \in [Tabs -> Entry]
  BY <1>2 DEF Init
<1>4. open = {} /\ count \in 0..MaxTabs
  <2>1. count = 0
    BY DEF Init
  <2>2. \A t \in 1..0 : FALSE
    OBVIOUS
  <2>3. open = {}
    BY <2>1, <2>2 DEF open
  <2>4. QED
    BY <2>1, <2>3, FilesAssumption
<1>5. Types
  BY <1>1, <1>3, <1>4 DEF Types, Steps, Init, Idle
<1>6. Shown /\ Texts /\ Marker /\ HighlighterFollows
  BY <1>4 DEF Shown, Texts, Marker, HighlighterFollows, saving, Init, Idle, NoTab
<1>7. Saved
  BY <1>1 DEF Saved, Init, Idle
<1>8. RecentInv
  <2>0. <<>> \in Seq(Files) /\ Len(<<>>) = 0 /\ DOMAIN <<>> = {}
    OBVIOUS
  <2>1. recent = <<>>
    BY DEF Init
  <2>2. recent \in Seq(Files) /\ Len(recent) = 0 /\ DOMAIN recent = {}
    BY <2>0, <2>1, Zenon
  <2>3. QED
    BY <2>2, FilesAssumption DEF RecentInv, IsInjective
<1>9. QED
  BY <1>5, <1>6, <1>7, <1>8 DEF IInv

-----------------------------------------------------------------------------
(* Tabs.                                                                   *)

\* Another tab in the editor: its text, its markers, its language.
LEMMA TabShown ==
    ASSUME NEW m \in [Tabs -> Entry], NEW p, NEW t \in Tabs, loadEditorFromCurrent(m, p, t),
           path' = p
    PROVE  /\ tabs' \in [Tabs -> Entry] /\ doc' \in Entry /\ editor' \in Text
           /\ tabs' = m /\ current' = t /\ doc' = m[t] /\ editor' = m[t].savedContent
           /\ HighlighterFollows'
<1>1. tabs' = m /\ current' = t /\ doc' = m[t] /\ editor' = m[t].savedContent
  BY DEF loadEditorFromCurrent
<1>2. m[t] \in Entry /\ m[t].savedContent \in Text
  BY DEF Entry
<1>3. attachHighlighter(Language[p[t]])
  BY DEF loadEditorFromCurrent, languageForFile
<1>4. Language[p[t]] # "" =>
        highlighter' = [rules |-> Language[p[t]], comments |-> Language[p[t]]]
  BY <1>3 DEF attachHighlighter, reconfigure, setLanguage
<1>5. docPath' = p[t]
  BY <1>1 DEF docPath
<1>6. QED
  BY <1>1, <1>2, <1>4, <1>5 DEF HighlighterFollows

\* A document that is opened has the text of the disk in the editor.
LEMMA OpenStep ==
    ASSUME IInv, NEW f \in Files, openPath(f)
    PROVE  IInv'
<1> DEFINE t == count + 1
           s == disk[f]
           m == [Flushed(tabs) EXCEPT ![t] = [savedContent |-> s, modified |-> FALSE]]
<1>0. Types /\ Shown /\ Texts /\ Saved /\ Marker /\ RecentInv
  BY DEF IInv
<1>1. /\ ~saving /\ ~dialog /\ count < MaxTabs /\ disk[f] # Absent
      /\ loadEditorFromCurrent(m, path', t)
      /\ count' = t /\ path' = [path EXCEPT ![t] = f] /\ typed' = [typed EXCEPT ![t] = s]
      /\ kept' = (kept \ {current}) \cup {t} /\ addRecentFile(f)
      /\ UNCHANGED <<disk, tmp, torn, save, dialog, edits>>
  BY DEF openPath, Ready, readFile, document, counters
<1>2. t \in Tabs /\ t \notin open /\ open' = open \cup {t} /\ count' \in 0..MaxTabs
  BY <1>0, <1>1, FilesAssumption DEF Types, Tabs, open
<1> HIDE DEF t
<1>3. /\ editor \in Text /\ open \subseteq Tabs /\ tabs \in [Tabs -> Entry]
      /\ current \in open => current \in Tabs
  BY <1>0, Shows DEF Types
<1>4. s \in Text
  BY <1>0, <1>1 DEF Types, Saved
<1>5. /\ Flushed(tabs) \in [Tabs -> Entry]
      /\ \A u \in Tabs \ {current} : Flushed(tabs)[u] = tabs[u]
      /\ current \in open => Flushed(tabs)[current].savedContent = editor
  BY <1>3, FlushedTabs
<1>6. [savedContent |-> s, modified |-> FALSE] \in Entry
  <2>1. FALSE \in BOOLEAN
    BY Zenon
  <2>2. QED
    BY <1>4, <2>1, EntryMade
<1>7. /\ m \in [Tabs -> Entry] /\ m[t] = [savedContent |-> s, modified |-> FALSE]
      /\ \A u \in Tabs \ {t} : m[u] = Flushed(tabs)[u]
  BY <1>2, <1>5, <1>6
<1> HIDE DEF s, m
<1>8. /\ tabs' \in [Tabs -> Entry] /\ doc' \in Entry /\ editor' \in Text /\ HighlighterFollows'
      /\ tabs' = m /\ current' = t /\ doc' = m[t] /\ editor' = m[t].savedContent
  BY <1>1, <1>2, <1>7, TabShown
<1>9. editor' = s /\ m[t].modified = FALSE /\ doc'.savedContent = s
  BY <1>7, <1>8
<1>10. /\ path' \in [Tabs -> Files \cup {NoFile}] /\ path'[t] = f
       /\ \A u \in Tabs \ {t} : path'[u] = path[u]
  BY <1>0, <1>1, <1>2 DEF Types
<1>11. Types'
  <2>1. \A u \in open' : path'[u] \in Files
    BY <1>0, <1>2, <1>3, <1>10 DEF Types
  <2>2. typed' \in [Tabs -> Text]
    BY <1>0, <1>1, <1>2, <1>4 DEF Types
  <2>3. QED
    BY <1>0, <1>1, <1>2, <1>8, <1>10, <2>1, <2>2 DEF Types
<1>12. Shown' /\ save.step = "none"
  BY <1>0, <1>1, <1>2, <1>8 DEF Shown, saving
<1>13. Texts'
  <2>1. typed'[t] = s /\ \A u \in Tabs \ {t} : typed'[u] = typed[u]
    BY <1>0, <1>1, <1>2, <1>4 DEF Types
  <2>2. ASSUME NEW u \in open
        PROVE  typed[u] = m[u].savedContent /\ u # t
    BY <1>0, <1>2, <1>3, <1>5, <1>7 DEF Texts
  <2>3. QED
    BY <1>2, <1>3, <1>8, <1>9, <2>1, <2>2 DEF Texts
<1>14. Saved'
  BY <1>0, <1>1, <1>12 DEF Saved
<1>15. Marker'
  <2>1. kept' = {t}
    BY <1>0, <1>1 DEF Shown
  <2>2. QED
    BY <1>1, <1>8, <1>9, <1>10, <2>1 DEF Marker, s
<1>16. RecentInv'
  BY <1>0, <1>1, RecentStep
<1>17. QED
  BY <1>8, <1>11, <1>12, <1>13, <1>14, <1>15, <1>16 DEF IInv

\* The tab that is left takes its text along.
LEMMA LeaveStep ==
    ASSUME IInv, NEW t \in open \ {current}, ~saving, NEW m \in [Tabs -> Entry],
           \A u \in Tabs \ {current} : m[u] = tabs[u],
           current \in open => m[current].savedContent = editor,
           loadEditorFromCurrent(m, path, t), kept' = kept \ {current},
           UNCHANGED <<path, count, document, save, recent, typed, edits>>
    PROVE  IInv'
<1>0. Types /\ Shown /\ Texts /\ Saved /\ Marker /\ RecentInv
  BY DEF IInv
<1>1. open \subseteq Tabs /\ t \in Tabs /\ open' = open
  BY <1>0, Shows DEF open
<1>2. /\ tabs' \in [Tabs -> Entry] /\ doc' \in Entry /\ editor' \in Text /\ HighlighterFollows'
      /\ tabs' = m /\ current' = t /\ doc' = m[t] /\ editor' = m[t].savedContent
  BY <1>1, TabShown
<1>3. UNCHANGED <<disk, tmp, torn>>
  BY DEF document
<1>4. Types'
  BY <1>0, <1>1, <1>2, <1>3 DEF Types
<1>5. Shown' /\ kept' = {}
  BY <1>0, <1>1, <1>2 DEF Shown, saving
<1>6. Texts'
  BY <1>0, <1>1, <1>2 DEF Texts
<1>7. Saved'
  <2>1. save.step = "none"
    BY DEF saving
  <2>2. QED
    BY <1>0, <1>3, <2>1 DEF Saved
<1>8. Marker' /\ RecentInv'
  BY <1>0, <1>5 DEF Marker, RecentInv
<1>9. QED
  BY <1>2, <1>4, <1>5, <1>6, <1>7, <1>8 DEF IInv

LEMMA SwitchStep ==
    ASSUME IInv, NEW t \in Tabs, switchTab(t)
    PROVE  IInv'
<1>1. /\ t \in open \ {current} /\ ~saving /\ loadEditorFromCurrent(Flushed(tabs), path, t)
      /\ kept' = kept \ {current}
      /\ UNCHANGED <<path, count, document, save, recent, typed, edits>>
  BY DEF switchTab, Ready
<1>2. /\ editor \in Text /\ tabs \in [Tabs -> Entry]
      /\ current \in open => current \in Tabs
  BY Shows DEF IInv, Types
<1>3. /\ Flushed(tabs) \in [Tabs -> Entry]
      /\ \A u \in Tabs \ {current} : Flushed(tabs)[u] = tabs[u]
      /\ current \in open => Flushed(tabs)[current].savedContent = editor
  BY <1>2, FlushedTabs
<1>4. QED
  BY <1>1, <1>3, LeaveStep

\* A keystroke or an undo changes the editor, its tab and its history.
LEMMA EditStep ==
    ASSUME IInv, edit
    PROVE  IInv'
<1> DEFINE b == editor' # doc.savedContent
<1>0. Types /\ Shown /\ Texts /\ Saved /\ Marker /\ HighlighterFollows /\ RecentInv
  BY DEF IInv
<1>1. /\ ~saving /\ current \in open /\ edits < MaxEdits /\ edits' = edits + 1
      /\ editor' \in {edits + 1, doc.savedContent}
      /\ doc' = [doc EXCEPT !.modified = b]
      /\ tabs' = IF b # doc.modified THEN [tabs EXCEPT ![current].modified = b] ELSE tabs
      /\ typed' = [typed EXCEPT ![current] = editor']
      /\ UNCHANGED <<path, count, current, disk, tmp, torn, save, dialog, recent, highlighter,
                     kept>>
  BY DEF edit, markModified, Ready, document
<1>2. /\ current \in Tabs /\ open \subseteq Tabs /\ editor' \in Text /\ edits' \in Text
      /\ open' = open /\ docPath' = docPath
  <2>1. doc.savedContent \in Text
    BY <1>0 DEF Types, Entry
  <2>2. edits + 1 \in Text
    BY <1>0, <1>1, FilesAssumption DEF Types, Text
  <2>3. QED
    BY <1>0, <1>1, <2>1, <2>2, Shows DEF open, docPath
<1>3. b \in BOOLEAN
  BY Zenon
<1> HIDE DEF b
<1>4. doc' \in Entry /\ doc'.savedContent = doc.savedContent /\ doc'.modified = b
  BY <1>0, <1>1, <1>3, EntryMarked DEF Types
<1>5. tabs[current] \in Entry
  BY <1>0, <1>2 DEF Types
<1>6. /\ tabs' \in [Tabs -> Entry]
      /\ \A u \in Tabs \ {current} : tabs'[u] = tabs[u]
      /\ b # doc.modified => tabs'[current].modified = b
      /\ b = doc.modified => tabs' = tabs
  <2>1. CASE b = doc.modified
    BY <1>0, <1>1, <2>1 DEF Types
  <2>2. CASE b # doc.modified
    <3>1. tabs' = [tabs EXCEPT ![current] = [tabs[current] EXCEPT !.modified = b]]
      BY <1>1, <2>2
    <3>2. QED
      BY <1>0, <1>2, <1>3, <1>5, <2>2, <3>1, EntryMarked DEF Types
  <2>3. QED
    BY <2>1, <2>2
<1>7. Types'
  BY <1>0, <1>1, <1>2, <1>4, <1>6 DEF Types
<1>8. Shown' /\ HighlighterFollows'
  BY <1>0, <1>1, <1>2 DEF Shown, saving, HighlighterFollows
<1>9. Texts'
  BY <1>0, <1>1, <1>2, <1>6 DEF Types, Texts
<1>10. Saved'
  BY <1>0, <1>1, <1>2 DEF Saved, saving
<1>11. Marker'
  <2> SUFFICES ASSUME NEW t \in kept
               PROVE  /\ tabs'[t].modified <=> b
                      /\ path[t] \notin torn /\ save.step # "rename" =>
                           disk[path[t]] = doc.savedContent
    BY <1>1, <1>4 DEF Marker, b
  <2>1. t = current /\ (doc.modified <=> tabs[t].modified)
    BY <1>0 DEF Shown, Marker
  <2>2. doc.modified \in BOOLEAN /\ tabs[t].modified \in BOOLEAN
    BY <1>0, <1>5, <2>1 DEF Types, Entry
  <2>3. doc.modified = tabs[t].modified
    BY <2>1, <2>2
  <2>4. tabs'[t].modified = b
    BY <1>6, <2>1, <2>3
  <2>5. QED
    BY <1>0, <1>3, <2>4 DEF Marker
<1>12. RecentInv'
  BY <1>0, <1>1 DEF RecentInv
<1>13. QED
  BY <1>7, <1>8, <1>9, <1>10, <1>11, <1>12 DEF IInv

-----------------------------------------------------------------------------
(* Saving.                                                                 *)

\* The editor and its tabs do not change while a save is under way.
LEMMA BeginStep ==
    ASSUME IInv, current \in open, ~saving, NEW by \in {"user", "timer", "dialog"}, begin(by)
    PROVE  IInv'
<1>0. Types /\ Shown /\ Texts /\ Saved /\ Marker /\ HighlighterFollows /\ RecentInv
  BY DEF IInv
<1>1. /\ save' = [step |-> "open", by |-> by] /\ save.step = "none"
      /\ UNCHANGED <<tabs, path, count, current, editor, doc, disk, tmp, torn, recent, highlighter,
                     typed, kept, edits>>
  BY DEF begin, document, counters, saving
<1>2. Types' /\ open' = open /\ docPath' = docPath
  BY <1>0, <1>1 DEF Types, Steps, open, docPath
<1>3. Shown' /\ Texts' /\ HighlighterFollows' /\ RecentInv'
  BY <1>0, <1>1, <1>2 DEF Shown, Texts, HighlighterFollows, RecentInv
<1>4. Saved' /\ Marker'
  BY <1>0, <1>1, <1>2 DEF Saved, Marker
<1>5. QED
  BY <1>2, <1>3, <1>4 DEF IInv

\* One call of writeFile that succeeds and is not the last.
LEMMA CallStep ==
    ASSUME IInv, openTmp \/ writeTmp \/ removeOld
    PROVE  IInv'
<1>0. Types /\ Shown /\ Texts /\ Saved /\ Marker /\ HighlighterFollows /\ RecentInv
  BY DEF IInv
<1>1. /\ saving /\ UNCHANGED <<tabs, path, count, current, editor, doc, dialog, recent,
                               highlighter, typed, kept, edits, torn>>
  BY DEF openTmp, writeTmp, removeOld, proceed, counters, saving
<1>2. /\ docPath \in Files /\ editor \in Text /\ current \in open
      /\ open' = open /\ docPath' = docPath
  BY <1>0, <1>1, Shows DEF Shown, Types, open, docPath
<1>3. \/ /\ save.step = "open" /\ save' = [save EXCEPT !.step = "write"]
         /\ tmp' = [tmp EXCEPT ![docPath] = Partial] /\ UNCHANGED disk
      \/ /\ save.step = "write" /\ save' = [save EXCEPT !.step = "remove"]
         /\ tmp' = [tmp EXCEPT ![docPath] = editor] /\ UNCHANGED disk
      \/ /\ save.step = "remove" /\ save' = [save EXCEPT !.step = "rename"]
         /\ disk' = [disk EXCEPT ![docPath] = Absent] /\ UNCHANGED tmp
  BY DEF openTmp, writeTmp, removeOld, proceed
<1>4. Types'
  <2>1. /\ disk' \in [Files -> Text \cup {Absent, Partial}]
        /\ tmp' \in [Files -> Text \cup {Absent, Partial}]
    BY <1>0, <1>2, <1>3 DEF Types
  <2>2. save' \in [step : Steps, by : {"user", "timer", "dialog"}]
    BY <1>0, <1>3 DEF Types, Steps
  <2>3. QED
    BY <1>0, <1>1, <1>2, <2>1, <2>2 DEF Types
<1>5. Shown' /\ Texts' /\ HighlighterFollows' /\ RecentInv'
  BY <1>0, <1>1, <1>2 DEF Shown, Texts, HighlighterFollows, RecentInv
<1>6. Saved'
  BY <1>0, <1>1, <1>2, <1>3, FilesAssumption DEF Saved, Types
<1>7. Marker'
  <2> SUFFICES ASSUME NEW t \in kept, path[t] \notin torn, save'.step # "rename"
               PROVE  disk'[path[t]] = doc.savedContent
    BY <1>0, <1>1 DEF Marker
  <2>1. save.step # "rename" /\ UNCHANGED disk
    BY <1>0, <1>3 DEF Types
  <2>2. QED
    BY <1>0, <2>1 DEF Marker
<1>8. QED
  BY <1>4, <1>5, <1>6, <1>7 DEF IInv

\* The end of a save that has failed: the editor and its tabs keep what they
\* had, the document is whole or known to be lost.
LEMMA FailStep ==
    ASSUME IInv, writeFails
    PROVE  IInv'
<1>0. Types /\ Shown /\ Texts /\ Saved /\ Marker /\ HighlighterFollows /\ RecentInv
  BY DEF IInv
<1>1. /\ saving /\ UNCHANGED <<tabs, path, count, current, editor, doc, dialog, recent,
                               highlighter, typed, kept, edits, disk>>
      /\ save' = [save EXCEPT !.step = "none"]
  BY DEF writeFails, finish, markSaved
<1>2. docPath \in Files /\ current \in open /\ open' = open /\ docPath' = docPath
  BY <1>0, <1>1, Shows DEF Shown, Types, open, docPath
<1>3. /\ tmp' = [tmp EXCEPT ![docPath] = IF save.step = "open" THEN @ ELSE Absent]
      /\ torn' = IF save.step = "rename" THEN torn \cup {docPath} ELSE torn
  BY DEF writeFails
<1>4. Types'
  <2>1. tmp' \in [Files -> Text \cup {Absent, Partial}]
    BY <1>0, <1>2, <1>3 DEF Types
  <2>2. save' \in [step : Steps, by : {"user", "timer", "dialog"}] /\ save'.step = "none"
    BY <1>0, <1>1 DEF Types, Steps
  <2>3. QED
    BY <1>0, <1>1, <1>2, <2>1, <2>2 DEF Types
<1>5. Shown' /\ Texts' /\ HighlighterFollows' /\ RecentInv'
  BY <1>0, <1>1, <1>2 DEF Shown, Texts, HighlighterFollows, RecentInv
<1>6. save'.step = "none"
  BY <1>0, <1>1 DEF Types
<1>7. Saved'
  BY <1>0, <1>1, <1>3, <1>6 DEF Saved
<1>8. Marker'
  <2> SUFFICES ASSUME NEW t \in kept, path[t] \notin torn'
               PROVE  disk[path[t]] = doc.savedContent
    BY <1>0, <1>1 DEF Marker
  <2>1. t = current /\ path[t] = docPath
    BY <1>0 DEF Shown, docPath
  <2>2. path[t] \notin torn /\ save.step # "rename"
    BY <1>3, <2>1
  <2>3. QED
    BY <1>0, <2>2 DEF Marker
<1>9. QED
  BY <1>4, <1>5, <1>7, <1>8 DEF IInv

\* The rename brings the document the text of the editor, and the marker
\* with it.
LEMMA RenameStep ==
    ASSUME IInv, rename
    PROVE  IInv'
<1>0. Types /\ Shown /\ Texts /\ Saved /\ Marker /\ HighlighterFollows /\ RecentInv
  BY DEF IInv
<1>1. /\ save.step = "rename" /\ saving /\ disk' = [disk EXCEPT ![docPath] = tmp[docPath]]
      /\ tmp' = [tmp EXCEPT ![docPath] = Absent] /\ torn' = torn \ {docPath}
      /\ tabs' = [tabs EXCEPT ![current] = [savedContent |-> editor, modified |-> FALSE]]
      /\ doc' = [savedContent |-> editor, modified |-> FALSE]
      /\ kept' = kept \cup {current} /\ addRecentFile(docPath)
      /\ save' = [save EXCEPT !.step = "none"]
      /\ UNCHANGED <<path, count, current, editor, dialog, highlighter, typed, edits>>
  BY DEF rename, finish, markSaved, saving
<1>2. /\ docPath \in Files /\ current \in open /\ editor \in Text /\ tmp[docPath] = editor
      /\ current \in Tabs /\ open \subseteq Tabs /\ open' = open /\ docPath' = docPath
  BY <1>0, <1>1, Shows DEF Shown, Types, Saved, open, docPath
<1>3. [savedContent |-> editor, modified |-> FALSE] \in Entry
  <2>1. FALSE \in BOOLEAN
    BY Zenon
  <2>2. QED
    BY <1>2, <2>1, EntryMade
<1> DEFINE e == [savedContent |-> editor, modified |-> FALSE]
<1>4. /\ tabs' \in [Tabs -> Entry] /\ doc' \in Entry /\ tabs'[current] = e /\ doc' = e
      /\ \A u \in Tabs \ {current} : tabs'[u] = tabs[u]
  BY <1>0, <1>1, <1>2, <1>3 DEF Types
<1>5. e.savedContent = editor /\ e.modified = FALSE
  OBVIOUS
<1> HIDE DEF e
<1>6. /\ disk' \in [Files -> Text \cup {Absent, Partial}] /\ disk'[docPath] = editor
      /\ tmp' \in [Files -> Text \cup {Absent, Partial}]
      /\ \A g \in Files \ {docPath} : disk'[g] = disk[g]
  BY <1>0, <1>1, <1>2 DEF Types
<1>7. save' \in [step : Steps, by : {"user", "timer", "dialog"}] /\ save'.step = "none"
  BY <1>0, <1>1 DEF Types, Steps
<1>8. Types'
  BY <1>0, <1>1, <1>2, <1>4, <1>6, <1>7 DEF Types
<1>9. Shown' /\ HighlighterFollows'
  BY <1>0, <1>1, <1>2 DEF Shown, HighlighterFollows
<1>10. Texts'
  BY <1>0, <1>1, <1>2, <1>4 DEF Texts, Types
<1>11. Saved'
  <2>1. editor # Absent /\ editor # Partial
    BY <1>2, FilesAssumption DEF Text
  <2>2. QED
    BY <1>0, <1>1, <1>2, <1>6, <1>7, <2>1 DEF Saved
<1>12. Marker'
  <2>1. kept' = {current} /\ path'[current] = docPath
    BY <1>0, <1>1 DEF Shown, docPath
  <2>2. QED
    BY <1>1, <1>4, <1>5, <1>6, <2>1 DEF Marker
<1>13. RecentInv'
  BY <1>0, <1>1, <1>2, RecentStep
<1>14. QED
  BY <1>8, <1>9, <1>10, <1>11, <1>12, <1>13 DEF IInv

-----------------------------------------------------------------------------
(* Closing.                                                                *)

\* The window closes, or the dialog asks about a tab that is shown for it.
LEMMA ClosingStep ==
    ASSUME IInv, onClosing
    PROVE  IInv'
<1> DEFINE m == Flushed(tabs)
<1>0. Types /\ Shown /\ Texts /\ Saved /\ Marker /\ HighlighterFollows /\ RecentInv
  BY DEF IInv
<1>1. /\ editor \in Text /\ tabs \in [Tabs -> Entry] /\ open \subseteq Tabs
      /\ current \in open => current \in Tabs
  BY <1>0, Shows DEF Types
<1>2. /\ m \in [Tabs -> Entry]
      /\ \A u \in Tabs \ {current} : m[u] = tabs[u]
      /\ current \in open => m[current].savedContent = editor
  BY <1>1, FlushedTabs
<1>3. /\ Flushed(m) \in [Tabs -> Entry]
      /\ \A u \in Tabs \ {current} : Flushed(m)[u] = m[u]
      /\ current \in open => Flushed(m)[current].savedContent = editor
  BY <1>1, <1>2, FlushedTabs
<1>4. /\ ~saving /\ kept' = kept \ {current}
      /\ UNCHANGED <<path, count, document, save, recent, typed, edits>>
      /\ \/ tabs' = m /\ UNCHANGED <<current, editor, doc, highlighter, dialog>>
         \/ \E t \in open : m[t].modified /\
              IF t = current
              THEN tabs' = m /\ UNCHANGED <<current, editor, doc, highlighter>>
              ELSE loadEditorFromCurrent(Flushed(m), path, t)
  BY DEF onClosing, Ready, counters
<1> HIDE DEF m
<1>5. ASSUME NEW t \in open \ {current}, loadEditorFromCurrent(Flushed(m), path, t)
      PROVE  IInv'
  <2>1. \A u \in Tabs \ {current} : Flushed(m)[u] = tabs[u]
    BY <1>2, <1>3
  <2>2. QED
    BY <1>3, <1>4, <1>5, <2>1, LeaveStep
<1>6. ASSUME tabs' = m, UNCHANGED <<current, editor, doc, highlighter>>,
             dialog' => dialog \/ current \in open
      PROVE  IInv'
  <2>1. UNCHANGED <<disk, tmp, torn>> /\ open' = open /\ docPath' = docPath
    BY <1>4, <1>6 DEF document, open, docPath
  <2>2. Types'
    BY <1>0, <1>2, <1>4, <1>6, <2>1 DEF Types
  <2>3. Shown' /\ kept' = {} /\ HighlighterFollows' /\ RecentInv'
    BY <1>0, <1>4, <1>6, <2>1 DEF Shown, saving, HighlighterFollows, RecentInv
  <2>4. Texts'
    BY <1>0, <1>1, <1>2, <1>4, <1>6, <2>1 DEF Texts
  <2>5. Saved' /\ Marker'
    BY <1>0, <1>4, <1>6, <2>1, <2>3 DEF Saved, Marker
  <2>6. QED
    BY <2>2, <2>3, <2>4, <2>5 DEF IInv
<1>7. QED
  BY <1>4, <1>5, <1>6

\* Cancel, discard and the end of the process touch no text.
LEMMA EndStep ==
    ASSUME IInv, cancel \/ discard \/ crash \/ UNCHANGED vars
    PROVE  IInv'
<1>0. Types /\ Shown /\ Texts /\ Saved /\ Marker /\ HighlighterFollows /\ RecentInv
  BY DEF IInv
<1>1. /\ UNCHANGED <<tabs, path, count, current, editor, doc, disk, tmp, torn, save, recent,
                     highlighter, typed, kept, edits>>
      /\ dialog' => dialog
  BY DEF cancel, discard, crash, vars, document, counters
<1>2. open' = open /\ docPath' = docPath
  BY <1>1 DEF open, docPath
<1>3. Types' /\ Shown' /\ Texts'
  BY <1>0, <1>1, <1>2 DEF Types, Shown, Texts, saving
<1>4. Saved' /\ Marker' /\ HighlighterFollows' /\ RecentInv'
  BY <1>0, <1>1, <1>2 DEF Saved, Marker, HighlighterFollows, RecentInv
<1>5. QED
  BY <1>3, <1>4 DEF IInv

LEMMA StepInv == IInv /\ [Next]_vars => IInv'
<1> SUFFICES ASSUME IInv, [Next]_vars
             PROVE  IInv'
  OBVIOUS
<1>1. ASSUME NEW f \in Files, openPath(f)
      PROVE  IInv'
  BY <1>1, OpenStep
<1>2. ASSUME NEW t \in Tabs, switchTab(t)
      PROVE  IInv'
  BY <1>2, SwitchStep
<1>3. CASE saveCurrent \/ autoSave \/ dialogSave
  <2>1. ~saving /\ current \in open
    BY <1>3 DEF saveCurrent, autoSave, dialogSave, Ready, IInv, Shown
  <2>2. begin("user") \/ begin("timer") \/ begin("dialog")
    BY <1>3 DEF saveCurrent, autoSave, dialogSave
  <2>3. QED
    BY <2>1, <2>2, BeginStep
<1>4. CASE edit \/ openTmp \/ writeTmp \/ removeOld \/ rename \/ writeFails
  BY <1>4, EditStep, CallStep, RenameStep, FailStep
<1>5. CASE onClosing \/ cancel \/ discard \/ crash \/ UNCHANGED vars
  BY <1>5, ClosingStep, EndStep
<1>6. QED
  BY <1>1, <1>2, <1>3, <1>4, <1>5 DEF Next

LEMMA Invariant == Spec => []IInv
  BY InitInv, StepInv, PTL DEF Spec

-----------------------------------------------------------------------------
(* The theorems.                                                           *)

\* The one text area, the one highlighter and the one list of recent files
\* serve every tab without mixing them, also two tabs of one document
\* (flushEditorToModel, loadEditorFromCurrent, attachHighlighter,
\* addRecentFile).
THEOREM NotepadTabs == Spec => []TabsNotMixed
<1>1. IInv => TabsNotMixed
  <2> SUFFICES ASSUME IInv
               PROVE  TabsNotMixed
    OBVIOUS
  <2>1. TypeOK
    BY DEF IInv, Types, RecentInv, TypeOK, Entry, Text
  <2>2. TypedTextKept /\ HighlighterFollows
    BY DEF IInv, Texts, TypedTextKept
  <2>3. QED
    BY <2>1, <2>2 DEF TabsNotMixed
<1>2. QED
  BY <1>1, Invariant, PTL

\* Wherever writeFile is cut short, by a failing call or the end of the
\* process, the document is a whole text, or is in the temporary file with the
\* text of a tab that shows it, or its rename has failed.
THEOREM NotepadDocument == Spec => []DocumentKept
<1>1. IInv => DocumentKept
  <2> SUFFICES ASSUME IInv
               PROVE  DocumentKept
    OBVIOUS
  <2>1. NeverHalfWritten
    BY DEF IInv, Saved, NeverHalfWritten
  <2>2. ASSUME NEW f \in Files, disk[f] = Absent, f \notin torn
        PROVE  \E t \in open : path[t] = f /\ tmp[f] = typed[t]
    <3>1. f = path[current] /\ save.step = "rename"
      BY <2>2 DEF IInv, Saved, docPath
    <3>2. current \in open /\ tmp[f] = editor
      BY <3>1 DEF IInv, Shown, Saved, saving, docPath
    <3>3. tmp[f] = typed[current]
      BY <3>2 DEF IInv, Texts
    <3>4. QED
      BY <3>1, <3>2, <3>3
  <2>3. QED
    BY <2>1, <2>2 DEF DocumentKept, MissingIsInTmp
<1>2. QED
  BY <1>1, Invariant, PTL

\* No unsaved marker means that the text is on disk, for a tab that was not
\* left since it was opened or saved (markModified, markSaved).
THEOREM NotepadMarker == Spec => []MarkerExactUnlessLeft
<1>1. IInv => MarkerExactUnlessLeft
  <2> SUFFICES ASSUME IInv, NEW t \in kept, ~saving, path[t] \notin torn
               PROVE  tabs[t].modified <=> typed[t] # disk[path[t]]
    BY DEF MarkerExactUnlessLeft
  <2>1. t = current /\ t \in open /\ typed[t] = editor
    BY DEF IInv, Shown, Texts
  <2>2. disk[path[t]] = doc.savedContent /\ (tabs[t].modified <=> editor # doc.savedContent)
    BY DEF IInv, Marker, saving
  <2>3. QED
    BY <2>1, <2>2
<1>2. QED
  BY <1>1, Invariant, PTL
=============================================================================

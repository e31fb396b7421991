------------------------------- MODULE Notepad -------------------------------
(***************************************************************************)
(* The editor: tabs that share one text area (Main.qml), saving through    *)
(* FileDialogHelper, the unsaved-changes dialog, auto-save, recent files   *)
(* and the highlighter the tabs share.  All of it runs on the GUI thread;  *)
(* what interrupts a save is a failing system call or the end of the       *)
(* process.  A text is a version number: an edit makes a new one, or goes   *)
(* back to the saved one.                                                  *)
(***************************************************************************)
EXTENDS Naturals, Sequences, SequencesExt, Functions

CONSTANTS
    Files,          \* the documents
    Absent, Partial,\* a file that does not exist, one half-written
    NoFile,         \* the path of a tab that is not open
    Language,       \* languageForFile: [Files -> language], "" for unknown
    MaxTabs, MaxEdits, MaxFails, MaxSwitches, MaxRecent

ASSUME FilesAssumption ==
    /\ NoFile \notin Files /\ Language \in [Files -> STRING]
    /\ Absent \notin Nat /\ Partial \notin Nat /\ Absent # Partial
    /\ MaxTabs \in Nat /\ MaxEdits \in Nat /\ MaxFails \in Nat
    /\ MaxSwitches \in Nat /\ MaxRecent \in Nat

Tabs == 1..MaxTabs
NoTab == 0      \* the fresh "Untitled" tab, which the first openPath reuses

VARIABLES
    tabs,           \* [Tabs -> [savedContent, modified]], of the open ones
    path,           \* their filePath; several tabs may have the same
    count,          \* tabs.count
    current,        \* the tab in the editor (tabBar.currentIndex)
    editor,         \* editor.text
    doc,            \* docSavedContent and docModified
    disk, tmp,      \* the document and its ".nira-tmp" sibling
    save,           \* the call of writeFile in progress, and who made it
    dialog,         \* unsavedDialog is open
    state,          \* "up", "closed", "discarded" or "crashed"
    recent,         \* Notepad/recentFiles
    highlighter,    \* whose rules and whose comment markers are active
    typed,          \* history: the text the user left in each tab
    kept,           \* history: tabs not left since they were opened or saved
    torn,           \* history: documents whose rename failed
    edits, fails, switches

vars == <<tabs, path, count, current, editor, doc, disk, tmp, save, dialog, state,
          recent, highlighter, typed, kept, torn, edits, fails, switches>>
document == <<disk, tmp, torn>>
counters == <<edits, fails, switches>>

open == 1..count
docPath == path[current]

Idle == [step |-> "none", by |-> "user"]

Init ==
    /\ tabs = [t \in Tabs |-> [savedContent |-> 0, modified |-> FALSE]]
    /\ path = [t \in Tabs |-> NoFile] /\ count = 0 /\ current = NoTab /\ editor = 0
    /\ doc = [savedContent |-> 0, modified |-> FALSE]
    /\ disk = [f \in Files |-> 0] /\ tmp = [f \in Files |-> Absent]
    /\ save = Idle /\ dialog = FALSE /\ state = "up" /\ recent = <<>>
    /\ highlighter = [rules |-> "", comments |-> ""]
    /\ typed = [t \in Tabs |-> 0] /\ kept = {} /\ torn = {}
    /\ edits = 0 /\ fails = 0 /\ switches = 0

saving == save.step # "none"

Ready == state = "up" /\ ~saving /\ ~dialog

-----------------------------------------------------------------------------
(* Tabs.                                                                   *)

\* The list without its entry f, if it has one (removeAll: entries are distinct).
Without(f) ==
    IF f \in ToSet(recent) THEN {RemoveAt(recent, i) : i \in {j \in DOMAIN recent : recent[j] = f}}
                           ELSE {recent}

addRecentFile(f) ==
    \E others \in Without(f) :
        LET list == <<f>> \o others
        IN  recent' = SubSeq(list, 1, IF Len(list) > MaxRecent THEN MaxRecent ELSE Len(list))

\* An unknown language clears the rules and returns before the markers.
setLanguage(language) ==
    [rules |-> language,
     comments |-> IF language = "" THEN highlighter.comments ELSE language]

languageForFile(f) == Language[f]

\* attach for the first document, reconfigure for the others.
reconfigure(language) == highlighter' = setLanguage(language)

\* attachHighlighter leaves the highlighter alone for unknown languages.
attachHighlighter(language) ==
    \/ language # "" /\ reconfigure(language)
    \/ language = "" /\ UNCHANGED highlighter

\* Mutant: only the marker is brought up to date.
flushEditorToModel_MarkOnly(m, t) ==
    [m EXCEPT ![t].modified = editor # m[t].savedContent]

\* The editor's text goes into the tab that is left, as its savedContent.
flushEditorToModel(m, t) ==
    [m EXCEPT ![t] = [savedContent |-> editor, modified |-> editor # m[t].savedContent]]

Flushed(m) == IF current \in open THEN flushEditorToModel(m, current) ELSE m

\* loadEditorFromCurrent with the tabs as in m and their paths as in p.
loadEditorFromCurrent(m, p, t) ==
    /\ tabs' = m /\ current' = t
    /\ editor' = m[t].savedContent /\ doc' = m[t]
    /\ attachHighlighter(languageForFile(p[t]))

\* The text, or Absent: a file that cannot be read or is too large counts as
\* missing, and openPath then only shows a dialog.
readFile(f) == disk[f]

\* A new tab, also for a document that has one.
openPath(f) ==
    LET t == count + 1 IN
    /\ Ready /\ count < MaxTabs /\ readFile(f) # Absent
    /\ count' = t /\ path' = [path EXCEPT ![t] = f]
    /\ loadEditorFromCurrent(
          [Flushed(tabs) EXCEPT ![t] = [savedContent |-> readFile(f), modified |-> FALSE]],
          path', t)
    /\ typed' = [typed EXCEPT ![t] = readFile(f)]
    /\ kept' = (kept \ {current}) \cup {t}
    /\ addRecentFile(f)
    /\ UNCHANGED <<document, save, dialog, state, counters>>

switchTab(t) ==
    /\ Ready /\ t \in open \ {current}
    /\ switches < MaxSwitches /\ switches' = switches + 1
    /\ loadEditorFromCurrent(Flushed(tabs), path, t)
    /\ kept' = kept \ {current}
    /\ UNCHANGED <<path, count, document, save, dialog, state, recent, typed, edits, fails>>

\* The modified property of a tab follows docModified when that changes.
markModified(changed) ==
    /\ doc' = [doc EXCEPT !.modified = changed]
    /\ tabs' = IF changed # doc.modified THEN [tabs EXCEPT ![current].modified = changed]
                                          ELSE tabs

\* A keystroke or an undo, then markModified.
edit ==
    /\ Ready /\ current \in open /\ edits < MaxEdits
    /\ edits' = edits + 1 /\ editor' \in {edits + 1, doc.savedContent} \ {editor}
    /\ markModified(editor' # doc.savedContent)
    /\ typed' = [typed EXCEPT ![current] = editor']
    /\ UNCHANGED <<path, count, current, document, save, dialog, state, recent,
                   highlighter, kept, fails, switches>>

-----------------------------------------------------------------------------
(* Saving: the system calls of writeFile, each of which may fail.          *)

begin(by) ==
    /\ save' = [step |-> "open", by |-> by] /\ dialog' = (dialog /\ by # "dialog")
    /\ UNCHANGED <<tabs, path, count, current, editor, doc, document, state, recent,
                   highlighter, typed, kept, counters>>

saveCurrent == Ready /\ current \in open /\ begin("user")

\* Mutant: the timer is not restarted after a failed save.
autoSave_Once ==
    /\ state = "up" /\ ~saving /\ current \in open /\ doc.modified /\ fails = 0
    /\ begin("timer")

\* The 3 s timer runs while the shown document is modified, and fires also when
\* unsavedDialog is open.
autoSave ==
    /\ state = "up" /\ ~saving /\ current \in open /\ doc.modified
    /\ begin("timer")

\* Mutant: the result of writeFile is not looked at.
markSaved_Always(ok) ==
    /\ tabs' = [tabs EXCEPT ![current] = [savedContent |-> editor, modified |-> FALSE]]
    /\ doc' = [savedContent |-> editor, modified |-> FALSE]
    /\ kept' = kept \cup {current} /\ addRecentFile(docPath)

markSaved(ok) ==
    \/ /\ ok /\ tabs' = [tabs EXCEPT ![current] = [savedContent |-> editor, modified |-> FALSE]]
       /\ doc' = [savedContent |-> editor, modified |-> FALSE]
       /\ kept' = kept \cup {current} /\ addRecentFile(docPath)
    \/ ~ok /\ UNCHANGED <<tabs, doc, kept, recent>>

\* After writeFile; "Save" in the dialog removes the tab whatever the result.
finish(ok) ==
    /\ markSaved(ok)
    /\ state' = IF save.by = "dialog" THEN "closed" ELSE state
    /\ save' = [save EXCEPT !.step = "none"]
    /\ UNCHANGED <<path, count, current, editor, dialog, highlighter, typed, edits, switches>>

proceed(step) ==
    /\ save' = [save EXCEPT !.step = step]
    /\ UNCHANGED <<tabs, path, count, current, editor, doc, dialog, state, recent,
                   highlighter, typed, kept, counters>>

openTmp ==
    /\ save.step = "open" /\ tmp' = [tmp EXCEPT ![docPath] = Partial]
    /\ proceed("write") /\ UNCHANGED <<disk, torn>>

writeTmp ==
    /\ save.step = "write" /\ tmp' = [tmp EXCEPT ![docPath] = editor]
    /\ proceed("remove") /\ UNCHANGED <<disk, torn>>

\* Mutant: the temporary file is cleaned up with the destination.
removeOld_Both ==
    /\ save.step = "remove" /\ disk' = [disk EXCEPT ![docPath] = Absent]
    /\ tmp' = [tmp EXCEPT ![docPath] = Absent]
    /\ proceed("rename") /\ UNCHANGED torn

removeOld ==
    /\ save.step = "remove" /\ disk' = [disk EXCEPT ![docPath] = Absent]
    /\ proceed("rename") /\ UNCHANGED <<tmp, torn>>

rename ==
    /\ save.step = "rename"
    /\ disk' = [disk EXCEPT ![docPath] = tmp[docPath]]
    /\ tmp' = [tmp EXCEPT ![docPath] = Absent]
    /\ torn' = torn \ {docPath}
    /\ finish(TRUE) /\ UNCHANGED fails

\* Any of the calls fails: the temporary file is removed and false returned,
\* also when the document has just been removed.
writeFails ==
    /\ saving /\ fails < MaxFails /\ fails' = fails + 1
    /\ tmp' = [tmp EXCEPT ![docPath] = IF save.step = "open" THEN @ ELSE Absent]
    /\ torn' = IF save.step = "rename" THEN torn \cup {docPath} ELSE torn
    /\ finish(FALSE) /\ UNCHANGED disk

\* The process is killed.
crash ==
    /\ state = "up" /\ state' = "crashed"
    /\ UNCHANGED <<tabs, path, count, current, editor, doc, document, save, dialog,
                   recent, highlighter, typed, kept, counters>>

-----------------------------------------------------------------------------
(* Closing the window: onClosing and the dialog.  What the tab bar shows   *)
(* once a tab is removed is left to Qt: the model ends there.              *)

onClosing ==
    /\ Ready /\ kept' = kept \ {current}
    /\ LET m == Flushed(tabs)
           dirty == {t \in open : m[t].modified}
       IN  IF dirty = {}
           THEN /\ state' = "closed" /\ tabs' = m
                /\ UNCHANGED <<current, editor, doc, highlighter, dialog>>
           ELSE /\ dialog' = TRUE /\ UNCHANGED state
                /\ \E t \in dirty :
                     /\ \A u \in dirty : t <= u
                     /\ IF t = current
                        THEN tabs' = m /\ UNCHANGED <<current, editor, doc, highlighter>>
                        ELSE loadEditorFromCurrent(Flushed(m), path, t)
    /\ UNCHANGED <<path, count, document, save, recent, typed, counters>>

cancel ==
    /\ state = "up" /\ ~saving /\ dialog /\ dialog' = FALSE
    /\ UNCHANGED <<tabs, path, count, current, editor, doc, document, save, state, recent,
                   highlighter, typed, kept, counters>>

discard ==
    /\ state = "up" /\ ~saving /\ dialog /\ state' = "discarded" /\ dialog' = FALSE
    /\ UNCHANGED <<tabs, path, count, current, editor, doc, document, save, recent,
                   highlighter, typed, kept, counters>>

dialogSave == state = "up" /\ ~saving /\ dialog /\ begin("dialog")

Next ==
    \/ \E f \in Files : openPath(f)
    \/ \E t \in Tabs : switchTab(t)
    \/ edit \/ saveCurrent \/ autoSave \/ crash
    \/ /\ state = "up"
       /\ openTmp \/ writeTmp \/ removeOld \/ rename \/ writeFails
    \/ onClosing \/ cancel \/ discard \/ dialogSave

\* The timer ticks and a save that has begun goes on.
Fairness ==
    /\ WF_vars(autoSave)
    /\ WF_vars(state = "up" /\ (openTmp \/ writeTmp \/ removeOld \/ rename))

Spec == Init /\ [][Next]_vars
FairSpec == Spec /\ Fairness

-----------------------------------------------------------------------------
(* Properties.                                                             *)

\* Types; the recent files are distinct and at most MaxRecent.
TypeOK ==
    /\ tabs \in [Tabs -> [savedContent : 0..MaxEdits, modified : BOOLEAN]]
    /\ count \in 0..MaxTabs /\ current \in open \cup {NoTab} /\ editor \in 0..MaxEdits
    /\ path \in [Tabs -> Files \cup {NoFile}] /\ \A t \in open : path[t] \in Files
    /\ disk \in [Files -> 0..MaxEdits \cup {Absent, Partial}]
    /\ tmp \in [Files -> 0..MaxEdits \cup {Absent, Partial}]
    /\ IsInjective(recent) /\ Len(recent) <= MaxRecent

\* The one text area serves every tab without mixing them: what the user
\* typed is in the editor for the shown tab and in its model entry for others.
TypedTextKept ==
    state = "up" =>
        \A t \in open : typed[t] = IF t = current THEN editor ELSE tabs[t].savedContent

\* Whenever the process ends, a document is a whole text: the previous one,
\* one the user typed into that document, or it is missing.
NeverHalfWritten == \A f \in Files : disk[f] # Partial

\* A missing document is in the temporary file, with the text of a tab that shows
\* it, unless the rename failed: then writeFile has removed both.
MissingIsInTmp ==
    \A f \in Files : disk[f] = Absent /\ f \notin torn =>
        \E t \in open : path[t] = f /\ tmp[f] = typed[t]

\* The marker is exact for a tab that was not left since it was opened or
\* saved: no mark, then the text is on disk.
MarkerExactUnlessLeft ==
    \A t \in kept : ~saving /\ path[t] \notin torn =>
        (tabs[t].modified <=> typed[t] # disk[path[t]])

\* A document of a known language is shown with its rules and its comment
\* markers, although all tabs share one highlighter.
HighlighterFollows ==
    current \in open /\ Language[docPath] # "" =>
        highlighter = [rules |-> Language[docPath], comments |-> Language[docPath]]

\* Auto-save retries until the shown document is no longer modified, also while
\* the unsaved-changes dialog waits for an answer (or the process ends).
AutoSaved ==
    current \in open /\ doc.modified ~> ~doc.modified \/ state # "up"

\* Main.qml: "prompt for every unsaved tab".  The window only closes by
\* itself when every text the user typed is on disk.  The code does not meet
\* this: a tab that was left and shown again may have lost its mark, and two tabs
\* of one document overwrite each other's text.
QuitLosesNothing ==
    state = "closed" /\ save.by # "dialog" => \A t \in open : typed[t] = disk[path[t]]

\* Tabs share one text area, one highlighter and one list of recent files
\* without being mixed.
TabsNotMixed == TypeOK /\ TypedTextKept /\ HighlighterFollows

\* Wherever a save is cut short, the document is whole, on disk or in the
\* temporary file.
DocumentKept == NeverHalfWritten /\ MissingIsInTmp
=============================================================================

----------------------------- MODULE WindowList -----------------------------
(***************************************************************************)
(* The windows of the session, from the compositor's registry              *)
(* (WindowManagerDBus) over D-Bus to the shell's taskbar (TaskbarModel).   *)
(* Messages between two programs arrive in order.  A taskbar that starts   *)
(* subscribes to the signals and then asks for the windows that are there, *)
(* with one call for their names and four more for each; the shell may     *)
(* crash and be started again.  The focused window is also exported        *)
(* (module ContextExporter).                                               *)
(***************************************************************************)
EXTENDS ContextExporter, FiniteSets, Sequences, SequencesExt, Functions

CONSTANTS
    Windows,        \* window names, 1..n, given out in order
    Opened,         \* windows open when the shell starts
    MaxEvents,      \* bound: what happens to windows
    MaxTrouble      \* bound: clicks in the taskbar, restarts of the shell,
                    \* errors of calls and of writes

ASSUME WindowAssumption ==
    /\ Windows \subseteq Nat /\ NoWindow \notin Windows
    /\ Opened \subseteq Windows /\ \E n \in Opened \cup {0} : Opened = 1..n
    /\ {MaxEvents, MaxTrouble} \subseteq Nat

VARIABLES
    windows,        \* the compositor's registry: [names -> window]
    counter,        \* __windowIdCounter
    focused,        \* __lastFocusedWinId; NoWindow stands for the shell
    running,        \* the compositor has not been told to quit
    toShell,        \* signals and replies on their way to the shell
    toCompositor,   \* calls on their way to the compositor
    rows,           \* the taskbar's windows_: [names -> window]
    lastFocused,
    seeds,          \* answers collected for a window that was listed
    happened, trouble,
    dropped         \* history: windows of which a seed is incomplete or
                    \* missed a signal

wmVars == <<windows, counter, focused, running>>
shellVars == <<rows, lastFocused, seeds>>
bounds == <<happened, trouble>>
winVars == <<wmVars, toShell, toCompositor, shellVars, bounds, dropped, exporterVars>>

New(m) == [title |-> m, appId |-> m, minimized |-> FALSE, focused |-> FALSE]
Unknown == New(0)           \* what the registry answers for a window it lacks
Queries == <<"title", "appId", "minimized", "focused">>
Commands == {"activate", "minimize", "close"}

Put(f, w, x) == [v \in DOMAIN f \cup {w} |-> IF v = w THEN x ELSE f[v]]
Drop(f, w) == Restrict(f, DOMAIN f \ {w})
NoRows == [v \in {} |-> Unknown]
Send(ms) == toShell' = toShell \o ms
Signal(type, w, x) == [type |-> type, id |-> w, win |-> x, ids |-> {}]
Call(method, w) == [method |-> method, id |-> w]

WinInit ==
    /\ windows = [w \in Opened |-> New(1)] /\ counter = Cardinality(Opened) /\ focused = NoWindow /\ running = TRUE
    /\ toShell = <<>> /\ toCompositor = <<Call("list", NoWindow)>>
    /\ rows = NoRows /\ lastFocused = NoWindow /\ seeds = NoRows
    /\ happened = 0 /\ trouble = 0 /\ dropped = {}
    /\ ExporterInit

-----------------------------------------------------------------------------
(* The compositor.                                                         *)

event == running /\ happened < MaxEvents /\ happened' = happened + 1 /\ UNCHANGED trouble
\* k more clicks, restarts or errors.
troubled(k) == trouble + k <= MaxTrouble /\ trouble' = trouble + k
quietShell == UNCHANGED <<toCompositor, shellVars, dropped>>

registerWindow(w) ==
    /\ event /\ w = counter + 1
    /\ counter' = w /\ windows' = Put(windows, w, New(1))
    /\ Send(<<Signal("registered", w, New(1))>>)
    /\ UNCHANGED <<focused, running, exporterVars>> /\ quietShell

unregisterWindow(w) ==
    /\ event /\ w \in DOMAIN windows
    /\ windows' = Drop(windows, w)
    /\ Send(<<Signal("unregistered", w, Unknown)>>)
    /\ UNCHANGED <<counter, focused, running, exporterVars>> /\ quietShell

\* The messages of updateWindowState: none when the registry says so already,
\* one also for a window that it does not have.
stateMessages(reg, w, x) ==
    IF w \in DOMAIN reg /\ reg[w] = x THEN <<>> ELSE <<Signal("state", w, x)>>

\* Mutant: the window that loses the focus is not told.
focusMoves_OnlyNew(reg, before, w, after) ==
    /\ focused' = w
    /\ windows' = IF w \in DOMAIN reg THEN Put(reg, w, [reg[w] EXCEPT !.focused = TRUE]) ELSE reg
    /\ Send(before \o (IF w \in DOMAIN reg THEN stateMessages(reg, w, [reg[w] EXCEPT !.focused = TRUE]) ELSE <<>>)
                   \o after)
    /\ setActive(w)

\* The keyboard focus moves to w, the registry being reg and the messages
\* before and after being sent around it: the exporter, the window that
\* loses the focus and the one that gains it.
focusMoves(reg, before, w, after) ==
    LET lose == [IF focused \in DOMAIN reg THEN reg[focused] ELSE Unknown EXCEPT !.focused = FALSE]
        left == IF focused \in DOMAIN reg THEN Put(reg, focused, lose) ELSE reg
        gain == [IF w \in DOMAIN reg THEN reg[w] ELSE Unknown EXCEPT !.focused = TRUE]
    IN  /\ focused' = w
        /\ setActive(w)
        /\ windows' = IF w \in DOMAIN left /\ w # focused THEN Put(left, w, gain) ELSE
                      IF w = focused THEN reg ELSE left
        /\ Send(before \o (IF focused \in {w, NoWindow} THEN <<>> ELSE stateMessages(reg, focused, lose))
                       \o (IF w \in {focused, NoWindow} THEN <<>> ELSE stateMessages(left, w, gain))
                       \o after)

focus(w) ==
    /\ event /\ w # focused /\ w \in DOMAIN windows \cup {NoWindow}
    /\ focusMoves(windows, <<>>, w, <<>>)
    /\ UNCHANGED <<counter, running>> /\ quietShell

\* A window is minimized and the shell takes the focus, whoever had it (the
\* shell's surface is taken to be there: it is while the shell runs).
minimizes(w) ==
    LET x == [windows[w] EXCEPT !.minimized = TRUE, !.focused = FALSE]
    IN  focusMoves(Put(windows, w, x), <<>>, NoWindow, stateMessages(windows, w, x))

activates(w) ==
    LET x == [windows[w] EXCEPT !.minimized = FALSE]
    IN  focusMoves(Put(windows, w, x), stateMessages(windows, w, x), w, <<>>)

minimize(w) ==
    /\ event /\ w \in DOMAIN windows /\ ~windows[w].minimized
    /\ minimizes(w)
    /\ UNCHANGED <<counter, running>> /\ quietShell

updateWindowMetadata(w) ==
    LET x == [windows[w] EXCEPT !.title = 2, !.appId = 2] IN
    /\ event /\ w \in DOMAIN windows
    /\ windows' = Put(windows, w, x)
    /\ Send(<<Signal("metadata", w, x)>>)
    /\ UNCHANGED <<counter, focused, running, exporterVars>> /\ quietShell

\* The slots of WindowManagerDBus and what Main.qml does for a command; a
\* window that is asked to close does so by itself, later or never.
takeCall ==
    LET c == Head(toCompositor)
        here == c.id \in DOMAIN windows
        win == IF here THEN windows[c.id] ELSE Unknown
    IN  /\ running /\ toCompositor # <<>> /\ toCompositor' = Tail(toCompositor)
        /\ \/ /\ c.method = "list"
              /\ Send(<<[Signal("list", NoWindow, Unknown) EXCEPT !.ids = DOMAIN windows]>>)
              /\ UNCHANGED <<windows, focused, exporterVars>>
           \/ /\ c.method \in ToSet(Queries)
              /\ Send(<<Signal(c.method, c.id, win)>>)
              /\ UNCHANGED <<windows, focused, exporterVars>>
           \/ c.method = "activate" /\ here /\ activates(c.id)
           \/ c.method = "minimize" /\ here /\ ~win.minimized /\ minimizes(c.id)
           \/ /\ c.method \in Commands
              /\ here => c.method = "close" \/ (c.method = "minimize" /\ win.minimized)
              /\ UNCHANGED <<windows, focused, toShell, exporterVars>>
           \/ c.method = "gone" /\ UNCHANGED <<windows, focused, toShell, exporterVars>>
        /\ UNCHANGED <<counter, running, shellVars, bounds, dropped>>

\* Component.onDestruction
quit ==
    /\ event /\ running' = FALSE /\ flush
    /\ UNCHANGED <<windows, counter, focused, toShell>> /\ quietShell

-----------------------------------------------------------------------------
(* The taskbar.                                                            *)

\* Its handlers, as functions of the rows.
onWindowRegistered(rs, w, x) ==
    Put(rs, w, IF w \in DOMAIN rs THEN [rs[w] EXCEPT !.title = x.title, !.appId = x.appId]
               ELSE [Unknown EXCEPT !.title = x.title, !.appId = x.appId])

\* Mutant: a state that arrives for an unknown window makes a row for it.
onWindowStateChanged_NoCheck(rs, w, x) ==
    Put(rs, w, [IF w \in DOMAIN rs THEN rs[w] ELSE Unknown
                EXCEPT !.minimized = x.minimized, !.focused = x.focused])

onWindowStateChanged(rs, w, x) ==
    IF w \notin DOMAIN rs THEN rs
    ELSE Put(rs, w, [rs[w] EXCEPT !.minimized = x.minimized, !.focused = x.focused])

\* lastFocusedWindowId_ is set when the state of a row changes to focused.
lastFocusedAfter(rs, w, x) ==
    IF onWindowStateChanged(rs, w, x) # rs /\ x.focused THEN w ELSE lastFocused

onSignal(m) ==
    /\ m.type \in {"registered", "unregistered", "state", "metadata"}
    /\ rows' = CASE m.type = "registered" -> onWindowRegistered(rows, m.id, m.win)
               [] m.type = "unregistered" -> Drop(rows, m.id)
               [] m.type = "state" -> onWindowStateChanged(rows, m.id, m.win)
               [] m.type = "metadata" ->
                     IF m.id \in DOMAIN rows THEN onWindowRegistered(rows, m.id, m.win) ELSE rows
    /\ lastFocused' = IF m.type = "state" THEN lastFocusedAfter(rows, m.id, m.win) ELSE lastFocused
    /\ dropped' = IF /\ m.id \in DOMAIN seeds
                     /\ \/ m.type = "unregistered"
                        \/ m.type = "metadata" /\ seeds[m.id].got >= 1
                        \/ m.type = "state" /\ seeds[m.id].got >= 3
                  THEN dropped \cup {m.id} ELSE dropped
    /\ UNCHANGED <<seeds, toCompositor, trouble>>

\* Four calls for every window of the list.
callsFor(ids) ==
    [k \in 1..(4 * Len(ids)) |-> Call(Queries[1 + ((k - 1) % 4)], ids[1 + ((k - 1) \div 4)])]

onList(m, error) ==
    /\ m.type = "list"
    /\ IF error THEN dropped' = dropped \cup m.ids /\ UNCHANGED <<seeds, toCompositor>>
       ELSE /\ seeds' = [w \in m.ids |-> [got |-> 0, win |-> Unknown]]
            /\ toCompositor' = toCompositor \o callsFor(SetToSeq(m.ids))
            /\ UNCHANGED dropped
    /\ UNCHANGED <<rows, lastFocused>>

\* The last of the four answers enters the window, whatever was signalled of
\* it in the meantime.
onAnswer(m, error) ==
    LET s == seeds[m.id]
        x == IF error THEN s.win ELSE [s.win EXCEPT ![m.type] = m.win[m.type]]
        known == onWindowRegistered(rows, m.id, x)
    IN  /\ m.type \in ToSet(Queries)
        /\ dropped' = IF error THEN dropped \cup {m.id} ELSE dropped
        /\ IF s.got + 1 < Len(Queries)
           THEN /\ seeds' = Put(seeds, m.id, [got |-> s.got + 1, win |-> x])
                /\ UNCHANGED <<rows, lastFocused>>
           ELSE /\ seeds' = Drop(seeds, m.id)
                /\ rows' = onWindowStateChanged(known, m.id, x)
                /\ lastFocused' = lastFocusedAfter(known, m.id, x)
        /\ UNCHANGED toCompositor

receive ==
    LET m == Head(toShell) IN
    /\ toShell # <<>> /\ toShell' = Tail(toShell)
    /\ \/ onSignal(m)
       \/ \E error \in BOOLEAN :
             /\ troubled(IF error THEN 1 ELSE 0)
             /\ onList(m, error) \/ onAnswer(m, error)
    /\ UNCHANGED <<wmVars, happened, exporterVars>>

\* activate, minimize, close and toggle of a row.
click(w, method) ==
    LET c == IF method # "toggle" THEN method
             ELSE IF ~rows[w].minimized /\ w = lastFocused THEN "minimize" ELSE "activate"
    IN  /\ troubled(1)
        /\ toCompositor' = Append(toCompositor, Call(c, w))
        /\ UNCHANGED <<wmVars, toShell, shellVars, happened, dropped, exporterVars>>

\* The shell crashes and starts anew; what it asked for earlier is answered
\* to nobody ("gone"), what it ordered is done.
restart ==
    /\ troubled(1)
    /\ rows' = NoRows /\ lastFocused' = NoWindow /\ seeds' = NoRows /\ dropped' = {}
    /\ toShell' = <<>>
    /\ toCompositor' = Append([k \in DOMAIN toCompositor |->
                                  IF toCompositor[k].method \in Commands THEN toCompositor[k]
                                  ELSE Call("gone", NoWindow)],
                              Call("list", NoWindow))
    /\ UNCHANGED <<wmVars, happened, exporterVars>>

-----------------------------------------------------------------------------
Session ==
    \/ \E w \in Windows :
          registerWindow(w) \/ unregisterWindow(w) \/ minimize(w) \/ updateWindowMetadata(w)
    \/ \E w \in Windows \cup {NoWindow} : focus(w)
    \/ quit

Exporting ==
    /\ ExporterStep
    /\ troubled(IF failed' /\ ~failed THEN 1 ELSE 0)
    /\ UNCHANGED <<wmVars, toShell, toCompositor, shellVars, happened, dropped>>

WinNext ==
    \/ Session \/ takeCall \/ receive \/ restart \/ Exporting
    \/ \E w \in DOMAIN rows, method \in Commands \cup {"toggle"} : click(w, method)

WinSpec == WinInit /\ [][WinNext]_winVars

\* Both programs take their messages; the timer fires and the pool runs.
WinFairSpec == WinSpec /\ WF_winVars(takeCall) /\ WF_winVars(receive) /\ WF_winVars(Exporting)

-----------------------------------------------------------------------------
(* Properties.                                                             *)

WindowType == [title : 0..2, appId : 0..2, minimized : BOOLEAN, focused : BOOLEAN]
ListType == UNION {[W -> WindowType] : W \in SUBSET Windows}

\* Every variable has its type; a window leaves the seeds with its fourth
\* answer.
WinTypeOK ==
    /\ windows \in ListType /\ rows \in ListType
    /\ DOMAIN windows \subseteq 1..counter
    /\ {focused, lastFocused} \subseteq Windows \cup {NoWindow} /\ running \in BOOLEAN
    /\ DOMAIN seeds \subseteq Windows
    /\ \A w \in DOMAIN seeds : seeds[w].got \in 0..3 /\ seeds[w].win \in WindowType
    /\ dropped \subseteq Windows
    /\ activeWindow.what \in Windows \cup {NoWindow} /\ file \in 0..activeWindow.version

\* At no time does the taskbar show two focused windows, however the signals
\* and the answers of the start interleave, restarts and failed calls
\* included (onActiveFocusSurfaceChanged sends the loss before the gain).
OneFocused == \A v, w \in DOMAIN rows : rows[v].focused /\ rows[w].focused => v = w

\* When the session is quiet the taskbar shows the compositor's windows as
\* they are, after a restart of the shell too, and toggle knows the focused
\* one.  A window is excepted when it was closed, renamed or changed state
\* after the answer that tells it and before the last of the four, or when
\* an answer was an error.
TaskbarFollows ==
    <>[](running =>
           /\ \A w \in Windows \ dropped :
                 /\ w \in DOMAIN rows <=> w \in DOMAIN windows
                 /\ w \in DOMAIN rows => rows[w] = windows[w]
           /\ focused \in DOMAIN windows \ dropped => lastFocused = focused)

\* The exported context never goes back to an older one, although every write
\* runs on a thread of its own (onFlushTimer, pendingFlush_).
NeverBackwards == [][file' >= file]_winVars

\* When the focus rests the file names the focused window, unless the last
\* expiry of the timer fell into a write that was in flight, or the write
\* failed (onFlushTimer, writeToDisk).
ContextFollows == <>[](file = activeWindow.version \/ skipped \/ failed)

\* The taskbar is well formed, with one focused window.
RowsConsistent == WinTypeOK /\ OneFocused
=============================================================================

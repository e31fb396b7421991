-------------------------- MODULE ContextExporter --------------------------
(***************************************************************************)
(* The compositor's ContextExporter: it remembers the active window and    *)
(* writes it to a file for the context broker, 100 ms after the last       *)
(* change, on Qt's thread pool, one write at a time.  Module WindowList    *)
(* composes it with the compositor's focus handling.                       *)
(***************************************************************************)
EXTENDS Naturals

CONSTANT NoWindow

VARIABLES
    activeWindow,   \* activeAppId_ and activeTitle_, with their version
    flushTimer,     \* the debounce timer runs
    pendingFlush,
    writing,        \* versions being written by the pool
    written,        \* continuations posted back to the GUI thread
    file,           \* the version in the file
    skipped,        \* history: the timer last expired while a write was in flight
    failed          \* history: the last write failed

exporterVars == <<activeWindow, flushTimer, pendingFlush, writing, written, file, skipped, failed>>

ExporterInit ==
    /\ activeWindow = [what |-> NoWindow, version |-> 0] /\ flushTimer = FALSE
    /\ pendingFlush = FALSE /\ writing = {} /\ written = 0
    /\ file = 0 /\ skipped = FALSE /\ failed = FALSE

\* setActiveAppId and setActiveTitle.
setActive(w) ==
    IF activeWindow.what = w THEN UNCHANGED exporterVars
    ELSE /\ activeWindow' = [what |-> w, version |-> activeWindow.version + 1]
         /\ flushTimer' = TRUE
         /\ UNCHANGED <<pendingFlush, writing, written, file, skipped, failed>>

\* Mutant: a write starts although another one is in flight.
onFlushTimer_Stacks ==
    /\ flushTimer' = FALSE
    /\ pendingFlush' = TRUE /\ writing' = writing \cup {activeWindow.version} /\ skipped' = FALSE
    /\ UNCHANGED <<activeWindow, written, file, failed>>

\* While a write is in flight the callback returns and nothing starts the
\* timer again.
onFlushTimer ==
    /\ flushTimer' = FALSE
    /\ IF pendingFlush THEN skipped' = (writing # {} \/ written > 0) /\ UNCHANGED <<pendingFlush, writing>>
       ELSE pendingFlush' = TRUE /\ writing' = {activeWindow.version} /\ skipped' = FALSE
    /\ UNCHANGED <<activeWindow, written, file, failed>>

timeout == flushTimer /\ onFlushTimer

\* Stops the timer and does what its callback does.
flush == onFlushTimer

\* QSaveFile replaces the file whole or not at all.
writeToDisk(v) ==
    /\ v \in writing /\ writing' = writing \ {v} /\ written' = written + 1
    /\ \/ file' = v /\ failed' = FALSE
       \/ failed' = TRUE /\ UNCHANGED file
    /\ UNCHANGED <<activeWindow, flushTimer, pendingFlush, skipped>>

\* Mutant: the flag is left set.
writeDone_KeepsPending ==
    /\ written > 0 /\ written' = written - 1
    /\ UNCHANGED <<activeWindow, flushTimer, pendingFlush, writing, file, skipped, failed>>

\* The continuation on the GUI thread.
writeDone ==
    /\ written > 0 /\ written' = written - 1 /\ pendingFlush' = FALSE
    /\ UNCHANGED <<activeWindow, flushTimer, writing, file, skipped, failed>>

ExporterStep == timeout \/ writeDone \/ \E v \in writing : writeToDisk(v)
=============================================================================

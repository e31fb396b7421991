# NiraOS: TLA+ models, model checking and proofs

NiraOS is a desktop system built around a local language model. Its own code is a set of
small Rust services (`core/`) that talk gRPC over Unix sockets, a Qt/QML desktop
(`desktop/`) and two applications (`apps/`); `core/vendor` is llama.cpp. This directory
models the parts in which several tasks, threads or processes share state, model-checks
them with TLC, and proves the most important invariants with TLAPS.

Files: `X.tla` is a component, `MCX.tla` and `*.cfg` its finite instances, `XProofs.tla`
its theorems, `PROJECT.json` the index (which definition stands for which source lines,
which run checks which property, the mutants, the hazards and the theorems).

## 1. Inventory

| Component | State | Operations | Interacts with | What is hard |
|---|---|---|---|---|
| AI daemon, life cycle (`core/ai-daemon/src/main.rs`, `grpc/mod.rs`) | mode, model_state, timeout, last_activity, engine behind a mutex, engine_created | generate, stream_generate, set_mode, set_inactivity_timeout, get_status, start-up preload, inactivity watchdog | worker threads (commands, oneshot replies), ai-manager, shell | awaits between read and use; a mutex held across awaits; handlers dropped when their client leaves; failed loads |
| Inference worker (`inference/llama_cpp.rs`) | command queue, the loaded model, is_loading | LoadModel, UnloadModel, Generate, Shutdown | the daemon's tasks | commands of requesters that have gone; replacing one worker by the next |
| Token pipeline (`llama_cpp.rs`, `grpc/mod.rs`) | two bounded channels | try_send of a token, blocking_send of the last item, relay, collect | worker thread, handler task, client | full channels, slow and vanishing readers, streams that end without a last item |
| AI manager (`core/ai-manager`) | none but its connection | poll status, reload in always mode | AI daemon | acts on an old status |
| Shell AI client (`desktop/shell/src/AiClient.*`, `qml/AiAssistant.qml`) | worker thread, activeContext_, workerStop_, event queue, streaming text, panel state | streamGenerate, runGeneration, destructor, panel slots, status poll | AI daemon, UI event loop | a raw pointer used outside the lock; events that arrive after the next prompt; joins on the UI thread |
| Action manager (`core/action-manager`) | staged wallpaper files, the wallpaper, user files | execute_action (filesystem.move, desktop.wallpaper.change), start-up connect | permission manager, compositor (through the wallpaper file) | decision, audit and effect are in two processes that can die separately; files change under the checks |
| Permission manager (`core/permission-manager`) | SQLite: permissions, audit_log; mutex around the connection | evaluate_capability | action manager | lookup and audit are two statements; errors of either; waiting for the mutex |
| Settings service (`core/settings-service`) | map behind an RwLock, JSON file | new, get, list, set_setting, save_to_disk_atomic | settings application | insert, snapshot, write and rename are separate steps; cancelled handlers; blocking calls in the async runtime |
| Model files (`models/*.rs`, `core/model-manager`) | files in the model directory | download, validate, install | AI daemon start-up | interrupted downloads, two programs writing one directory |
| Context exporter (`desktop/compositor/src/ContextExporter.*`) | active window, debounce timer, pendingFlush_, JSON file | set the active window, debounced write on the pool, flush at the end | compositor, context broker (`core/context-broker`, a reader) | timer against asynchronous write |
| Window registry (`WindowManagerDBus.cpp`, compositor `qml/Main.qml`) | windows, focus, minimised flags | register, unregister, state and metadata changes; activate, minimise, close over D-Bus | taskbar, context exporter | focus moves as a consequence of other operations |
| Taskbar (`TaskbarModel.*`) | rows, last focused window, answers still missing | start (list and four calls per window), four signals, four operations | window registry over D-Bus | answers and signals about one window interleave; the shell restarts |
| Desktop icons, trash icon (`DesktopIconModel.*`, `TrashIconState.*`) | rows, file watches, hidden flag; item count | scan, create, rename, trash, notifications; empty the trash | file system, other programs | a watch ends with its file; every name is checked before it is used |
| Greeter (`GreeterIPC.*`, greeter `qml/Main.qml`) | socket, phase, kept password, buffered bytes; selected user, fade animation | select a user, start an attempt, answer prompts, start the session | greetd | errors in every phase, dropped messages, a second attempt during the first |
| Notifications, hardware service | a list behind a lock; sampled counters | push, list, dismiss; stream | shell | polling, reconnects |
| Files: operations (`FileOperations.cpp`) | running calls | copy, move, trash, delete, duplicate on the pool; rename, create on the GUI thread | file system, each other | no lock; partial copies; several devices; links and hidden entries |
| Files: list and search (`FileModel.*`, `FileSystemWatcher.*`, `SearchIndexer.*`) | path, filter, order, rows, the watched load and search, pending notifications | navigate, filter, sort, reload, search, cancel | file system | results of old loads and searches; notifications that arrive during a load |
| Notepad (`apps/notepad`) | tabs, one text area, one highlighter, recent files | open, edit, switch, save, auto-save, quit | file system | save by write, remove and rename; one editor for all tabs |
| Diagnostics, installer, store, packaging, vendored code | - | - | - | pure I/O or third-party; not modelled |

The properties that make these correct, in short: the model is in memory at most once, no accepted
generation is lost, every request ends and an unused model is released (daemon); tokens are
neither lost nor reordered and the single worker thread is always freed (pipeline); no thread
outlives its client and the UI thread is released (client); nothing is done without an audited
grant and callers are told the truth (gate); an acknowledged setting is in the file and the file
is never torn (settings); greeter and greetd stay in step and a sign-in's password only reaches
the session of its user (greeter); no text is lost or shown in the wrong tab (notepad); no file's
data is lost and a reported success is one (file operations); lists, icons, taskbar and exported
context catch up with what they mirror, whatever happened while they were looking (list, desktop,
windows).

## 2. Modules

### AiDaemon (`AiDaemon.tla`, `MCAiDaemon.tla`, `AiDaemonProofs.tla`)

`DaemonState` is `mode`, `modelState`, `timeout`, `idle`, `lock`/`engine` (the mutex and
what it protects) and `engineCreated`; `worker[w]` is the thread behind
`LlamaCppBackend` w with its inbox. Every task (a request slot, the manager, `main`, the
watchdog) has a program counter `pc[t]`; one action ends at each await, lock operation or
access to state another task can see. So `ensure_model_loaded` is `EnsureLock`,
`EnsureCreate`, `EnsureStatus`, `EnsureLoaded`/`EnsureFailed`, `EnsureTouch`,
`EnsureReady`; `unload_model` is `UnloadMark` to `UnloadDone`; the watchdog's four reads
are four actions. `Cancel` drops a handler's future at an await (tonic does, when the
client leaves): the mutex guard goes with it, and commands it left in a worker's inbox
lose their owner. `StreamDisconnect` is the streaming counterpart, whose relay task is
detached. Loads can fail in `WorkerLoadFail`, which includes a missing or invalid file.

Abstractions: there is one model path, so `loaded` stands for "is_loaded with this
model_name"; prompts and tokens are in TokenStream; time is `idle`, counted in ticks up to
`MaxIdle`.

### TokenStream (`TokenStream.tla`, `TokenStreamProofs.tla`)

One generation, from `generate_impl` through the token channel (`tokens`), the relay task
(`relay`, `carry`) and the response channel (`resp`) to the client (`got`), or through the
unary handler that collects it. Token n is the n-th non-empty piece. `Sample` is the
`try_send` that aborts the generation on any error; `SendLast` is `blocking_send`.

### AiClient (`AiClient.tla`, `ShellProofs.tla`)

UI thread (`ui`), worker threads (`wpc[g]` for generation g), `activeContext_` (`active`),
the life of each `grpc::ClientContext` (`ctx`), `workerStop_` (`stop`), the queued events and
the panel; `status` is the daemon's state as the last poll reported it, any value at any time.
Every section under `contextMutex_` is one action. `leftover` is history: the generations with
tokens still queued when the next thread was started. Using a destroyed context is
undefined behaviour: `UseDestroyed` lets the process die, and the ordinary actions let it go
on as if nothing had happened.

### PermissionGate (`PermissionGate.tla`, `MCPermissionGate.tla`, `PermissionGateProofs.tla`)

Both services and the files they work on. `Submit`, `AskRefused`, `Ask`, `Decide` are
`execute_action`; `EvaluateLock`, `EvaluateQuery`, `EvaluateAudit` and their failures are
`evaluate_capability` on its blocking thread, which goes on when the caller has gone; the
`Move...` and `Wallpaper...` actions are the two action implementations. The look-ups between two
decisions are one action (`MoveValidate`: the walk over both paths, `canonicalize` and `is_file`;
`WallpaperCheck`), and every call that changes a file is one of its own, except that `io::copy`
into the staging file, which nobody else looks at, is one. Crashes of either service end its work
and leave files and database as they are; `Regrant` and `OtherWrites` are the rest of the machine.
`granted` and `done` are history variables.

Abstractions: an expired grant is a grant whose value is "denied"; a path is its canonical
name; other programs replace files as a whole; staging names carry a unique stamp.

### SettingsStore (`SettingsStore.tla`, `SettingsStoreProofs.tla`)

`set_setting` is `Insert`, `Snapshot`, `CreateTmp`, `WriteTmp`, `RenameTmp`, or `SaveFails`;
`CallerLeaves` drops the handler at an await, except that a rename already handed to the
blocking pool happens all the same ("detached"). `Start` is `SettingsManager::new`: two of
its three paths call `RwLock::blocking_write` on a thread that is inside the tokio runtime,
which panics. `unsaved`, `overlap` and `raced` are history variables. Temporary names carry
a nanosecond stamp and are taken to be unique.

### GreeterIPC (`GreeterIPC.tla`, `GreeterIPCProofs.tla`)

The greeter, its page and greetd. One handler is one action; `onReadyRead` is
`handleMessage` on one whole frame (`authMessage`, `success`, `error`, `junkFrame`) or the
refusal of a bad one (`badFrame`). `fade` is the page's animation, whose end calls
`startSession`. greetd (external) creates, authenticates and starts a session as its protocol
allows. The page has a list of `NUsers` users that can be clicked at any time (`select`). A
password is the user who was selected, the attempt under way and the button when it was clicked
(`Typed`), so that one in the wrong session is visible in the state: "Sign In" starts an attempt
for the selected user, "Continue" answers whatever session runs. `ignored` is history: an answer
was unusable.

### Notepad (`Notepad.tla`, `MCNotepad.tla`, `NotepadProofs.tla`)

Tabs share one text area: `tabs[t]` is the model's entry, `path[t]` its document (two tabs may
show the same one), `editor` what the area shows, `current` whose it is. `writeFile` is one action
per system call (`begin` to `finish`, with `removeOld` between the temporary file and the rename);
`writeFails` is each of its error returns and `crash` the end of the process at any of them. A
text is the number of the edit that made it, and an edit may also go back to the saved text. The
auto-save timer does not look at the unsaved-changes dialog, which stays open over such a save.
`typed` (the last text of each tab) and `kept` (tabs not left since they were opened or saved) are
history; so is `torn` (a rename failed and both copies are gone).

### FileOperations (`FileOperations.tla`, `MCFileOperations.tla`, `FilesProofs.tla`)

`fs` is a tree from paths to contents over two devices, so that renames across them fail and the
copy fallbacks run. Every job has a step and the list of entries it still has to do; one system
call is one step, and each may fail; `mkpath` (`CanMake`, `Made`) makes what is missing above a
folder too. What a listing gives is `Entries`: no hidden entry (`Hidden`) and no broken link. A
link is an entry whose content says where it leads (`LinkTo`); `Target` follows it as `QFileInfo`,
`QDir` and `QFile::copy` do, so a copy brings what it leads to, and a deletion empties the folder
it leads to before `rmdir` fails on the link itself. An entry's kind is the one its listing cached
(`kindOf`). `was` (what a listing shows of the source), `lone` (no other call overlapped) and
`forfeited` are history. Its specification is `OpsSpec`: names that FileListing has too begin with
Ops, so that FilesProofs can extend both.

### FileListing and DirectoryView (`FileListing.tla`, `DirectoryView.tla`, `MCFileListing.tla`, `FilesProofs.tla`)

`load` is the future FileModel's watcher is connected to: starting another abandons it. The
disk and its notifications (`notices`) are external. `search` is the same for SearchIndexer,
whose root is the directory shown when the timer of the search field fires; `cancel` waits
for the search on the GUI thread, so it is one step.

DirectoryView is the abstract specification: a view has a question and an answer, keeps the old
answer while it is busy, and the answer it then gives is a listing that the directory really had
since the last question. FileListing implements it under the mapping `asked <- (currentPath,
showHidden, nameFilter)`, `shown <- the rows as a set`, `busy <- loading`; loads, notifications
and searches are stuttering steps. Its `Safety` is what a step may do; `Spec` adds that the
questions pause now and then.

### DesktopIcons (`DesktopIcons.tla`, `MCDesktopIcons.tla`, `ShellProofs.tla`)

The shell's GUI thread (`gui`) is in one call at a time, other programs act between any two of
its system calls. A scan is `scanDirectory`, then `readEntry` and `watchEntry` for each name,
then `endScan`; `moveToTrash` has its rename, its copy and its removal as steps. `dead` are
watches whose file is gone. `forgone` and `missed` are history: what other programs put under
a name the shell had just checked, and files written between being read and being watched.

### WindowList and ContextExporter (`WindowList.tla`, `ContextExporter.tla`, `ShellProofs.tla`)

The compositor's registry, two ordered D-Bus channels (`toShell`, `toCompositor`) and the
taskbar; `seeds` are the windows whose four answers are not complete, as in the constructor's
pending calls. `restart` is a crash of the shell: the compositor still takes the calls the old
shell left, what they ask is answered to nobody (`gone`). `dropped` is history: windows that changed
while they were seeded, or whose call failed. ContextExporter is a component with its own
variables and actions; WindowList extends it and takes `setActive` as part of each focus
change, as Main.qml does, so its steps interleave with everything else.

## 3. Runs

All runs pass. A property that is a conjunction names its parts below.

| Run | Checks | Shows |
|---|---|---|
| daemon_safety | NoOrphanedModel, UnloadedMeansNoEngine, GenerationNeverLost | Two requests of every kind, cancellations, failing loads, mode changes and the watchdog in every order: no model is left in a dropped worker, no accepted generation is lost to an unload |
| daemon_live | RequestsAnswered, ReadyModelReleased, ManagerLeavesUnloaded | Under fairness, with a client that may leave at every await of a unary or streamed generation: requests end, a model reported ready is released when nobody uses it, ai-manager repairs "unloaded" in always mode |
| token_stream | PipelineIntact (NothingLost, FinishedIsComplete, SilentOnlyIfAborted), WorkerFreed, HandlerEnds | Both calls, channels at their limits, failing generations, clients that vanish: the pipeline is a prefix of what was produced, is_finished means the whole answer (in the unary call: up to the point where a full channel ended it), worker and handler always end |
| client_threads | OneAtATime (OwnContextOnly, AnswersInOrder), ClosesCleanly (CloseCancels, ClosedIsQuiet), UiReleased | Three prompts, closing at any moment, a daemon that may stall: contexts are never mixed up, closing leaves no uncancelled stream and no thread behind, tokens come in the order of the prompts and an old answer's reach the panel only if they were queued before the next thread started, the UI thread returns |
| settings_store | NeverTorn, LonePersisted | Two requests, I/O errors, callers that leave, crashes: the file is never torn, and a request that overlapped no other is in the file after its success |
| gate | FailClosed, GrantedFirst, ReplyTruthful, RequestsAnswered, ActionManagerComesUp | Two requests, regrants, changing files, both services crashing, callers leaving: no effect without its own audited grant, truthful replies, every request ends and the action manager comes up |
| greeter | ConversationInStep (NothingDropped, OneRequestAtATime), RightUser (PasswordForItsUser, AuthenticatedIsTrue), AttemptEnds, SuccessStarts (FirstSuccessStarts, StartAnswered) | Three attempts for two users with a selection that changes at any time, two prompts, lost connections and bad frames: one request at a time on a live connection, a sign-in's password only in its own attempt and session, no attempt that hangs before it is decided, a first success is followed by StartSession and the answer to that is taken |
| notepad | TabsNotMixed (TypedTextKept, HighlighterFollows), DocumentKept (NeverHalfWritten, MissingIsInTmp), MarkerExactUnlessLeft, AutoSaved | Two tabs on two documents or on one, three edits, failing system calls, a crash anywhere, auto-save under the open dialog: texts stay in their tabs, a document is whole in its file or the temporary one, marks and auto-save work |
| file_ops | TreeKept (NothingLost), ArrivesWhole, CallsEnd | Two overlapping calls of sixteen requests (also of the trash itself) on a tree with a hidden file and a link to the folder it is in, two errors: all data is still there, success means that what is listed arrived, calls end |
| file_listing | WindowConsistent (RowsInOrder, ResultsOfLastSearch), ImplementsView, EventuallyFresh | The refinement of DirectoryView; rows in order, results of the right search, and a watched directory is shown as it is once changes stop |
| desktop_icons | DesktopKept (DeadIsReported, NothingLost), IconsFollow, TrashIconFollows | Nothing is lost, and icons and trash icon catch up |
| windows | RowsConsistent (OneFocused), TaskbarFollows, NeverBackwards, ContextFollows | The taskbar converges to the compositor's windows through start, restart and clicks; the exported context only moves forward and follows the focus |

Bounds, and why they are enough:

- *Clients*, *Requests*, *Setters*, *Jobs*: two. Handlers share state only through one mutex,
  queue, file, tree or database, and every hazard listed is a race of two; the watchdog, the
  manager, crashes and other programs come on top. `daemon_live` has one client and the
  manager, who compete for the mutex with the watchdog.
- *Engines* = 2 (`AiDaemon`): the installed worker and one that is shutting down; `EnsureCreate`
  waits for a free identity, and a third never adds a state that matters to the invariants.
- *MaxAbandoned* = 1: commands whose requester left and that are still queued. One is enough
  for a load or generation nobody waits for; both daemon runs have it, so that a client may leave
  at every await.
- *Timeouts* = {1}, *MaxIdle* = 1, *MinTimeout* = 1: "idle long enough" and "not yet".
- *TokenCap* = *RespCap* = 2 with *MaxTokens* = 6: more tokens than both channels and the
  relay hold together, so that each of them runs full.
- *MaxGens* = 3, *MaxQueued* = 2: a prompt, the next, and one after a clean-up.
- *Asked* (gate) has one move, one wallpaper and one unknown action, and *InOrder* orders the
  kinds of two requests that are served together: every two kinds overlap, in every
  interleaving, but one long request does not meet partners of every kind one after the other.
  *MaxTries* = 1 (20 in the code), *MaxRegrants* = 1, *MaxWrites* = 1: one of each, at any
  point. The proofs cover, for the safety properties, what this leaves out: grants that are
  revoked again, requests with blank or missing parameters, any number of requests in any order.
- *NUsers* = 2, *MaxAttempts* = 3, *MaxPrompts* = 2, *MaxFaults* = 2 (greeter): the user of an
  attempt and another one; an attempt, one that replaces it, and one after a failure; a question
  and a message without one.
- *MaxTabs* = 2, *MaxEdits* = 3, *MaxSwitches* = 3, *MaxFails* = 2, *MaxRecent* = 1 (notepad): two
  documents or one twice; edit, leave, come back, edit again; a failure and a failing retry; a
  list of recent files that overflows.
- *MaxErrors* = 2, *MaxVariants* = 2, *MaxDepth* = 4, *MaxLinks* = 1 (file_ops): a failure in
  each call; a name taken; a folder copied into itself until the path limit; a link followed, and
  one that the system's limit refuses to follow.
- *MaxMoves* = 3, *MaxChanges* = 2 (list: files, the home folder and a folder in it come and
  go), *MaxCalls* = *MaxOutside* = 2 (desktop),
  *MaxEvents* = 2, *MaxTrouble* = 1 (windows: a click, a restart of the shell or an error,
  anywhere among two events): the mutants of these runs, which are the races the code avoids,
  all show within them.

Symmetry sets are used only in runs without temporal properties. Deadlock is checked for the
services, the pipeline and the client; the desktop models stop when their bounds are used up
and say so (`CHECK_DEADLOCK FALSE`), their progress is what the temporal properties state.

Fairness. *AiDaemon*: tokio polls every runnable task (WF of each task, of the start-up, of the
watchdog and manager timers, of the clock); its mutex is a FIFO queue, so a task that waits
gets it (SF of `EnsureLock`, `GenLock`, `UnloadLock`); worker threads run (WF). Nothing is
assumed of clients. *TokenStream*: worker and relay run; a client reads or goes away, which its
180 s deadline and the server's HTTP/2 keepalive guarantee. *AiClient*: both threads run,
cancellation and the deadline end a `Read`; nothing is assumed of the server. *PermissionGate*:
systemd restarts both units (`Restart=always`, `Restart=on-failure`), tasks and blocking
threads run, the database mutex is handed on (SF). *GreeterIPC*: the event loop delivers what
the socket has, the animation ends, greetd answers; nothing is assumed of the user. *Notepad*:
the event loop runs, a save that was begun goes on and the auto-save timer fires, also while the
unsaved-changes dialog waits.
*FileOperations*: the pool runs its jobs. *FileListing*, *DesktopIcons*, *WindowList*: event
loops, pools and timers run and notifications and D-Bus messages arrive; nothing is assumed of
users and other programs.

Each property has a mutant (a definition `X_Something` before the definition `X` it replaces)
that models a plausible bug in that code and that TLC shows to violate the property.

## 4. Claims the code does not meet

Each is a definition in its module, stating what a document or comment says; adding it to the
module's cfg as an INVARIANT or PROPERTY makes TLC print the counterexample.

1. *IdleModelReleased* (AiDaemon, `main.rs:144`). `config/ai.toml:11`: "Seconds of inactivity
   before the model is automatically unloaded". A call cancelled while it loads leaves
   `model_state` at Loading while the worker completes the load, and the watchdog only unloads
   Ready models: an idle model stays in memory.
2. *AbortOnlyAfterDisconnect* (TokenStream, `llama_cpp.rs:541`). The comment says the generation
   is aborted when the receiver was dropped; `try_send` also fails when the channel is full. A
   slow reader loses the rest of its answer and sees neither is_finished nor an error; the unary
   handler even reports the cut answer as finished (`grpc/mod.rs:94`).
3. *ContextAlive* (AiClient, `AiClient.cpp:59`). `AiClient.h:17`: "shared stub ownership to avoid
   use-after-free". `streamGenerate` and the destructor reset the `unique_ptr` whose raw pointer
   the worker goes on using.
4. *AckedIsPersisted* (SettingsStore, `settings-service/src/main.rs:142`). The comment says the
   lock is held while persisting; it is released before the snapshot is taken, and the older of
   two snapshots can be renamed last. LonePersisted is what remains.
5. *ComesUp* (SettingsStore, `main.rs:44`, `52`, with `FairSpec`). `docs/architecture/arch-v1.md:94`:
   "Persistent key-value config store". `blocking_write` inside the runtime panics, so the
   service comes up neither without a settings file nor with a readable one.
6. *StartFollowsSuccess* and *FailureShown* (GreeterIPC, greeter `qml/Main.qml:206-232`). "after
   authentication, the user's Wayland session starts" (the repository's `README.md:14`). The
   fade-out that starts the session runs only from a clear page: when a first session failed to
   start, a second success finds the page already black, and nothing starts. Nothing makes the
   overlay transparent again, so the failure and the login card cannot be seen either.
   SuccessStarts is what remains: the first success, and greetd's answer to StartSession.
7. *QuitLosesNothing* (Notepad, `qml/Main.qml:58-65`). `qml/Main.qml:719`: "Quit: prompt for every
   unsaved tab". Leaving a tab copies the editor into `savedContent`, so a tab left, revisited and
   left again counts as unmodified, and quitting discards its text without a prompt; two tabs of
   one document overwrite each other's text. MarkerExactUnlessLeft is what remains.
8. *OneAnswerShown* (AiClient, `AiAssistant.qml:43-47`). `sendPrompt` clears the text so that it
   holds one answer; token events carry no generation, and those of the previous answer that were
   still queued are appended in front of the new one. AnswersInOrder is what remains.
9. *TypedForSelected* (GreeterIPC, greeter `qml/Main.qml:117-126`, `172-176`). While a further
   prompt is awaited another user can be selected, and "Continue" then sends what was typed for
   that user into the session of the first. RightUser is what remains.
10. *StartEnds* (GreeterIPC, `GreeterIPC.cpp:154`). A connection lost while the session starts is
   taken for greetd's handover; when it is not, the greeter waits for ever with its button
   disabled.
11. *DeletesInside* (FileOperations, `FileOperations.cpp:377`). `isDir()` follows a link to a
   folder: deleting for good a folder that holds one (or copying it to the trash by hand) removes
   the files it leads to, and then reports a failure, since the link cannot be removed by
   `rmdir`. NothingLost excepts what is lost this way (`forfeited`).

The models also reach the following, which the properties above except by a history variable
or which no document rules out:

- *Daemon, client, gate.* The watchdog unloads in always mode when the mode changes after its
  check (ManagerLeavesUnloaded: the manager repairs it); a request admitted in preload mode
  loads the model when the watchdog unloads it in between (`grpc/mod.rs:134`); a prompt sent
  before the previous worker has published its context cancels nothing and waits for it
  (`AiClient.cpp:57`); a status of "ready" during a load turns the panel idle while the answer
  is still being produced (`AiAssistant.qml:317`); a move without a destination is refused only
  after it has been audited; a move reaches its rename only when a file appears at the
  destination between two checks, and then replaces it (`filesystem.rs:33`).
- *Notepad.* A rename that fails removes both the document and the temporary file
  (`main.cpp:343`, `torn`); the dialog's Save closes although the save failed, and the auto-save
  timer saves while the dialog asks whether to; a document of an
  unknown language keeps the highlighting of the tab before.
- *File operations.* Hidden entries are not listed (`FileOperations.cpp:353`, `375`): copying or
  duplicating a folder reports success without them, a move between devices then trashes them with
  the source, and deleting a folder that has one fails after its other entries are gone. A move of
  a folder into a hidden folder inside it ends the same way (the precondition of ArrivesWhole
  excepts it). What is moved into a folder that another call is moving to the trash by copy and
  delete is deleted with it, and `createFile` truncates an existing file (`forfeited`). When every
  name the fallback tries is taken it copies into the last one, an existing entry of the trash
  (`FileOperations.cpp:61`); if what is being trashed lies inside that entry, the deletion that
  follows removes the copies too (`expose`; the proof asked for it, TLC then showed it on a trash
  whose names are all taken). A call that copies a folder into itself never ends by itself
  (CallsEnd: at the path limit), which also keeps the deletion from following. A move whose target
  is its source, or a folder above it, merges folders: `x/x` moved to where `x` is copies
  `x/x/x/f` to `x/x/f`, and then trashes `x/x` and the copy with it (`FileOperations.cpp:304`; the
  precondition of ArrivesWhole excepts it). The trash fallback of a plain file reports success
  without deleting the original.
- *List.* The page calls `fileModel.setCurrentPath(path)` for the places, the history and the path
  bar (`apps/files/qml/Main.qml:86`, `161`, `464`), but `FileModel.h:80` makes it neither
  invokable nor a slot, so that QML cannot call it: `openPath` models what the page means, and
  only `navigateTo` and `navigateUp` work. The first directory is not watched until it is left and
  entered again, since `main.cpp` sets it before it connects the watcher (EventuallyFresh is about
  watched directories); `navigateUp` in a directory that is gone leaves its parent too.
- *Desktop.* A desktop folder that is removed and made again is not watched any more; emptying
  the trash ends the watch of the trash icon; a file written between its reading and its watch
  stays stale (`missed`); a name found free may be taken by another program before it is
  written (`forgone`); the rows of an open context menu are positions, which a rescan moves
  (`DesktopView.qml:279`).
- *Windows.* A window that closes, is renamed or changes while the taskbar asks about it leaves
  a row that is wrong until the next change (`dropped`); a change of the title of the focused
  window is not exported; a change whose timer fires during a write is not exported until the
  next one (`skipped`).

## 5. Proofs

Proved for every value of the constants that satisfies the named assumptions. These say that
identities differ, bounds are natural numbers, a disk has finitely many directories and names,
a tree of files is finite and has folders above its entries,
a directory that is absent lists nothing, and the last name tried by a search for a free name
exists. Each invariant below was checked by TLC on the component's run before it was proved.

*AiDaemonProofs.* `TypeCorrect`, `MutexExclusive`, `QueuesDisciplined`, `NoModelLeaks`,
`UnloadedIsTruthful`, `NoGenerationLost`. NoOrphanedModel and GenerationNeverLost are not
inductive: that a dropped worker is empty depends on the watchdog having sent its UnloadModel
last, which depends on nobody else holding the mutex. The inductive invariant `IInv` adds that
chain: LockDiscipline (who is in a critical section), EngineKnown (what each section knows of
the engine), WatchdogKnown, and QueueDiscipline (UnloadModel is the last command, Shutdown the
only one of a dropped worker, an answered unload means an empty idle worker). The proof has one
lemma per kind of queue change (send, pop, unload, drop, disown) and one step per action.

*PermissionGateProofs.* `GateInvariant`, and from it `GateFailsClosed`, `GateGrantedFirst`,
`GateReplyTruthful`, `GateWallpaperWhole`. `IInv` (RequestKnown, StageKnown, AuditKnown,
DoneKnown, GrantKnown, with TypeOK) records what the early returns established at each stage,
so that "acting" implies "decided allowed" implies "audited" implies "granted".

*SettingsStoreProofs.* `FileNeverTorn` (a handler about to rename has completed its own file)
and `LoneRequestPersisted` (`AloneNow`: a request that overlaps no other is the only one, its
snapshot is the store and its file the snapshot; `ServedUp`).

TypeOK, LockDiscipline and QueueDiscipline of AiDaemon and WallpaperWhole of PermissionGate are
proved and no longer in a run: they are parts of the inductive invariants.

*GreeterIPCProofs.* `GreetdConversation`, `GreeterRightUser`. The two ends keep separate state,
so neither property is inductive: `Wire` says what can be under way on a live connection for
each pair of phases, `Sessions` whose session greetd has, `PhaseFacts` what the greeter's phase
implies about the connection, the password it keeps (of the attempt's user, whoever is selected by
then) and the session. A new attempt in the middle of an old one is the case that needs them all.

*TokenStreamProofs.* `PipelineDelivers`. `PipelineInv` follows the answer through its four
places: what the client has, what is in the response channel, what the relay carries and what
is in the token channel concatenate to the tokens produced so far, followed at most by the last
item, which tells the worker's outcome; `Ends` says which ends of the channels are still held,
so that a closed channel is an empty one when the loops see it. For the unary call the theorem says
that a finished answer is all that entered the channel, and that the worker completed it or gave up
on a full one.

*FilesProofs* holds both halves of the Files application. FileListing: `FilesWindow` and, for the
refinement, `FileModelImplementsView`: every step of FileListing is a step of DirectoryView under
the mapping, or a stutter. `ListInv` says that a load the watcher is connected to is one of the
directory asked for last, that its result is a listing this directory had since then, and that an
absent directory lists nothing; `SearchInv` the same for the search and its root; `RowsInOrder`
that each insertion keeps the order of the sort key. The proof first failed at the removal of a
folder, which had left its sub-folders' listings in place; `change` now empties all that is below
it.

FileOperations: `OperationsKeepTree`, that is `OpsSpec => []TreeKept`, for every tree, any
number of overlapping calls, names and failures. The theory of paths comes first (Under is a
forest order, `MovedLaws` that renaming and renaming back is the identity), then one lemma per
system call on trees (`AddedTree`, `RemovedTree`, `MadeTree`, `RenamedTree`): a tree stays a
tree, and what becomes of each entry. That no data is lost is not inductive: what a call copies
is deleted afterwards. `TreeInv` therefore says of each content that is not forfeited (`Held`)
that it is at a path where every call that is `Doomed` to delete it still has to copy it
(`ToCopy`: before the copy begins, or while an entry of its list is above the path); a step then
moves this witness along: to the new name after a rename, to the copy after a copied file. Two
cases decide the proof. A folder that is copied into itself is never deleted (`Endless`: its
list always holds an entry that is copied below itself). And a source below its own target
(`expose`, section 4) is where the guarantee ends.

`SuccessMeansArrived`, that is `OpsSpec => ArrivesWhole`, builds on `TreeInv`. Its invariant
`WholeInv` adds `Alone` (a call that is `lone` is the only one under way, since whoever enters
takes `lone` from those that run) and `Whole`, which follows a copy, move or duplicate step by
step. While it copies, each entry of its list pairs a path with its path at the target, and each
element of what was at the source is at the target already or below an entry of the list
(`Copying`; `ListGoesOn` is the step, `MovedAppend` and `RestMoved` the facts about paths). Once
a move is trashing its source (`Away`), all of it is at the target, and stays there because
target and source are apart: a call takes nothing away but below its source (`OutsideKept`), a
target inside the source never gets this far (`Endless`). A target above the source is the case
where the proof stopped; TLC then showed that the property is false there, and its precondition
now says so (section 4). Hidden entries and links enter through `Listed`: what a path has to be to
be found by listing (`Plain`), and what is found behind a link that took a folder's place. In
TreeInv a path that only a link or a hidden name leads to is not `Doomed`: a deletion that gets
there after all forfeits what it removes.

*NotepadProofs.* `NotepadTabs`, `NotepadDocument`, `NotepadMarker`. One text area serves all tabs,
so the invariant says where each text is: `Texts` (in the editor for the current tab, in its entry
for the others, several tabs of one document included), `Saved` (only a save that has come to its
rename has no document, and then the temporary file has the whole text of the current tab),
`Marker` (the `savedContent` of a tab that was not left is what is on disk), `RecentInv` (entries
are distinct).

*ShellProofs* holds three components, AiClient, WindowList and DesktopIcons (which is why the
specifications of the last two are called `WinSpec` and `IconsSpec`). `OneAnswerAtATime` and
`CleanClose` rest on `Threads` (a second worker waits for the first to be joined), `Contexts`
(whose context `activeContext_` is, between the publication and the reset) and `Order` (queued
events belong to one answer after the other, and those of an earlier one than the newest thread's
were there when it started). `ContextForward` rests on `OneWrite`: at most one
write is in flight, of a version that the file has not passed, and pendingFlush_ is set until
its continuation has run.

`TaskbarOneFocus` is about messages on their way. That the rows have at most one focus now is not
inductive; what is says so of every later moment too. `Handover`: read in the order of arrival,
between the focus of one window (in a row, signalled or answered) and that of another comes the
loss of the first, and a focus that is not lost on the way is the one the registry has. `Seeding`:
the answers about a window come in the order asked, and only for windows whose answers are being
collected; the list comes before all of them. `Registry`: only the window that Main.qml calls
focused has the flag. A stale answer is harmless because D-Bus keeps the order of messages of one
sender: the signal of the loss was sent after the answer. The lemmas say how each of these
survives a message taken from the front and messages put at the end.

`DesktopKeepsFiles` rests on `Doing` (the call in progress has its parameters), `Safe` (a file
under a name that a call found free was put there by others since; what is about to be removed has
its copy in the trash), `Found` (every content ever written is on the desktop, in the trash or
forgone) and `Watches` (a watch that ended has a notification on its way).

Only model-checked: liveness (RequestsAnswered, ReadyModelReleased, ManagerLeavesUnloaded,
WorkerFreed, HandlerEnds, UiReleased, ActionManagerComesUp, AttemptEnds, SuccessStarts,
AutoSaved, CallsEnd, EventuallyFresh, IconsFollow, TrashIconFollows, TaskbarFollows,
ContextFollows, and the fairness conjunct of ImplementsView), which needs fairness and ENABLED.
Every invariant of a run is a theorem.

## 6. Not modelled

Parsing and formatting of prompts and tool calls, the model files (download, validation,
installation), notifications and hardware samples, D-Bus and gRPC encodings, rendering,
llama.cpp itself, storage volumes and thumbnails, the launcher, wallpaper, power and volume
models, workspaces (an interface the compositor does not offer yet), the diagnostics programs,
installer, store, packaging.

Inside the modelled components:

- *Notepad*: Save As, closing a single tab, the auto-save switch, highlighting a block.
- *FileOperations*: `mkpath` and the listing that follows are one step; requests name real paths,
  without a link above the entry itself, and a link to a link counts as broken. A copy that
  would have to make a folder where a link to one is fails in the model, while the code copies
  into what the link leads to.
- *DesktopIcons*: the name that `uniqueName` returns after ten thousand taken ones, where creating
  a file would empty an existing one.
- *WindowList*: windows that are minimised while the shell has no surface; the focus then stays
  where it is (compositor `qml/Main.qml:376`).
- *AiClient*: setAiMode, setInactivityTimeout and suggestUnload, which no page calls.

Read-only operations are left out where they change nothing. A restart of the
compositor ends the session and is not followed. Durability below rename (fsync) is not
modelled: a crash is the death of a process.

## 7. Plan

1. *ModelProvision*: downloader, validator and model-manager over one directory.
2. *Notifications* and the tool-request parser as operators over sequences of segments.
3. An abstract specification of a generation (accepted, produced, ended) that TokenStream
   implements, and the composition of AiClient with it.

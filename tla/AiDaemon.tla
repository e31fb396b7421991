------------------------------ MODULE AiDaemon ------------------------------
(***************************************************************************)
(* The life cycle of the language model inside core/ai-daemon: the shared  *)
(* DaemonState, the gRPC handlers that run as tokio tasks, the inactivity  *)
(* watchdog, the start-up preload, the lifecycle manager of                *)
(* core/ai-manager, and the inference worker threads that own the model.   *)
(*                                                                         *)
(* A task is at a program counter pc[t]; every step ends at an await, a    *)
(* lock operation or an access to state another task can see.  The engine  *)
(* mutex (DaemonState.engine) is `lock'; the RwLocks and the atomics       *)
(* around it are single reads and writes.  Prompts, tokens and paths are   *)
(* abstracted away: module TokenStream models the token pipeline.          *)
(***************************************************************************)
EXTENDS Integers, Sequences, FiniteSets

CONSTANTS
    Clients,      \* slots for requests being served at the same time
    Managers,     \* nira-ai-manager processes: empty or a singleton
    Main,         \* the start-up code of main()
    Watchdog,     \* the inactivity watchdog task
    NoTask,       \* nobody: a free mutex, a oneshot whose receiver is gone
    Engines,      \* identities of LlamaCppBackend values and their threads
    NoEngine,     \* DaemonState.engine = None
    Timeouts,     \* inactivity timeouts, in ticks, that may be configured
    MinTimeout,   \* the smallest timeout SetInactivityTimeout accepts
    MaxIdle,      \* idle time is counted up to this bound
    MaxAbandoned, \* bound on queued commands whose requester has gone
    Kinds,        \* the requests clients make
    ConfigModes,  \* the modes ai.toml may select at start-up
    ModeInputs,   \* the mode strings clients send, known or not
    LoadMayFail   \* whether loading the model file can fail

Tasks == Clients \cup Managers \cup {Main, Watchdog}

ASSUME TaskAssumption ==
    /\ NoTask \notin Tasks
    /\ Main # Watchdog
    /\ Main \notin Clients \cup Managers
    /\ Watchdog \notin Clients \cup Managers
    /\ Clients \cap Managers = {}

ASSUME EngineAssumption == NoEngine \notin Engines

ASSUME TimeAssumption ==
    /\ Timeouts \subseteq Nat
    /\ MinTimeout \in Nat
    /\ MaxIdle \in Nat
    /\ \A s \in Timeouts : s <= MaxIdle
    /\ MaxAbandoned \in Nat

Modes == {"ondemand", "always", "preload", "auto-unload"}
ModelStates == {"unloaded", "loading", "ready", "unloading"}
RequestKinds == {"stream", "generate", "quick", "setmode"}

ASSUME InputAssumption ==
    /\ Kinds \subseteq RequestKinds
    /\ ConfigModes \subseteq Modes
    /\ LoadMayFail \in BOOLEAN

\* Commands in the inbox of a worker thread.  `owner' is the task that holds
\* the receiving end of the reply (oneshot or token channel).
Commands == [op : {"load", "unload", "generate", "shutdown"},
             owner : Tasks \cup {NoTask}]

VARIABLES
    mode,           \* DaemonState.mode
    modelState,     \* DaemonState.model_state
    timeout,        \* DaemonState.inactivity_timeout
    idle,           \* ticks since DaemonState.last_activity, at most MaxIdle
    lock,           \* holder of the mutex around DaemonState.engine
    engine,         \* DaemonState.engine
    engineCreated,  \* DaemonState.engine_created
    worker,         \* the worker threads, by engine
    pc,             \* where each task is
    kind,           \* what each task is serving
    reply           \* what the worker has answered a task

shared == <<mode, modelState, timeout, idle>>
owned == <<lock, engine, engineCreated>>
local == <<kind, reply>>
vars == <<mode, modelState, timeout, idle, lock, engine, engineCreated,
          worker, pc, kind, reply>>

-----------------------------------------------------------------------------
(* Worker threads and their command channel *)

\* A worker thread that does not exist (not yet spawned, or returned).
NoWorker == [alive |-> FALSE, queue |-> <<>>, phase |-> "idle",
             loaded |-> FALSE, isLoading |-> FALSE]

\* LlamaCppBackend::new: a fresh thread, an empty channel, no model.
NewWorker == [alive |-> TRUE, queue |-> <<>>, phase |-> "idle",
              loaded |-> FALSE, isLoading |-> FALSE]

\* cmd_tx.send: the channel is unbounded.
Send(w, op, t) ==
    [worker[w] EXCEPT !.queue = Append(@, [op |-> op, owner |-> t])]

\* The receiving half of every reply owed to t is dropped.
DisownIn(q, t) ==
    [i \in DOMAIN q |->
        IF q[i].owner = t THEN [op |-> q[i].op, owner |-> NoTask] ELSE q[i]]

Disown(t) ==
    [w \in Engines |-> [worker[w] EXCEPT !.queue = DisownIn(@, t)]]

\* Commands still queued for requesters that have gone; bounded because the
\* channel is not.
Abandoned ==
    UNION {{<<w, i>> : i \in {j \in DOMAIN worker[w].queue :
                                /\ worker[w].queue[j].owner = NoTask
                                /\ worker[w].queue[j].op # "shutdown"}} :
            w \in Engines}

\* Answer the owner of the command at the head of w's queue.
Answer(w, v) ==
    LET t == Head(worker[w].queue).owner
    IN reply' = IF t = NoTask THEN reply ELSE [reply EXCEPT ![t] = v]

-----------------------------------------------------------------------------
(* Task bookkeeping *)

Serving == pc[Main] = "served"

Goto(t, l) == pc' = [pc EXCEPT ![t] = l]

\* The task has answered its caller.
Finish(t) ==
    /\ Goto(t, IF t = Main THEN "served" ELSE "idle")
    /\ kind' = [kind EXCEPT ![t] = "none"]
    /\ reply' = [reply EXCEPT ![t] = "none"]

\* Begin a job of the given kind at label l.
Begin(t, k, l) ==
    /\ Goto(t, l)
    /\ kind' = [kind EXCEPT ![t] = k]
    /\ UNCHANGED reply

-----------------------------------------------------------------------------
(* ensure_model_loaded *)

\* Takes the engine mutex; `engine.is_none()' decides what comes next.
EnsureLock(t) ==
    /\ pc[t] = "ensure_lock"
    /\ lock = NoTask
    /\ lock' = t
    /\ Goto(t, IF engine = NoEngine THEN "ensure_create" ELSE "ensure_status")
    /\ UNCHANGED <<shared, engine, engineCreated, worker, local>>

\* Mutant: Loading is not announced.
EnsureCreate_Silent(t) ==
    /\ pc[t] = "ensure_create"
    /\ \E w \in Engines :
        /\ ~worker[w].alive
        /\ worker' = [worker EXCEPT ![w] = NewWorker]
        /\ engine' = w
    /\ engineCreated' = TRUE
    /\ Goto(t, "ensure_status")
    /\ UNCHANGED <<shared, lock, local>>

\* model_state := Loading and the backend is created under the mutex.
EnsureCreate(t) ==
    /\ pc[t] = "ensure_create"
    /\ modelState' = "loading"
    /\ \E w \in Engines :
        /\ ~worker[w].alive
        /\ worker' = [worker EXCEPT ![w] = NewWorker]
        /\ engine' = w
    /\ engineCreated' = TRUE
    /\ Goto(t, "ensure_status")
    /\ UNCHANGED <<mode, timeout, idle, lock, local>>

\* LlamaCppBackend::new fails (no thread): `?' leaves model_state Loading.
EnsureCreateFailed(t) ==
    /\ pc[t] = "ensure_create"
    /\ LoadMayFail
    /\ modelState' = "loading"
    /\ lock' = NoTask
    /\ Finish(t)
    /\ UNCHANGED <<mode, timeout, idle, engine, engineCreated, worker>>

\* active_model decides whether a LoadModel command is sent.
EnsureStatus(t) ==
    /\ pc[t] = "ensure_status"
    /\ IF worker[engine].loaded
       THEN /\ lock' = NoTask
            /\ worker' = worker
            /\ Goto(t, "ensure_touch")
       ELSE /\ lock' = lock
            /\ worker' = [worker EXCEPT ![engine] = Send(engine, "load", t)]
            /\ Goto(t, "ensure_wait")
    /\ UNCHANGED <<shared, engine, engineCreated, local>>

\* Mutant: the guard is still in scope when the handler locks the engine again.
EnsureLoaded_GuardLives(t) ==
    /\ pc[t] = "ensure_wait"
    /\ reply[t] = "ok"
    /\ lock' = IF kind[t] \in {"stream", "generate"} THEN lock ELSE NoTask
    /\ Goto(t, "ensure_touch")
    /\ reply' = [reply EXCEPT ![t] = "none"]
    /\ UNCHANGED <<shared, engine, engineCreated, worker, kind>>

\* The worker's reply; `?' leaves model_state as it is.
EnsureLoaded(t) ==
    /\ pc[t] = "ensure_wait"
    /\ reply[t] = "ok"
    /\ lock' = NoTask
    /\ Goto(t, "ensure_touch")
    /\ reply' = [reply EXCEPT ![t] = "none"]
    /\ UNCHANGED <<shared, engine, engineCreated, worker, kind>>

EnsureFailed(t) ==
    /\ pc[t] = "ensure_wait"
    /\ reply[t] = "err"
    /\ lock' = NoTask
    /\ Finish(t)
    /\ UNCHANGED <<shared, engine, engineCreated, worker>>

\* last_activity := now, after the engine mutex is released.
EnsureTouch(t) ==
    /\ pc[t] = "ensure_touch"
    /\ idle' = 0
    /\ Goto(t, "ensure_ready")
    /\ UNCHANGED <<mode, modelState, timeout, owned, worker, local>>

\* model_state := Ready, and the caller continues: a generation goes on to
\* the engine, the other callers return.
EnsureReady(t) ==
    /\ pc[t] = "ensure_ready"
    /\ modelState' = "ready"
    /\ IF kind[t] \in {"stream", "generate"}
       THEN Goto(t, "gen_lock") /\ UNCHANGED local
       ELSE Finish(t)
    /\ UNCHANGED <<mode, timeout, idle, owned, worker>>

Ensure(t) ==
    \/ EnsureLock(t) \/ EnsureCreate(t) \/ EnsureCreateFailed(t)
    \/ EnsureStatus(t)
    \/ EnsureLoaded(t) \/ EnsureFailed(t)
    \/ EnsureTouch(t) \/ EnsureReady(t)

-----------------------------------------------------------------------------
(* main(): the start-up preload happens before the watchdog and the server
   exist *)

\* The model file is present, or the mode promises a loaded model.
MainPreload ==
    /\ pc[Main] = "start"
    /\ Begin(Main, "startup", "ensure_lock")
    /\ UNCHANGED <<shared, owned, worker>>

\* No model file and a mode that loads on demand.
MainSkip ==
    /\ pc[Main] = "start"
    /\ mode \in {"ondemand", "auto-unload"}
    /\ Begin(Main, "none", "served")
    /\ UNCHANGED <<shared, owned, worker>>

-----------------------------------------------------------------------------
(* generate and stream_generate *)

\* A validated request reaches its handler.  "quick" is a unary request with
\* a quick-action prompt, which still loads the model first; the streaming
\* handler answers quick actions without touching the model.
StartRequest(c, k) ==
    /\ pc[c] = "idle"
    /\ Serving
    /\ k \in {"stream", "generate", "quick"}
    /\ Begin(c, k, "admit")
    /\ UNCHANGED <<shared, owned, worker>>

\* The handler reads the mode; only ManualPreload looks at model_state.
Admit(c) ==
    /\ pc[c] = "admit"
    /\ Goto(c, IF mode = "preload" THEN "admit_state" ELSE "ensure_lock")
    /\ UNCHANGED <<shared, owned, worker, local>>

AdmitState(c) ==
    /\ pc[c] = "admit_state"
    /\ IF modelState = "ready"
       THEN Goto(c, "ensure_lock") /\ UNCHANGED local
       ELSE Finish(c)
    /\ UNCHANGED <<shared, owned, worker>>

\* The engine mutex is taken again for generate_stream, which first reads
\* is_loaded.  An engine that has gone in the meantime is an error.
GenLock(c) ==
    /\ pc[c] = "gen_lock"
    /\ lock = NoTask
    /\ IF engine = NoEngine
       THEN lock' = lock /\ Finish(c)
       ELSE /\ lock' = c
            /\ Goto(c, IF worker[engine].loaded THEN "gen_send" ELSE "gen_cas")
            /\ UNCHANGED local
    /\ UNCHANGED <<shared, engine, engineCreated, worker>>

\* compare_exchange on is_loading if the model looked absent, then the
\* Generate command is queued and the mutex released.
GenSend(c) ==
    /\ pc[c] \in {"gen_send", "gen_cas"}
    /\ worker' = [worker EXCEPT ![engine] =
                    [Send(engine, "generate", c) EXCEPT
                        !.isLoading = @ \/ pc[c] = "gen_cas"]]
    /\ lock' = NoTask
    /\ Goto(c, "drain")
    /\ UNCHANGED <<shared, engine, engineCreated, local>>

\* The token stream ended.  After an error the unary handler returns at once;
\* every other path refreshes last_activity.
DrainEnd(c) ==
    /\ pc[c] = "drain"
    /\ reply[c] # "none"
    /\ IF reply[c] = "err" /\ kind[c] = "generate"
       THEN Finish(c)
       ELSE Goto(c, "touch") /\ UNCHANGED local
    /\ UNCHANGED <<shared, owned, worker>>

\* The client of a stream is gone: tx.send fails and the loop breaks.
StreamDisconnect(c) ==
    /\ pc[c] = "drain"
    /\ kind[c] = "stream"
    /\ reply[c] = "none"
    /\ Cardinality(Abandoned) < MaxAbandoned
    /\ worker' = Disown(c)
    /\ Goto(c, "touch")
    /\ UNCHANGED <<shared, owned, local>>

Touch(c) ==
    /\ pc[c] = "touch"
    /\ idle' = 0
    /\ Finish(c)
    /\ UNCHANGED <<mode, modelState, timeout, owned, worker>>

\* The future of a unary handler is dropped when its client goes away or its
\* deadline passes.  Locks are released; the command sent is not recalled.
Cancel(c) ==
    /\ kind[c] \in {"generate", "quick", "setmode"}
    /\ Cardinality(Abandoned) < MaxAbandoned
    /\ lock' = IF lock = c THEN NoTask ELSE lock
    /\ worker' = Disown(c)
    /\ Finish(c)
    /\ UNCHANGED <<shared, engine, engineCreated>>

-----------------------------------------------------------------------------
(* set_mode, set_inactivity_timeout and the lifecycle manager *)

\* Mutant: "always" does not load the model.
SetMode_Lazy(t, m) ==
    /\ mode' = IF m \in Modes THEN m ELSE mode
    /\ IF m = "preload"
       THEN Begin(t, "setmode", "ensure_lock")
       ELSE Finish(t)
    /\ UNCHANGED <<modelState, timeout, idle, owned, worker>>

\* An unknown mode is refused.  Otherwise the mode is written first, and two
\* of the modes then load the model.
SetMode(t, m) ==
    /\ mode' = IF m \in Modes THEN m ELSE mode
    /\ IF m \in {"always", "preload"}
       THEN Begin(t, "setmode", "ensure_lock")
       ELSE Finish(t)
    /\ UNCHANGED <<modelState, timeout, idle, owned, worker>>

ClientSetMode(c, m) ==
    /\ pc[c] = "idle"
    /\ Serving
    /\ SetMode(c, m)

SetInactivityTimeout(s) ==
    /\ Serving
    /\ s >= MinTimeout
    /\ timeout' = s
    /\ UNCHANGED <<mode, modelState, idle, owned, worker, pc, local>>

\* The manager's get_status reads the mode, then model_state ...
ManagerReadMode(m) ==
    /\ pc[m] = "idle"
    /\ Serving
    /\ mode = "always"
    /\ Goto(m, "poll_state")
    /\ UNCHANGED <<shared, owned, worker, local>>

ManagerReadState(m) ==
    /\ pc[m] = "poll_state"
    /\ Goto(m, IF modelState = "unloaded" THEN "reload" ELSE "idle")
    /\ UNCHANGED <<shared, owned, worker, local>>

\* ... and asks for a reload by setting the mode to "always" again.
ManagerReload(m) ==
    /\ pc[m] = "reload"
    /\ SetMode(m, "always")

-----------------------------------------------------------------------------
(* inactivity_watchdog and unload_model *)

WatchdogWake ==
    /\ pc[Watchdog] = "idle"
    /\ Serving
    /\ engineCreated
    /\ Goto(Watchdog, "wd_mode")
    /\ UNCHANGED <<shared, owned, worker, local>>

\* Mutant: only one of the two unloading modes is recognised.
WatchdogMode_AutoOnly ==
    /\ pc[Watchdog] = "wd_mode"
    /\ Goto(Watchdog, IF mode = "auto-unload" THEN "wd_idle" ELSE "idle")
    /\ UNCHANGED <<shared, owned, worker, local>>

WatchdogMode ==
    /\ pc[Watchdog] = "wd_mode"
    /\ Goto(Watchdog, IF mode \in {"ondemand", "auto-unload"}
                      THEN "wd_idle" ELSE "idle")
    /\ UNCHANGED <<shared, owned, worker, local>>

WatchdogIdle ==
    /\ pc[Watchdog] = "wd_idle"
    /\ Goto(Watchdog, IF idle >= timeout THEN "wd_state" ELSE "idle")
    /\ UNCHANGED <<shared, owned, worker, local>>

WatchdogState ==
    /\ pc[Watchdog] = "wd_state"
    /\ Goto(Watchdog, IF modelState = "ready" THEN "unload_mark" ELSE "idle")
    /\ UNCHANGED <<shared, owned, worker, local>>

\* model_state := Unloading before the engine mutex is requested.
UnloadMark ==
    /\ pc[Watchdog] = "unload_mark"
    /\ modelState' = "unloading"
    /\ Goto(Watchdog, "unload_lock")
    /\ UNCHANGED <<mode, timeout, idle, owned, worker, local>>

\* Mutant: the backend is dropped without unloading the model first.
UnloadLock_DropOnly ==
    /\ pc[Watchdog] = "unload_lock"
    /\ lock = NoTask
    /\ lock' = Watchdog
    /\ Goto(Watchdog, "unload_clear")
    /\ UNCHANGED <<shared, engine, engineCreated, worker, local>>

\* UnloadModel is queued behind whatever the worker still has to do.
UnloadLock ==
    /\ pc[Watchdog] = "unload_lock"
    /\ lock = NoTask
    /\ lock' = Watchdog
    /\ IF engine = NoEngine
       THEN worker' = worker /\ Goto(Watchdog, "unload_clear")
       ELSE /\ worker' = [worker EXCEPT ![engine] =
                            Send(engine, "unload", Watchdog)]
            /\ Goto(Watchdog, "unload_wait")
    /\ UNCHANGED <<shared, engine, engineCreated, local>>

\* Mutant: the worker's answer is not awaited.
UnloadReplied_NoWait ==
    /\ pc[Watchdog] = "unload_wait"
    /\ Goto(Watchdog, "unload_clear")
    /\ UNCHANGED <<shared, owned, worker, local>>

UnloadReplied ==
    /\ pc[Watchdog] = "unload_wait"
    /\ reply[Watchdog] = "ok"
    /\ reply' = [reply EXCEPT ![Watchdog] = "none"]
    /\ Goto(Watchdog, "unload_clear")
    /\ UNCHANGED <<shared, owned, worker, kind>>

\* engine := None drops the backend, whose Drop sends Shutdown.
UnloadClear ==
    /\ pc[Watchdog] = "unload_clear"
    /\ worker' = IF engine = NoEngine THEN worker
                 ELSE [worker EXCEPT ![engine] =
                        Send(engine, "shutdown", NoTask)]
    /\ engine' = NoEngine
    /\ engineCreated' = FALSE
    /\ Goto(Watchdog, "unload_done")
    /\ UNCHANGED <<shared, lock, local>>

UnloadDone ==
    /\ pc[Watchdog] = "unload_done"
    /\ modelState' = "unloaded"
    /\ lock' = NoTask
    /\ Goto(Watchdog, "idle")
    /\ UNCHANGED <<mode, timeout, idle, engine, engineCreated, worker, local>>

WatchdogStep ==
    \/ WatchdogWake \/ WatchdogMode \/ WatchdogIdle \/ WatchdogState
    \/ UnloadMark \/ UnloadLock \/ UnloadReplied
    \/ UnloadClear \/ UnloadDone

Tick ==
    /\ Serving
    /\ idle < MaxIdle
    /\ idle' = idle + 1
    /\ UNCHANGED <<mode, modelState, timeout, owned, worker, pc, local>>

-----------------------------------------------------------------------------
(* worker_thread *)

\* The command the worker is at; it leaves the queue when it is done.
WorkerAt(w, op, ph) ==
    /\ worker[w].alive
    /\ worker[w].phase = ph
    /\ worker[w].queue # <<>>
    /\ Head(worker[w].queue).op = op

\* The head command is finished.
Popped(w) == [worker[w] EXCEPT !.queue = Tail(@), !.phase = "idle"]

\* LoadModel, or Generate without a model: the load begins.
WorkerLoadBegin(w) ==
    /\ \/ WorkerAt(w, "load", "idle")
       \/ WorkerAt(w, "generate", "idle") /\ ~worker[w].loaded
    /\ worker' = [worker EXCEPT ![w].phase = "loading",
                                ![w].isLoading = TRUE]
    /\ UNCHANGED <<shared, owned, pc, local>>

WorkerLoadOk(w) ==
    /\ WorkerAt(w, "load", "loading")
    /\ worker' = [worker EXCEPT ![w] =
                    [Popped(w) EXCEPT !.loaded = TRUE, !.isLoading = FALSE]]
    /\ Answer(w, "ok")
    /\ UNCHANGED <<shared, owned, pc, kind>>

\* The load inside Generate succeeded: the generation follows.
WorkerLazyLoadOk(w) ==
    /\ WorkerAt(w, "generate", "loading")
    /\ worker' = [worker EXCEPT ![w].phase = "generating",
                                ![w].loaded = TRUE,
                                ![w].isLoading = FALSE]
    /\ UNCHANGED <<shared, owned, pc, local>>

\* validate_model_request, the backend or the loader fails.
WorkerLoadFail(w) ==
    /\ LoadMayFail
    /\ \/ WorkerAt(w, "load", "loading")
       \/ WorkerAt(w, "generate", "loading")
    /\ worker' = [worker EXCEPT ![w] = [Popped(w) EXCEPT !.isLoading = FALSE]]
    /\ Answer(w, "err")
    /\ UNCHANGED <<shared, owned, pc, kind>>

WorkerGenerateBegin(w) ==
    /\ WorkerAt(w, "generate", "idle")
    /\ worker[w].loaded
    /\ worker' = [worker EXCEPT ![w].phase = "generating"]
    /\ UNCHANGED <<shared, owned, pc, local>>

\* generate_impl returns: the token channel closes, after an error item if
\* it failed.
WorkerGenerateEnd(w) ==
    /\ WorkerAt(w, "generate", "generating")
    /\ worker' = [worker EXCEPT ![w] = Popped(w)]
    /\ \E v \in {"ok", "err"} : Answer(w, v)
    /\ UNCHANGED <<shared, owned, pc, kind>>

WorkerUnload(w) ==
    /\ WorkerAt(w, "unload", "idle")
    /\ worker' = [worker EXCEPT ![w] = [Popped(w) EXCEPT !.loaded = FALSE]]
    /\ Answer(w, "ok")
    /\ UNCHANGED <<shared, owned, pc, kind>>

\* The thread returns and everything it still owns is dropped.
WorkerShutdown(w) ==
    /\ WorkerAt(w, "shutdown", "idle")
    /\ worker' = [worker EXCEPT ![w] = NoWorker]
    /\ UNCHANGED <<shared, owned, pc, local>>

WorkerStep(w) ==
    \/ WorkerLoadBegin(w) \/ WorkerLoadOk(w) \/ WorkerLazyLoadOk(w)
    \/ WorkerLoadFail(w) \/ WorkerGenerateBegin(w) \/ WorkerGenerateEnd(w)
    \/ WorkerUnload(w) \/ WorkerShutdown(w)

-----------------------------------------------------------------------------
(* The whole daemon *)

Init ==
    /\ mode \in ConfigModes
    /\ modelState = "unloaded"
    /\ timeout \in Timeouts
    /\ idle = 0
    /\ lock = NoTask
    /\ engine = NoEngine
    /\ engineCreated = FALSE
    /\ worker = [w \in Engines |-> NoWorker]
    /\ pc = [t \in Tasks |-> IF t = Main THEN "start" ELSE "idle"]
    /\ kind = [t \in Tasks |-> "none"]
    /\ reply = [t \in Tasks |-> "none"]

\* What a task that is serving something does next.
TaskStep(t) ==
    \/ Ensure(t)
    \/ Admit(t) \/ AdmitState(t)
    \/ GenLock(t) \/ GenSend(t) \/ DrainEnd(t) \/ Touch(t)

ManagerStep(m) ==
    ManagerReadMode(m) \/ ManagerReadState(m) \/ ManagerReload(m)

\* What the outside world may do at any time.
ClientInput(c) ==
    \/ \E k \in Kinds : StartRequest(c, k)
    \/ "setmode" \in Kinds /\ \E m \in ModeInputs : ClientSetMode(c, m)
    \/ StreamDisconnect(c)
    \/ Cancel(c)

Next ==
    \/ MainPreload \/ MainSkip
    \/ \E t \in Tasks : TaskStep(t)
    \/ \E c \in Clients : ClientInput(c)
    \/ \E m \in Managers : ManagerStep(m)
    \/ \E s \in Timeouts : SetInactivityTimeout(s)
    \/ WatchdogStep
    \/ Tick
    \/ \E w \in Engines : WorkerStep(w)

Spec == Init /\ [][Next]_vars

\* Fairness.  tokio polls every task that can run and its mutex is a FIFO
\* queue, so a waiting task gets the lock (strong fairness); the worker
\* threads, the timers and the manager keep running.  Nothing is assumed of
\* clients.
Fairness ==
    /\ WF_vars(MainPreload \/ MainSkip)
    /\ \A t \in Tasks \ {Watchdog} : WF_vars(TaskStep(t)) /\ SF_vars(EnsureLock(t) \/ GenLock(t))
    /\ \A m \in Managers : WF_vars(ManagerStep(m))
    /\ WF_vars(WatchdogStep) /\ SF_vars(UnloadLock)
    /\ WF_vars(Tick)
    /\ \A w \in Engines : WF_vars(WorkerStep(w))

FairSpec == Spec /\ Fairness

-----------------------------------------------------------------------------
(* Properties *)

Labels ==
    {"start", "served", "idle", "admit", "admit_state", "ensure_lock",
     "ensure_create", "ensure_status", "ensure_wait", "ensure_touch",
     "ensure_ready", "gen_lock", "gen_send", "gen_cas", "drain", "touch",
     "poll_state", "reload", "wd_mode", "wd_idle", "wd_state", "unload_mark",
     "unload_lock", "unload_wait", "unload_clear", "unload_done"}

Workers == [alive : BOOLEAN, queue : Seq(Commands),
            phase : {"idle", "loading", "generating"},
            loaded : BOOLEAN, isLoading : BOOLEAN]

\* Every variable has its type; in particular no client input other than one
\* of the four modes ever reaches DaemonState.mode.
TypeOK ==
    /\ mode \in Modes
    /\ modelState \in ModelStates
    /\ timeout \in Timeouts
    /\ idle \in 0..MaxIdle
    /\ lock \in Tasks \cup {NoTask}
    /\ engine \in Engines \cup {NoEngine}
    /\ engineCreated \in BOOLEAN
    /\ worker \in [Engines -> Workers]
    /\ pc \in [Tasks -> Labels]
    /\ kind \in [Tasks -> RequestKinds \cup {"none", "startup"}]
    /\ reply \in [Tasks -> {"none", "ok", "err"}]

\* Labels at which a task holds the engine mutex.
Critical == {"ensure_create", "ensure_status", "ensure_wait", "gen_send",
             "gen_cas", "unload_wait", "unload_clear", "unload_done"}

\* The engine mutex is exclusive: a task is inside one of the sections that
\* touch DaemonState.engine exactly when it holds the mutex, whatever
\* requests are cancelled or fail inside them.
LockDiscipline ==
    \A t \in Tasks : lock = t <=> pc[t] \in Critical

\* The model lives in at most one place: a worker thread whose backend has
\* been dropped holds no model and has nothing left to do but shut down.
NoOrphanedModel ==
    \A w \in Engines :
        worker[w].alive /\ w # engine =>
            /\ ~worker[w].loaded
            /\ worker[w].queue = <<[op |-> "shutdown", owner |-> NoTask]>>

\* An accepted generation is never lost to an unload: until it is answered,
\* a request that waits for tokens has its command in the queue of the
\* engine that is still installed.
GenerationNeverLost ==
    \A c \in Clients :
        pc[c] = "drain" /\ reply[c] = "none" =>
            /\ engine # NoEngine
            /\ \E i \in DOMAIN worker[engine].queue :
                worker[engine].queue[i] = [op |-> "generate", owner |-> c]

\* model_state = Unloaded is truthful: there is no engine.  nira-ai-manager
\* reloads the model in "always" mode on the strength of this state alone.
UnloadedMeansNoEngine ==
    modelState = "unloaded" => engine = NoEngine

\* Where the watchdog can be: it serves no request.
WatchdogKnown ==
    pc[Watchdog] \in
        {"idle", "wd_mode", "wd_idle", "wd_state", "unload_mark",
         "unload_lock", "unload_wait", "unload_clear", "unload_done"}

\* What the sections of code that hold the mutex know about the engine.
EngineKnown ==
    \A t \in Tasks :
        /\ pc[t] \in {"ensure_create", "unload_done"} => engine = NoEngine
        /\ pc[t] \in {"ensure_status", "ensure_wait", "gen_send", "gen_cas",
                      "unload_wait"} => engine # NoEngine
        /\ pc[t] \in {"unload_mark", "unload_lock", "unload_wait",
                      "unload_clear", "unload_done"} => t = Watchdog

\* The watchdog waits for UnloadModel to be carried out, or knows that it has.
UnloadPending == pc[Watchdog] = "unload_wait" /\ reply[Watchdog] = "none"
UnloadAnswered ==
    \/ pc[Watchdog] = "unload_wait" /\ reply[Watchdog] # "none"
    \/ pc[Watchdog] = "unload_clear"

\* The worker behind the installed engine: UnloadModel is only ever the last
\* command of its queue, and once it is answered the worker is idle and empty.
InstalledWorker(w) ==
    /\ worker[w].alive
    /\ worker[w].phase # "idle" =>
        /\ worker[w].queue # <<>>
        /\ worker[w].queue[1].op \in {"load", "generate"}
    /\ \A i \in 1..Len(worker[w].queue) :
        /\ worker[w].queue[i].op # "shutdown"
        /\ worker[w].queue[i].op = "unload" <=>
                worker[w].queue[i].owner = Watchdog
        /\ worker[w].queue[i].op = "unload" =>
                i = Len(worker[w].queue) /\ UnloadPending
    /\ UnloadPending =>
        /\ worker[w].queue # <<>>
        /\ worker[w].queue[Len(worker[w].queue)].op = "unload"
    /\ UnloadAnswered =>
        worker[w].queue = <<>> /\ worker[w].phase = "idle" /\ ~worker[w].loaded

\* A worker whose backend was dropped.
RetiringWorker(w) ==
    /\ worker[w].phase = "idle"
    /\ ~worker[w].loaded
    /\ worker[w].queue = <<[op |-> "shutdown", owner |-> NoTask]>>

\* The queue discipline between requests, watchdog and worker threads, which
\* is what makes NoOrphanedModel and GenerationNeverLost inductive.
QueueDiscipline ==
    /\ \A w \in Engines :
        /\ ~worker[w].alive => worker[w] = NoWorker
        /\ worker[w].alive /\ w # engine => RetiringWorker(w)
        /\ w = engine => InstalledWorker(w)
    /\ reply[Watchdog] # "none" => pc[Watchdog] = "unload_wait"

\* Every request is answered, refused or cancelled.
RequestsAnswered ==
    \A c \in Clients : pc[c] # "idle" ~> pc[c] = "idle"

\* The lifecycle manager gets a daemon in "always" mode out of the Unloaded
\* state, unless someone changes the mode first.
ManagerLeavesUnloaded ==
    mode = "always" /\ modelState = "unloaded" /\ Serving
        ~> mode # "always" \/ modelState # "unloaded"

\* Model weights are in memory.
Resident == \E w \in Engines : worker[w].loaded

Quiet == \A c \in Clients : pc[c] = "idle"

AutoUnload == mode \in {"ondemand", "auto-unload"}

\* A model reported Ready does not stay in memory for ever once the clients
\* have gone quiet in a mode that unloads.
ReadyModelReleased ==
    ~<>[](Quiet /\ AutoUnload /\ Resident /\ modelState = "ready")

\* config/ai.toml: "Seconds of inactivity before the model is automatically
\* unloaded": in those modes an idle model does not stay in memory for ever.
IdleModelReleased ==
    ~<>[](Quiet /\ AutoUnload /\ Resident)
=============================================================================

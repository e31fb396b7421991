--------------------------- MODULE AiDaemonProofs ---------------------------
(***************************************************************************)
(* Proofs about AiDaemon for every set of clients, managers, engines,      *)
(* timeouts and inputs: type correctness, exclusion of the engine mutex,   *)
(* and the facts about the worker queues that keep an unload from losing   *)
(* a generation or leaving a model behind.                                 *)
(***************************************************************************)
EXTENDS AiDaemon, TLAPS

(* Sequences of commands *)

\* Dropping the receivers of t keeps the queue a queue of the same length.
LEMMA DisownInType ==
    ASSUME NEW q \in Seq(Commands), NEW t
    PROVE  /\ DisownIn(q, t) \in Seq(Commands)
           /\ Len(DisownIn(q, t)) = Len(q)
           /\ \A i \in 1..Len(q) :
                DisownIn(q, t)[i] = IF q[i].owner = t
                                    THEN [op |-> q[i].op, owner |-> NoTask]
                                    ELSE q[i]
<1>1. \A i \in 1..Len(q) : q[i] \in Commands
  OBVIOUS
<1>2. DOMAIN q = 1..Len(q)
  OBVIOUS
<1>3. \A i \in 1..Len(q) :
        (IF q[i].owner = t THEN [op |-> q[i].op, owner |-> NoTask] ELSE q[i])
            \in Commands
  BY <1>1 DEF Commands
<1>4. QED
  BY <1>2, <1>3 DEF DisownIn

\* The tail of a non-empty queue.
LEMMA TailFacts ==
    ASSUME NEW q \in Seq(Commands), q # <<>>
    PROVE  /\ Tail(q) \in Seq(Commands)
           /\ Len(q) \in Nat \ {0}
           /\ Len(Tail(q)) = Len(q) - 1
           /\ \A i \in 1..(Len(q) - 1) : Tail(q)[i] = q[i + 1]
           /\ Head(q) = q[1]
           /\ q[1] \in Commands
  OBVIOUS

\* Sending appends one command.
LEMMA AppendFacts ==
    ASSUME NEW q \in Seq(Commands), NEW c \in Commands
    PROVE  /\ Append(q, c) \in Seq(Commands)
           /\ Len(Append(q, c)) = Len(q) + 1
           /\ \A i \in 1..Len(q) : Append(q, c)[i] = q[i]
           /\ Append(q, c)[Len(q) + 1] = c
  OBVIOUS

\* A queue of length zero is the empty queue.
LEMMA EmptyFact ==
    ASSUME NEW q \in Seq(Commands), Len(q) = 0
    PROVE  q = <<>>
  OBVIOUS

-----------------------------------------------------------------------------
(* Types *)

\* A worker with one more queued command is a worker.
LEMMA SendType ==
    ASSUME TypeOK, NEW w \in Engines, NEW t \in Tasks \cup {NoTask},
           NEW op \in {"load", "unload", "generate", "shutdown"}
    PROVE  Send(w, op, t) \in Workers
<1>1. worker[w] \in Workers
  BY DEF TypeOK
<1>2. [op |-> op, owner |-> t] \in Commands
  BY DEF Commands
<1>3. Append(worker[w].queue, [op |-> op, owner |-> t]) \in Seq(Commands)
  BY <1>1, <1>2, AppendFacts DEF Workers
<1>4. QED
  BY <1>1, <1>3 DEF Send, Workers

\* Dropping a requester's receivers leaves workers with typed queues.
LEMMA DisownType ==
    ASSUME TypeOK, NEW t
    PROVE  Disown(t) \in [Engines -> Workers]
<1>1. SUFFICES ASSUME NEW w \in Engines
               PROVE  [worker[w] EXCEPT !.queue = DisownIn(@, t)] \in Workers
  BY DEF Disown
<1>2. worker[w] \in Workers
  BY DEF TypeOK
<1>3. DisownIn(worker[w].queue, t) \in Seq(Commands)
  BY <1>2, DisownInType DEF Workers
<1>4. QED
  BY <1>2, <1>3 DEF Workers

\* A worker that has finished its head command is a worker.
LEMMA PoppedType ==
    ASSUME TypeOK, NEW w \in Engines, worker[w].queue # <<>>
    PROVE  /\ Popped(w) \in Workers
           /\ Head(worker[w].queue) \in Commands
<1>1. worker[w] \in Workers
  BY DEF TypeOK
<1>2. Tail(worker[w].queue) \in Seq(Commands) /\ Head(worker[w].queue) \in Commands
  BY <1>1, TailFacts DEF Workers
<1>3. QED
  BY <1>1, <1>2 DEF Popped, Workers

\* Answering the owner of the head command keeps the replies typed.
LEMMA AnswerType ==
    ASSUME TypeOK, NEW w \in Engines, worker[w].queue # <<>>,
           NEW v \in {"ok", "err"}, Answer(w, v)
    PROVE  reply' \in [Tasks -> {"none", "ok", "err"}]
<1>1. Head(worker[w].queue).owner \in Tasks \cup {NoTask}
  BY PoppedType DEF Commands
<1>2. QED
  BY <1>1 DEF Answer, TypeOK

\* The initial states are well typed.
LEMMA TypeInit == Init => TypeOK
<1>1. <<>> \in Seq(Commands)
  OBVIOUS
<1>2. NoWorker \in Workers
  BY <1>1 DEF NoWorker, Workers
<1>3. ConfigModes \subseteq Modes
  BY InputAssumption
<1>4. SUFFICES ASSUME Init PROVE TypeOK
  OBVIOUS
<1>5. pc \in [Tasks -> Labels]
  BY <1>4 DEF Init, Labels
<1>6. /\ lock \in Tasks \cup {NoTask}
      /\ engine \in Engines \cup {NoEngine}
      /\ worker \in [Engines -> Workers]
      /\ kind \in [Tasks -> RequestKinds \cup {"none", "startup"}]
      /\ reply \in [Tasks -> {"none", "ok", "err"}]
  BY <1>2, <1>4 DEF Init
<1>7. idle \in 0..MaxIdle
  BY <1>4, TimeAssumption DEF Init
<1>8. engineCreated \in BOOLEAN /\ modelState \in ModelStates
  BY <1>4 DEF Init, ModelStates
<1>9. mode \in Modes /\ timeout \in Timeouts
  BY <1>3, <1>4 DEF Init
<1>10. QED
  BY <1>5, <1>6, <1>7, <1>8, <1>9, Zenon DEF TypeOK

\* Every step keeps the types.
LEMMA TypeStep == TypeOK /\ [Next]_vars => TypeOK'
<1> SUFFICES ASSUME TypeOK, [Next]_vars
             PROVE  TypeOK'
  OBVIOUS
<1> USE DEF Labels, Finish, Begin, Goto, shared, owned, local
<1>1. ASSUME MainPreload \/ MainSkip
      PROVE  TypeOK'
  <2>1. Main \in Tasks
    BY DEF Tasks
  <2>2. QED
    BY <1>1, <2>1 DEF MainPreload, MainSkip, TypeOK
<1>2. ASSUME NEW t \in Tasks, Ensure(t)
      PROVE  TypeOK'
  <2>1. CASE EnsureLock(t)
    BY <2>1 DEF EnsureLock, TypeOK
  <2>2. CASE EnsureCreate(t)
    <3>1. NewWorker \in Workers
      BY DEF NewWorker, Workers
    <3>2. worker' \in [Engines -> Workers] /\ engine' \in Engines
      BY <2>2, <3>1 DEF EnsureCreate, TypeOK
    <3>3. QED
      BY <2>2, <3>2 DEF EnsureCreate, TypeOK, ModelStates
  <2>3. CASE EnsureCreateFailed(t)
    BY <2>3 DEF EnsureCreateFailed, TypeOK, ModelStates
  <2>4. CASE EnsureStatus(t)
    <3>1. worker' \in [Engines -> Workers]
      <4>1. CASE engine \in Engines
        BY <2>4, <4>1, SendType DEF EnsureStatus, TypeOK
      <4>2. CASE engine \notin Engines
        BY <2>4, <4>2 DEF EnsureStatus, TypeOK
      <4>3. QED
        BY <4>1, <4>2
    <3>2. QED
      BY <2>4, <3>1 DEF EnsureStatus, TypeOK
  <2>5. CASE EnsureLoaded(t)
    BY <2>5 DEF EnsureLoaded, TypeOK
  <2>6. CASE EnsureFailed(t)
    BY <2>6 DEF EnsureFailed, TypeOK
  <2>7. CASE EnsureTouch(t)
    BY <2>7, TimeAssumption DEF EnsureTouch, TypeOK
  <2>8. CASE EnsureReady(t)
    BY <2>8 DEF EnsureReady, TypeOK, ModelStates
  <2>9. QED
    BY <1>2, <2>1, <2>2, <2>3, <2>4, <2>5, <2>6, <2>7, <2>8 DEF Ensure
<1>3. ASSUME NEW t \in Clients \cup Managers \cup {Main, Watchdog},
             \/ Admit(t) \/ AdmitState(t) \/ GenLock(t) \/ GenSend(t)
             \/ DrainEnd(t) \/ Touch(t)
      PROVE  TypeOK'
  <2>0. t \in Tasks
    BY DEF Tasks
  <2>1. CASE Admit(t)
    BY <2>0, <2>1 DEF Admit, TypeOK
  <2>2. CASE AdmitState(t)
    BY <2>0, <2>2 DEF AdmitState, TypeOK
  <2>3. CASE GenLock(t)
    BY <2>0, <2>3 DEF GenLock, TypeOK
  <2>4. CASE GenSend(t)
    <3>1. CASE engine \in Engines
      <4>1. Send(engine, "generate", t) \in Workers
        BY <2>0, <3>1, SendType
      <4>2. [Send(engine, "generate", t) EXCEPT
                !.isLoading = @ \/ pc[t] = "gen_cas"] \in Workers
        BY <4>1 DEF Workers
      <4>3. worker' \in [Engines -> Workers]
        BY <2>4, <3>1, <4>2 DEF GenSend, TypeOK
      <4>4. QED
        BY <2>0, <2>4, <4>3 DEF GenSend, TypeOK
    <3>2. CASE engine \notin Engines
      BY <2>0, <2>4, <3>2 DEF GenSend, TypeOK
    <3>3. QED
      BY <3>1, <3>2
  <2>5. CASE DrainEnd(t)
    BY <2>0, <2>5 DEF DrainEnd, TypeOK
  <2>6. CASE Touch(t)
    BY <2>0, <2>6, TimeAssumption DEF Touch, TypeOK
  <2>7. QED
    BY <1>3, <2>1, <2>2, <2>3, <2>4, <2>5, <2>6
<1>4. ASSUME NEW c \in Clients, ClientInput(c)
      PROVE  TypeOK'
  <2>0. c \in Tasks
    BY DEF Tasks
  <2>1. ASSUME NEW k \in Kinds, StartRequest(c, k)
        PROVE  TypeOK'
    BY <2>0, <2>1, InputAssumption DEF StartRequest, TypeOK
  <2>2. ASSUME NEW m, ClientSetMode(c, m)
        PROVE  TypeOK'
    BY <2>0, <2>2 DEF ClientSetMode, SetMode, TypeOK, RequestKinds
  <2>3. CASE StreamDisconnect(c)
    BY <2>0, <2>3, DisownType DEF StreamDisconnect, TypeOK
  <2>4. CASE Cancel(c)
    BY <2>0, <2>4, DisownType DEF Cancel, TypeOK
  <2>5. QED
    BY <1>4, <2>1, <2>2, <2>3, <2>4 DEF ClientInput
<1>5. ASSUME NEW m \in Managers, ManagerStep(m)
      PROVE  TypeOK'
  <2>0. m \in Tasks
    BY DEF Tasks
  <2>1. CASE ManagerReadMode(m)
    BY <2>0, <2>1 DEF ManagerReadMode, TypeOK
  <2>2. CASE ManagerReadState(m)
    BY <2>0, <2>2 DEF ManagerReadState, TypeOK
  <2>3. CASE ManagerReload(m)
    BY <2>0, <2>3 DEF ManagerReload, SetMode, TypeOK, RequestKinds
  <2>4. QED
    BY <1>5, <2>1, <2>2, <2>3 DEF ManagerStep
<1>6. ASSUME NEW s \in Timeouts, SetInactivityTimeout(s)
      PROVE  TypeOK'
  BY <1>6 DEF SetInactivityTimeout, TypeOK
<1>7. ASSUME WatchdogStep
      PROVE  TypeOK'
  <2>0. Watchdog \in Tasks
    BY DEF Tasks
  <2>1. CASE WatchdogWake \/ WatchdogMode \/ WatchdogIdle \/ WatchdogState
    BY <2>0, <2>1
       DEF WatchdogWake, WatchdogMode, WatchdogIdle, WatchdogState, TypeOK
  <2>2. CASE UnloadMark
    BY <2>0, <2>2 DEF UnloadMark, TypeOK, ModelStates
  <2>3. CASE UnloadLock
    <3>1. worker' \in [Engines -> Workers]
      BY <2>0, <2>3, SendType DEF UnloadLock, TypeOK
    <3>2. QED
      BY <2>0, <2>3, <3>1 DEF UnloadLock, TypeOK
  <2>4. CASE UnloadReplied
    BY <2>0, <2>4 DEF UnloadReplied, TypeOK
  <2>5. CASE UnloadClear
    <3>1. worker' \in [Engines -> Workers]
      BY <2>5, SendType DEF UnloadClear, TypeOK
    <3>2. QED
      BY <2>0, <2>5, <3>1 DEF UnloadClear, TypeOK
  <2>6. CASE UnloadDone
    BY <2>0, <2>6 DEF UnloadDone, TypeOK, ModelStates
  <2>7. QED
    BY <1>7, <2>1, <2>2, <2>3, <2>4, <2>5, <2>6 DEF WatchdogStep
<1>8. ASSUME Tick
      PROVE  TypeOK'
  BY <1>8, TimeAssumption DEF Tick, TypeOK
<1>9. ASSUME NEW w \in Engines, WorkerStep(w)
      PROVE  TypeOK'
  <2>0. worker[w] \in Workers
    BY DEF TypeOK
  <2>1. CASE WorkerLoadBegin(w) \/ WorkerLazyLoadOk(w) \/ WorkerGenerateBegin(w)
    <3>1. \A p \in {"loading", "generating"} :
            /\ [worker[w] EXCEPT !.phase = p] \in Workers
            /\ [worker[w] EXCEPT !.phase = p, !.isLoading = TRUE] \in Workers
            /\ [worker[w] EXCEPT !.phase = p, !.loaded = TRUE,
                                 !.isLoading = FALSE] \in Workers
      BY <2>0 DEF Workers
    <3>2. CASE WorkerLoadBegin(w)
      BY <3>1, <3>2 DEF WorkerLoadBegin, TypeOK
    <3>3. CASE WorkerLazyLoadOk(w)
      BY <3>1, <3>3 DEF WorkerLazyLoadOk, TypeOK
    <3>4. CASE WorkerGenerateBegin(w)
      BY <3>1, <3>4 DEF WorkerGenerateBegin, TypeOK
    <3>5. QED
      BY <2>1, <3>2, <3>3, <3>4
  <2>2. CASE WorkerLoadOk(w) \/ WorkerLoadFail(w) \/ WorkerGenerateEnd(w)
                \/ WorkerUnload(w)
    <3>1. worker[w].queue # <<>>
      BY <2>2 DEF WorkerLoadOk, WorkerLoadFail, WorkerGenerateEnd,
                  WorkerUnload, WorkerAt
    <3>2. Popped(w) \in Workers
      BY <3>1, PoppedType
    <3>3. \A a, b \in BOOLEAN :
            /\ [Popped(w) EXCEPT !.loaded = a] \in Workers
            /\ [Popped(w) EXCEPT !.isLoading = b] \in Workers
            /\ [Popped(w) EXCEPT !.loaded = a, !.isLoading = b] \in Workers
      BY <3>2 DEF Workers
    <3>4. worker' \in [Engines -> Workers]
      BY <2>2, <3>2, <3>3 DEF WorkerLoadOk, WorkerLoadFail,
            WorkerGenerateEnd, WorkerUnload, TypeOK
    <3>5. \E v \in {"ok", "err"} : Answer(w, v)
      BY <2>2 DEF WorkerLoadOk, WorkerLoadFail, WorkerGenerateEnd, WorkerUnload
    <3>6. reply' \in [Tasks -> {"none", "ok", "err"}]
      BY <3>1, <3>5, AnswerType
    <3>7. QED
      BY <2>2, <3>4, <3>6 DEF WorkerLoadOk, WorkerLoadFail,
            WorkerGenerateEnd, WorkerUnload, TypeOK
  <2>3. CASE WorkerShutdown(w)
    <3>1. NoWorker \in Workers
      BY DEF NoWorker, Workers
    <3>2. QED
      BY <2>3, <3>1 DEF WorkerShutdown, TypeOK
  <2>4. QED
    BY <1>9, <2>1, <2>2, <2>3 DEF WorkerStep
<1>10. CASE UNCHANGED vars
  BY <1>10 DEF vars, TypeOK
<1>11. QED
  BY <1>1, <1>2, <1>3, <1>4, <1>5, <1>6, <1>7, <1>8, <1>9, <1>10
     DEF Next, TaskStep, Tasks

\* DaemonState never leaves its types: whatever requests, cancellations and
\* failures are interleaved, only one of the four modes is ever stored.
THEOREM TypeCorrect == Spec => []TypeOK
  BY TypeInit, TypeStep, PTL DEF Spec

-----------------------------------------------------------------------------
(* The engine mutex *)

\* One step keeps the mutex and the program counters in agreement.
LEMMA LockStep == TypeOK /\ LockDiscipline /\ [Next]_vars => LockDiscipline'
<1> SUFFICES ASSUME TypeOK, LockDiscipline, [Next]_vars
             PROVE  LockDiscipline'
  OBVIOUS
<1> USE TaskAssumption
    DEF LockDiscipline, Critical, Finish, Begin, Goto, shared, owned, local
<1>0. pc \in [Tasks -> Labels] /\ lock \in Tasks \cup {NoTask}
  BY DEF TypeOK
<1>1. ASSUME MainPreload \/ MainSkip
      PROVE  LockDiscipline'
  BY <1>0, <1>1 DEF MainPreload, MainSkip, Tasks
<1>2. ASSUME NEW t \in Tasks, Ensure(t)
      PROVE  LockDiscipline'
  <2>1. CASE EnsureLock(t) \/ EnsureCreate(t) \/ EnsureCreateFailed(t)
    BY <1>0, <2>1 DEF EnsureLock, EnsureCreate, EnsureCreateFailed
  <2>2. CASE EnsureStatus(t) \/ EnsureLoaded(t) \/ EnsureFailed(t)
    BY <1>0, <2>2 DEF EnsureStatus, EnsureLoaded, EnsureFailed
  <2>3. CASE EnsureTouch(t) \/ EnsureReady(t)
    BY <1>0, <2>3 DEF EnsureTouch, EnsureReady
  <2>4. QED
    BY <1>2, <2>1, <2>2, <2>3 DEF Ensure
<1>3. ASSUME NEW t \in Tasks,
             \/ Admit(t) \/ AdmitState(t) \/ GenLock(t) \/ GenSend(t)
             \/ DrainEnd(t) \/ Touch(t)
      PROVE  LockDiscipline'
  <2>1. CASE Admit(t) \/ AdmitState(t) \/ DrainEnd(t) \/ Touch(t)
    BY <1>0, <2>1 DEF Admit, AdmitState, DrainEnd, Touch
  <2>2. CASE GenLock(t) \/ GenSend(t)
    BY <1>0, <2>2 DEF GenLock, GenSend
  <2>3. QED
    BY <1>3, <2>1, <2>2
<1>4. ASSUME NEW c \in Clients, ClientInput(c)
      PROVE  LockDiscipline'
  <2>0. c \in Tasks
    BY DEF Tasks
  <2>1. ASSUME NEW k \in Kinds, StartRequest(c, k)
        PROVE  LockDiscipline'
    BY <1>0, <2>0, <2>1 DEF StartRequest
  <2>2. ASSUME NEW m, ClientSetMode(c, m)
        PROVE  LockDiscipline'
    BY <1>0, <2>0, <2>2 DEF ClientSetMode, SetMode
  <2>3. CASE StreamDisconnect(c) \/ Cancel(c)
    BY <1>0, <2>0, <2>3 DEF StreamDisconnect, Cancel
  <2>4. QED
    BY <1>4, <2>1, <2>2, <2>3 DEF ClientInput
<1>5. ASSUME NEW m \in Managers, ManagerStep(m)
      PROVE  LockDiscipline'
  <2>0. m \in Tasks
    BY DEF Tasks
  <2>1. QED
    BY <1>0, <1>5, <2>0
       DEF ManagerStep, ManagerReadMode, ManagerReadState, ManagerReload, SetMode
<1>6. ASSUME \/ \E s \in Timeouts : SetInactivityTimeout(s)
             \/ Tick
             \/ \E w \in Engines : WorkerStep(w)
             \/ UNCHANGED vars
      PROVE  UNCHANGED <<lock, pc>>
  BY <1>6 DEF SetInactivityTimeout, Tick, WorkerStep, WorkerLoadBegin,
        WorkerLoadOk, WorkerLazyLoadOk, WorkerLoadFail, WorkerGenerateBegin,
        WorkerGenerateEnd, WorkerUnload, WorkerShutdown, vars
<1>7. ASSUME WatchdogStep
      PROVE  LockDiscipline'
  <2>0. Watchdog \in Tasks
    BY DEF Tasks
  <2>1. CASE WatchdogWake \/ WatchdogMode \/ WatchdogIdle \/ WatchdogState
                \/ UnloadMark
    BY <1>0, <2>0, <2>1
       DEF WatchdogWake, WatchdogMode, WatchdogIdle, WatchdogState, UnloadMark
  <2>2. CASE UnloadLock \/ UnloadReplied \/ UnloadClear \/ UnloadDone
    BY <1>0, <2>0, <2>2 DEF UnloadLock, UnloadReplied, UnloadClear, UnloadDone
  <2>3. QED
    BY <1>7, <2>1, <2>2 DEF WatchdogStep
<1>8. QED
  BY <1>1, <1>2, <1>3, <1>4, <1>5, <1>6, <1>7 DEF Next, TaskStep

\* The engine mutex is exclusive in every interleaving: no failure or
\* cancellation of a request leaves it held or releases it twice.
THEOREM MutexExclusive == Spec => []LockDiscipline
<1>1. Init => LockDiscipline
  BY TaskAssumption DEF Init, LockDiscipline, Critical
<1>2. QED
  BY <1>1, LockStep, TypeCorrect, PTL DEF Spec

-----------------------------------------------------------------------------
(* What the critical sections know about the engine *)

\* Every step keeps what the holders of the engine mutex know of the engine.
LEMMA EngineStep ==
    TypeOK /\ LockDiscipline /\ EngineKnown /\ [Next]_vars => EngineKnown'
<1> SUFFICES ASSUME TypeOK, LockDiscipline, EngineKnown, [Next]_vars
             PROVE  EngineKnown'
  OBVIOUS
<1> USE TaskAssumption, EngineAssumption
    DEF EngineKnown, Finish, Begin, Goto, shared, owned, local
<1>0. pc \in [Tasks -> Labels]
  BY DEF TypeOK
<1>1. ASSUME MainPreload \/ MainSkip
      PROVE  EngineKnown'
  BY <1>0, <1>1 DEF MainPreload, MainSkip, Tasks
<1>2. ASSUME NEW t \in Tasks, Ensure(t)
      PROVE  EngineKnown'
  <2>1. CASE EnsureLock(t) \/ EnsureStatus(t)
    BY <1>0, <2>1 DEF EnsureLock, EnsureStatus
  <2>2. CASE EnsureCreate(t)
    <3>1. engine' # NoEngine
      BY <2>2 DEF EnsureCreate
    <3>2. \A u \in Tasks \ {t} : pc[u] \notin Critical
      BY <2>2 DEF EnsureCreate, LockDiscipline, Critical
    <3>3. QED
      BY <1>0, <2>2, <3>1, <3>2 DEF EnsureCreate, Critical
  <2>3. CASE EnsureCreateFailed(t) \/ EnsureLoaded(t) \/ EnsureFailed(t)
    BY <1>0, <2>3 DEF EnsureCreateFailed, EnsureLoaded, EnsureFailed
  <2>4. CASE EnsureTouch(t) \/ EnsureReady(t)
    BY <1>0, <2>4 DEF EnsureTouch, EnsureReady
  <2>5. QED
    BY <1>2, <2>1, <2>2, <2>3, <2>4 DEF Ensure
<1>3. ASSUME NEW t \in Tasks,
             \/ Admit(t) \/ AdmitState(t) \/ GenLock(t) \/ GenSend(t)
             \/ DrainEnd(t) \/ Touch(t)
      PROVE  EngineKnown'
  <2>1. CASE Admit(t) \/ AdmitState(t) \/ DrainEnd(t) \/ Touch(t)
    BY <1>0, <2>1 DEF Admit, AdmitState, DrainEnd, Touch
  <2>2. CASE GenLock(t) \/ GenSend(t)
    BY <1>0, <2>2 DEF GenLock, GenSend
  <2>3. QED
    BY <1>3, <2>1, <2>2
<1>4. ASSUME NEW c \in Clients, ClientInput(c)
      PROVE  EngineKnown'
  <2>0. c \in Tasks
    BY DEF Tasks
  <2>1. ASSUME NEW k \in Kinds, StartRequest(c, k)
        PROVE  EngineKnown'
    BY <1>0, <2>0, <2>1 DEF StartRequest
  <2>2. ASSUME NEW m, ClientSetMode(c, m)
        PROVE  EngineKnown'
    BY <1>0, <2>0, <2>2 DEF ClientSetMode, SetMode
  <2>3. CASE StreamDisconnect(c) \/ Cancel(c)
    BY <1>0, <2>0, <2>3 DEF StreamDisconnect, Cancel
  <2>4. QED
    BY <1>4, <2>1, <2>2, <2>3 DEF ClientInput
<1>5. ASSUME NEW m \in Managers, ManagerStep(m)
      PROVE  EngineKnown'
  <2>0. m \in Tasks
    BY DEF Tasks
  <2>1. QED
    BY <1>0, <1>5, <2>0
       DEF ManagerStep, ManagerReadMode, ManagerReadState, ManagerReload, SetMode
<1>6. ASSUME \/ \E s \in Timeouts : SetInactivityTimeout(s)
             \/ Tick
             \/ \E w \in Engines : WorkerStep(w)
             \/ UNCHANGED vars
      PROVE  UNCHANGED <<engine, pc>>
  BY <1>6 DEF SetInactivityTimeout, Tick, WorkerStep, WorkerLoadBegin,
        WorkerLoadOk, WorkerLazyLoadOk, WorkerLoadFail, WorkerGenerateBegin,
        WorkerGenerateEnd, WorkerUnload, WorkerShutdown, vars
<1>7. ASSUME WatchdogStep
      PROVE  EngineKnown'
  <2>0. Watchdog \in Tasks
    BY DEF Tasks
  <2>1. CASE WatchdogWake \/ WatchdogMode \/ WatchdogIdle \/ WatchdogState
                \/ UnloadMark
    BY <1>0, <2>0, <2>1
       DEF WatchdogWake, WatchdogMode, WatchdogIdle, WatchdogState, UnloadMark
  <2>2. CASE UnloadLock \/ UnloadReplied \/ UnloadDone
    BY <1>0, <2>0, <2>2 DEF UnloadLock, UnloadReplied, UnloadDone
  <2>3. CASE UnloadClear
    <3>1. \A u \in Tasks \ {Watchdog} : pc[u] \notin Critical
      BY <2>0, <2>3 DEF UnloadClear, LockDiscipline, Critical
    <3>2. QED
      BY <1>0, <2>0, <2>3, <3>1 DEF UnloadClear, Critical
  <2>4. QED
    BY <1>7, <2>1, <2>2, <2>3 DEF WatchdogStep
<1>8. QED
  BY <1>1, <1>2, <1>3, <1>4, <1>5, <1>6, <1>7 DEF Next, TaskStep

\* Every step keeps the watchdog at one of its own labels.
LEMMA WatchdogPlace ==
    TypeOK /\ WatchdogKnown /\ [Next]_vars => WatchdogKnown'
<1> SUFFICES ASSUME TypeOK, WatchdogKnown, [Next]_vars
             PROVE  WatchdogKnown'
  OBVIOUS
<1> USE TaskAssumption
    DEF WatchdogKnown, Finish, Begin, Goto, shared, owned, local
<1>0. pc \in [Tasks -> Labels] /\ Watchdog \in Tasks
  BY DEF TypeOK, Tasks
<1>1. ASSUME MainPreload \/ MainSkip
      PROVE  WatchdogKnown'
  BY <1>0, <1>1 DEF MainPreload, MainSkip
<1>2. ASSUME NEW t \in Tasks, TaskStep(t)
      PROVE  WatchdogKnown'
  <2>1. CASE Ensure(t)
    <3>1. t # Watchdog
      BY <2>1 DEF Ensure, EnsureLock, EnsureCreate, EnsureCreateFailed,
            EnsureStatus, EnsureLoaded, EnsureFailed, EnsureTouch, EnsureReady
    <3>2. \E l : pc' = [pc EXCEPT ![t] = l]
      BY <2>1 DEF Ensure, EnsureLock, EnsureCreate, EnsureCreateFailed,
            EnsureStatus, EnsureLoaded, EnsureFailed, EnsureTouch, EnsureReady
    <3>3. QED
      BY <1>0, <3>1, <3>2
  <2>2. CASE Admit(t) \/ AdmitState(t) \/ GenLock(t) \/ GenSend(t)
                \/ DrainEnd(t) \/ Touch(t)
    <3>1. t # Watchdog
      BY <2>2 DEF Admit, AdmitState, GenLock, GenSend, DrainEnd, Touch
    <3>2. \E l : pc' = [pc EXCEPT ![t] = l]
      BY <2>2 DEF Admit, AdmitState, GenLock, GenSend, DrainEnd, Touch
    <3>3. QED
      BY <1>0, <3>1, <3>2
  <2>3. QED
    BY <1>2, <2>1, <2>2 DEF TaskStep
<1>3. ASSUME NEW c \in Clients, ClientInput(c)
      PROVE  WatchdogKnown'
  BY <1>0, <1>3
     DEF ClientInput, StartRequest, ClientSetMode, SetMode, StreamDisconnect,
         Cancel
<1>4. ASSUME NEW m \in Managers, ManagerStep(m)
      PROVE  WatchdogKnown'
  BY <1>0, <1>4
     DEF ManagerStep, ManagerReadMode, ManagerReadState, ManagerReload, SetMode
<1>5. ASSUME \/ \E s \in Timeouts : SetInactivityTimeout(s)
             \/ Tick
             \/ \E w \in Engines : WorkerStep(w)
             \/ UNCHANGED vars
      PROVE  UNCHANGED pc
  BY <1>5 DEF SetInactivityTimeout, Tick, WorkerStep, WorkerLoadBegin,
        WorkerLoadOk, WorkerLazyLoadOk, WorkerLoadFail, WorkerGenerateBegin,
        WorkerGenerateEnd, WorkerUnload, WorkerShutdown, vars
<1>6. ASSUME WatchdogStep
      PROVE  WatchdogKnown'
  BY <1>0, <1>6
     DEF WatchdogStep, WatchdogWake, WatchdogMode, WatchdogIdle, WatchdogState,
         UnloadMark, UnloadLock, UnloadReplied, UnloadClear, UnloadDone
<1>7. QED
  BY <1>1, <1>2, <1>3, <1>4, <1>5, <1>6 DEF Next

-----------------------------------------------------------------------------
(* The queues *)

\* A step that leaves the workers, the engine and the watchdog's own state
\* alone keeps the queue discipline.
LEMMA QueueFrame ==
    ASSUME QueueDiscipline, UNCHANGED <<worker, engine>>,
           pc'[Watchdog] = pc[Watchdog], reply'[Watchdog] = reply[Watchdog]
    PROVE  QueueDiscipline'
  BY DEF QueueDiscipline, InstalledWorker, RetiringWorker, UnloadPending,
         UnloadAnswered

\* A task other than the watchdog that sends a command to the installed
\* worker holds the mutex, so the watchdog is not unloading.
LEMMA QueueSend ==
    ASSUME TypeOK, QueueDiscipline, engine \in Engines, engine' = engine,
           NEW t \in Tasks \ {Watchdog}, NEW op \in {"load", "generate"},
           NEW r, r \in Workers, worker' = [worker EXCEPT ![engine] = r],
           r.alive, r.phase = worker[engine].phase,
           r.queue = Append(worker[engine].queue, [op |-> op, owner |-> t]),
           pc[Watchdog] \notin {"unload_wait", "unload_clear"},
           pc'[Watchdog] = pc[Watchdog], reply'[Watchdog] = reply[Watchdog]
    PROVE  QueueDiscipline'
<1> DEFINE q == worker[engine].queue
           c == [op |-> op, owner |-> t]
<1>1. worker[engine] \in Workers /\ worker \in [Engines -> Workers]
  BY DEF TypeOK
<1>2. q \in Seq(Commands) /\ c \in Commands
  BY <1>1 DEF Workers, Commands
<1>3. /\ Len(q) \in Nat
      /\ Len(r.queue) = Len(q) + 1
      /\ \A i \in 1..Len(q) : r.queue[i] = q[i]
      /\ r.queue[Len(q) + 1] = c
  BY <1>2, AppendFacts
<1>4. ~UnloadPending /\ ~UnloadAnswered /\ ~UnloadPending' /\ ~UnloadAnswered'
  BY DEF UnloadPending, UnloadAnswered
<1>5. \A i \in 1..Len(q) :
        q[i].op # "shutdown" /\ q[i].op # "unload" /\ q[i].owner # Watchdog
  BY <1>4 DEF QueueDiscipline, InstalledWorker
<1>6. \A i \in 1..Len(r.queue) :
        /\ r.queue[i].op # "shutdown"
        /\ r.queue[i].op # "unload"
        /\ r.queue[i].owner # Watchdog
  BY <1>3, <1>5
<1>7. worker[engine].phase # "idle" => q # <<>> /\ q[1].op \in {"load", "generate"}
  BY DEF QueueDiscipline, InstalledWorker
<1>8. r.phase # "idle" =>
        r.queue # <<>> /\ r.queue[1].op \in {"load", "generate"}
  <2>1. ASSUME q # <<>> PROVE 1 \in 1..Len(q)
    BY <1>2, <2>1, TailFacts
  <2>2. r.queue # <<>>
    BY <1>1, <1>2, <1>3, AppendFacts
  <2>3. QED
    BY <1>3, <1>7, <2>1, <2>2
<1>9. InstalledWorker(engine)'
  BY <1>1, <1>4, <1>6, <1>8 DEF InstalledWorker
<1>10. ASSUME NEW w \in Engines, w # engine
       PROVE  worker'[w] = worker[w]
  BY <1>1, <1>10
<1>11. worker'[engine].alive
  BY <1>1
<1>12. QED
  BY <1>9, <1>10, <1>11 DEF QueueDiscipline, RetiringWorker

\* Only the installed worker is ever at a command other than Shutdown.
LEMMA WorkingIsInstalled ==
    ASSUME TypeOK, QueueDiscipline, NEW w \in Engines, worker[w].alive,
           worker[w].queue # <<>>, Head(worker[w].queue).op # "shutdown"
    PROVE  w = engine
<1>1. SUFFICES ASSUME w # engine PROVE FALSE
  OBVIOUS
<1>2. worker[w].queue = <<[op |-> "shutdown", owner |-> NoTask]>>
  BY <1>1 DEF QueueDiscipline, RetiringWorker
<1>3. Head(worker[w].queue).op = "shutdown"
  BY <1>2
<1>4. QED
  BY <1>3

\* The worker finishes a LoadModel or a Generate command.
LEMMA QueuePop ==
    ASSUME TypeOK, QueueDiscipline, engine \in Engines, engine' = engine,
           NEW op \in {"load", "generate"},
           worker[engine].queue # <<>>, Head(worker[engine].queue).op = op,
           NEW r, r \in Workers, worker' = [worker EXCEPT ![engine] = r],
           r.alive, r.phase = "idle", r.queue = Tail(worker[engine].queue),
           NEW v, Answer(engine, v), pc' = pc
    PROVE  QueueDiscipline'
<1> DEFINE q == worker[engine].queue
<1>1. worker[engine] \in Workers /\ worker \in [Engines -> Workers]
  BY DEF TypeOK
<1>2. q \in Seq(Commands)
  BY <1>1 DEF Workers
<1>3. /\ Len(q) \in Nat \ {0}
      /\ Len(r.queue) = Len(q) - 1
      /\ \A i \in 1..(Len(q) - 1) : r.queue[i] = q[i + 1]
      /\ q[1].op = op
      /\ r.queue \in Seq(Commands)
  BY <1>2, TailFacts
<1>4. InstalledWorker(engine)
  BY DEF QueueDiscipline
<1>5. q[1].owner # Watchdog
  BY <1>3, <1>4 DEF InstalledWorker
<1>6. reply'[Watchdog] = reply[Watchdog]
  BY <1>2, <1>5, TailFacts DEF Answer, TypeOK, Tasks
<1>7. UnloadPending' = UnloadPending /\ UnloadAnswered' = UnloadAnswered
  BY <1>6 DEF UnloadPending, UnloadAnswered
<1>8. \A i \in 1..Len(r.queue) : i + 1 \in 1..Len(q) /\ r.queue[i] = q[i + 1]
  BY <1>3
<1>9. \A i \in 1..Len(r.queue) :
        /\ r.queue[i].op # "shutdown"
        /\ r.queue[i].op = "unload" <=> r.queue[i].owner = Watchdog
        /\ r.queue[i].op = "unload" => i = Len(r.queue) /\ UnloadPending
  BY <1>3, <1>4, <1>8 DEF InstalledWorker
<1>10. ~UnloadAnswered
  BY <1>4 DEF InstalledWorker
<1>11. UnloadPending => r.queue # <<>> /\ r.queue[Len(r.queue)].op = "unload"
  <2>1. SUFFICES ASSUME UnloadPending
                 PROVE  r.queue # <<>> /\ r.queue[Len(r.queue)].op = "unload"
    OBVIOUS
  <2>2. q[Len(q)].op = "unload"
    BY <1>4, <2>1 DEF InstalledWorker
  <2>3. Len(q) > 1
    BY <1>3, <2>2
  <2>4. Len(r.queue) \in 1..(Len(q) - 1) /\ Len(r.queue) + 1 = Len(q)
    BY <1>3, <2>3
  <2>5. r.queue[Len(r.queue)] = q[Len(q)]
    BY <1>3, <2>4
  <2>6. r.queue # <<>>
    BY <2>4
  <2>7. QED
    BY <2>2, <2>5, <2>6
<1>12. InstalledWorker(engine)'
  BY <1>1, <1>7, <1>9, <1>10, <1>11 DEF InstalledWorker
<1>13. ASSUME NEW w \in Engines, w # engine
       PROVE  worker'[w] = worker[w]
  BY <1>1, <1>13
<1>14. worker'[engine].alive
  BY <1>1
<1>15. QED
  BY <1>6, <1>12, <1>13, <1>14 DEF QueueDiscipline, RetiringWorker

\* The installed worker changes its phase or its model, not its queue.
LEMMA QueuePhase ==
    ASSUME TypeOK, QueueDiscipline, engine \in Engines, engine' = engine,
           worker[engine].queue # <<>>,
           Head(worker[engine].queue).op \in {"load", "generate"},
           NEW r, r \in Workers, worker' = [worker EXCEPT ![engine] = r],
           r.alive, r.queue = worker[engine].queue,
           pc' = pc, reply' = reply
    PROVE  QueueDiscipline'
<1>1. worker[engine] \in Workers /\ worker \in [Engines -> Workers]
  BY DEF TypeOK
<1>2. worker[engine].queue[1].op \in {"load", "generate"}
  BY <1>1, TailFacts DEF Workers
<1>3. UnloadPending' = UnloadPending /\ UnloadAnswered' = UnloadAnswered
  BY DEF UnloadPending, UnloadAnswered
<1>4. InstalledWorker(engine)'
  BY <1>1, <1>2, <1>3 DEF InstalledWorker, QueueDiscipline
<1>5. ASSUME NEW w \in Engines, w # engine
      PROVE  worker'[w] = worker[w]
  BY <1>1, <1>5
<1>6. worker'[engine].alive
  BY <1>1
<1>7. QED
  BY <1>4, <1>5, <1>6 DEF QueueDiscipline, RetiringWorker

\* A client goes away: its commands stay, with nobody to answer.
LEMMA QueueDisown ==
    ASSUME TypeOK, QueueDiscipline, engine' = engine,
           NEW c \in Clients, worker' = Disown(c),
           pc'[Watchdog] = pc[Watchdog], reply'[Watchdog] = reply[Watchdog]
    PROVE  QueueDiscipline'
<1>1. \A w \in Engines : worker[w] \in Workers
  BY DEF TypeOK
<1>2. UnloadPending' = UnloadPending /\ UnloadAnswered' = UnloadAnswered
  BY DEF UnloadPending, UnloadAnswered
<1>3. c # Watchdog /\ NoTask # Watchdog
  BY TaskAssumption DEF Tasks
<1>4. ASSUME NEW w \in Engines
      PROVE  /\ worker'[w].alive = worker[w].alive
             /\ worker'[w].phase = worker[w].phase
             /\ worker'[w].loaded = worker[w].loaded
             /\ worker'[w].isLoading = worker[w].isLoading
             /\ worker'[w].queue = DisownIn(worker[w].queue, c)
             /\ worker'[w] \in Workers
  BY <1>1, DisownType DEF Disown, Workers
<1>5. ASSUME NEW w \in Engines
      PROVE  /\ Len(worker'[w].queue) = Len(worker[w].queue)
             /\ Len(worker[w].queue) \in Nat
             /\ worker[w].queue = <<>> <=> worker'[w].queue = <<>>
             /\ \A i \in 1..Len(worker[w].queue) :
                    /\ worker'[w].queue[i].op = worker[w].queue[i].op
                    /\ worker'[w].queue[i].owner = Watchdog <=>
                            worker[w].queue[i].owner = Watchdog
  <2>1. worker[w].queue \in Seq(Commands)
    BY <1>1 DEF Workers
  <2>2. DisownIn(worker[w].queue, c) \in Seq(Commands)
    BY <2>1, DisownInType
  <2>3. Len(worker'[w].queue) = Len(worker[w].queue)
    BY <1>4, <2>1, DisownInType
  <2>4. worker[w].queue = <<>> <=> worker'[w].queue = <<>>
    BY <1>4, <2>1, <2>2, <2>3
  <2>5. ASSUME NEW i \in 1..Len(worker[w].queue)
        PROVE  /\ worker'[w].queue[i].op = worker[w].queue[i].op
               /\ worker'[w].queue[i].owner = Watchdog <=>
                            worker[w].queue[i].owner = Watchdog
    <3>1. worker'[w].queue[i] =
            IF worker[w].queue[i].owner = c
            THEN [op |-> worker[w].queue[i].op, owner |-> NoTask]
            ELSE worker[w].queue[i]
      BY <1>4, <2>1, DisownInType
    <3>2. QED
      BY <1>3, <3>1
  <2>6. QED
    BY <2>1, <2>3, <2>4, <2>5
<1>6. ASSUME NEW w \in Engines, w = engine
      PROVE  InstalledWorker(w)'
  <2>1. InstalledWorker(w)
    BY <1>6 DEF QueueDiscipline
  <2>2. worker[w].queue # <<>> =>
            1 \in 1..Len(worker[w].queue)
                /\ Len(worker[w].queue) \in 1..Len(worker[w].queue)
    BY <1>1, TailFacts DEF Workers
  <2>3. /\ worker'[w].alive
        /\ worker'[w].phase # "idle" =>
            /\ worker'[w].queue # <<>>
            /\ worker'[w].queue[1].op \in {"load", "generate"}
    BY <1>4, <1>5, <2>1, <2>2 DEF InstalledWorker
  <2>4. \A i \in 1..Len(worker'[w].queue) :
            /\ worker'[w].queue[i].op # "shutdown"
            /\ worker'[w].queue[i].op = "unload" <=>
                    worker'[w].queue[i].owner = Watchdog
            /\ worker'[w].queue[i].op = "unload" =>
                    i = Len(worker'[w].queue) /\ UnloadPending
    <3>1. Len(worker'[w].queue) = Len(worker[w].queue)
      BY <1>5
    <3>2. SUFFICES ASSUME NEW i \in 1..Len(worker[w].queue)
          PROVE  /\ worker'[w].queue[i].op # "shutdown"
                 /\ worker'[w].queue[i].op = "unload" <=>
                         worker'[w].queue[i].owner = Watchdog
                 /\ worker'[w].queue[i].op = "unload" =>
                         i = Len(worker'[w].queue) /\ UnloadPending
      BY <3>1
    <3>3. /\ worker'[w].queue[i].op = worker[w].queue[i].op
          /\ worker'[w].queue[i].owner = Watchdog <=>
                  worker[w].queue[i].owner = Watchdog
      BY <1>5
    <3>4. /\ worker[w].queue[i].op # "shutdown"
          /\ worker[w].queue[i].op = "unload" <=>
                  worker[w].queue[i].owner = Watchdog
          /\ worker[w].queue[i].op = "unload" =>
                  i = Len(worker[w].queue) /\ UnloadPending
      BY <2>1 DEF InstalledWorker
    <3>5. QED
      BY <3>1, <3>3, <3>4
  <2>5. UnloadPending =>
            /\ worker'[w].queue # <<>>
            /\ worker'[w].queue[Len(worker'[w].queue)].op = "unload"
    BY <1>5, <2>1, <2>2 DEF InstalledWorker
  <2>6. UnloadAnswered =>
            worker'[w].queue = <<>> /\ worker'[w].phase = "idle"
                /\ ~worker'[w].loaded
    BY <1>4, <1>5, <2>1 DEF InstalledWorker
  <2>7. QED
    BY <1>2, <2>3, <2>4, <2>5, <2>6 DEF InstalledWorker
<1>7. ASSUME NEW w \in Engines, worker[w].alive, w # engine
      PROVE  RetiringWorker(w)'
  <2>1. RetiringWorker(w)
    BY <1>7 DEF QueueDiscipline
  <2>2. worker[w].queue = <<[op |-> "shutdown", owner |-> NoTask]>>
    BY <2>1 DEF RetiringWorker
  <2>3. NoTask # c
    BY TaskAssumption DEF Tasks
  <2>4. DisownIn(worker[w].queue, c) = worker[w].queue
    BY <2>2, <2>3 DEF DisownIn
  <2>5. QED
    BY <1>4, <2>1, <2>4 DEF RetiringWorker
<1>8. ASSUME NEW w \in Engines, ~worker[w].alive
      PROVE  worker'[w] = NoWorker
  <2>1. worker[w] = NoWorker
    BY <1>8 DEF QueueDiscipline
  <2>2. DisownIn(<<>>, c) = <<>>
    BY DEF DisownIn
  <2>3. QED
    BY <2>1, <2>2 DEF Disown, NoWorker
<1>9. QED
  BY <1>4, <1>6, <1>7, <1>8 DEF QueueDiscipline

\* The queue discipline, the mutex and the critical sections together.
IInv == /\ TypeOK /\ LockDiscipline /\ EngineKnown /\ WatchdogKnown
        /\ QueueDiscipline

\* Creating a backend: no other worker is installed at that moment.
LEMMA QueueCreate ==
    ASSUME IInv, NEW t \in Tasks, EnsureCreate(t)
    PROVE  QueueDiscipline'
<1> USE DEF IInv, EnsureCreate, Goto, local
<1>1. engine = NoEngine /\ t # Watchdog /\ lock = t
  BY DEF EngineKnown, WatchdogKnown, LockDiscipline, Critical
<1>2. PICK w \in Engines : /\ ~worker[w].alive
                           /\ worker' = [worker EXCEPT ![w] = NewWorker]
                           /\ engine' = w
  OBVIOUS
<1>3. pc[Watchdog] \notin Critical /\ pc'[Watchdog] = pc[Watchdog]
  BY <1>1 DEF LockDiscipline, TypeOK, Tasks
<1>4. ~UnloadPending' /\ ~UnloadAnswered'
  BY <1>3 DEF UnloadPending, UnloadAnswered, Critical
<1>5. worker \in [Engines -> Workers]
  BY DEF TypeOK
<1>6. worker'[w] = NewWorker /\ \A v \in Engines \ {w} : worker'[v] = worker[v]
  BY <1>2, <1>5
<1>7. Len(NewWorker.queue) = 0 /\ NewWorker.alive /\ NewWorker.phase = "idle"
  BY DEF NewWorker
<1>8. InstalledWorker(w)'
  BY <1>4, <1>6, <1>7 DEF InstalledWorker
<1>9. \A v \in Engines \ {w} :
        /\ ~worker[v].alive => worker'[v] = NoWorker
        /\ worker[v].alive => RetiringWorker(v)'
  BY <1>1, <1>6, EngineAssumption DEF QueueDiscipline, RetiringWorker
<1>10. QED
  BY <1>2, <1>3, <1>6, <1>7, <1>8, <1>9 DEF QueueDiscipline

\* The watchdog queues UnloadModel behind the worker's backlog.
LEMMA QueueUnloadLock ==
    ASSUME IInv, UnloadLock
    PROVE  QueueDiscipline'
<1> USE DEF IInv, UnloadLock, Goto, local
<1>0. /\ pc \in [Tasks -> Labels] /\ Watchdog \in Tasks
      /\ worker \in [Engines -> Workers]
      /\ engine \in Engines \cup {NoEngine}
  BY DEF TypeOK, Tasks
<1>1. reply[Watchdog] = "none" /\ reply' = reply /\ engine' = engine
  BY DEF QueueDiscipline
<1>2. ~UnloadPending /\ ~UnloadAnswered
  BY DEF UnloadPending, UnloadAnswered
<1>3. CASE engine = NoEngine
  <2>1. worker' = worker
    BY <1>3
  <2>2. QED
    BY <1>1, <1>3, <2>1, EngineAssumption DEF QueueDiscipline, RetiringWorker
<1>4. CASE engine # NoEngine
  <2> DEFINE q == worker[engine].queue
             c == [op |-> "unload", owner |-> Watchdog]
             r == Send(engine, "unload", Watchdog)
  <2>1. engine \in Engines /\ worker' = [worker EXCEPT ![engine] = r]
    BY <1>0, <1>4
  <2>2. worker[engine] \in Workers /\ q \in Seq(Commands) /\ c \in Commands
    BY <1>0, <2>1 DEF Workers, Commands
  <2>3. /\ r.queue = Append(q, c) /\ r.alive = worker[engine].alive
        /\ r.phase = worker[engine].phase /\ r.loaded = worker[engine].loaded
    BY <2>2 DEF Send, Workers
  <2>4. /\ Len(q) \in Nat
        /\ Len(r.queue) = Len(q) + 1
        /\ \A i \in 1..Len(q) : r.queue[i] = q[i]
        /\ r.queue[Len(q) + 1] = c
    <3>1. /\ Len(Append(q, c)) = Len(q) + 1
          /\ \A i \in 1..Len(q) : Append(q, c)[i] = q[i]
          /\ Append(q, c)[Len(q) + 1] = c
      BY <2>2, AppendFacts
    <3>2. r.queue = Append(q, c) /\ Len(q) \in Nat
      BY <2>2, <2>3
    <3> HIDE DEF q, c, r
    <3>3. QED
      BY <3>1, <3>2
  <2>5. UnloadPending' /\ ~UnloadAnswered'
    BY <1>0, <1>1, <1>4 DEF UnloadPending, UnloadAnswered
  <2>6. InstalledWorker(engine)
    BY <2>1 DEF QueueDiscipline
  <2>7. \A i \in 1..Len(q) :
          q[i].op # "shutdown" /\ q[i].op # "unload" /\ q[i].owner # Watchdog
    BY <1>2, <2>6 DEF InstalledWorker
  <2>a. c.op = "unload" /\ c.owner = Watchdog
    OBVIOUS
  <2>b. worker'[engine] = r /\ \A v \in Engines \ {engine} : worker'[v] = worker[v]
    BY <1>0, <2>1
  <2> HIDE DEF r, c, UnloadLock, IInv
  <2>8. \A i \in 1..Len(r.queue) :
          /\ r.queue[i].op # "shutdown"
          /\ r.queue[i].op = "unload" <=> r.queue[i].owner = Watchdog
          /\ r.queue[i].op = "unload" => i = Len(r.queue)
    <3>1. \A i \in 1..Len(r.queue) : i \in 1..Len(q) \/ i = Len(q) + 1
      BY <2>4
    <3>2. QED
      BY <2>4, <2>7, <2>a, <3>1
  <2>9. r.queue # <<>> /\ r.queue[Len(r.queue)].op = "unload"
    BY <2>2, <2>3, <2>4, <2>a
  <2>10. r.phase # "idle" => r.queue[1].op \in {"load", "generate"}
    <3>1. SUFFICES ASSUME r.phase # "idle"
                   PROVE  r.queue[1].op \in {"load", "generate"}
      OBVIOUS
    <3>2. q # <<>> /\ q[1].op \in {"load", "generate"}
      BY <2>3, <2>6, <3>1 DEF InstalledWorker
    <3>3. 1 \in 1..Len(q)
      BY <2>2, <3>2, TailFacts
    <3>4. QED
      BY <2>4, <3>2, <3>3
  <2>11. r.alive
    BY <2>3, <2>6 DEF InstalledWorker
  <2>12. InstalledWorker(engine)'
    BY <1>1, <2>5, <2>8, <2>9, <2>10, <2>11, <2>b DEF InstalledWorker
  <2>13. QED
    BY <1>1, <2>5, <2>11, <2>12, <2>b
       DEF QueueDiscipline, RetiringWorker, IInv, UnloadPending
<1>5. QED
  BY <1>3, <1>4

\* The worker has carried out UnloadModel: its queue is empty.
LEMMA QueueUnload ==
    ASSUME IInv, NEW w \in Engines, WorkerUnload(w)
    PROVE  QueueDiscipline'
<1> DEFINE q == worker[w].queue
           r == [Popped(w) EXCEPT !.loaded = FALSE]
<1>1. /\ TypeOK /\ QueueDiscipline
      /\ worker[w].alive /\ q # <<>> /\ Head(q).op = "unload"
      /\ worker' = [worker EXCEPT ![w] = r]
      /\ Answer(w, "ok") /\ pc' = pc /\ engine' = engine
  BY DEF IInv, WorkerUnload, WorkerAt, owned
<1>2. w = engine
  BY <1>1, WorkingIsInstalled
<1>3. /\ worker[w] \in Workers /\ worker \in [Engines -> Workers]
      /\ q \in Seq(Commands)
  BY <1>1 DEF TypeOK, Workers
<1>4. /\ Len(q) \in Nat \ {0}
      /\ q[1] = Head(q)
      /\ Tail(q) \in Seq(Commands)
      /\ Len(Tail(q)) = Len(q) - 1
  BY <1>1, <1>3, TailFacts
<1>5. InstalledWorker(w)
  BY <1>1, <1>2 DEF QueueDiscipline
<1>6. 1 \in 1..Len(q) /\ q[1].op = "unload"
  BY <1>1, <1>4
<1>7. Len(q) = 1 /\ q[1].owner = Watchdog /\ UnloadPending
  BY <1>5, <1>6 DEF InstalledWorker
<1>8. Tail(q) = <<>>
  <2>1. Len(Tail(q)) = 0
    BY <1>4, <1>7
  <2>2. Tail(q) \in Seq(Commands)
    BY <1>4
  <2> HIDE DEF q
  <2>3. QED
    BY <2>1, <2>2, EmptyFact
<1>9. Watchdog \in Tasks /\ Watchdog # NoTask
  BY TaskAssumption DEF Tasks
<1>10. reply'[Watchdog] = "ok"
  BY <1>1, <1>4, <1>7, <1>9 DEF Answer, TypeOK
<1>11. ~UnloadPending' /\ pc'[Watchdog] = "unload_wait"
  BY <1>1, <1>7, <1>10 DEF UnloadPending
<1>12. /\ r.queue = <<>> /\ r.phase = "idle" /\ r.loaded = FALSE
       /\ r.alive = worker[w].alive
  BY <1>3, <1>8 DEF Popped, Workers
<1>13. worker'[w] = r /\ \A v \in Engines \ {w} : worker'[v] = worker[v]
  BY <1>1, <1>3
<1> HIDE DEF r
<1>14. r.alive /\ Len(r.queue) = 0
  BY <1>1, <1>12
<1>15. InstalledWorker(w)'
  BY <1>11, <1>12, <1>13, <1>14 DEF InstalledWorker
<1>16. QED
  BY <1>1, <1>2, <1>11, <1>13, <1>14, <1>15 DEF QueueDiscipline, RetiringWorker

\* The backend is dropped: its worker has nothing left but Shutdown.
LEMMA QueueClear ==
    ASSUME IInv, UnloadClear
    PROVE  QueueDiscipline'
<1> USE DEF IInv, UnloadClear, Goto, local
<1>0. /\ pc \in [Tasks -> Labels] /\ Watchdog \in Tasks
      /\ worker \in [Engines -> Workers]
      /\ engine \in Engines \cup {NoEngine}
  BY DEF TypeOK, Tasks
<1>1. engine' = NoEngine /\ reply' = reply /\ reply[Watchdog] = "none"
  BY DEF QueueDiscipline
<1>2. CASE engine = NoEngine
  BY <1>1, <1>2, EngineAssumption DEF QueueDiscipline, RetiringWorker
<1>3. CASE engine # NoEngine
  <2> DEFINE r == Send(engine, "shutdown", NoTask)
  <2>1. engine \in Engines /\ worker[engine] \in Workers
    BY <1>0, <1>3
  <2>2. UnloadAnswered
    BY DEF UnloadAnswered
  <2>3. /\ worker[engine].queue = <<>> /\ worker[engine].phase = "idle"
        /\ ~worker[engine].loaded /\ worker[engine].alive
    BY <2>1, <2>2 DEF QueueDiscipline, InstalledWorker
  <2>4. /\ r.queue = <<[op |-> "shutdown", owner |-> NoTask]>>
        /\ r.phase = "idle" /\ ~r.loaded /\ r.alive
    BY <2>1, <2>3 DEF Send, Workers
  <2>5. worker'[engine] = r /\ \A v \in Engines \ {engine} : worker'[v] = worker[v]
    BY <1>0, <1>3, <2>1
  <2> HIDE DEF r
  <2>6. QED
    BY <1>1, <2>4, <2>5, EngineAssumption DEF QueueDiscipline, RetiringWorker
<1>4. QED
  BY <1>2, <1>3

\* A worker thread returns: it was not the installed one.
LEMMA QueueShutdown ==
    ASSUME IInv, NEW w \in Engines, WorkerShutdown(w)
    PROVE  QueueDiscipline' /\ w # engine
<1>1. /\ TypeOK /\ QueueDiscipline
      /\ worker[w].queue # <<>> /\ Head(worker[w].queue).op = "shutdown"
      /\ worker' = [worker EXCEPT ![w] = NoWorker]
      /\ UNCHANGED <<pc, engine, reply>>
  BY DEF IInv, WorkerShutdown, WorkerAt, owned, local
<1>2. worker[w].queue \in Seq(Commands) /\ worker \in [Engines -> Workers]
  BY <1>1 DEF TypeOK, Workers
<1>3. 1 \in 1..Len(worker[w].queue) /\ worker[w].queue[1].op = "shutdown"
  BY <1>1, <1>2, TailFacts
<1>4. w # engine
  BY <1>1, <1>3 DEF QueueDiscipline, InstalledWorker
<1>5. worker'[w] = NoWorker /\ \A v \in Engines \ {w} : worker'[v] = worker[v]
  BY <1>1, <1>2
<1>6. UnloadPending' = UnloadPending /\ UnloadAnswered' = UnloadAnswered
  BY <1>1 DEF UnloadPending, UnloadAnswered
<1>7. ~NoWorker.alive
  BY DEF NoWorker
<1>8. \A v \in Engines \ {w} :
        /\ v = engine => InstalledWorker(v)'
        /\ worker[v].alive /\ v # engine => RetiringWorker(v)'
  BY <1>1, <1>5, <1>6 DEF QueueDiscipline, InstalledWorker, RetiringWorker
<1>9. QED
  BY <1>1, <1>4, <1>5, <1>7, <1>8 DEF QueueDiscipline

\* A task other than the watchdog touches neither its pc nor its reply.
LEMMA OtherTask ==
    ASSUME TypeOK, NEW t \in Tasks \ {Watchdog}, NEW l, NEW v,
           pc' = [pc EXCEPT ![t] = l] \/ pc' = pc,
           reply' = [reply EXCEPT ![t] = v] \/ reply' = reply
    PROVE  pc'[Watchdog] = pc[Watchdog] /\ reply'[Watchdog] = reply[Watchdog]
<1>1. pc \in [Tasks -> Labels] /\ reply \in [Tasks -> {"none", "ok", "err"}]
      /\ Watchdog \in Tasks
  BY DEF TypeOK, Tasks
<1>2. QED
  BY <1>1

\* The steps of handlers keep the queue discipline.
LEMMA QueueTask ==
    ASSUME IInv, NEW t \in Tasks, TaskStep(t)
    PROVE  QueueDiscipline'
<1>0. TypeOK /\ QueueDiscipline
  BY DEF IInv
<1>1. t # Watchdog
  BY DEF IInv, WatchdogKnown, TaskStep, Ensure, EnsureLock, EnsureCreate,
         EnsureCreateFailed, EnsureStatus, EnsureLoaded, EnsureFailed,
         EnsureTouch, EnsureReady, Admit, AdmitState, GenLock, GenSend,
         DrainEnd, Touch
<1>2. CASE EnsureCreate(t)
  BY <1>2, QueueCreate
<1>3. CASE EnsureStatus(t) /\ ~worker[engine].loaded
  <2> DEFINE r == Send(engine, "load", t)
  <2>1. engine \in Engines /\ lock = t
    BY <1>3 DEF IInv, EngineKnown, LockDiscipline, Critical, EnsureStatus, TypeOK
  <2>2. pc[Watchdog] \notin Critical
    BY <1>1, <2>1 DEF IInv, LockDiscipline, Tasks
  <2>3. /\ worker' = [worker EXCEPT ![engine] = r]
        /\ engine' = engine /\ reply' = reply
        /\ pc' = [pc EXCEPT ![t] = "ensure_wait"]
    BY <1>3 DEF EnsureStatus, Goto, local
  <2>4. worker[engine] \in Workers
    BY <1>0, <2>1 DEF TypeOK
  <2>5. /\ r \in Workers
        /\ r.queue = Append(worker[engine].queue, [op |-> "load", owner |-> t])
        /\ r.alive = worker[engine].alive /\ r.phase = worker[engine].phase
    BY <1>0, <2>1, <2>4, SendType DEF Send, Workers
  <2>6. worker[engine].alive
    BY <1>0, <2>1 DEF QueueDiscipline, InstalledWorker
  <2> HIDE DEF r
  <2>7. pc'[Watchdog] = pc[Watchdog] /\ reply'[Watchdog] = reply[Watchdog]
    BY <1>0, <1>1, <2>3, OtherTask
  <2>8. QED
    BY <1>0, <1>1, <2>1, <2>2, <2>3, <2>5, <2>6, <2>7, QueueSend DEF Critical
<1>4. CASE GenSend(t)
  <2> DEFINE s == Send(engine, "generate", t)
             r == [s EXCEPT !.isLoading = @ \/ pc[t] = "gen_cas"]
  <2>1. engine \in Engines /\ lock = t
    BY <1>4 DEF IInv, EngineKnown, LockDiscipline, Critical, GenSend, TypeOK
  <2>2. pc[Watchdog] \notin Critical
    BY <1>1, <2>1 DEF IInv, LockDiscipline, Tasks
  <2>3. /\ worker' = [worker EXCEPT ![engine] = r]
        /\ engine' = engine /\ reply' = reply
        /\ pc' = [pc EXCEPT ![t] = "drain"]
    BY <1>4 DEF GenSend, Goto, local
  <2>4. worker[engine] \in Workers
    BY <1>0, <2>1 DEF TypeOK
  <2>5. /\ s \in Workers
        /\ s.queue = Append(worker[engine].queue,
                            [op |-> "generate", owner |-> t])
        /\ s.alive = worker[engine].alive /\ s.phase = worker[engine].phase
    BY <1>0, <2>1, <2>4, SendType DEF Send, Workers
  <2>6. worker[engine].alive
    BY <1>0, <2>1 DEF QueueDiscipline, InstalledWorker
  <2> HIDE DEF s
  <2>7. /\ r \in Workers
        /\ r.queue = s.queue /\ r.alive = s.alive /\ r.phase = s.phase
    BY <2>5 DEF Workers
  <2> HIDE DEF r
  <2>8. pc'[Watchdog] = pc[Watchdog] /\ reply'[Watchdog] = reply[Watchdog]
    BY <1>0, <1>1, <2>3, OtherTask
  <2>9. QED
    BY <1>0, <1>1, <2>1, <2>2, <2>3, <2>5, <2>6, <2>7, <2>8, QueueSend
       DEF Critical
<1>5. CASE \/ EnsureLock(t) \/ EnsureCreateFailed(t) \/ EnsureLoaded(t)
           \/ EnsureStatus(t) /\ worker[engine].loaded
           \/ EnsureFailed(t) \/ EnsureTouch(t) \/ EnsureReady(t)
  <2>1. /\ UNCHANGED <<worker, engine>>
        /\ \E l : pc' = [pc EXCEPT ![t] = l]
        /\ \E v : reply' = [reply EXCEPT ![t] = v] \/ reply' = reply
    BY <1>5 DEF EnsureLock, EnsureCreateFailed, EnsureLoaded, EnsureStatus,
          EnsureFailed, EnsureTouch, EnsureReady, Goto, Finish, local, owned
  <2>2. pc'[Watchdog] = pc[Watchdog] /\ reply'[Watchdog] = reply[Watchdog]
    BY <1>0, <1>1, <2>1, OtherTask
  <2>3. QED
    BY <1>0, <2>1, <2>2, QueueFrame
<1>6. CASE Admit(t) \/ AdmitState(t) \/ GenLock(t) \/ DrainEnd(t) \/ Touch(t)
  <2>1. /\ UNCHANGED <<worker, engine>>
        /\ \E l : pc' = [pc EXCEPT ![t] = l]
        /\ \E v : reply' = [reply EXCEPT ![t] = v] \/ reply' = reply
    BY <1>6 DEF Admit, AdmitState, GenLock, DrainEnd, Touch, Goto, Finish,
          local, owned
  <2>2. pc'[Watchdog] = pc[Watchdog] /\ reply'[Watchdog] = reply[Watchdog]
    BY <1>0, <1>1, <2>1, OtherTask
  <2>3. QED
    BY <1>0, <2>1, <2>2, QueueFrame
<1>7. QED
  BY <1>2, <1>3, <1>4, <1>5, <1>6 DEF TaskStep, Ensure

\* Steps of a worker that leave its queue alone.
LEMMA PhaseRecord ==
    ASSUME TypeOK, NEW w \in Engines,
           WorkerLoadBegin(w) \/ WorkerLazyLoadOk(w) \/ WorkerGenerateBegin(w)
    PROVE  \E r \in Workers :
            /\ worker' = [worker EXCEPT ![w] = r]
            /\ r.alive = worker[w].alive
            /\ r.queue = worker[w].queue
<1>0. worker[w] \in Workers
  BY DEF TypeOK
<1>1. CASE WorkerLoadBegin(w)
  <2> DEFINE r == [worker[w] EXCEPT !.phase = "loading", !.isLoading = TRUE]
  <2>1. r \in Workers /\ r.alive = worker[w].alive
          /\ r.queue = worker[w].queue
    BY <1>0 DEF Workers
  <2>2. worker' = [worker EXCEPT ![w] = r]
    BY <1>1 DEF WorkerLoadBegin, TypeOK
  <2>3. QED
    BY <2>1, <2>2
<1>2. CASE WorkerLazyLoadOk(w)
  <2> DEFINE r == [worker[w] EXCEPT !.phase = "generating", !.loaded = TRUE,
                                    !.isLoading = FALSE]
  <2>1. r \in Workers /\ r.alive = worker[w].alive
          /\ r.queue = worker[w].queue
    BY <1>0 DEF Workers
  <2>2. worker' = [worker EXCEPT ![w] = r]
    BY <1>2 DEF WorkerLazyLoadOk, TypeOK
  <2>3. QED
    BY <2>1, <2>2
<1>3. CASE WorkerGenerateBegin(w)
  <2> DEFINE r == [worker[w] EXCEPT !.phase = "generating"]
  <2>1. r \in Workers /\ r.alive = worker[w].alive
          /\ r.queue = worker[w].queue
    BY <1>0 DEF Workers
  <2>2. worker' = [worker EXCEPT ![w] = r]
    BY <1>3 DEF WorkerGenerateBegin, TypeOK
  <2>3. QED
    BY <2>1, <2>2
<1>4. QED
  BY <1>1, <1>2, <1>3

\* The steps of worker threads keep the queue discipline.
LEMMA QueueWorker ==
    ASSUME IInv, NEW w \in Engines, WorkerStep(w)
    PROVE  QueueDiscipline'
<1>0. TypeOK /\ QueueDiscipline
  BY DEF IInv
<1>1. worker[w] \in Workers
  BY <1>0 DEF TypeOK
<1>2. CASE WorkerUnload(w)
  BY <1>2, QueueUnload
<1>3. CASE WorkerShutdown(w)
  BY <1>3, QueueShutdown
<1>4. CASE WorkerLoadOk(w) \/ WorkerLoadFail(w) \/ WorkerGenerateEnd(w)
  <2>1. /\ worker[w].alive /\ worker[w].queue # <<>>
        /\ Head(worker[w].queue).op \in {"load", "generate"}
        /\ UNCHANGED <<pc, engine>>
        /\ \E v \in {"ok", "err"} : Answer(w, v)
    BY <1>4 DEF WorkerLoadOk, WorkerLoadFail, WorkerGenerateEnd, WorkerAt, owned
  <2>2. Popped(w) \in Workers
    BY <1>0, <2>1, PoppedType
  <2>3. /\ Popped(w).alive = worker[w].alive
        /\ Popped(w).phase = "idle"
        /\ Popped(w).queue = Tail(worker[w].queue)
    BY <1>1 DEF Popped, Workers
  <2>4. \E r \in Workers :
            /\ worker' = [worker EXCEPT ![w] = r]
            /\ r.alive = Popped(w).alive
            /\ r.phase = Popped(w).phase
            /\ r.queue = Popped(w).queue
    <3>1. CASE WorkerLoadOk(w)
      <4> DEFINE r == [Popped(w) EXCEPT !.loaded = TRUE, !.isLoading = FALSE]
      <4>1. r \in Workers /\ r.alive = Popped(w).alive
              /\ r.phase = Popped(w).phase /\ r.queue = Popped(w).queue
        BY <2>2 DEF Workers
      <4>2. QED
        BY <3>1, <4>1 DEF WorkerLoadOk
    <3>2. CASE WorkerLoadFail(w)
      <4> DEFINE r == [Popped(w) EXCEPT !.isLoading = FALSE]
      <4>1. r \in Workers /\ r.alive = Popped(w).alive
              /\ r.phase = Popped(w).phase /\ r.queue = Popped(w).queue
        BY <2>2 DEF Workers
      <4>2. QED
        BY <3>2, <4>1 DEF WorkerLoadFail
    <3>3. CASE WorkerGenerateEnd(w)
      BY <2>2, <3>3 DEF WorkerGenerateEnd
    <3>4. QED
      BY <1>4, <3>1, <3>2, <3>3
  <2>5. w = engine
    BY <1>0, <2>1, WorkingIsInstalled
  <2>6. QED
    BY <1>0, <2>1, <2>3, <2>4, <2>5, QueuePop
<1>5. CASE WorkerLoadBegin(w) \/ WorkerLazyLoadOk(w) \/ WorkerGenerateBegin(w)
  <2>1. /\ worker[w].alive /\ worker[w].queue # <<>>
        /\ Head(worker[w].queue).op \in {"load", "generate"}
        /\ UNCHANGED <<pc, engine, reply>>
    BY <1>5 DEF WorkerLoadBegin, WorkerLazyLoadOk, WorkerGenerateBegin,
          WorkerAt, owned, local
  <2>2. w = engine
    BY <1>0, <2>1, WorkingIsInstalled
  <2>3. \E r \in Workers :
            /\ worker' = [worker EXCEPT ![w] = r]
            /\ r.alive = worker[w].alive
            /\ r.queue = worker[w].queue
    BY <1>0, <1>5, PhaseRecord
  <2>4. QED
    BY <1>0, <2>1, <2>2, <2>3, QueuePhase
<1>6. QED
  BY <1>2, <1>3, <1>4, <1>5 DEF WorkerStep

\* Every step keeps the queue discipline.
LEMMA QueueStep == IInv /\ [Next]_vars => QueueDiscipline'
<1> SUFFICES ASSUME IInv, [Next]_vars
             PROVE  QueueDiscipline'
  OBVIOUS
<1>0. TypeOK /\ QueueDiscipline
  BY DEF IInv
<1>1. ASSUME MainPreload \/ MainSkip
      PROVE  QueueDiscipline'
  <2>1. /\ UNCHANGED <<worker, engine, reply>>
        /\ \E l : pc' = [pc EXCEPT ![Main] = l]
    BY <1>1 DEF MainPreload, MainSkip, Begin, Goto, owned
  <2>2. Main \in Tasks \ {Watchdog}
    BY TaskAssumption DEF Tasks
  <2>3. pc'[Watchdog] = pc[Watchdog] /\ reply'[Watchdog] = reply[Watchdog]
    BY <1>0, <2>1, <2>2, OtherTask
  <2>4. QED
    BY <1>0, <2>1, <2>3, QueueFrame
<1>2. ASSUME NEW c \in Clients, ClientInput(c)
      PROVE  QueueDiscipline'
  <2>0. c \in Tasks \ {Watchdog}
    BY TaskAssumption DEF Tasks
  <2>1. /\ engine' = engine
        /\ \E l : pc' = [pc EXCEPT ![c] = l]
        /\ \E v : reply' = [reply EXCEPT ![c] = v] \/ reply' = reply
        /\ worker' = worker \/ worker' = Disown(c)
    BY <1>2 DEF ClientInput, StartRequest, ClientSetMode, SetMode,
          StreamDisconnect, Cancel, Begin, Finish, Goto, local, owned
  <2>2. pc'[Watchdog] = pc[Watchdog] /\ reply'[Watchdog] = reply[Watchdog]
    BY <1>0, <2>0, <2>1, OtherTask
  <2>3. QED
    BY <1>0, <2>1, <2>2, QueueFrame, QueueDisown
<1>3. ASSUME NEW m \in Managers, ManagerStep(m)
      PROVE  QueueDiscipline'
  <2>0. m \in Tasks \ {Watchdog}
    BY TaskAssumption DEF Tasks
  <2>1. /\ UNCHANGED <<worker, engine>>
        /\ \E l : pc' = [pc EXCEPT ![m] = l]
        /\ \E v : reply' = [reply EXCEPT ![m] = v] \/ reply' = reply
    BY <1>3 DEF ManagerStep, ManagerReadMode, ManagerReadState, ManagerReload,
          SetMode, Begin, Finish, Goto, local, owned
  <2>2. pc'[Watchdog] = pc[Watchdog] /\ reply'[Watchdog] = reply[Watchdog]
    BY <1>0, <2>0, <2>1, OtherTask
  <2>3. QED
    BY <1>0, <2>1, <2>2, QueueFrame
<1>4. ASSUME \/ \E s \in Timeouts : SetInactivityTimeout(s)
             \/ Tick
             \/ UNCHANGED vars
      PROVE  QueueDiscipline'
  <2>1. UNCHANGED <<worker, engine, pc, reply>>
    BY <1>4 DEF SetInactivityTimeout, Tick, vars, owned, local
  <2>2. QED
    BY <1>0, <2>1, QueueFrame
<1>5. ASSUME WatchdogStep
      PROVE  QueueDiscipline'
  <2>0. /\ Watchdog \in Tasks /\ pc \in [Tasks -> Labels]
        /\ reply \in [Tasks -> {"none", "ok", "err"}]
    BY <1>0 DEF TypeOK, Tasks
  <2>1. CASE \/ WatchdogWake \/ WatchdogMode \/ WatchdogIdle \/ WatchdogState
             \/ UnloadMark
    <3>1. /\ UNCHANGED <<worker, engine, reply>>
          /\ pc[Watchdog] \notin {"unload_wait", "unload_clear"}
          /\ pc'[Watchdog] \notin {"unload_wait", "unload_clear"}
      BY <2>0, <2>1 DEF WatchdogWake, WatchdogMode, WatchdogIdle,
            WatchdogState, UnloadMark, Goto, local, owned
    <3>2. QED
      BY <1>0, <3>1 DEF QueueDiscipline, InstalledWorker, RetiringWorker,
            UnloadPending, UnloadAnswered
  <2>2. CASE UnloadLock
    BY <2>2, QueueUnloadLock
  <2>3. CASE UnloadReplied
    <3>1. /\ UNCHANGED <<worker, engine>>
          /\ UnloadAnswered /\ ~UnloadPending /\ ~UnloadPending'
          /\ reply'[Watchdog] = "none"
      BY <2>0, <2>3 DEF UnloadReplied, Goto, owned, UnloadAnswered,
            UnloadPending
    <3>2. QED
      BY <1>0, <3>1 DEF QueueDiscipline, InstalledWorker, RetiringWorker
  <2>4. CASE UnloadClear
    BY <2>4, QueueClear
  <2>5. CASE UnloadDone
    <3>1. /\ UNCHANGED <<worker, engine, reply>>
          /\ pc[Watchdog] \notin {"unload_wait", "unload_clear"}
          /\ pc'[Watchdog] \notin {"unload_wait", "unload_clear"}
      BY <2>0, <2>5 DEF UnloadDone, Goto, local
    <3>2. QED
      BY <1>0, <3>1 DEF QueueDiscipline, InstalledWorker, RetiringWorker,
            UnloadPending, UnloadAnswered
  <2>6. QED
    BY <1>5, <2>1, <2>2, <2>3, <2>4, <2>5 DEF WatchdogStep
<1>6. QED
  BY <1>1, <1>2, <1>3, <1>4, <1>5, QueueTask, QueueWorker DEF Next

\* The initial states satisfy the parts of the invariant about engines.
LEMMA QueueInit == Init => EngineKnown /\ WatchdogKnown /\ QueueDiscipline
<1> SUFFICES ASSUME Init PROVE EngineKnown /\ WatchdogKnown /\ QueueDiscipline
  OBVIOUS
<1>1. Watchdog \in Tasks /\ Watchdog # Main
  BY TaskAssumption DEF Tasks
<1>2. pc[Watchdog] = "idle" /\ reply[Watchdog] = "none"
  BY <1>1 DEF Init
<1>3. EngineKnown /\ WatchdogKnown
  BY <1>1, <1>2 DEF Init, EngineKnown, WatchdogKnown
<1>4. \A w \in Engines : worker[w] = NoWorker /\ w # engine
  BY EngineAssumption DEF Init
<1>5. ~NoWorker.alive
  BY DEF NoWorker
<1>6. QED
  BY <1>2, <1>3, <1>4, <1>5 DEF QueueDiscipline

\* Requests, watchdog and worker threads keep to the queue discipline in every
\* interleaving: UnloadModel is the last command an installed worker gets, and
\* an engine is dropped only when its worker is idle, empty and without model.
THEOREM QueuesDisciplined == Spec => []QueueDiscipline
<1>1. TypeOK /\ LockDiscipline /\ EngineKnown /\ WatchdogKnown /\ QueueDiscipline
        <=> IInv
  BY DEF IInv
<1>2. QED
  BY <1>1, QueueInit, EngineStep, WatchdogPlace, QueueStep, TypeCorrect,
     MutexExclusive, PTL DEF Spec

\* No model outlives its backend: a thread whose backend was dropped holds no
\* weights, so the daemon never keeps two models in memory.
THEOREM NoModelLeaks == Spec => []NoOrphanedModel
<1>1. QueueDiscipline => NoOrphanedModel
  BY DEF QueueDiscipline, RetiringWorker, NoOrphanedModel
<1>2. QED
  BY <1>1, QueuesDisciplined, PTL

-----------------------------------------------------------------------------
(* model_state = Unloaded *)

\* Every step keeps model_state = Unloaded truthful.
LEMMA UnloadedStep ==
    EngineKnown /\ UnloadedMeansNoEngine /\ [Next]_vars
        => UnloadedMeansNoEngine'
<1> SUFFICES ASSUME EngineKnown, UnloadedMeansNoEngine, [Next]_vars
             PROVE  UnloadedMeansNoEngine'
  OBVIOUS
<1> USE DEF UnloadedMeansNoEngine, shared, owned
<1>1. ASSUME NEW t \in Tasks, TaskStep(t)
      PROVE  UnloadedMeansNoEngine'
  BY <1>1 DEF TaskStep, Ensure, EnsureLock, EnsureCreate, EnsureCreateFailed,
        EnsureStatus, EnsureLoaded, EnsureFailed, EnsureTouch, EnsureReady,
        Admit, AdmitState, GenLock, GenSend, DrainEnd, Touch
<1>2. ASSUME NEW c \in Clients, ClientInput(c)
      PROVE  UnloadedMeansNoEngine'
  BY <1>2 DEF ClientInput, StartRequest, ClientSetMode, SetMode,
        StreamDisconnect, Cancel
<1>3. ASSUME NEW m \in Managers, ManagerStep(m)
      PROVE  UnloadedMeansNoEngine'
  BY <1>3 DEF ManagerStep, ManagerReadMode, ManagerReadState, ManagerReload,
        SetMode
<1>4. ASSUME WatchdogStep
      PROVE  UnloadedMeansNoEngine'
  <2>1. CASE UnloadDone
    <3>1. Watchdog \in Tasks
      BY DEF Tasks
    <3>2. engine = NoEngine
      BY <2>1, <3>1 DEF UnloadDone, EngineKnown
    <3>3. QED
      BY <2>1, <3>2 DEF UnloadDone
  <2>2. CASE ~UnloadDone
    BY <1>4, <2>2 DEF WatchdogStep, WatchdogWake, WatchdogMode, WatchdogIdle,
          WatchdogState, UnloadMark, UnloadLock, UnloadReplied, UnloadClear
  <2>3. QED
    BY <2>1, <2>2
<1>5. ASSUME NEW w \in Engines, WorkerStep(w)
      PROVE  UnloadedMeansNoEngine'
  BY <1>5 DEF WorkerStep, WorkerLoadBegin, WorkerLoadOk, WorkerLazyLoadOk,
        WorkerLoadFail, WorkerGenerateBegin, WorkerGenerateEnd, WorkerUnload,
        WorkerShutdown
<1>6. ASSUME \/ MainPreload \/ MainSkip
             \/ \E s \in Timeouts : SetInactivityTimeout(s)
             \/ Tick
             \/ UNCHANGED vars
      PROVE  UnloadedMeansNoEngine'
  BY <1>6 DEF MainPreload, MainSkip, SetInactivityTimeout, Tick, vars
<1>7. QED
  BY <1>1, <1>2, <1>3, <1>4, <1>5, <1>6 DEF Next

\* model_state never says Unloaded while a backend exists, although the two are
\* written under different locks: nira-ai-manager can rely on it.
THEOREM UnloadedIsTruthful == Spec => []UnloadedMeansNoEngine
<1>1. Init => UnloadedMeansNoEngine
  BY DEF Init, UnloadedMeansNoEngine
<1>2. QED
  BY <1>1, QueueInit, EngineStep, UnloadedStep, TypeCorrect, MutexExclusive,
     PTL DEF Spec

-----------------------------------------------------------------------------
(* Accepted generations *)

\* c waits for tokens that have not been answered yet.
Waiting(c) == pc[c] = "drain" /\ reply[c] = "none"

\* A step that only extends the installed worker's queue loses no generation.
LEMMA GenerationExtend ==
    ASSUME TypeOK, GenerationNeverLost, engine' = engine,
           engine \in Engines => /\ worker[engine].queue \in Seq(Commands)
                                /\ \E x \in Commands :
                                    \/ worker'[engine].queue =
                                            Append(worker[engine].queue, x)
                                    \/ worker'[engine].queue =
                                            worker[engine].queue,
           NEW c \in Clients, Waiting(c)
    PROVE  /\ engine' # NoEngine
           /\ \E i \in DOMAIN worker'[engine'].queue :
                worker'[engine'].queue[i] = [op |-> "generate", owner |-> c]
<1>1. engine # NoEngine /\ engine \in Engines
  BY DEF Waiting, GenerationNeverLost, TypeOK
<1> DEFINE q == worker[engine].queue
<1>2. PICK i \in DOMAIN q : q[i] = [op |-> "generate", owner |-> c]
  BY DEF Waiting, GenerationNeverLost
<1>3. q \in Seq(Commands) /\ DOMAIN q = 1..Len(q)
  BY <1>1
<1>4. \A x \in Commands : /\ i \in DOMAIN Append(q, x)
                           /\ Append(q, x)[i] = q[i]
  BY <1>3
<1>5. QED
  BY <1>1, <1>2, <1>4

\* The worker has finished the command at the head of its queue.
LEMMA GenerationPop ==
    ASSUME TypeOK, GenerationNeverLost, engine \in Engines, engine' = engine,
           worker[engine].queue # <<>>,
           worker'[engine].queue = Tail(worker[engine].queue),
           NEW v \in {"ok", "err"}, Answer(engine, v), pc' = pc,
           NEW c \in Clients, Waiting(c)'
    PROVE  /\ engine' # NoEngine
           /\ \E i \in DOMAIN worker'[engine'].queue :
                worker'[engine'].queue[i] = [op |-> "generate", owner |-> c]
<1> DEFINE q == worker[engine].queue
           t == Head(q).owner
<1>1. q \in Seq(Commands) /\ reply \in [Tasks -> {"none", "ok", "err"}]
      /\ c \in Tasks
  BY DEF TypeOK, Workers, Tasks
<1>2. t \in Tasks \cup {NoTask}
  BY <1>1, TailFacts DEF Commands
<1>3. t # c /\ reply'[c] = reply[c]
  BY <1>1, <1>2, TaskAssumption DEF Answer, Waiting, Tasks
<1>4. Waiting(c)
  BY <1>3 DEF Waiting
<1>5. PICK i \in DOMAIN q : q[i] = [op |-> "generate", owner |-> c]
  BY <1>4 DEF Waiting, GenerationNeverLost
<1>6. i \in 1..Len(q) /\ i # 1
  BY <1>1, <1>3, <1>5, TailFacts
<1>7. i - 1 \in DOMAIN Tail(q) /\ Tail(q)[i - 1] = q[i]
  BY <1>1, <1>6, TailFacts
<1>8. QED
  BY <1>5, <1>7, EngineAssumption

\* Another client goes away.
LEMMA GenerationDisown ==
    ASSUME TypeOK, GenerationNeverLost, engine' = engine,
           NEW d \in Clients, worker' = Disown(d),
           NEW c \in Clients \ {d}, Waiting(c)
    PROVE  /\ engine' # NoEngine
           /\ \E i \in DOMAIN worker'[engine'].queue :
                worker'[engine'].queue[i] = [op |-> "generate", owner |-> c]
<1>1. engine # NoEngine /\ engine \in Engines
  BY DEF Waiting, GenerationNeverLost, TypeOK
<1> DEFINE q == worker[engine].queue
<1>2. PICK i \in DOMAIN q : q[i] = [op |-> "generate", owner |-> c]
  BY DEF Waiting, GenerationNeverLost
<1>3. worker[engine] \in Workers /\ q \in Seq(Commands) /\ DOMAIN q = 1..Len(q)
  BY <1>1 DEF TypeOK, Workers
<1>4. worker'[engine].queue = DisownIn(q, d)
  BY <1>1, <1>3 DEF Disown, Workers
<1>5. i \in DOMAIN DisownIn(q, d) /\ DisownIn(q, d)[i] = q[i]
  BY <1>2, <1>3, DisownInType DEF DisownIn
<1>6. QED
  BY <1>1, <1>2, <1>4, <1>5

\* The goal of the step lemmas, for one client.
Held(c) ==
    /\ engine # NoEngine
    /\ \E i \in DOMAIN worker[engine].queue :
        worker[engine].queue[i] = [op |-> "generate", owner |-> c]

\* A step that changes neither the installed worker's queue nor makes a client
\* wait loses no generation.
LEMMA GenerationFrame ==
    ASSUME TypeOK, GenerationNeverLost, UNCHANGED <<engine, worker>>,
           NEW c \in Clients, Waiting(c)
    PROVE  Held(c)'
  BY DEF GenerationNeverLost, Waiting, Held

\* The steps of handlers lose no accepted generation.
LEMMA GenerationTask ==
    ASSUME IInv, GenerationNeverLost, NEW t \in Tasks, TaskStep(t),
           NEW c \in Clients, Waiting(c)'
    PROVE  Held(c)'
<1>0. /\ TypeOK /\ c \in Tasks
      /\ pc \in [Tasks -> Labels] /\ reply \in [Tasks -> {"none", "ok", "err"}]
      /\ worker \in [Engines -> Workers]
  BY DEF IInv, TypeOK, Tasks
<1>1. CASE GenSend(t)
  <2> DEFINE x == [op |-> "generate", owner |-> t]
             q == worker[engine].queue
             s == Send(engine, "generate", t)
             r == [s EXCEPT !.isLoading = @ \/ pc[t] = "gen_cas"]
  <2>1. engine # NoEngine /\ engine \in Engines
    BY <1>0, <1>1 DEF IInv, EngineKnown, GenSend, TypeOK
  <2>2. /\ worker' = [worker EXCEPT ![engine] = r]
        /\ engine' = engine /\ reply' = reply
        /\ pc' = [pc EXCEPT ![t] = "drain"]
    BY <1>1 DEF GenSend, Goto, local
  <2>3. worker[engine] \in Workers /\ q \in Seq(Commands) /\ x \in Commands
    BY <1>0, <2>1 DEF Workers, Commands
  <2>4. s \in Workers /\ s.queue = Append(q, x)
    BY <1>0, <2>1, <2>3, SendType DEF Send, Workers
  <2> HIDE DEF s
  <2>5. r.queue = Append(q, x)
    BY <2>4 DEF Workers
  <2> HIDE DEF r
  <2>6. worker'[engine].queue = Append(q, x)
    BY <1>0, <2>1, <2>2, <2>5
  <2>7. CASE t = c
    <3>1. /\ Len(q) + 1 \in DOMAIN Append(q, x)
          /\ Append(q, x)[Len(q) + 1] = x
      BY <2>3
    <3>2. QED
      BY <2>1, <2>2, <2>6, <2>7, <3>1 DEF Held
  <2>8. CASE t # c
    <3>1. Waiting(c)
      BY <1>0, <2>2, <2>8 DEF Waiting
    <3>2. QED
      BY <1>0, <2>1, <2>2, <2>3, <2>6, <3>1, GenerationExtend DEF Held
  <2>9. QED
    BY <2>7, <2>8
<1>2. CASE EnsureCreate(t)
  <2>1. engine = NoEngine
    BY <1>2 DEF IInv, EngineKnown, EnsureCreate
  <2>2. Waiting(c)
    BY <1>0, <1>2 DEF EnsureCreate, Goto, Waiting, local
  <2>3. QED
    BY <2>1, <2>2 DEF GenerationNeverLost, Waiting
<1>3. CASE EnsureStatus(t) /\ ~worker[engine].loaded
  <2> DEFINE x == [op |-> "load", owner |-> t]
             r == Send(engine, "load", t)
  <2>1. engine # NoEngine /\ engine \in Engines
    BY <1>0, <1>3 DEF IInv, EngineKnown, EnsureStatus, TypeOK
  <2>2. /\ worker' = [worker EXCEPT ![engine] = r]
        /\ engine' = engine /\ reply' = reply
        /\ pc' = [pc EXCEPT ![t] = "ensure_wait"]
    BY <1>3 DEF EnsureStatus, Goto, local
  <2>3. /\ worker[engine] \in Workers
        /\ worker[engine].queue \in Seq(Commands) /\ x \in Commands
    BY <1>0, <2>1 DEF Workers, Commands
  <2>4. r.queue = Append(worker[engine].queue, x)
    BY <2>3 DEF Send, Workers
  <2> HIDE DEF r
  <2>5. worker'[engine].queue = Append(worker[engine].queue, x)
    BY <1>0, <2>1, <2>2, <2>4
  <2>6. Waiting(c)
    BY <1>0, <2>2 DEF Waiting
  <2>7. QED
    BY <1>0, <2>1, <2>2, <2>3, <2>5, <2>6, GenerationExtend DEF Held
<1>4. CASE \/ EnsureLock(t) \/ EnsureCreateFailed(t) \/ EnsureLoaded(t)
           \/ EnsureStatus(t) /\ worker[engine].loaded
           \/ EnsureFailed(t) \/ EnsureTouch(t) \/ EnsureReady(t)
  <2>1. /\ UNCHANGED <<worker, engine>>
        /\ \E l : l # "drain" /\ pc' = [pc EXCEPT ![t] = l]
        /\ \E v : reply' = [reply EXCEPT ![t] = v] \/ reply' = reply
    BY <1>4 DEF EnsureLock, EnsureCreateFailed, EnsureLoaded, EnsureStatus,
          EnsureFailed, EnsureTouch, EnsureReady, Goto, Finish, local, owned
  <2>2. Waiting(c)
    BY <1>0, <2>1 DEF Waiting
  <2>3. QED
    BY <1>0, <2>1, <2>2, GenerationFrame
<1>5. CASE Admit(t) \/ AdmitState(t) \/ GenLock(t) \/ DrainEnd(t) \/ Touch(t)
  <2>1. /\ UNCHANGED <<worker, engine>>
        /\ \E l : l # "drain" /\ pc' = [pc EXCEPT ![t] = l]
        /\ \E v : reply' = [reply EXCEPT ![t] = v] \/ reply' = reply
    BY <1>5 DEF Admit, AdmitState, GenLock, DrainEnd, Touch, Goto, Finish,
          local, owned
  <2>2. Waiting(c)
    BY <1>0, <2>1 DEF Waiting
  <2>3. QED
    BY <1>0, <2>1, <2>2, GenerationFrame
<1>6. QED
  BY <1>1, <1>2, <1>3, <1>4, <1>5 DEF TaskStep, Ensure

\* The steps of worker threads lose no accepted generation.
LEMMA GenerationWorker ==
    ASSUME IInv, GenerationNeverLost, NEW w \in Engines, WorkerStep(w),
           NEW c \in Clients, Waiting(c)'
    PROVE  Held(c)'
<1>0. /\ TypeOK /\ QueueDiscipline /\ worker[w] \in Workers
      /\ worker \in [Engines -> Workers]
      /\ engine \in Engines \cup {NoEngine}
  BY DEF IInv, TypeOK
<1>1. CASE WorkerShutdown(w)
  <2>1. /\ worker' = [worker EXCEPT ![w] = NoWorker]
        /\ UNCHANGED <<pc, reply, engine>>
    BY <1>1 DEF WorkerShutdown, owned, local
  <2>2. w # engine
    BY <1>1, QueueShutdown
  <2>3. Waiting(c) /\ engine # NoEngine /\ engine \in Engines
    BY <1>0, <2>1 DEF Waiting, GenerationNeverLost
  <2>4. worker'[engine] = worker[engine]
    BY <1>0, <2>1, <2>2, <2>3
  <2>5. QED
    BY <2>1, <2>3, <2>4 DEF Waiting, GenerationNeverLost, Held
<1>2. CASE \/ WorkerLoadOk(w) \/ WorkerLoadFail(w) \/ WorkerGenerateEnd(w)
           \/ WorkerUnload(w)
  <2>1. /\ worker[w].alive /\ worker[w].queue # <<>>
        /\ Head(worker[w].queue).op # "shutdown"
        /\ UNCHANGED <<pc, engine>>
        /\ \E v \in {"ok", "err"} : Answer(w, v)
    BY <1>2 DEF WorkerLoadOk, WorkerLoadFail, WorkerGenerateEnd, WorkerUnload,
          WorkerAt, owned
  <2>2. Popped(w) \in Workers /\ Popped(w).queue = Tail(worker[w].queue)
    BY <1>0, <2>1, PoppedType DEF Popped, Workers
  <2>3. worker'[w].queue = Popped(w).queue
    <3>1. CASE WorkerLoadOk(w)
      BY <1>0, <2>2, <3>1 DEF WorkerLoadOk, Workers
    <3>2. CASE WorkerLoadFail(w)
      BY <1>0, <2>2, <3>2 DEF WorkerLoadFail, Workers
    <3>3. CASE WorkerGenerateEnd(w)
      BY <1>0, <3>3 DEF WorkerGenerateEnd
    <3>4. CASE WorkerUnload(w)
      BY <1>0, <2>2, <3>4 DEF WorkerUnload, Workers
    <3>5. QED
      BY <1>2, <3>1, <3>2, <3>3, <3>4
  <2>4. w = engine
    BY <1>0, <2>1, WorkingIsInstalled
  <2>5. QED
    BY <1>0, <2>1, <2>2, <2>3, <2>4, GenerationPop DEF Held
<1>3. CASE WorkerLoadBegin(w) \/ WorkerLazyLoadOk(w) \/ WorkerGenerateBegin(w)
  <2>1. UNCHANGED <<pc, reply, engine>>
    BY <1>3 DEF WorkerLoadBegin, WorkerLazyLoadOk, WorkerGenerateBegin, owned,
          local
  <2>2. \A v \in Engines : worker'[v].queue = worker[v].queue
    BY <1>0, <1>3, PhaseRecord
  <2>3. Waiting(c) /\ engine # NoEngine /\ engine \in Engines
    BY <1>0, <2>1 DEF Waiting, GenerationNeverLost
  <2>4. QED
    BY <2>1, <2>2, <2>3 DEF Waiting, GenerationNeverLost, Held
<1>4. QED
  BY <1>1, <1>2, <1>3 DEF WorkerStep

\* The steps of the watchdog lose no accepted generation.
LEMMA GenerationWatchdog ==
    ASSUME IInv, GenerationNeverLost, WatchdogStep,
           NEW c \in Clients, Waiting(c)'
    PROVE  Held(c)'
<1>0. /\ TypeOK /\ QueueDiscipline /\ c \in Tasks /\ c # Watchdog
      /\ Watchdog \in Tasks
      /\ pc \in [Tasks -> Labels] /\ reply \in [Tasks -> {"none", "ok", "err"}]
      /\ worker \in [Engines -> Workers]
      /\ engine \in Engines \cup {NoEngine}
  BY TaskAssumption DEF IInv, TypeOK, Tasks
<1>1. Waiting(c)
  BY <1>0 DEF Waiting, WatchdogStep, WatchdogWake, WatchdogMode, WatchdogIdle,
        WatchdogState, UnloadMark, UnloadLock, UnloadReplied, UnloadClear,
        UnloadDone, Goto, local
<1>2. engine # NoEngine /\ engine \in Engines
  BY <1>0, <1>1 DEF Waiting, GenerationNeverLost
<1>3. CASE \/ WatchdogWake \/ WatchdogMode \/ WatchdogIdle \/ WatchdogState
           \/ UnloadMark \/ UnloadReplied \/ UnloadDone
  <2>1. UNCHANGED <<worker, engine>>
    BY <1>3 DEF WatchdogWake, WatchdogMode, WatchdogIdle, WatchdogState,
          UnloadMark, UnloadReplied, UnloadDone, owned
  <2>2. QED
    BY <1>0, <1>1, <2>1, GenerationFrame
<1>4. CASE UnloadLock
  <2> DEFINE x == [op |-> "unload", owner |-> Watchdog]
             r == Send(engine, "unload", Watchdog)
  <2>1. worker' = [worker EXCEPT ![engine] = r] /\ engine' = engine
    BY <1>2, <1>4 DEF UnloadLock
  <2>2. /\ worker[engine] \in Workers
        /\ worker[engine].queue \in Seq(Commands) /\ x \in Commands
    BY <1>0, <1>2 DEF Workers, Commands
  <2>3. r.queue = Append(worker[engine].queue, x)
    BY <2>2 DEF Send, Workers
  <2> HIDE DEF r
  <2>4. worker'[engine].queue = Append(worker[engine].queue, x)
    BY <1>0, <1>2, <2>1, <2>3
  <2>5. QED
    BY <1>0, <1>1, <1>2, <2>1, <2>2, <2>4, GenerationExtend DEF Held
<1>5. CASE UnloadClear
  <2>1. UnloadAnswered
    BY <1>5 DEF UnloadClear, UnloadAnswered
  <2>2. worker[engine].queue = <<>>
    BY <1>0, <1>2, <2>1 DEF QueueDiscipline, InstalledWorker
  <2>3. DOMAIN worker[engine].queue = {}
    BY <2>2
  <2>4. QED
    BY <1>1, <2>3 DEF Waiting, GenerationNeverLost
<1>6. QED
  BY <1>3, <1>4, <1>5 DEF WatchdogStep

\* No step loses an accepted generation.
LEMMA GenerationStep ==
    IInv /\ GenerationNeverLost /\ [Next]_vars => GenerationNeverLost'
<1> SUFFICES ASSUME IInv, GenerationNeverLost, [Next]_vars,
                    NEW c \in Clients, Waiting(c)'
             PROVE  Held(c)'
  BY DEF GenerationNeverLost, Waiting, Held
<1>0. /\ TypeOK /\ c \in Tasks
      /\ pc \in [Tasks -> Labels] /\ reply \in [Tasks -> {"none", "ok", "err"}]
  BY DEF IInv, TypeOK, Tasks
<1>1. ASSUME NEW d \in Clients, ClientInput(d)
      PROVE  Held(c)'
  <2>1. /\ engine' = engine
        /\ \E l : l # "drain" /\ pc' = [pc EXCEPT ![d] = l]
        /\ \E v : reply' = [reply EXCEPT ![d] = v] \/ reply' = reply
        /\ worker' = worker \/ worker' = Disown(d)
    BY <1>1 DEF ClientInput, StartRequest, ClientSetMode, SetMode,
          StreamDisconnect, Cancel, Begin, Finish, Goto, local, owned
  <2>2. d # c /\ Waiting(c)
    BY <1>0, <2>1 DEF Waiting
  <2>3. CASE worker' = worker
    BY <1>0, <2>1, <2>2, <2>3, GenerationFrame
  <2>4. CASE worker' = Disown(d)
    BY <1>0, <2>1, <2>2, <2>4, GenerationDisown DEF Held
  <2>5. QED
    BY <2>1, <2>3, <2>4
<1>2. ASSUME \/ MainPreload \/ MainSkip
             \/ \E s \in Timeouts : SetInactivityTimeout(s)
             \/ Tick
             \/ UNCHANGED vars
      PROVE  Held(c)'
  <2>1. /\ UNCHANGED <<engine, worker, reply>>
        /\ pc' = pc \/ \E l : pc' = [pc EXCEPT ![Main] = l]
    BY <1>2 DEF MainPreload, MainSkip, SetInactivityTimeout, Tick, Begin, Goto,
          local, owned, vars
  <2>2. Waiting(c)
    BY <1>0, <2>1, TaskAssumption DEF Waiting
  <2>3. QED
    BY <1>0, <2>1, <2>2, GenerationFrame
<1>3. ASSUME NEW m \in Managers, ManagerStep(m)
      PROVE  Held(c)'
  <2>1. /\ UNCHANGED <<engine, worker>>
        /\ \E l : pc' = [pc EXCEPT ![m] = l]
        /\ \E v : reply' = [reply EXCEPT ![m] = v] \/ reply' = reply
    BY <1>3 DEF ManagerStep, ManagerReadMode, ManagerReadState, ManagerReload,
          SetMode, Begin, Finish, Goto, local, owned
  <2>2. Waiting(c)
    BY <1>0, <2>1, TaskAssumption DEF Waiting
  <2>3. QED
    BY <1>0, <2>1, <2>2, GenerationFrame
<1>4. QED
  BY <1>1, <1>2, <1>3, GenerationTask, GenerationWorker, GenerationWatchdog
     DEF Next

\* Once stream_generate or generate has queued its prompt, neither the watchdog
\* nor any other request can make the daemon forget it: the command stays in
\* the queue of the installed engine until the worker has answered.
THEOREM NoGenerationLost == Spec => []GenerationNeverLost
<1>1. Init => GenerationNeverLost
  BY TaskAssumption DEF Init, GenerationNeverLost, Tasks
<1>2. TypeOK /\ LockDiscipline /\ EngineKnown /\ WatchdogKnown /\ QueueDiscipline
        <=> IInv
  BY DEF IInv
<1>3. QED
  BY <1>1, <1>2, QueueInit, EngineStep, WatchdogPlace, GenerationStep,
     TypeCorrect, MutexExclusive, QueuesDisciplined, PTL DEF Spec
=============================================================================

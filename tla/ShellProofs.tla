----------------------------- MODULE ShellProofs -----------------------------
(***************************************************************************)
(* Proofs about what the shell and the compositor show and export.         *)
(* AiClient, for every number of prompts and every length of the event     *)
(* queue: one worker at a time, answers in order, a clean close.           *)
(* WindowList with its ContextExporter, for any windows, clicks and        *)
(* restarts: the exported context never goes back, and the taskbar never   *)
(* shows two focused windows.                                              *)
(* DesktopIcons, for any names and acts of other programs: no file of the  *)
(* desktop is lost.                                                        *)
(***************************************************************************)
EXTENDS AiClient, WindowList, DesktopIcons, FiniteSetTheorems, TLAPS

\* The worker has published its context and has not yet dropped it.
Published(g) == wpc[g] \in {"registered", "picked", "reading", "finishing"}

\* Only the latest generation's thread runs, and none after the close.
Threads ==
    /\ \A g \in Gens : Running(g) => g = gen
    /\ \A g \in Gens : g > gen => wpc[g] = "none"
    /\ ui = "joining" => gen < MaxGens
    /\ ui \in {"closed", "crashed"} => \A g \in Gens : ~Running(g)

\* activeContext_ holds a live context of a thread that published it; a
\* thread whose context was taken from it has been cancelled.
Contexts ==
    /\ active # None => Published(active) /\ ctx[active] = "live"
    /\ \A g \in Gens : Published(g) => active = g \/ g \in cancelled
    /\ ui \in {"stopping", "closing"} => stop
    /\ ui = "closing" => active = None

\* Events and the text on the screen are sorted by generation.  A token still
\* queued is of the latest generation or was queued when that one was started,
\* and nothing is on the screen while the UI thread waits to start one.
Order ==
    /\ \A i \in DOMAIN events :
         /\ events[i].gen <= gen
         /\ events[i].what = "token" => events[i].gen = gen \/ events[i].gen \in leftover
    /\ \A g \in text : g <= gen
    /\ ui = "joining" => text = {}
    /\ AnswersInOrder

\* The inductive invariant.
IInv == TypeOK /\ Threads /\ Contexts /\ Order

Events == [gen : Gens, what : {"token", "finished", "error"}]

\* Appending an event keeps the queue a queue, changes none of those before
\* it, and puts the new one at the end.
LEMMA AppendEvent ==
    ASSUME NEW q \in Seq(Events), NEW e \in Events
    PROVE  /\ Append(q, e) \in Seq(Events)
           /\ DOMAIN Append(q, e) = DOMAIN q \cup {Len(q) + 1}
           /\ \A i \in DOMAIN q : i \in Nat /\ i <= Len(q) /\ Append(q, e)[i] = q[i]
           /\ Append(q, e)[Len(q) + 1] = e
  OBVIOUS

\* Delivering the first event shifts the others by one place.
LEMMA TailEvents ==
    ASSUME NEW q \in Seq(Events), q # <<>>
    PROVE  /\ Head(q) \in Events /\ Head(q) = q[1] /\ 1 \in DOMAIN q
           /\ Tail(q) \in Seq(Events)
           /\ \A i \in DOMAIN Tail(q) :
                /\ i \in Nat /\ i + 1 \in DOMAIN q /\ 1 < i + 1
                /\ Tail(q)[i] = q[i + 1]
  OBVIOUS

\* Late events are events of generations.
LEMMA LateType == events \in Seq(Events) => Late \subseteq Gens
<1>1. ASSUME NEW q \in Seq(Events)
      PROVE  \A i \in DOMAIN q : q[i].gen \in Gens
  <2>1. \A e \in Events : e.gen \in Gens
    BY DEF Events
  <2>2. \A i \in DOMAIN q : q[i] \in Events
    OBVIOUS
  <2>3. QED
    BY <2>1, <2>2
<1>2. QED
  BY <1>1 DEF Late

\* workerStop_ is a flag, and stays one.
LEMMA StopType == stop \in BOOLEAN /\ [Next]_vars => stop' \in BOOLEAN
<1> SUFFICES ASSUME stop \in BOOLEAN, [Next]_vars
             PROVE  stop' \in BOOLEAN
  OBVIOUS
<1>1. CASE SendPrompt \/ RefusePrompt \/ Deliver \/ CloseStop \/ UiReturn
  BY <1>1, Zenon DEF SendPrompt, RefusePrompt, Deliver, CloseStop, UiReturn, Join,
     CloseCancel, CloseJoin
<1>2. ASSUME NEW found \in Statuses, pollStatus(found)
      PROVE  stop' \in BOOLEAN
  BY <1>2, Zenon DEF pollStatus
<1>3. ASSUME NEW g \in Gens, Own(g) \/ FromServer(g) \/ UseDestroyed(g)
      PROVE  stop' \in BOOLEAN
  BY <1>3, Zenon DEF Own, FromServer, UseDestroyed, Register, Pick, Open, OpenFails,
     ReadStopped, ReadToken, ReadFinished, ReadEnds, ReadGivenUp, Finish
<1>4. CASE UNCHANGED vars \/ Terminated
  BY <1>4, Zenon DEF Terminated, vars
<1>5. QED
  BY <1>1, <1>2, <1>3, <1>4, Zenon DEF Next

\* Every step keeps the types.
LEMMA TypeStep == TypeOK /\ Threads /\ [Next]_vars => TypeOK'
<1> SUFFICES ASSUME TypeOK, Threads, [Next]_vars
             PROVE  TypeOK'
  OBVIOUS
<1>0. stop' \in BOOLEAN
  BY StopType DEF TypeOK
<1> USE <1>0, BoundAssumption DEF TypeOK, Gens, None, Goto, ResetActive, contexts, screen
<1>1. CASE SendPrompt \/ RefusePrompt
  BY <1>1 DEF SendPrompt, RefusePrompt, CancelActive
<1>2. CASE Deliver
  <2>1. Head(events) \in Events /\ Tail(events) \in Seq(Events)
    BY <1>2, TailEvents DEF Deliver, Events
  <2>2. text' \subseteq Gens /\ panel' \in {"Idle", "Loading", "Thinking", "Executing"}
    BY <1>2, <2>1 DEF Deliver, Events
  <2>3. QED
    BY <1>2, <2>1, <2>2 DEF Deliver, Events
<1>3. ASSUME NEW found \in Statuses, pollStatus(found)
      PROVE  TypeOK'
  BY <1>3 DEF pollStatus
<1>4. CASE CloseStop \/ UiReturn
  <2>1. CASE CloseStop \/ CloseCancel
    BY <2>1 DEF CloseStop, CloseCancel, CancelActive
  <2>2. CASE Join
    <3>1. Late \subseteq Gens
      BY LateType DEF Events
    <3>2. QED
      BY <2>2, <3>1 DEF Join, Threads
  <2>3. CASE CloseJoin
    BY <2>3 DEF CloseJoin
  <2>4. QED
    BY <1>4, <2>1, <2>2, <2>3 DEF UiReturn
<1>5. ASSUME NEW g \in Gens, Own(g) \/ FromServer(g) \/ UseDestroyed(g)
      PROVE  TypeOK'
  <2>1. \A w \in {"token", "finished", "error"} :
          Append(events, [gen |-> g, what |-> w]) \in Seq(Events)
    BY AppendEvent DEF Events
  <2>2. CASE Register(g)
    BY <2>2 DEF Register
  <2>3. CASE Pick(g) \/ Open(g)
    BY <2>3 DEF Pick, Open
  <2>4. CASE OpenFails(g) \/ Finish(g)
    BY <2>1, <2>4 DEF OpenFails, Finish, Post, Events
  <2>5. CASE ReadStopped(g) \/ ReadEnds(g) \/ ReadGivenUp(g)
    BY <2>5 DEF ReadStopped, ReadEnds, ReadGivenUp
  <2>6. CASE ReadToken(g) \/ ReadFinished(g)
    BY <2>1, <2>6 DEF ReadToken, ReadFinished, Post, Events
  <2>7. CASE UseDestroyed(g)
    BY <2>7 DEF UseDestroyed
  <2>8. QED
    BY <1>5, <2>2, <2>3, <2>4, <2>5, <2>6, <2>7 DEF Own, FromServer
<1>6. CASE UNCHANGED vars \/ Terminated
  BY <1>6 DEF Terminated, vars
<1>7. QED
  BY <1>1, <1>2, <1>3, <1>4, <1>5, <1>6 DEF Next

\* A prompt waits for the previous thread, the close waits for the last one,
\* and a thread runs from its start to its exit without another.
LEMMA ThreadsStep ==
    TypeOK /\ Threads /\ Contexts /\ [Next]_vars => Threads' /\ Contexts'
<1> SUFFICES ASSUME TypeOK, Threads, Contexts, [Next]_vars
             PROVE  Threads' /\ Contexts'
  OBVIOUS
<1>0. /\ gen \in Nat /\ active \in Gens \cup {None}
      /\ \A g \in Gens : g \in Nat /\ g # None
      /\ wpc \in [Gens -> {"none", "start", "registered", "picked", "reading",
                           "finishing", "exited"}]
      /\ ctx \in [Gens -> {"none", "live", "destroyed"}]
  BY BoundAssumption DEF TypeOK, Gens, None
<1> USE <1>0 DEF Threads, Contexts, Running, Published, contexts
<1>1. CASE SendPrompt \/ RefusePrompt \/ Deliver \/ CloseStop
  BY <1>1 DEF SendPrompt, RefusePrompt, Deliver, CloseStop, CancelActive, ResetActive
<1>2. ASSUME NEW found \in Statuses, pollStatus(found)
      PROVE  Threads' /\ Contexts'
  BY <1>2 DEF pollStatus
<1>3. CASE UiReturn
  <2>1. CASE Join
    <3>1. gen' \in Gens /\ gen' = gen + 1
      BY <2>1, BoundAssumption DEF Join, Gens
    <3>2. wpc' = [wpc EXCEPT ![gen'] = "start"]
      BY <2>1, <3>1 DEF Join, Goto
    <3>3. QED
      BY <2>1, <3>1, <3>2 DEF Join
  <2>2. CASE CloseCancel
    BY <2>2 DEF CloseCancel, CancelActive, ResetActive
  <2>3. CASE CloseJoin
    BY <2>3 DEF CloseJoin
  <2>4. QED
    BY <1>3, <2>1, <2>2, <2>3 DEF UiReturn
<1>4. ASSUME NEW g \in Gens, Own(g) \/ FromServer(g) \/ UseDestroyed(g)
      PROVE  Threads' /\ Contexts'
  <2>1. Running(g) /\ g = gen
    BY <1>4 DEF Own, FromServer, UseDestroyed, Register, Pick, Open, OpenFails,
       ReadStopped, ReadToken, ReadFinished, ReadEnds, ReadGivenUp, Finish
  <2> USE <2>1 DEF Goto, ResetActive
  <2>3. CASE Register(g)
    BY <2>3 DEF Register
  <2>4. CASE Pick(g) \/ Open(g)
    BY <2>4 DEF Pick, Open
  <2>5. CASE OpenFails(g) \/ Finish(g) \/ ReadStopped(g)
    BY <2>5 DEF OpenFails, Finish, ReadStopped
  <2>6. CASE ReadToken(g) \/ ReadFinished(g) \/ ReadEnds(g) \/ ReadGivenUp(g)
    BY <2>6 DEF ReadToken, ReadFinished, ReadEnds, ReadGivenUp
  <2>7. CASE UseDestroyed(g)
    BY <2>7 DEF UseDestroyed
  <2>8. QED
    BY <1>4, <2>3, <2>4, <2>5, <2>6, <2>7 DEF Own, FromServer
<1>5. CASE UNCHANGED vars \/ Terminated
  BY <1>5 DEF Terminated, vars
<1>6. QED
  BY <1>1, <1>2, <1>3, <1>4, <1>5 DEF Next

\* A new event is of the latest generation, and the queue is read in order.
LEMMA OrderStep ==
    TypeOK /\ Threads /\ Order /\ [Next]_vars => Order'
<1> SUFFICES ASSUME TypeOK, Threads, Order, [Next]_vars
             PROVE  Order'
  OBVIOUS
<1>0. /\ gen \in Nat /\ events \in Seq(Events) /\ text \subseteq Nat
      /\ \A g \in Gens : g \in Nat
      /\ \A e \in Events : e.gen \in Nat
  BY BoundAssumption DEF TypeOK, Gens, Events
<1> USE <1>0 DEF Order, AnswersInOrder
<1>1. CASE SendPrompt \/ RefusePrompt
  BY <1>1 DEF SendPrompt, RefusePrompt
<1>2. CASE UNCHANGED <<gen, events, text, leftover>> /\ (ui' = "joining" => ui = "joining")
  BY <1>2
<1>3. CASE Deliver
  <2> DEFINE e == Head(events)
  <2>1. /\ e = events[1] /\ 1 \in DOMAIN events /\ e.gen \in Nat
        /\ \A i \in DOMAIN events : i \in Nat /\ events[i].gen \in Nat
    BY <1>3, TailEvents DEF Deliver
  <2>2. \A i \in DOMAIN events' :
          i \in Nat /\ i + 1 \in DOMAIN events /\ 1 < i + 1 /\ events'[i] = events[i + 1]
    BY <1>3, TailEvents DEF Deliver
  <2>3. /\ gen' = gen /\ leftover' = leftover /\ text' \subseteq text \cup {e.gen}
        /\ e.what = "token" \/ text' = {}
        /\ ui' = "idle"
    BY <1>3 DEF Deliver
  <2> HIDE DEF e
  <2>4. \A i \in DOMAIN events' : events'[i].gen <= gen /\ e.gen <= events'[i].gen
    BY <2>1, <2>2
  <2>5. \A i, j \in DOMAIN events' : i < j => events'[i].gen <= events'[j].gen
    <3>1. SUFFICES ASSUME NEW i \in DOMAIN events', NEW j \in DOMAIN events', i < j
                   PROVE  events'[i].gen <= events'[j].gen
      OBVIOUS
    <3>2. i + 1 < j + 1
      BY <2>2, <3>1
    <3>3. QED
      BY <2>2, <3>1, <3>2
  <2>6. \A g \in text' : g <= gen /\ \A i \in DOMAIN events' : g <= events'[i].gen
    BY <2>1, <2>2, <2>3, <2>4
  <2>7. \A i \in DOMAIN events' :
          events'[i].what = "token" => events'[i].gen = gen \/ events'[i].gen \in leftover
    BY <2>2
  <2>8. \A g \in text' : g = gen \/ g \in leftover
    BY <2>1, <2>3
  <2>9. QED
    BY <2>3, <2>4, <2>5, <2>6, <2>7, <2>8
<1>4. CASE Join
  <2>1. /\ gen' = gen + 1 /\ events' = events /\ text' = {} /\ text = {} /\ ui' = "idle"
        /\ \A i \in DOMAIN events : events[i].what = "token" => events[i].gen \in leftover'
    BY <1>4 DEF Join, Late, screen
  <2>2. \A i \in DOMAIN events : events[i].gen \in Nat
    BY <1>0
  <2>3. QED
    BY <2>1, <2>2
<1>5. CASE CloseJoin
  <2>1. DOMAIN events' = {} /\ UNCHANGED <<gen, text, leftover>> /\ ui' # "joining"
    BY <1>5 DEF CloseJoin
  <2>2. QED
    BY <2>1
<1>6. ASSUME NEW w \in {"token", "finished", "error"}, Post(gen, w),
             gen \in Gens, UNCHANGED <<ui, gen, text, leftover>>
      PROVE  Order'
  <2> DEFINE e == [gen |-> gen, what |-> w]
  <2>1. e \in Events /\ e.gen = gen /\ events' = Append(events, e)
    BY <1>6 DEF Events, Post
  <2> HIDE DEF e
  <2>2. QED
    BY <1>6, <2>1, AppendEvent
<1>7. CASE CloseStop \/ CloseCancel \/ Terminated \/ UNCHANGED vars
  BY <1>2, <1>7 DEF CloseStop, CloseCancel, Terminated, vars, screen
<1>8. ASSUME NEW found \in Statuses, pollStatus(found)
      PROVE  Order'
  BY <1>2, <1>8 DEF pollStatus
<1>9. ASSUME NEW g \in Gens, Own(g) \/ FromServer(g) \/ UseDestroyed(g)
      PROVE  Order'
  <2>1. g = gen
    BY <1>9 DEF Threads, Running, Own, FromServer, UseDestroyed, Register, Pick, Open,
       OpenFails, ReadStopped, ReadToken, ReadFinished, ReadEnds, ReadGivenUp, Finish
  <2>2. \/ UNCHANGED <<gen, events, text, leftover>> /\ (ui' = "joining" => ui = "joining")
        \/ /\ UNCHANGED <<ui, gen, text, leftover>>
           /\ \E w \in {"token", "finished", "error"} : Post(gen, w)
    BY <1>9, <2>1 DEF screen, Own, FromServer, UseDestroyed, Register, Pick, Open,
       OpenFails, ReadStopped, ReadToken, ReadFinished, ReadEnds, ReadGivenUp, Finish
  <2>3. QED
    BY <1>2, <1>6, <2>1, <2>2
<1>10. QED
  BY <1>1, <1>3, <1>4, <1>5, <1>7, <1>8, <1>9 DEF Next, UiReturn

\* The invariant holds however prompts, answers and the close interleave.
LEMMA Invariant == Spec => []IInv
<1>1. Init => IInv
  <2> SUFFICES ASSUME Init
               PROVE  IInv
    OBVIOUS
  <2> USE DEF Init
  <2>1. stop \in BOOLEAN
    BY Zenon
  <2>2. TypeOK
    BY <2>1, BoundAssumption DEF TypeOK, Gens, None, Statuses
  <2>3. Threads /\ Contexts
    BY BoundAssumption DEF Threads, Contexts, Running, Published, None
  <2>4. DOMAIN events = {}
    OBVIOUS
  <2>5. Order
    BY <2>4 DEF Order, AnswersInOrder
  <2>6. QED
    BY <2>2, <2>3, <2>5 DEF IInv
<1>2. IInv /\ [Next]_vars => IInv'
  BY TypeStep, ThreadsStep, OrderStep DEF IInv
<1>3. QED
  BY <1>1, <1>2, PTL DEF Spec

\* However fast prompts follow one another, a worker only ever destroys its
\* own context, tokens reach the panel in the order of the prompts, and the only
\* tokens of an earlier answer that streamingText takes up are those that were
\* still queued when the latest thread was started.
THEOREM OneAnswerAtATime == Spec => []OneAtATime
<1>1. IInv => OneAtATime
  <2> SUFFICES ASSUME IInv
               PROVE  OneAtATime
    OBVIOUS
  <2>1. ASSUME active # None
        PROVE  Running(active) /\ \A g \in Gens : Running(g) => g = active
    <3>1. active \in Gens /\ Running(active)
      BY <2>1 DEF IInv, TypeOK, Contexts, Published, Running
    <3>2. QED
      BY <3>1 DEF IInv, Threads
  <2>2. OwnContextOnly
    BY <2>1 DEF OwnContextOnly
  <2>3. QED
    BY <2>2 DEF IInv, Order, OneAtATime
<1>2. QED
  BY <1>1, Invariant, PTL

\* At whatever moment the shell quits, past the destructor's cancellation no
\* stream is open that was not cancelled, and no thread outlives the client.
THEOREM CleanClose == Spec => []ClosesCleanly
<1>1. IInv => ClosesCleanly
  <2> SUFFICES ASSUME IInv
               PROVE  ClosesCleanly
    OBVIOUS
  <2>1. CloseCancels
    BY DEF IInv, TypeOK, None, Gens, Contexts, Published, CloseCancels
  <2>2. ClosedIsQuiet
    BY DEF IInv, Threads, ClosedIsQuiet
  <2>3. QED
    BY <2>1, <2>2 DEF ClosesCleanly
<1>2. QED
  BY <1>1, Invariant, PTL

-----------------------------------------------------------------------------
(* The exported context.                                                   *)

\* At most one write is in flight, of a version that the file has not passed,
\* and pendingFlush is set until its continuation has run.
OneWrite ==
    /\ activeWindow.version \in Nat /\ file \in Nat /\ written \in {0, 1}
    /\ \A v \in writing : v \in Nat /\ file <= v /\ v <= activeWindow.version
    /\ file <= activeWindow.version
    /\ \A v, w \in writing : v = w
    /\ writing # {} \/ written = 1 => pendingFlush
    /\ written = 1 => writing = {}

exporter == <<activeWindow, flushTimer, pendingFlush, writing, written, file, skipped, failed>>

\* The focus reaches the exporter through setActive, the end of the
\* compositor through flush; nothing else in the session touches it.
LEMMA ExporterKinds ==
    ASSUME [WinNext]_winVars
    PROVE  \/ \E w \in DOMAIN windows \cup {NoWindow} : setActive(w)
           \/ onFlushTimer \/ writeDone \/ \E v \in writing : writeToDisk(v)
           \/ UNCHANGED exporter
<1>1. CASE Session
  BY <1>1 DEF Session, registerWindow, unregisterWindow, minimize, minimizes,
              updateWindowMetadata, focus, focusMoves, quit, flush,
              exporterVars, exporter
<1>2. CASE takeCall
  BY <1>2 DEF takeCall, activates, minimizes, focusMoves, exporterVars, exporter
<1>3. CASE receive \/ restart
  BY <1>3 DEF receive, restart, exporterVars, exporter
<1>4. CASE Exporting
  BY <1>4 DEF Exporting, ExporterStep, timeout
<1>5. CASE \E w \in DOMAIN rows, method \in Commands \cup {"toggle"} : click(w, method)
  BY <1>5 DEF click, exporterVars, exporter
<1>6. CASE UNCHANGED winVars
  BY <1>6 DEF winVars, exporterVars, exporter
<1>7. QED
  BY <1>1, <1>2, <1>3, <1>4, <1>5, <1>6 DEF WinNext

\* No write starts while one is in flight, so that each replaces an older one.
LEMMA WritesInOrder ==
    ASSUME OneWrite, [WinNext]_winVars
    PROVE  OneWrite' /\ file' >= file
<1> USE DEF OneWrite
<1>1. CASE \E w : setActive(w)
  <2>1. UNCHANGED <<pendingFlush, writing, written, file>>
    BY <1>1 DEF setActive, exporterVars
  <2>2. activeWindow'.version \in {activeWindow.version, activeWindow.version + 1}
    BY <1>1 DEF setActive, exporterVars
  <2>3. QED
    BY <2>1, <2>2
<1>2. CASE onFlushTimer
  <2>1. UNCHANGED <<activeWindow, written, file>>
    BY <1>2 DEF onFlushTimer
  <2>2. CASE pendingFlush
    BY <1>2, <2>1, <2>2 DEF onFlushTimer
  <2>3. CASE ~pendingFlush
    BY <1>2, <2>1, <2>3 DEF onFlushTimer
  <2>4. QED
    BY <2>2, <2>3
<1>3. CASE writeDone
  BY <1>3 DEF writeDone
<1>4. ASSUME NEW v \in writing, writeToDisk(v)
      PROVE  OneWrite' /\ file' >= file
  <2>1. writing' = {} /\ written' = 1 /\ UNCHANGED <<activeWindow, pendingFlush>>
    BY <1>4 DEF writeToDisk
  <2>2. file' \in {v, file}
    BY <1>4 DEF writeToDisk
  <2>3. QED
    BY <2>1, <2>2
<1>5. CASE UNCHANGED exporter
  BY <1>5 DEF exporter
<1>6. QED
  BY <1>1, <1>2, <1>3, <1>4, <1>5, ExporterKinds

\* However often the focus moves and the timer fires while writes run on
\* other threads, fail, or end late, the file never goes back to an older
\* context (ContextExporter::onFlushTimer, pendingFlush_).
THEOREM ContextForward == WinSpec => NeverBackwards
<1>1. WinInit => OneWrite
  BY DEF WinInit, ExporterInit, OneWrite
<1>2. OneWrite /\ [WinNext]_winVars => OneWrite'
  BY WritesInOrder
<1>3. OneWrite /\ [WinNext]_winVars => [file' >= file]_winVars
  BY WritesInOrder
<1>4. QED
  BY <1>1, <1>2, <1>3, PTL DEF WinSpec, NeverBackwards

-----------------------------------------------------------------------------
(* The taskbar's windows: the focus is handed over.                        *)

\* The windows of a list that have the focus.
Lit(ws) == {v \in DOMAIN ws : ws[v].focused}

\* Messages that may give the focus to a row, and those that take it away.
Sets(m, w) == m.type \in {"state", "focused"} /\ m.id = w /\ m.win.focused
Clears(m, w) == m.id = w /\ (m.type = "unregistered" \/ (m.type = "state" /\ ~m.win.focused))

\* v is among the focused rows f, or will be by the i-th message of q.
FocusAt(f, q, v, i) == (i = 0 /\ v \in f) \/ (i \in DOMAIN q /\ Sets(q[i], v))

\* Between the focus of one window and that of another comes the loss of the
\* first; what has no loss is what the registry says, g.
Handover(f, q, g) ==
    /\ \A i, k \in 0..Len(q) : \A v, w :
          FocusAt(f, q, v, i) /\ FocusAt(f, q, w, k) /\ i <= k /\ v # w
             => \E j \in DOMAIN q : i < j /\ j < k /\ Clears(q[j], v)
    /\ \A i \in 0..Len(q) : \A v :
          FocusAt(f, q, v, i) /\ (\A j \in DOMAIN q : i < j => ~Clears(q[j], v)) => v \in g

\* A message that is sent: nothing but what it says changes in the registry.
LEMMA HandoverSend ==
    ASSUME NEW M, NEW q \in Seq(M), NEW m \in M, NEW f, NEW g, NEW h, Handover(f, q, g),
           \A v : Sets(m, v) => g \subseteq {v} /\ v \in h,
           \A v \in g : v \in h \/ Clears(m, v)
    PROVE  Handover(f, Append(q, m), h)
<1> DEFINE p == Append(q, m)
           n == Len(q) + 1
<1>1. /\ Len(q) \in Nat /\ Len(p) = n /\ DOMAIN p = 1..n /\ DOMAIN q = 1..Len(q)
      /\ p[n] = m /\ \A i \in DOMAIN q : p[i] = q[i]
  OBVIOUS
<1> HIDE DEF p
<1>2. /\ \A i \in 0..Len(q) : \A v : FocusAt(f, p, v, i) <=> FocusAt(f, q, v, i)
      /\ \A v : FocusAt(f, p, v, n) <=> Sets(m, v)
  BY <1>1 DEF FocusAt
<1>3. ASSUME NEW i \in 0..n, NEW k \in 0..n, NEW v, NEW w,
             FocusAt(f, p, v, i), FocusAt(f, p, w, k), i <= k, v # w
      PROVE  \E j \in DOMAIN p : i < j /\ j < k /\ Clears(p[j], v)
  <2>0. \A a, b : Sets(m, a) /\ Sets(m, b) => a = b
    BY DEF Sets
  <2>1. CASE k \in 0..Len(q)
    <3>1. i \in 0..Len(q) /\ FocusAt(f, q, v, i) /\ FocusAt(f, q, w, k)
      BY <1>1, <1>2, <1>3, <2>1
    <3>2. \E j \in DOMAIN q : i < j /\ j < k /\ Clears(q[j], v)
      BY <1>3, <2>1, <3>1 DEF Handover
    <3>3. QED
      BY <1>1, <3>2
  <2>2. CASE k = n
    <3>1. Sets(m, w)
      BY <1>2, <1>3, <2>2
    <3>2. i \in 0..Len(q) /\ FocusAt(f, q, v, i)
      BY <1>1, <1>2, <1>3, <2>0, <2>2, <3>1
    <3>3. v \notin g
      BY <1>3, <3>1
    <3>4. \E j \in DOMAIN q : i < j /\ Clears(q[j], v)
      BY <3>2, <3>3 DEF Handover
    <3>5. QED
      BY <1>1, <2>2, <3>4
  <2>3. QED
    BY <1>1, <2>1, <2>2
<1>4. ASSUME NEW i \in 0..n, NEW v, FocusAt(f, p, v, i),
             \A j \in DOMAIN p : i < j => ~Clears(p[j], v)
      PROVE  v \in h
  <2>1. CASE i \in 0..Len(q)
    <3>1. FocusAt(f, q, v, i)
      BY <1>2, <1>4, <2>1
    <3>2. \A j \in DOMAIN q : i < j => ~Clears(q[j], v)
      BY <1>1, <1>4
    <3>3. v \in g
      BY <2>1, <3>1, <3>2 DEF Handover
    <3>4. ~Clears(m, v)
      BY <1>1, <1>4, <2>1
    <3>5. QED
      BY <3>3, <3>4
  <2>2. CASE i = n
    BY <1>2, <1>4, <2>2
  <2>3. QED
    BY <1>1, <2>1, <2>2
<1>5. Handover(f, p, h)
  BY <1>1, <1>3, <1>4 DEF Handover
<1>6. QED
  BY <1>5 DEF p

\* The first message is taken, and leaves the focused rows e.
LEMMA HandoverReceive ==
    ASSUME NEW M, NEW q \in Seq(M), q # <<>>, NEW f, NEW g, Handover(f, q, g), NEW e,
           \A v \in e : (v \in f /\ ~Clears(Head(q), v)) \/ Sets(Head(q), v)
    PROVE  Handover(e, Tail(q), g)
<1> DEFINE p == Tail(q)
           n == Len(q)
<1>1. /\ n \in Nat \ {0} /\ Len(p) = n - 1 /\ DOMAIN p = 1..(n - 1) /\ DOMAIN q = 1..n
      /\ Head(q) = q[1] /\ \A i \in 1..(n - 1) : p[i] = q[i + 1]
  OBVIOUS
<1> HIDE DEF p
\* Where a focus was before the first message was taken.
<1>2. ASSUME NEW i \in 0..(n - 1), NEW v, FocusAt(e, p, v, i)
      PROVE  \/ FocusAt(f, q, v, i + 1)
             \/ i = 0 /\ FocusAt(f, q, v, 0) /\ ~Clears(q[1], v)
  <2>1. CASE i = 0
    <3>1. v \in e
      BY <1>1, <1>2, <2>1 DEF FocusAt
    <3>2. QED
      BY <1>1, <2>1, <3>1 DEF FocusAt
  <2>2. CASE i # 0
    <3>1. i \in 1..(n - 1) /\ Sets(p[i], v)
      BY <1>1, <1>2, <2>2 DEF FocusAt
    <3>2. QED
      BY <1>1, <3>1 DEF FocusAt
  <2>3. QED
    BY <2>1, <2>2
<1>3. ASSUME NEW i \in 0..(n - 1), NEW k \in 0..(n - 1), NEW v, NEW w,
             FocusAt(e, p, v, i), FocusAt(e, p, w, k), i <= k, v # w
      PROVE  \E j \in DOMAIN p : i < j /\ j < k /\ Clears(p[j], v)
  <2>1. PICK a \in {i, i + 1} : FocusAt(f, q, v, a) /\ (a = i => i = 0 /\ ~Clears(q[1], v))
    BY <1>2, <1>3
  <2>2. PICK b \in {k, k + 1} : FocusAt(f, q, w, b) /\ (b = k => k = 0 /\ ~Clears(q[1], w))
    BY <1>2, <1>3
  <2>3. a \in 0..n /\ b \in 0..n
    BY <1>1
  <2>4. CASE a <= b
    <3>1. PICK j \in DOMAIN q : a < j /\ j < b /\ Clears(q[j], v)
      BY <1>3, <2>1, <2>2, <2>3, <2>4 DEF Handover
    <3>2. j # 1
      BY <1>1, <2>1, <3>1
    <3>3. j - 1 \in DOMAIN p /\ p[j - 1] = q[j] /\ i < j - 1 /\ j - 1 < k
      BY <1>1, <2>1, <2>2, <3>1, <3>2
    <3>4. QED
      BY <3>1, <3>3
  <2>5. CASE b < a
    <3>1. k = 0 /\ i = 0 /\ b = 0 /\ a = 1
      BY <1>1, <1>3, <2>1, <2>2, <2>5
    <3>2. \E j \in DOMAIN q : b < j /\ j < a /\ Clears(q[j], w)
      BY <1>3, <2>1, <2>2, <2>3, <2>5 DEF Handover
    <3>3. QED
      BY <1>1, <3>1, <3>2
  <2>6. QED
    BY <2>3, <2>4, <2>5
<1>4. ASSUME NEW i \in 0..(n - 1), NEW v, FocusAt(e, p, v, i),
             \A j \in DOMAIN p : i < j => ~Clears(p[j], v)
      PROVE  v \in g
  <2>1. PICK a \in {i, i + 1} : FocusAt(f, q, v, a) /\ (a = i => i = 0 /\ ~Clears(q[1], v))
    BY <1>2, <1>4
  <2>2. ASSUME NEW j \in DOMAIN q, a < j
        PROVE  ~Clears(q[j], v)
    <3>1. CASE j = 1
      BY <1>1, <2>1, <2>2, <3>1
    <3>2. CASE j # 1
      <4>1. j - 1 \in DOMAIN p /\ p[j - 1] = q[j]
        BY <1>1, <3>2
      <4>2. i < j - 1
        BY <1>1, <2>1, <2>2, <3>2
      <4>3. QED
        BY <1>4, <4>1, <4>2
    <3>3. QED
      BY <3>1, <3>2
  <2>3. a \in 0..n
    BY <1>1
  <2>4. QED
    BY <2>1, <2>2, <2>3 DEF Handover
<1>5. Handover(e, p, g)
  BY <1>1, <1>3, <1>4 DEF Handover
<1>6. QED
  BY <1>5 DEF p

-----------------------------------------------------------------------------
(* The taskbar's questions and their answers.                              *)

Asked == {"title", "appId", "minimized", "focused"}
Place(t) == IF t = "title" THEN 1 ELSE IF t = "appId" THEN 2 ELSE IF t = "minimized" THEN 3 ELSE 4

\* A question or an answer of type t for w concerns a window whose answers are
\* collected, and comes after those that were.
Awaited(t, w, sd) ==
    t \in Asked => w \in DOMAIN sd /\ Place(t) > sd[w].got /\ ~sd[w].win.focused

\* Two of them are in the order in which they are asked; the list comes alone.
InTurn(t, v, u, w) ==
    t \in Asked \cup {"list"} /\ u \in Asked \cup {"list"}
       => t # "list" /\ u # "list" /\ (v = w => Place(t) < Place(u))

\* What is on its way to the shell, then what is on its way to the compositor.
Seeding(sh, co, sd) ==
    /\ \A i \in DOMAIN sh : Awaited(sh[i].type, sh[i].id, sd)
    /\ \A i \in DOMAIN co : Awaited(co[i].method, co[i].id, sd)
    /\ \A i, k \in DOMAIN sh : i < k => InTurn(sh[i].type, sh[i].id, sh[k].type, sh[k].id)
    /\ \A i, k \in DOMAIN co : i < k => InTurn(co[i].method, co[i].id, co[k].method, co[k].id)
    /\ \A i \in DOMAIN sh, k \in DOMAIN co : InTurn(sh[i].type, sh[i].id, co[k].method, co[k].id)

LEMMA AppendIs ==
    ASSUME NEW M, NEW q \in Seq(M), NEW m \in M
    PROVE  /\ Append(q, m) \in Seq(M)
           /\ \A i \in DOMAIN Append(q, m) :
                \/ i \in DOMAIN q /\ Append(q, m)[i] = q[i] /\ i <= Len(q)
                \/ i = Len(q) + 1 /\ Append(q, m)[i] = m
           /\ \A i \in DOMAIN Append(q, m) : i \in Nat
           /\ Len(q) \in Nat
  OBVIOUS

LEMMA TailIs ==
    ASSUME NEW M, NEW q \in Seq(M), q # <<>>
    PROVE  /\ Tail(q) \in Seq(M) /\ Head(q) \in M /\ Head(q) = q[1] /\ 1 \in DOMAIN q
           /\ \A i \in DOMAIN Tail(q) :
                /\ i \in Nat /\ i + 1 \in DOMAIN q /\ 1 < i + 1 /\ Tail(q)[i] = q[i + 1]
  OBVIOUS

\* A signal is sent: it is no answer.
LEMMA SeedingSignal ==
    ASSUME NEW M, NEW sh \in Seq(M), NEW m \in M, NEW co, NEW sd, Seeding(sh, co, sd),
           m.type \notin Asked \cup {"list"}
    PROVE  Seeding(Append(sh, m), co, sd)
<1> DEFINE p == Append(sh, m)
           n == Len(sh) + 1
<1>1. /\ \A i \in DOMAIN p : i \in Nat /\ ((i \in DOMAIN sh /\ p[i] = sh[i]) \/ p[i] = m)
  BY AppendIs
<1> HIDE DEF p
<1>2. /\ \A w : Awaited(m.type, w, sd)
      /\ \A u, v, w : InTurn(m.type, v, u, w) /\ InTurn(u, v, m.type, w)
  BY DEF Awaited, InTurn
<1>3. \A i, k \in DOMAIN p : i < k => InTurn(p[i].type, p[i].id, p[k].type, p[k].id)
  BY <1>1, <1>2 DEF Seeding
<1>4. \A i \in DOMAIN p, k \in DOMAIN co : InTurn(p[i].type, p[i].id, co[k].method, co[k].id)
  BY <1>1, <1>2 DEF Seeding
<1>5. Seeding(p, co, sd)
  BY <1>1, <1>2, <1>3, <1>4 DEF Seeding
<1>6. QED
  BY <1>5 DEF p

\* A call is taken, without an answer or with one.
LEMMA SeedingTakes ==
    ASSUME NEW R, NEW sh, NEW co \in Seq(R), NEW sd, Seeding(sh, co, sd), co # <<>>
    PROVE  Seeding(sh, Tail(co), sd)
<1> DEFINE p == Tail(co)
<1>1. \A i \in DOMAIN p : i \in Nat /\ i + 1 \in DOMAIN co /\ p[i] = co[i + 1]
  BY TailIs
<1> HIDE DEF p
<1>2. \A i, k \in DOMAIN p : i < k => InTurn(p[i].method, p[i].id, p[k].method, p[k].id)
  BY <1>1 DEF Seeding
<1>3. Seeding(sh, p, sd)
  BY <1>1, <1>2 DEF Seeding
<1>4. QED
  BY <1>3 DEF p

LEMMA SeedingAnswers ==
    ASSUME NEW M, NEW R, NEW sh \in Seq(M), NEW co \in Seq(R), NEW sd, Seeding(sh, co, sd), co # <<>>,
           NEW m \in M, m.type = Head(co).method, m.id = Head(co).id
    PROVE  Seeding(Append(sh, m), Tail(co), sd)
<1> DEFINE p == Append(sh, m)
           r == Tail(co)
<1>1. /\ \A i \in DOMAIN p : \/ i \in DOMAIN sh /\ p[i] = sh[i] /\ i <= Len(sh)
                             \/ i = Len(sh) + 1 /\ p[i] = m
      /\ \A i \in DOMAIN p : i \in Nat
      /\ Len(sh) \in Nat
  BY AppendIs
<1>2. /\ \A i \in DOMAIN r : i \in Nat /\ i + 1 \in DOMAIN co /\ 1 < i + 1 /\ r[i] = co[i + 1]
      /\ Head(co) = co[1] /\ 1 \in DOMAIN co
  BY TailIs
<1> HIDE DEF p, r
<1>3. \A i \in DOMAIN p : Awaited(p[i].type, p[i].id, sd)
  BY <1>1, <1>2 DEF Seeding
<1>4. \A i, k \in DOMAIN p : i < k => InTurn(p[i].type, p[i].id, p[k].type, p[k].id)
  <2> SUFFICES ASSUME NEW i \in DOMAIN p, NEW k \in DOMAIN p, i < k
               PROVE  InTurn(p[i].type, p[i].id, p[k].type, p[k].id)
    OBVIOUS
  <2>1. i \in DOMAIN sh /\ p[i] = sh[i]
    BY <1>1
  <2>2. CASE k \in DOMAIN sh /\ p[k] = sh[k]
    BY <2>1, <2>2 DEF Seeding
  <2>3. CASE p[k] = m
    BY <1>2, <2>1, <2>3 DEF Seeding
  <2>4. QED
    BY <1>1, <2>2, <2>3
<1>5. \A i, k \in DOMAIN r : i < k => InTurn(r[i].method, r[i].id, r[k].method, r[k].id)
  BY <1>2 DEF Seeding
<1>6. \A i \in DOMAIN p, k \in DOMAIN r : InTurn(p[i].type, p[i].id, r[k].method, r[k].id)
  <2> SUFFICES ASSUME NEW i \in DOMAIN p, NEW k \in DOMAIN r
               PROVE  InTurn(p[i].type, p[i].id, r[k].method, r[k].id)
    OBVIOUS
  <2>1. CASE i \in DOMAIN sh /\ p[i] = sh[i]
    BY <1>2, <2>1 DEF Seeding
  <2>2. CASE p[i] = m
    BY <1>2, <2>2 DEF Seeding
  <2>3. QED
    BY <1>1, <2>1, <2>2
<1>7. \A i \in DOMAIN r : Awaited(r[i].method, r[i].id, sd)
  BY <1>2 DEF Seeding
<1>8. Seeding(p, r, sd)
  BY <1>3, <1>4, <1>5, <1>6, <1>7 DEF Seeding
<1>9. QED
  BY <1>8 DEF p, r

\* A click is no question.
LEMMA SeedingClick ==
    ASSUME NEW R, NEW sh, NEW co \in Seq(R), NEW sd, Seeding(sh, co, sd), NEW r \in R,
           r.method \notin Asked \cup {"list"}
    PROVE  Seeding(sh, Append(co, r), sd)
<1> DEFINE p == Append(co, r)
<1>1. \A i \in DOMAIN p : i \in Nat /\ ((i \in DOMAIN co /\ p[i] = co[i]) \/ p[i] = r)
  BY AppendIs
<1> HIDE DEF p
<1>2. /\ \A w : Awaited(r.method, w, sd)
      /\ \A u, v, w : InTurn(r.method, v, u, w) /\ InTurn(u, v, r.method, w)
  BY DEF Awaited, InTurn
<1>3. \A i, k \in DOMAIN p : i < k => InTurn(p[i].method, p[i].id, p[k].method, p[k].id)
  BY <1>1, <1>2 DEF Seeding
<1>4. \A i \in DOMAIN sh, k \in DOMAIN p : InTurn(sh[i].type, sh[i].id, p[k].method, p[k].id)
  BY <1>1, <1>2 DEF Seeding
<1>5. Seeding(sh, p, sd)
  BY <1>1, <1>2, <1>3, <1>4 DEF Seeding
<1>6. QED
  BY <1>5 DEF p

\* A signal is received.
LEMMA SeedingReceives ==
    ASSUME NEW M, NEW sh \in Seq(M), NEW co, NEW sd, Seeding(sh, co, sd), sh # <<>>
    PROVE  Seeding(Tail(sh), co, sd)
<1> DEFINE p == Tail(sh)
<1>1. \A i \in DOMAIN p : i \in Nat /\ i + 1 \in DOMAIN sh /\ p[i] = sh[i + 1]
  BY TailIs
<1> HIDE DEF p
<1>2. \A i, k \in DOMAIN p : i < k => InTurn(p[i].type, p[i].id, p[k].type, p[k].id)
  BY <1>1 DEF Seeding
<1>3. Seeding(p, co, sd)
  BY <1>1, <1>2 DEF Seeding
<1>4. QED
  BY <1>3 DEF p

\* An answer is received.
LEMMA SeedingCollects ==
    ASSUME NEW M, NEW sh \in Seq(M), NEW co, NEW sd, Seeding(sh, co, sd), sh # <<>>,
           Head(sh).type \in Asked, NEW sc, NEW w, w = Head(sh).id,
           sd[w].got \in 0..3,
           \A v \in DOMAIN sd \ {w} : v \in DOMAIN sc /\ sc[v] = sd[v],
           sd[w].got < 3 => /\ w \in DOMAIN sc /\ sc[w].got = sd[w].got + 1
                            /\ sc[w].win.focused => Head(sh).type = "focused"
    PROVE  Seeding(Tail(sh), co, sc)
<1> DEFINE p == Tail(sh)
           m == Head(sh)
<1>1. /\ \A i \in DOMAIN p : i \in Nat /\ i + 1 \in DOMAIN sh /\ p[i] = sh[i + 1] /\ 1 < i + 1
      /\ m = sh[1] /\ 1 \in DOMAIN sh
  BY TailIs
<1> HIDE DEF p, m
<1>2. Seeding(p, co, sd)
  BY SeedingReceives DEF p
\* What comes later for w comes after the answer received.
<1>3. ASSUME NEW t, Awaited(t, w, sd), InTurn(m.type, w, t, w)
      PROVE  Awaited(t, w, sc)
  <2> SUFFICES ASSUME t \in Asked
               PROVE  w \in DOMAIN sc /\ Place(t) > sc[w].got /\ ~sc[w].win.focused
    BY DEF Awaited
  <2>1. Awaited(m.type, w, sd)
    BY <1>1 DEF Seeding, m
  <2>2. m.type \in Asked /\ Place(m.type) > sd[w].got /\ Place(m.type) < Place(t)
    BY <1>3, <2>1 DEF InTurn, Awaited, m
  <2>3. Place(t) \in 1..4 /\ Place(m.type) \in 1..4 /\ (m.type = "focused" => Place(m.type) = 4)
    BY DEF Place
  <2>4. sd[w].got < 3 /\ m.type # "focused"
    BY <2>2, <2>3
  <2>5. w \in DOMAIN sc /\ sc[w].got = sd[w].got + 1 /\ ~sc[w].win.focused
    BY <2>4 DEF m
  <2>6. QED
    BY <2>2, <2>3, <2>5
<1>4. ASSUME NEW t, NEW v, v # w, Awaited(t, v, sd)
      PROVE  Awaited(t, v, sc)
  BY <1>4 DEF Awaited
<1>5. ASSUME NEW i \in DOMAIN p
      PROVE  Awaited(p[i].type, p[i].id, sc)
  <2>1. Awaited(p[i].type, p[i].id, sd)
    BY <1>2 DEF Seeding
  <2>2. InTurn(m.type, m.id, p[i].type, p[i].id)
    BY <1>1 DEF Seeding
  <2>3. QED
    BY <1>3, <1>4, <2>1, <2>2 DEF m
<1>6. ASSUME NEW i \in DOMAIN co
      PROVE  Awaited(co[i].method, co[i].id, sc)
  <2>1. Awaited(co[i].method, co[i].id, sd)
    BY <1>2 DEF Seeding
  <2>2. InTurn(m.type, m.id, co[i].method, co[i].id)
    BY <1>1 DEF Seeding
  <2>3. QED
    BY <1>3, <1>4, <2>1, <2>2 DEF m
<1>7. Seeding(p, co, sc)
  BY <1>2, <1>5, <1>6 DEF Seeding
<1>8. QED
  BY <1>7 DEF p

\* Every window of a finite set has its place in the list, once.
LEMMA ListedOnce ==
    ASSUME NEW S, IsFiniteSet(S)
    PROVE  /\ SetToSeq(S) \in [1..Cardinality(S) -> S] /\ Cardinality(S) \in Nat
           /\ \A i, k \in 1..Cardinality(S) : SetToSeq(S)[i] = SetToSeq(S)[k] => i = k
<1> DEFINE n == Cardinality(S)
<1>1. n \in Nat /\ \E f \in [1..n -> S] : IsInjective(f)
  <2>1. n \in Nat /\ ExistsBijection(1..n, S)
    BY FS_CardinalityType
  <2>2. QED
    BY <2>1 DEF ExistsBijection, Bijection, Injection, IsInjective
<1>2. SetToSeq(S) \in [1..n -> S] /\ IsInjective(SetToSeq(S))
  BY <1>1 DEF SetToSeq
<1>3. QED
  BY <1>1, <1>2 DEF IsInjective

LEMMA RequestIs ==
    ASSUME NEW A, NEW S, NEW W, S \subseteq W, NEW a \in A, NEW b \in S, NEW c, c = [method |-> a, id |-> b]
    PROVE  c \in [method : A, id : W] /\ c.method = a /\ c.id = b /\ c.method \in A /\ c.id \in S
  OBVIOUS

LEMMA FunctionIsSequence == ASSUME NEW n \in Nat, NEW T, NEW f \in [1..n -> T] PROVE f \in Seq(T)
  OBVIOUS

\* The calls for one window are in the order of the answers.
LEMMA CallsForList ==
    ASSUME NEW S, NEW n \in Nat, NEW s \in [1..n -> S], NEW W, S \subseteq W,
           \A i, k \in 1..n : s[i] = s[k] => i = k
    PROVE  /\ callsFor(s) \in Seq([method : Asked, id : W])
           /\ \A i \in DOMAIN callsFor(s) : callsFor(s)[i].method \in Asked /\ callsFor(s)[i].id \in S
           /\ \A i, k \in DOMAIN callsFor(s) : i < k =>
                 InTurn(callsFor(s)[i].method, callsFor(s)[i].id, callsFor(s)[k].method, callsFor(s)[k].id)
<1> DEFINE c == callsFor(s)
<1>1. /\ Queries[1] = "title" /\ Queries[2] = "appId" /\ Queries[3] = "minimized" /\ Queries[4] = "focused"
  BY DEF Queries
<1>2. \A q \in 1..4 : Queries[q] \in Asked /\ Place(Queries[q]) = q
  BY <1>1 DEF Place, Asked
<1>3. Len(s) = n /\ DOMAIN c = 1..(4 * n)
  BY DEF callsFor
<1>4. \A i \in 1..(4 * n) : /\ 1 + ((i - 1) % 4) \in 1..4 /\ 1 + ((i - 1) \div 4) \in 1..n
                            /\ c[i] = [method |-> Queries[1 + ((i - 1) % 4)], id |-> s[1 + ((i - 1) \div 4)]]
  BY <1>3 DEF callsFor, Call
<1> HIDE DEF c
<1> DEFINE at(i) == 1 + ((i - 1) \div 4)
           on(i) == 1 + ((i - 1) % 4)
<1>5. \A i \in 1..(4 * n) : at(i) \in 1..n /\ on(i) \in 1..4
  BY <1>4
<1>6. \A i \in 1..(4 * n) : c[i] = [method |-> Queries[on(i)], id |-> s[at(i)]]
  BY <1>4
<1> HIDE DEF at, on
<1>7. ASSUME NEW i \in 1..(4 * n)
      PROVE  /\ c[i] \in [method : Asked, id : W]
             /\ c[i].method = Queries[on(i)] /\ c[i].method \in Asked
             /\ c[i].id = s[at(i)] /\ c[i].id \in S
  <2>1. Queries[on(i)] \in Asked /\ s[at(i)] \in S
    BY <1>2, <1>5
  <2>2. c[i] = [method |-> Queries[on(i)], id |-> s[at(i)]]
    BY <1>6
  <2>3. QED
    BY <2>1, <2>2, RequestIs
<1>8. c \in Seq([method : Asked, id : W])
  <2>1. c = [i \in 1..(4 * n) |-> c[i]]
    BY <1>3 DEF c, callsFor
  <2>2. c \in [1..(4 * n) -> [method : Asked, id : W]]
    BY <1>7, <2>1
  <2>3. 4 * n \in Nat
    OBVIOUS
  <2>4. QED
    BY <2>2, <2>3, FunctionIsSequence
<1>9. ASSUME NEW i \in 1..(4 * n), NEW k \in 1..(4 * n), i < k, c[i].id = c[k].id
      PROVE  Place(c[i].method) < Place(c[k].method)
  <2>1. at(i) = at(k)
    BY <1>7, <1>9, <1>5
  <2>2. on(i) < on(k)
    BY <1>9, <2>1 DEF at, on
  <2>3. QED
    BY <1>2, <1>7, <1>5, <2>2
<1>10. \A i, k \in DOMAIN c : i < k => InTurn(c[i].method, c[i].id, c[k].method, c[k].id)
  BY <1>3, <1>7, <1>9 DEF InTurn, Asked
<1>11. QED
  BY <1>3, <1>7, <1>8, <1>10 DEF c

LEMMA ConcatIs ==
    ASSUME NEW M, NEW q \in Seq(M), NEW r \in Seq(M)
    PROVE  /\ q \o r \in Seq(M)
           /\ \A i \in DOMAIN (q \o r) :
                \/ i \in DOMAIN q /\ (q \o r)[i] = q[i] /\ i <= Len(q)
                \/ i - Len(q) \in DOMAIN r /\ (q \o r)[i] = r[i - Len(q)] /\ i > Len(q)
           /\ \A i \in DOMAIN (q \o r) : i \in Nat
           /\ Len(q) \in Nat
  OBVIOUS

\* The list is received: nothing else was asked for yet.
LEMMA SeedingList ==
    ASSUME NEW M, NEW R, NEW sh \in Seq(M), NEW co \in Seq(R), NEW sd, Seeding(sh, co, sd), sh # <<>>,
           Head(sh).type = "list", NEW r \in Seq(R), NEW sc,
           \A i \in DOMAIN r : Awaited(r[i].method, r[i].id, sc),
           \A i, k \in DOMAIN r : i < k => InTurn(r[i].method, r[i].id, r[k].method, r[k].id)
    PROVE  Seeding(Tail(sh), co \o r, sc)
<1> DEFINE p == Tail(sh)
           m == Head(sh)
           c == co \o r
<1>1. /\ \A i \in DOMAIN p : i \in Nat /\ i + 1 \in DOMAIN sh /\ p[i] = sh[i + 1] /\ 1 < i + 1
      /\ m = sh[1] /\ 1 \in DOMAIN sh
  BY TailIs
<1>2. /\ \A i \in DOMAIN c : \/ i \in DOMAIN co /\ c[i] = co[i] /\ i <= Len(co)
                             \/ i - Len(co) \in DOMAIN r /\ c[i] = r[i - Len(co)] /\ i > Len(co)
      /\ \A i \in DOMAIN c : i \in Nat
      /\ Len(co) \in Nat
  BY ConcatIs
<1> HIDE DEF p, m, c
<1>3. \A i \in DOMAIN p : p[i].type \notin Asked \cup {"list"}
  <2> SUFFICES ASSUME NEW i \in DOMAIN p
               PROVE  p[i].type \notin Asked \cup {"list"}
    OBVIOUS
  <2>1. InTurn(m.type, m.id, p[i].type, p[i].id)
    BY <1>1 DEF Seeding
  <2>2. QED
    BY <2>1 DEF InTurn, m
<1>4. \A i \in DOMAIN co : co[i].method \notin Asked \cup {"list"}
  <2> SUFFICES ASSUME NEW i \in DOMAIN co
               PROVE  co[i].method \notin Asked \cup {"list"}
    OBVIOUS
  <2>1. InTurn(m.type, m.id, co[i].method, co[i].id)
    BY <1>1 DEF Seeding
  <2>2. QED
    BY <2>1 DEF InTurn, m
<1>5. /\ \A i \in DOMAIN p : Awaited(p[i].type, p[i].id, sc)
      /\ \A i, k \in DOMAIN p : InTurn(p[i].type, p[i].id, p[k].type, p[k].id)
      /\ \A i \in DOMAIN p, k \in DOMAIN c : InTurn(p[i].type, p[i].id, c[k].method, c[k].id)
  BY <1>3 DEF Awaited, InTurn
<1>6. \A i \in DOMAIN c : Awaited(c[i].method, c[i].id, sc)
  <2> SUFFICES ASSUME NEW i \in DOMAIN c
               PROVE  Awaited(c[i].method, c[i].id, sc)
    OBVIOUS
  <2>1. CASE i \in DOMAIN co /\ c[i] = co[i]
    BY <1>4, <2>1 DEF Awaited
  <2>2. CASE i - Len(co) \in DOMAIN r /\ c[i] = r[i - Len(co)]
    BY <2>2
  <2>3. QED
    BY <1>2, <2>1, <2>2
<1>7. \A i, k \in DOMAIN c : i < k => InTurn(c[i].method, c[i].id, c[k].method, c[k].id)
  <2> SUFFICES ASSUME NEW i \in DOMAIN c, NEW k \in DOMAIN c, i < k
               PROVE  InTurn(c[i].method, c[i].id, c[k].method, c[k].id)
    OBVIOUS
  <2>1. CASE c[i].method \notin Asked \cup {"list"}
    BY <2>1 DEF InTurn
  <2>2. CASE c[k].method \notin Asked \cup {"list"}
    BY <2>2 DEF InTurn
  <2>3. CASE /\ i - Len(co) \in DOMAIN r /\ c[i] = r[i - Len(co)]
             /\ k - Len(co) \in DOMAIN r /\ c[k] = r[k - Len(co)]
    <3>1. i - Len(co) < k - Len(co)
      BY <1>2
    <3>2. QED
      BY <2>3, <3>1
  <2>4. QED
    BY <1>2, <1>4, <2>1, <2>2, <2>3
<1>8. Seeding(p, c, sc)
  BY <1>5, <1>6, <1>7 DEF Seeding
<1>9. QED
  BY <1>8 DEF p, c

\* After a restart only the list is asked for.
LEMMA SeedingRestarts ==
    ASSUME NEW R, NEW co \in Seq(R), NEW r \in R, NEW sd,
           r.method = "list", \A i \in DOMAIN co : co[i].method \notin Asked \cup {"list"}
    PROVE  Seeding(<<>>, Append(co, r), sd)
<1> DEFINE p == Append(co, r)
<1>1. /\ \A i \in DOMAIN p : \/ i \in DOMAIN co /\ p[i] = co[i] /\ i <= Len(co)
                             \/ i = Len(co) + 1 /\ p[i] = r
      /\ \A i \in DOMAIN p : i \in Nat
      /\ Len(co) \in Nat
  BY AppendIs
<1> HIDE DEF p
<1>2. \A i \in DOMAIN p : Awaited(p[i].method, p[i].id, sd)
  BY <1>1 DEF Awaited, Asked
<1>3. \A i, k \in DOMAIN p : i < k => InTurn(p[i].method, p[i].id, p[k].method, p[k].id)
  <2> SUFFICES ASSUME NEW i \in DOMAIN p, NEW k \in DOMAIN p, i < k
               PROVE  p[i].method \notin Asked \cup {"list"}
    BY DEF InTurn
  <2>1. QED
    BY <1>1
<1>4. Seeding(<<>>, p, sd)
  BY <1>2, <1>3 DEF Seeding
<1>5. QED
  BY <1>4 DEF p

-----------------------------------------------------------------------------
(* The registry and what the compositor sends.                             *)

LEMMA ListIs ==
    ASSUME NEW f, f \in ListType
    PROVE  /\ DOMAIN f \subseteq Windows /\ \A v \in DOMAIN f : f[v] \in WindowType
           /\ Lit(f) \subseteq DOMAIN f
  BY DEF ListType, Lit

LEMMA PutIs ==
    ASSUME NEW f, f \in ListType, NEW w \in Windows, NEW x \in WindowType
    PROVE  /\ Put(f, w, x) \in ListType
           /\ \A v : v \in DOMAIN Put(f, w, x) <=> v \in DOMAIN f \/ v = w
           /\ \A v : v # w => (v \in Lit(Put(f, w, x)) <=> v \in Lit(f))
           /\ w \in Lit(Put(f, w, x)) <=> x.focused
<1> DEFINE p == Put(f, w, x)
<1>1. /\ DOMAIN p = DOMAIN f \cup {w} /\ p[w] = x
      /\ \A v \in DOMAIN f : v # w => p[v] = f[v]
      /\ p = [v \in DOMAIN f \cup {w} |-> p[v]]
  BY DEF Put
<1> HIDE DEF p
<1>2. DOMAIN p \in SUBSET Windows /\ \A v \in DOMAIN p : p[v] \in WindowType
  BY <1>1, ListIs
<1>3. p \in [DOMAIN p -> WindowType]
  BY <1>1, <1>2
<1>4. p \in ListType
  BY <1>2, <1>3 DEF ListType
<1>5. \A v : v # w => (v \in Lit(p) <=> v \in Lit(f))
  BY <1>1 DEF Lit
<1>6. w \in Lit(p) <=> x.focused
  BY <1>1 DEF Lit
<1>7. QED
  BY <1>1, <1>4, <1>5, <1>6 DEF p

LEMMA DropIs ==
    ASSUME NEW f, f \in ListType, NEW w
    PROVE  /\ Drop(f, w) \in ListType
           /\ \A v : v \in DOMAIN Drop(f, w) <=> v \in DOMAIN f /\ v # w
           /\ \A v : v \in Lit(Drop(f, w)) <=> v \in Lit(f) /\ v # w
<1> DEFINE p == Drop(f, w)
<1>1. /\ DOMAIN p = DOMAIN f \ {w} /\ \A v \in DOMAIN f \ {w} : p[v] = f[v]
      /\ p = [v \in DOMAIN f \ {w} |-> p[v]]
  BY DEF Drop, Restrict
<1> HIDE DEF p
<1>2. DOMAIN p \in SUBSET Windows /\ \A v \in DOMAIN p : p[v] \in WindowType
  BY <1>1, ListIs
<1>3. p \in [DOMAIN p -> WindowType]
  BY <1>1, <1>2
<1>4. p \in ListType
  BY <1>2, <1>3 DEF ListType
<1>5. Lit(p) = Lit(f) \ {w}
  BY <1>1 DEF Lit
<1>6. QED
  BY <1>1, <1>4, <1>5 DEF p

Signals == {"registered", "unregistered", "state", "metadata"}

Messages ==
    {m \in [type : Signals \cup Asked \cup {"list"}, id : Windows \cup {NoWindow},
            win : WindowType, ids : SUBSET Windows] :
        IsFiniteSet(m.ids) /\ (m.type # "list" => m.id \in Windows)}

\* The messages q on the way and the calls co agree with the taskbar, and
\* with a registry in which the windows g have the focus.
Channel(q, co, g) ==
    q \in Seq(Messages) /\ Handover(Lit(rows), q, g) /\ Seeding(q, co, seeds)

LEMMA MessageIs ==
    ASSUME NEW t, t \in Signals \cup Asked, NEW w \in Windows, NEW x \in WindowType
    PROVE  /\ Signal(t, w, x) \in Messages /\ Signal(t, w, x).type = t /\ Signal(t, w, x).id = w
           /\ Signal(t, w, x).win = x
<1>1. IsFiniteSet({}) /\ t # "list"
  BY FS_EmptySet DEF Signals, Asked
<1>2. QED
  BY <1>1 DEF Signal, Messages

LEMMA SignalSent ==
    ASSUME NEW q, NEW co, NEW g, NEW h, Channel(q, co, g), NEW m \in Messages, m.type \in Signals,
           \A v : Sets(m, v) => g \subseteq {v} /\ v \in h,
           \A v \in g : v \in h \/ Clears(m, v)
    PROVE  Channel(Append(q, m), co, h)
<1>1. q \in Seq(Messages) /\ Handover(Lit(rows), q, g) /\ Seeding(q, co, seeds)
  BY DEF Channel
<1>2. Handover(Lit(rows), Append(q, m), h)
  BY <1>1, HandoverSend
<1>3. m.type \notin Asked \cup {"list"}
  BY DEF Signals, Asked
<1>4. Seeding(Append(q, m), co, seeds)
  BY <1>1, <1>3, SeedingSignal
<1>5. QED
  BY <1>1, <1>2, <1>4 DEF Channel

LEMMA Unsent ==
    ASSUME NEW q, NEW co, NEW g, NEW h, Channel(q, co, g), g \subseteq h
    PROVE  Channel(q \o <<>>, co, h)
<1>1. q \o <<>> = q
  BY DEF Channel
<1>2. Handover(Lit(rows), q, h)
  BY DEF Channel, Handover
<1>3. QED
  BY <1>1, <1>2 DEF Channel

LEMMA OneSent ==
    ASSUME NEW q, NEW co, NEW g, Channel(q, co, g), NEW m \in Messages
    PROVE  q \o <<m>> = Append(q, m)
  BY DEF Channel

\* The state of w is sent and entered.
LEMMA StateSent ==
    ASSUME NEW q, NEW co, NEW f, f \in ListType, Channel(q, co, Lit(f)),
           NEW w \in DOMAIN f, NEW x \in WindowType, x.focused => Lit(f) \subseteq {w}
    PROVE  Channel(q \o stateMessages(f, w, x), co, Lit(Put(f, w, x)))
<1> DEFINE m == Signal("state", w, x)
           h == Lit(Put(f, w, x))
<1>0. w \in Windows
  BY ListIs
<1>1. m \in Messages /\ m.type = "state" /\ m.id = w /\ m.win = x
  BY <1>0, MessageIs DEF Signals
<1>2. /\ x.focused => h = Lit(f) \cup {w}
      /\ ~x.focused => h = Lit(f) \ {w}
  BY <1>0, PutIs
<1>5. w \in Lit(f) <=> f[w].focused
  BY DEF Lit
<1> HIDE DEF m, h
<1>3. CASE f[w] = x
  <2>1. stateMessages(f, w, x) = <<>>
    BY <1>3 DEF stateMessages
  <2>2. Lit(f) \subseteq h
    BY <1>2, <1>3, <1>5
  <2>3. QED
    BY <2>1, <2>2, Unsent DEF h
<1>4. CASE f[w] # x
  <2>1. stateMessages(f, w, x) = <<m>>
    BY <1>4 DEF stateMessages, m
  <2>2. \A v : Sets(m, v) => Lit(f) \subseteq {v} /\ v \in h
    BY <1>1, <1>2 DEF Sets
  <2>3. \A v \in Lit(f) : v \in h \/ Clears(m, v)
    BY <1>1, <1>2 DEF Clears
  <2>4. Channel(Append(q, m), co, h)
    BY <1>1, <2>2, <2>3, SignalSent DEF Signals
  <2>5. QED
    BY <1>1, <2>1, <2>4, OneSent DEF h
<1>6. QED
  BY <1>3, <1>4

\* The loss of the focus is sent.
LEMMA LossSent ==
    ASSUME NEW q, NEW co, NEW g, NEW h, Channel(q, co, g), NEW f,
           NEW w \in Windows, NEW x \in WindowType, ~x.focused, g \ {w} \subseteq h,
           w \in DOMAIN f /\ f[w] = x => w \notin g
    PROVE  Channel(q \o stateMessages(f, w, x), co, h)
<1> DEFINE m == Signal("state", w, x)
<1>1. m \in Messages /\ m.type = "state" /\ m.id = w /\ m.win = x
  BY MessageIs DEF Signals
<1> HIDE DEF m
<1>2. CASE w \in DOMAIN f /\ f[w] = x
  <2>1. stateMessages(f, w, x) = <<>>
    BY <1>2 DEF stateMessages
  <2>2. g \subseteq h
    BY <1>2
  <2>3. QED
    BY <2>1, <2>2, Unsent
<1>3. CASE ~(w \in DOMAIN f /\ f[w] = x)
  <2>1. stateMessages(f, w, x) = <<m>>
    BY <1>3 DEF stateMessages, m
  <2>2. \A v : ~Sets(m, v)
    BY <1>1 DEF Sets
  <2>3. \A v \in g : v \in h \/ Clears(m, v)
    BY <1>1 DEF Clears
  <2>4. Channel(Append(q, m), co, h)
    BY <1>1, <2>2, <2>3, SignalSent DEF Signals
  <2>5. QED
    BY <1>1, <2>1, <2>4, OneSent
<1>4. QED
  BY <1>2, <1>3

\* The registry, with the focus in one window at most.
Registry(ws) == ws \in ListType /\ DOMAIN ws \subseteq 1..counter /\ Lit(ws) \subseteq {focused}

LEMMA UnknownType == Unknown \in WindowType /\ ~Unknown.focused /\ New(1) \in WindowType /\ ~New(1).focused
  BY DEF Unknown, New, WindowType

\* A window's record with the focus set or taken away.
LEMMA FocusedIs ==
    ASSUME NEW x \in WindowType
    PROVE  /\ [x EXCEPT !.focused = FALSE] \in WindowType /\ ~[x EXCEPT !.focused = FALSE].focused
           /\ [x EXCEPT !.focused = TRUE] \in WindowType /\ [x EXCEPT !.focused = TRUE].focused
           /\ ~x.focused => [x EXCEPT !.focused = FALSE] = x
  BY DEF WindowType

LEMMA SequencesOf ==
    ASSUME NEW f, NEW w \in Windows, NEW x \in WindowType
    PROVE  stateMessages(f, w, x) \in Seq(Messages)
<1>1. Signal("state", w, x) \in Messages
  BY MessageIs DEF Signals
<1>2. QED
  BY <1>1 DEF stateMessages

Lose(reg) == [IF focused \in DOMAIN reg THEN reg[focused] ELSE Unknown EXCEPT !.focused = FALSE]
Left(reg) == IF focused \in DOMAIN reg THEN Put(reg, focused, Lose(reg)) ELSE reg
Gain(reg, w) == [IF w \in DOMAIN reg THEN reg[w] ELSE Unknown EXCEPT !.focused = TRUE]

Loss(reg, w) == IF focused \in {w, NoWindow} THEN <<>> ELSE stateMessages(reg, focused, Lose(reg))
Gained(reg, w) == IF w \in {focused, NoWindow} THEN <<>> ELSE stateMessages(Left(reg), w, Gain(reg, w))

\* The window that had the focus loses it.
LEMMA FocusLeaves ==
    ASSUME NEW reg, Registry(reg), focused \in Windows \cup {NoWindow}, NoWindow \notin Windows,
           NEW w, w # focused, NEW q, NEW co, Channel(q, co, Lit(reg))
    PROVE  /\ Left(reg) \in ListType
           /\ \A v : v \in DOMAIN Left(reg) <=> v \in DOMAIN reg
           /\ \A v : v \notin Lit(Left(reg))
           /\ Channel(q \o Loss(reg, w), co, {})
           /\ Loss(reg, w) \in Seq(Messages)
<1>1. reg \in ListType /\ (\A v \in Lit(reg) : v = focused) /\ DOMAIN reg \subseteq Windows
      /\ \A v \in DOMAIN reg : reg[v] \in WindowType
  BY ListIs DEF Registry
<1>2. CASE focused \in DOMAIN reg
  <2>1. focused \in Windows /\ focused # NoWindow
    BY <1>1, <1>2
  <2>2. Lose(reg) = [reg[focused] EXCEPT !.focused = FALSE] /\ Left(reg) = Put(reg, focused, Lose(reg))
    BY <1>2 DEF Lose, Left
  <2>3. Lose(reg) \in WindowType /\ ~Lose(reg).focused
    <3>1. reg[focused] \in WindowType
      BY <1>1, <1>2
    <3>2. QED
      BY <2>2, <3>1 DEF WindowType
  <2>4. /\ Left(reg) \in ListType
        /\ \A v : v \in DOMAIN Left(reg) <=> v \in DOMAIN reg
        /\ \A v : v \notin Lit(Left(reg))
    <3> DEFINE y == Lose(reg)
               p == Left(reg)
    <3>1. p = Put(reg, focused, y) /\ y \in WindowType /\ ~y.focused
      BY <2>2, <2>3
    <3> HIDE DEF y, p
    <3>2. /\ p \in ListType
          /\ \A v : v \in DOMAIN p <=> v \in DOMAIN reg \/ v = focused
          /\ \A v : v # focused => (v \in Lit(p) <=> v \in Lit(reg))
          /\ focused \notin Lit(p)
      BY <1>1, <2>1, <3>1, PutIs
    <3>3. QED
      BY <1>1, <1>2, <3>2 DEF p
  <2>5. focused \in DOMAIN reg /\ reg[focused] = Lose(reg) => focused \notin Lit(reg)
    BY <2>3 DEF Lit
  <2>6. Channel(q \o stateMessages(reg, focused, Lose(reg)), co, {})
    BY <1>1, <2>1, <2>3, <2>5, LossSent
  <2>7. stateMessages(reg, focused, Lose(reg)) \in Seq(Messages)
    BY <2>1, <2>3, SequencesOf
  <2>8. QED
    BY <2>1, <2>4, <2>6, <2>7 DEF Loss
<1>3. CASE focused \notin DOMAIN reg
  <2>1. Left(reg) = reg /\ \A v : v \notin Lit(reg)
    BY <1>1, <1>3 DEF Left, Lit
  <2>2. Lit(reg) \subseteq {}
    BY <2>1
  <2>3. CASE focused = NoWindow
    <3>1. Channel(q \o <<>>, co, {})
      BY <2>2, Unsent
    <3>2. QED
      BY <1>1, <2>1, <2>3, <3>1 DEF Loss
  <2>4. CASE focused # NoWindow
    <3>1. Lose(reg) \in WindowType /\ ~Lose(reg).focused
      BY <1>3, UnknownType, FocusedIs DEF Lose
    <3>2. Channel(q \o stateMessages(reg, focused, Lose(reg)), co, {})
      BY <1>3, <2>2, <2>4, <3>1, LossSent
    <3>3. stateMessages(reg, focused, Lose(reg)) \in Seq(Messages)
      BY <2>4, <3>1, SequencesOf
    <3>4. QED
      BY <1>1, <2>1, <2>4, <3>2, <3>3 DEF Loss
  <2>5. QED
    BY <2>3, <2>4
<1>4. QED
  BY <1>2, <1>3

LEMMA FocusMovesIs ==
    ASSUME NEW reg, NEW b, NEW w, NEW a, focusMoves(reg, b, w, a)
    PROVE  /\ focused' = w
           /\ windows' = IF w \in DOMAIN Left(reg) /\ w # focused THEN Put(Left(reg), w, Gain(reg, w)) ELSE
                         IF w = focused THEN reg ELSE Left(reg)
           /\ toShell' = toShell \o (b \o Loss(reg, w) \o Gained(reg, w) \o a)
  BY DEF focusMoves, Left, Lose, Gain, Loss, Gained, Send

\* The focus goes to a window of the registry, or to the shell.
LEMMA FocusGoes ==
    ASSUME NEW reg, Registry(reg), focused \in Windows \cup {NoWindow}, NoWindow \notin Windows,
           NEW w, w \in DOMAIN reg \cup {NoWindow}, toShell \in Seq(Messages),
           NEW b \in Seq(Messages), NEW co, Channel(toShell \o b, co, Lit(reg)),
           focusMoves(reg, b, w, <<>>)
    PROVE  /\ windows' \in ListType
           /\ \A v : v \in DOMAIN windows' <=> v \in DOMAIN reg
           /\ Lit(windows') \subseteq {focused'} /\ focused' = w
           /\ Channel(toShell', co, Lit(windows'))
<1> DEFINE l == Loss(reg, w)
           g == Gained(reg, w)
           r == windows'
<1>1. reg \in ListType /\ (\A v \in Lit(reg) : v = focused) /\ DOMAIN reg \subseteq Windows
      /\ \A v \in DOMAIN reg : reg[v] \in WindowType
  BY ListIs DEF Registry
<1>2. /\ focused' = w
      /\ r = IF w \in DOMAIN Left(reg) /\ w # focused THEN Put(Left(reg), w, Gain(reg, w)) ELSE
             IF w = focused THEN reg ELSE Left(reg)
      /\ toShell' = toShell \o (b \o l \o g \o <<>>)
  BY FocusMovesIs
<1>3. CASE w = focused
  <2>1. l = <<>> /\ g = <<>> /\ r = reg
    BY <1>2, <1>3 DEF Loss, Gained
  <2> HIDE DEF l, g, r
  <2>2. toShell' = (((toShell \o b) \o <<>>) \o <<>>) \o <<>>
    BY <1>2, <2>1
  <2>3. Channel(toShell', co, Lit(reg))
    BY <2>2, Unsent
  <2>4. QED
    BY <1>1, <1>2, <1>3, <2>1, <2>3 DEF r
<1>4. CASE w # focused
  <2>1. /\ Left(reg) \in ListType
        /\ \A v : v \in DOMAIN Left(reg) <=> v \in DOMAIN reg
        /\ \A v : v \notin Lit(Left(reg))
        /\ Channel((toShell \o b) \o l, co, {})
        /\ l \in Seq(Messages)
    BY <1>4, FocusLeaves
  <2>2. CASE w = NoWindow
    <3>1. g = <<>> /\ w \notin DOMAIN Left(reg)
      BY <1>1, <2>1, <2>2 DEF Gained
    <3>2. r = Left(reg)
      BY <1>2, <1>4, <3>1
    <3> HIDE DEF l, g, r
    <3>3. toShell' = (((toShell \o b) \o l) \o <<>>) \o <<>>
      BY <1>2, <2>1, <3>1
    <3>4. Channel(toShell', co, Lit(r))
      BY <2>1, <3>3, Unsent
    <3>5. \A v : (v \in DOMAIN r <=> v \in DOMAIN reg) /\ v \notin Lit(r)
      BY <2>1, <3>2
    <3>6. r \in ListType /\ Lit(r) \subseteq {focused'}
      BY <2>1, <3>2, <3>5
    <3>7. QED
      BY <1>2, <3>4, <3>5, <3>6 DEF r
  <2>3. CASE w # NoWindow
    <3>1. w \in DOMAIN reg /\ w \in Windows /\ w \in DOMAIN Left(reg)
      BY <1>1, <2>1, <2>3
    <3>2. g = stateMessages(Left(reg), w, Gain(reg, w)) /\ r = Put(Left(reg), w, Gain(reg, w))
      BY <1>2, <1>4, <2>3, <3>1 DEF Gained
    <3>3. Gain(reg, w) \in WindowType /\ Gain(reg, w).focused
      BY <1>1, <3>1, FocusedIs DEF Gain
    <3>4. Lit(Left(reg)) = {}
      BY <2>1
    <3> DEFINE q == (toShell \o b) \o l
    <3>5. Channel(q, co, Lit(Left(reg)))
      BY <2>1, <3>4
    <3>6. g \in Seq(Messages)
      BY <3>1, <3>2, <3>3, SequencesOf
    <3> HIDE DEF l, g, r
    <3>7. toShell' = (q \o g) \o <<>>
      <4>1. l \in Seq(Messages)
        BY <2>1 DEF l
      <4>2. toShell \o (b \o l \o g \o <<>>) = (((toShell \o b) \o l) \o g) \o <<>>
        BY <3>6, <4>1
      <4>3. QED
        BY <1>2, <4>2
    <3> HIDE DEF q
    <3>8. Channel(q \o g, co, Lit(r))
      BY <2>1, <3>1, <3>2, <3>3, <3>4, <3>5, StateSent
    <3>9. Channel(toShell', co, Lit(r))
      BY <3>7, <3>8, Unsent
    <3>10. /\ r \in ListType /\ \A v : v \in DOMAIN r <=> v \in DOMAIN Left(reg) \/ v = w
           /\ \A v : v \in Lit(r) <=> v = w
      BY <2>1, <3>1, <3>2, <3>3, PutIs
    <3>11. \A v : v \in DOMAIN r <=> v \in DOMAIN reg
      BY <2>1, <3>1, <3>10
    <3>12. Lit(r) \subseteq {focused'}
      BY <1>2, <3>10
    <3>13. QED
      BY <1>2, <3>9, <3>10, <3>11, <3>12 DEF r
  <2>4. QED
    BY <2>2, <2>3
<1>5. QED
  BY <1>3, <1>4

-----------------------------------------------------------------------------
(* The steps of the compositor.                                            *)

Requests ==
    {c \in [method : Commands \cup Asked \cup {"list", "gone"}, id : Windows \cup {NoWindow}] :
        /\ c.method \in Asked \cup Commands => c.id \in Windows
        /\ c.method = "list" => c.id = NoWindow}

\* The taskbar's variables, and the compositor's.
ShellTypes ==
    /\ rows \in ListType /\ lastFocused \in Windows \cup {NoWindow}
    /\ DOMAIN seeds \subseteq Windows
    /\ \A w \in DOMAIN seeds : seeds[w].got \in 0..3 /\ seeds[w].win \in WindowType
    /\ dropped \subseteq Windows

Compositor ==
    /\ counter \in Nat /\ focused \in Windows \cup {NoWindow} /\ Registry(windows)

WindowInv ==
    ShellTypes /\ Compositor /\ toCompositor \in Seq(Requests)
               /\ Channel(toShell, toCompositor, Lit(windows))

\* A step of the compositor leaves the taskbar alone.
LEMMA TaskbarRests ==
    ASSUME WindowInv, UNCHANGED shellVars, dropped' = dropped,
           NEW co, co \in Seq(Requests), toCompositor' = co,
           counter' \in Nat, focused' \in Windows \cup {NoWindow},
           windows' \in ListType, DOMAIN windows' \subseteq 1..counter', Lit(windows') \subseteq {focused'},
           Channel(toShell', co, Lit(windows'))
    PROVE  WindowInv'
<1>1. UNCHANGED <<rows, lastFocused, seeds, dropped>>
  BY DEF shellVars
<1>2. ShellTypes'
  BY <1>1 DEF WindowInv, ShellTypes
<1>3. Compositor'
  BY DEF Compositor, Registry
<1>4. Channel(toShell, toCompositor, Lit(windows))'
  BY <1>1 DEF Channel
<1>5. QED
  BY <1>2, <1>3, <1>4 DEF WindowInv

\* A window is minimized, by a click or by its program.
LEMMA Minimizes ==
    ASSUME WindowAssumption, Compositor, toShell \in Seq(Messages),
           NEW co, Channel(toShell, co, Lit(windows)),
           NEW w \in DOMAIN windows, ~windows[w].minimized, minimizes(w)
    PROVE  /\ windows' \in ListType
           /\ \A v : v \in DOMAIN windows' <=> v \in DOMAIN windows
           /\ Lit(windows') \subseteq {focused'} /\ focused' = NoWindow
           /\ Channel(toShell', co, Lit(windows'))
<1> DEFINE x == [windows[w] EXCEPT !.minimized = TRUE, !.focused = FALSE]
           reg == Put(windows, w, x)
           l == Loss(reg, NoWindow)
           a == stateMessages(windows, w, x)
           r == windows'
<1>1. /\ windows \in ListType /\ (\A v \in Lit(windows) : v = focused) /\ DOMAIN windows \subseteq Windows
      /\ windows[w] \in WindowType /\ w \in Windows /\ NoWindow \notin Windows
      /\ focused \in Windows \cup {NoWindow} /\ DOMAIN windows \subseteq 1..counter
  BY ListIs DEF Compositor, Registry, WindowAssumption
<1>2. x \in WindowType /\ ~x.focused /\ windows[w] # x
  BY <1>1 DEF WindowType
<1>3. focusMoves(reg, <<>>, NoWindow, a)
  BY DEF minimizes
<1>4. /\ focused' = NoWindow
      /\ r = IF NoWindow \in DOMAIN Left(reg) /\ NoWindow # focused
             THEN Put(Left(reg), NoWindow, Gain(reg, NoWindow)) ELSE
             IF NoWindow = focused THEN reg ELSE Left(reg)
      /\ toShell' = toShell \o (<<>> \o l \o Gained(reg, NoWindow) \o a)
  BY <1>3, FocusMovesIs
<1>5. Gained(reg, NoWindow) = <<>>
  BY DEF Gained
<1> HIDE DEF x
<1>6. /\ reg \in ListType
      /\ \A v : v \in DOMAIN reg <=> v \in DOMAIN windows
      /\ \A v : v \in Lit(reg) <=> v \in Lit(windows) /\ v # w
  BY <1>1, <1>2, PutIs
<1>7. a \in Seq(Messages)
  BY <1>1, <1>2, SequencesOf
<1>8. Registry(reg) /\ reg[w] = x
  <2>1. DOMAIN reg \subseteq 1..counter /\ Lit(reg) \subseteq {focused}
    BY <1>1, <1>6
  <2>2. reg[w] = x
    BY DEF Put
  <2>3. QED
    BY <1>6, <2>1, <2>2 DEF Registry
<1> HIDE DEF reg, l, a, r
<1>9. CASE focused = w
  <2>1. w \in DOMAIN reg /\ Lose(reg) = [x EXCEPT !.focused = FALSE]
    BY <1>6, <1>8, <1>9 DEF Lose
  <2>2. Lose(reg) = x
    BY <1>2, <2>1 DEF WindowType
  <2>3. l = <<>>
    BY <1>1, <1>8, <1>9, <2>1, <2>2 DEF l, Loss, stateMessages
  <2>4. toShell' = toShell \o a
    BY <1>4, <1>5, <1>7, <2>3
  <2>5. NoWindow \notin DOMAIN Left(reg) /\ r = Left(reg) /\ Left(reg) = Put(reg, w, x)
    <3>1. Left(reg) = Put(reg, w, x)
      BY <1>9, <2>1, <2>2 DEF Left
    <3>2. NoWindow \notin DOMAIN Left(reg)
      BY <1>1, <1>2, <1>6, <3>1, PutIs
    <3>3. QED
      BY <1>1, <1>4, <1>9, <3>1, <3>2
  <2>6. /\ r \in ListType
        /\ \A v : v \in DOMAIN r <=> v \in DOMAIN reg \/ v = w
        /\ \A v : v # w => (v \in Lit(r) <=> v \in Lit(reg))
        /\ w \notin Lit(r)
    BY <1>1, <1>2, <1>6, <2>5, PutIs
  <2>7. Lit(windows) \ {w} \subseteq Lit(r)
    BY <1>6, <2>6
  <2>8. Channel(toShell \o a, co, Lit(r))
    BY <1>1, <1>2, <2>7, LossSent DEF a
  <2>9. (\A v : v \in DOMAIN r <=> v \in DOMAIN windows) /\ Lit(r) \subseteq {focused'}
    BY <1>1, <1>4, <1>6, <1>9, <2>6
  <2>10. QED
    BY <1>4, <2>4, <2>6, <2>8, <2>9 DEF r
<1>10. CASE focused # w
  <2>1. Lit(windows) = Lit(reg)
    BY <1>1, <1>6, <1>10
  <2>2. Channel(toShell, co, Lit(reg))
    BY <2>1
  <2>3. CASE focused = NoWindow
    <3>1. l = <<>> /\ r = reg
      BY <1>4, <2>3 DEF l, Loss
    <3>2. toShell' = toShell \o a
      BY <1>4, <1>5, <1>7, <3>1
    <3>3. Lit(windows) \ {w} \subseteq Lit(r)
      BY <2>1, <3>1
    <3>4. Channel(toShell \o a, co, Lit(r))
      BY <1>1, <1>2, <3>3, LossSent DEF a
    <3>5. Lit(r) \subseteq {focused'}
      BY <1>4, <1>8, <2>3, <3>1 DEF Registry
    <3>6. QED
      BY <1>4, <1>6, <3>1, <3>2, <3>4, <3>5 DEF r
  <2>4. CASE focused # NoWindow
    <3>1. /\ Left(reg) \in ListType
          /\ \A v : v \in DOMAIN Left(reg) <=> v \in DOMAIN reg
          /\ \A v : v \notin Lit(Left(reg))
          /\ Channel(toShell \o l, co, {})
          /\ l \in Seq(Messages)
      BY <1>1, <1>8, <2>2, <2>4, FocusLeaves DEF l
    <3>2. r = Left(reg)
      BY <1>1, <1>4, <1>6, <2>4, <3>1
    <3>3. toShell' = (toShell \o l) \o a
      <4>1. toShell' = toShell \o (<<>> \o l \o <<>> \o a)
        BY <1>4, <1>5
      <4>2. l \in Seq(Messages) /\ a \in Seq(Messages)
        BY <1>7, <3>1
      <4>3. QED
        BY <4>1, <4>2
    <3>4. {} \ {w} \subseteq Lit(r) /\ w \notin {}
      OBVIOUS
    <3> DEFINE q == toShell \o l
    <3>5. Channel(q, co, {})
      BY <3>1
    <3> HIDE DEF q
    <3>6. Channel(q \o a, co, Lit(r))
      BY <1>1, <1>2, <3>4, <3>5, LossSent DEF a
    <3>7. (\A v : v \in DOMAIN r <=> v \in DOMAIN windows) /\ Lit(r) \subseteq {focused'}
      BY <1>6, <3>1, <3>2
    <3>8. QED
      BY <1>4, <3>1, <3>2, <3>3, <3>6, <3>7 DEF r, q
  <2>5. QED
    BY <2>3, <2>4
<1>11. QED
  BY <1>9, <1>10

LEMMA Activates ==
    ASSUME WindowAssumption, Compositor, toShell \in Seq(Messages),
           NEW co, Channel(toShell, co, Lit(windows)),
           NEW w \in DOMAIN windows, activates(w)
    PROVE  /\ windows' \in ListType
           /\ \A v : v \in DOMAIN windows' <=> v \in DOMAIN windows
           /\ Lit(windows') \subseteq {focused'} /\ focused' = w
           /\ Channel(toShell', co, Lit(windows'))
<1> DEFINE x == [windows[w] EXCEPT !.minimized = FALSE]
           reg == Put(windows, w, x)
           b == stateMessages(windows, w, x)
<1>1. /\ windows \in ListType /\ (\A v \in Lit(windows) : v = focused) /\ DOMAIN windows \subseteq Windows
      /\ windows[w] \in WindowType /\ w \in Windows /\ NoWindow \notin Windows
      /\ focused \in Windows \cup {NoWindow} /\ DOMAIN windows \subseteq 1..counter
  BY ListIs DEF Compositor, Registry, WindowAssumption
<1>2. x \in WindowType /\ (x.focused <=> windows[w].focused)
  BY <1>1 DEF WindowType
<1>3. focusMoves(reg, b, w, <<>>)
  BY DEF activates
<1>4. w \in Lit(windows) <=> x.focused
  BY <1>2 DEF Lit
<1> HIDE DEF x
<1>5. /\ reg \in ListType
      /\ \A v : v \in DOMAIN reg <=> v \in DOMAIN windows
      /\ \A v : v \in Lit(reg) <=> v \in Lit(windows)
  BY <1>1, <1>2, <1>4, PutIs
<1>6. b \in Seq(Messages)
  BY <1>1, <1>2, SequencesOf
<1>7. x.focused => Lit(windows) \subseteq {w}
  BY <1>1, <1>4
<1>8. Channel(toShell \o b, co, Lit(reg))
  BY <1>1, <1>2, <1>7, StateSent
<1> HIDE DEF reg, b
<1>9. Registry(reg)
  <2>1. DOMAIN reg \subseteq 1..counter /\ Lit(reg) \subseteq {focused}
    BY <1>1, <1>5
  <2>2. QED
    BY <1>5, <2>1 DEF Registry
<1>10. w \in DOMAIN reg \cup {NoWindow}
  BY <1>5
<1>11. QED
  BY <1>1, <1>3, <1>5, <1>6, <1>8, <1>9, <1>10, FocusGoes

LEMMA Known ==
    ASSUME WindowInv
    PROVE  /\ windows \in ListType /\ (\A v \in Lit(windows) : v = focused) /\ Lit(windows) \subseteq DOMAIN windows
           /\ DOMAIN windows \subseteq Windows /\ DOMAIN windows \subseteq 1..counter
           /\ \A v \in DOMAIN windows : windows[v] \in WindowType
           /\ counter \in Nat /\ focused \in Windows \cup {NoWindow}
           /\ toShell \in Seq(Messages) /\ toCompositor \in Seq(Requests)
           /\ Channel(toShell, toCompositor, Lit(windows)) /\ Compositor /\ ShellTypes
  BY ListIs DEF WindowInv, Compositor, Registry, Channel

LEMMA QuietShell ==
    ASSUME quietShell
    PROVE  toCompositor' = toCompositor /\ UNCHANGED shellVars /\ dropped' = dropped
  BY DEF quietShell

\* Signals that tell no focus.
LEMMA RegisterStep ==
    ASSUME WindowAssumption, WindowInv, NEW w \in Windows, registerWindow(w)
    PROVE  WindowInv'
<1> DEFINE m == Signal("registered", w, New(1))
           r == Put(windows, w, New(1))
<1>1. /\ w = counter + 1 /\ counter' = w /\ windows' = r /\ focused' = focused
      /\ toShell' = toShell \o <<m>> /\ quietShell
  BY DEF registerWindow, Send
<1>2. New(1) \in WindowType /\ ~New(1).focused
  BY UnknownType
<1>3. m \in Messages /\ m.type = "registered" /\ m.id = w
  BY <1>2, MessageIs DEF Signals
<1> HIDE DEF m, r
<1>4. w \notin DOMAIN windows
  BY <1>1, Known
<1>5. /\ r \in ListType /\ \A v : v \in DOMAIN r <=> v \in DOMAIN windows \/ v = w
      /\ \A v : v # w => (v \in Lit(r) <=> v \in Lit(windows))
      /\ w \notin Lit(r)
  BY <1>2, Known, PutIs DEF r
<1>6. \A v : v \in Lit(r) <=> v \in Lit(windows)
  BY <1>4, <1>5, Known
<1>7. m.type \in Signals /\ (\A v : ~Sets(m, v)) /\ \A v \in Lit(windows) : v \in Lit(r)
  BY <1>3, <1>6 DEF Signals, Sets
<1>8. Channel(Append(toShell, m), toCompositor, Lit(r))
  BY <1>3, <1>7, Known, SignalSent
<1>9. Channel(toShell', toCompositor, Lit(windows'))
  BY <1>1, <1>3, <1>8, Known, OneSent
<1>10. DOMAIN windows' \subseteq 1..counter' /\ Lit(windows') \subseteq {focused'} /\ counter' \in Nat
  BY <1>1, <1>5, <1>6, Known
<1>11. QED
  BY <1>1, <1>5, <1>9, <1>10, Known, QuietShell, TaskbarRests

LEMMA UnregisterStep ==
    ASSUME WindowAssumption, WindowInv, NEW w \in Windows, unregisterWindow(w)
    PROVE  WindowInv'
<1> DEFINE m == Signal("unregistered", w, Unknown)
           r == Drop(windows, w)
<1>1. /\ counter' = counter /\ windows' = r /\ focused' = focused
      /\ toShell' = toShell \o <<m>> /\ quietShell
  BY DEF unregisterWindow, Send
<1>2. m \in Messages /\ m.type = "unregistered" /\ m.id = w
  BY UnknownType, MessageIs DEF Signals
<1> HIDE DEF m, r
<1>3. /\ r \in ListType /\ \A v : v \in DOMAIN r <=> v \in DOMAIN windows /\ v # w
      /\ \A v : v \in Lit(r) <=> v \in Lit(windows) /\ v # w
  BY Known, DropIs DEF r
<1>4. m.type \in Signals /\ (\A v : ~Sets(m, v)) /\ \A v \in Lit(windows) : v \in Lit(r) \/ Clears(m, v)
  BY <1>2, <1>3 DEF Signals, Sets, Clears
<1>5. Channel(Append(toShell, m), toCompositor, Lit(r))
  BY <1>2, <1>4, Known, SignalSent
<1>6. Channel(toShell', toCompositor, Lit(windows'))
  BY <1>1, <1>2, <1>5, Known, OneSent
<1>7. DOMAIN windows' \subseteq 1..counter' /\ Lit(windows') \subseteq {focused'} /\ counter' \in Nat
  BY <1>1, <1>3, Known
<1>8. QED
  BY <1>1, <1>3, <1>6, <1>7, Known, QuietShell, TaskbarRests

LEMMA MetadataStep ==
    ASSUME WindowAssumption, WindowInv, NEW w \in Windows, updateWindowMetadata(w)
    PROVE  WindowInv'
<1> DEFINE x == [windows[w] EXCEPT !.title = 2, !.appId = 2]
           m == Signal("metadata", w, x)
           r == Put(windows, w, x)
<1>1. /\ counter' = counter /\ windows' = r /\ focused' = focused /\ w \in DOMAIN windows
      /\ toShell' = toShell \o <<m>> /\ quietShell
  BY DEF updateWindowMetadata, Send
<1>2. x \in WindowType /\ (x.focused <=> windows[w].focused)
  <2>1. windows[w] \in WindowType
    BY <1>1, Known
  <2> DEFINE y == windows[w]
             t == 2
  <2>2. y \in WindowType /\ t \in 0..2 /\ x = [y EXCEPT !.title = t, !.appId = t]
    BY <2>1
  <2> HIDE DEF x, y, t
  <2>3. x \in WindowType
    BY <2>2 DEF WindowType
  <2>4. x.focused = y.focused
    BY <2>2 DEF WindowType
  <2>5. QED
    BY <2>3, <2>4 DEF y
<1> HIDE DEF x
<1>3. m \in Messages /\ m.type = "metadata" /\ m.id = w
  BY <1>2, MessageIs DEF Signals
<1> HIDE DEF m, r
<1>4. w \in Lit(windows) <=> x.focused
  BY <1>1, <1>2 DEF Lit
<1>5. /\ r \in ListType /\ \A v : v \in DOMAIN r <=> v \in DOMAIN windows
      /\ \A v : v \in Lit(r) <=> v \in Lit(windows)
  BY <1>1, <1>2, <1>4, Known, PutIs DEF r
<1>6. m.type \in Signals /\ (\A v : ~Sets(m, v)) /\ \A v \in Lit(windows) : v \in Lit(r)
  BY <1>3, <1>5 DEF Signals, Sets
<1>7. Channel(Append(toShell, m), toCompositor, Lit(r))
  BY <1>3, <1>6, Known, SignalSent
<1>8. Channel(toShell', toCompositor, Lit(windows'))
  BY <1>1, <1>3, <1>7, Known, OneSent
<1>9. DOMAIN windows' \subseteq 1..counter' /\ Lit(windows') \subseteq {focused'} /\ counter' \in Nat
  BY <1>1, <1>5, Known
<1>10. QED
  BY <1>1, <1>5, <1>8, <1>9, Known, QuietShell, TaskbarRests

\* The focus moves by itself.
LEMMA FocusStep ==
    ASSUME WindowAssumption, WindowInv, NEW w, focus(w)
    PROVE  WindowInv'
<1>1. /\ w \in DOMAIN windows \cup {NoWindow} /\ focusMoves(windows, <<>>, w, <<>>)
      /\ counter' = counter /\ quietShell
  BY DEF focus
<1>2. Registry(windows) /\ NoWindow \notin Windows
  BY Known DEF Compositor, WindowAssumption
<1> DEFINE b == <<>>
<1>3. b \in Seq(Messages)
  OBVIOUS
<1>4. Channel(toShell \o b, toCompositor, Lit(windows))
  BY Known, Unsent
<1>5. focusMoves(windows, b, w, <<>>)
  BY <1>1
<1> HIDE DEF b
<1>6. /\ windows' \in ListType
      /\ \A v : v \in DOMAIN windows' <=> v \in DOMAIN windows
      /\ Lit(windows') \subseteq {focused'} /\ focused' = w
      /\ Channel(toShell', toCompositor, Lit(windows'))
  BY <1>1, <1>2, <1>3, <1>4, <1>5, Known, FocusGoes
<1>7. DOMAIN windows' \subseteq 1..counter' /\ focused' \in Windows \cup {NoWindow} /\ counter' \in Nat
  BY <1>1, <1>6, Known
<1>8. QED
  BY <1>1, <1>6, <1>7, Known, QuietShell, TaskbarRests

LEMMA SessionStep ==
    ASSUME WindowAssumption, WindowInv, Session
    PROVE  WindowInv'
<1>1. ASSUME NEW w \in Windows, minimize(w)
      PROVE  WindowInv'
  <2>1. /\ w \in DOMAIN windows /\ ~windows[w].minimized /\ minimizes(w)
        /\ counter' = counter /\ quietShell
    BY <1>1 DEF minimize
  <2>2. /\ windows' \in ListType
        /\ \A v : v \in DOMAIN windows' <=> v \in DOMAIN windows
        /\ Lit(windows') \subseteq {focused'} /\ focused' = NoWindow
        /\ Channel(toShell', toCompositor, Lit(windows'))
    BY <2>1, Known, Minimizes
  <2>3. DOMAIN windows' \subseteq 1..counter' /\ focused' \in Windows \cup {NoWindow} /\ counter' \in Nat
    BY <2>1, <2>2, Known
  <2>4. QED
    BY <2>1, <2>2, <2>3, Known, QuietShell, TaskbarRests
<1>2. CASE quit
  <2>1. UNCHANGED <<windows, counter, focused, toShell>> /\ quietShell
    BY <1>2 DEF quit
  <2>2. /\ windows' \in ListType /\ DOMAIN windows' \subseteq 1..counter' /\ counter' \in Nat
        /\ Lit(windows') \subseteq {focused'} /\ focused' \in Windows \cup {NoWindow}
        /\ Channel(toShell', toCompositor, Lit(windows'))
    BY <2>1, Known
  <2>3. QED
    BY <2>1, <2>2, Known, QuietShell, TaskbarRests
<1>3. QED
  BY <1>1, <1>2, RegisterStep, UnregisterStep, MetadataStep, FocusStep DEF Session

\* The head of the calls.
LEMMA FirstCall ==
    ASSUME WindowInv, toCompositor # <<>>
    PROVE  /\ Head(toCompositor) \in Requests /\ Tail(toCompositor) \in Seq(Requests)
           /\ Channel(toShell, Tail(toCompositor), Lit(windows))
<1>1. Head(toCompositor) \in Requests /\ Tail(toCompositor) \in Seq(Requests)
  BY Known, TailIs
<1>2. Seeding(toShell, Tail(toCompositor), seeds)
  BY Known, SeedingTakes DEF Channel
<1>3. QED
  BY <1>1, <1>2, Known DEF Channel

\* An answer says what the registry says.
LEMMA AnswerSent ==
    ASSUME WindowInv, toCompositor # <<>>, NEW m \in Messages,
           m.type = Head(toCompositor).method, m.id = Head(toCompositor).id,
           m.type \in Asked \cup {"list"},
           m.type # "list" /\ m.win.focused => m.id \in Lit(windows)
    PROVE  Channel(toShell \o <<m>>, Tail(toCompositor), Lit(windows))
<1>1. Seeding(Append(toShell, m), Tail(toCompositor), seeds)
  BY Known, SeedingAnswers DEF Channel
<1>2. \A v : Sets(m, v) => Lit(windows) \subseteq {v} /\ v \in Lit(windows)
  <2> SUFFICES ASSUME NEW v, Sets(m, v)
               PROVE  Lit(windows) \subseteq {v} /\ v \in Lit(windows)
    OBVIOUS
  <2>1. m.id = v /\ m.win.focused /\ m.type # "list"
    BY DEF Sets
  <2>2. v \in Lit(windows)
    BY <2>1
  <2>3. QED
    BY <2>2, Known
<1>3. Handover(Lit(rows), Append(toShell, m), Lit(windows))
  BY <1>2, Known, HandoverSend DEF Channel
<1>4. Channel(Append(toShell, m), Tail(toCompositor), Lit(windows))
  BY <1>1, <1>3, Known, AppendIs DEF Channel
<1>5. QED
  BY <1>4, Known, OneSent

LEMMA TakeCallStep ==
    ASSUME WindowAssumption, WindowInv, takeCall
    PROVE  WindowInv'
<1> DEFINE c == Head(toCompositor)
           co == Tail(toCompositor)
           here == c.id \in DOMAIN windows
           win == IF here THEN windows[c.id] ELSE Unknown
           answer == Signal(c.method, c.id, win)
           list == [Signal("list", NoWindow, Unknown) EXCEPT !.ids = DOMAIN windows]
<1>1. /\ toCompositor # <<>> /\ toCompositor' = co
      /\ counter' = counter /\ UNCHANGED shellVars /\ dropped' = dropped
  BY DEF takeCall
<1>2. \/ c.method = "list" /\ toShell' = toShell \o <<list>> /\ UNCHANGED <<windows, focused>>
      \/ c.method \in ToSet(Queries) /\ toShell' = toShell \o <<answer>> /\ UNCHANGED <<windows, focused>>
      \/ here /\ activates(c.id)
      \/ here /\ ~win.minimized /\ minimizes(c.id)
      \/ UNCHANGED <<windows, focused, toShell>>
  BY DEF takeCall, Send
<1>3. c \in Requests /\ co \in Seq(Requests) /\ Channel(toShell, co, Lit(windows))
  BY <1>1, FirstCall
<1>4. win \in WindowType /\ (win.focused => c.id \in Lit(windows))
  BY Known, UnknownType DEF Lit
\* It is enough that the registry and the channel agree.
<1>5. SUFFICES /\ windows' \in ListType
               /\ \A v : v \in DOMAIN windows' <=> v \in DOMAIN windows
               /\ Lit(windows') \subseteq {focused'} /\ focused' \in Windows \cup {NoWindow}
               /\ Channel(toShell', co, Lit(windows'))
  <2>1. ASSUME \A v : v \in DOMAIN windows' <=> v \in DOMAIN windows
        PROVE  DOMAIN windows' \subseteq 1..counter' /\ counter' \in Nat
    BY <1>1, <2>1, Known
  <2>2. QED
    BY <1>1, <1>3, <2>1, TaskbarRests
<1>6. CASE c.method = "list" /\ toShell' = toShell \o <<list>> /\ UNCHANGED <<windows, focused>>
  <2>1. IsFiniteSet(DOMAIN windows)
    <3>1. IsFiniteSet(1..counter)
      BY Known, FS_Interval
    <3>2. QED
      BY <3>1, Known, FS_Subset
  <2>2. list = [type |-> "list", id |-> NoWindow, win |-> Unknown, ids |-> DOMAIN windows]
    BY DEF Signal
  <2>3. list \in Messages /\ list.type = "list" /\ list.id = NoWindow
    BY <2>1, <2>2, Known, UnknownType DEF Messages
  <2>4. c.id = NoWindow
    BY <1>3, <1>6 DEF Requests
  <2> HIDE DEF list
  <2>5. Channel(toShell \o <<list>>, co, Lit(windows))
    BY <1>1, <1>6, <2>3, <2>4, AnswerSent
  <2>6. QED
    BY <1>6, <2>5, Known
<1>7. CASE c.method \in ToSet(Queries) /\ toShell' = toShell \o <<answer>> /\ UNCHANGED <<windows, focused>>
  <2>1. c.method \in Asked /\ c.id \in Windows
    <3>1. ToSet(Queries) = Asked
      BY DEF ToSet, Queries, Asked
    <3>2. QED
      BY <1>3, <1>7, <3>1 DEF Requests
  <2>2. answer \in Messages /\ answer.type = c.method /\ answer.id = c.id /\ answer.win = win
    <3> HIDE DEF win
    <3> DEFINE t == c.method
               w == c.id
               x == win
    <3>1. t \in Signals \cup Asked /\ w \in Windows /\ x \in WindowType
      BY <1>4, <2>1
    <3>2. answer = Signal(t, w, x)
      OBVIOUS
    <3> HIDE DEF answer, t, w, x
    <3>3. answer \in Messages /\ answer.type = t /\ answer.id = w /\ answer.win = x
      BY <3>1, <3>2, MessageIs
    <3>4. QED
      BY <3>3 DEF t, w, x
  <2>3. c.method # "list"
    BY <2>1 DEF Asked
  <2> HIDE DEF answer, win
  <2>4. Channel(toShell \o <<answer>>, co, Lit(windows))
    BY <1>1, <1>4, <2>1, <2>2, <2>3, AnswerSent
  <2>5. QED
    BY <1>7, <2>4, Known
<1>8. CASE here /\ activates(c.id)
  <2> DEFINE w == c.id
  <2>1. w \in DOMAIN windows /\ activates(w)
    BY <1>8
  <2> HIDE DEF w, co
  <2>2. /\ windows' \in ListType
        /\ \A v : v \in DOMAIN windows' <=> v \in DOMAIN windows
        /\ Lit(windows') \subseteq {focused'} /\ focused' = w
        /\ Channel(toShell', co, Lit(windows'))
    BY <1>3, <2>1, Known, Activates
  <2>3. QED
    BY <2>1, <2>2, Known
<1>9. CASE here /\ ~win.minimized /\ minimizes(c.id)
  <2> DEFINE w == c.id
  <2>1. w \in DOMAIN windows /\ minimizes(w) /\ ~windows[w].minimized
    BY <1>9
  <2> HIDE DEF w, co
  <2>2. /\ windows' \in ListType
        /\ \A v : v \in DOMAIN windows' <=> v \in DOMAIN windows
        /\ Lit(windows') \subseteq {focused'} /\ focused' = NoWindow
        /\ Channel(toShell', co, Lit(windows'))
    BY <1>3, <2>1, Known, Minimizes
  <2>3. QED
    BY <2>2
<1>10. CASE UNCHANGED <<windows, focused, toShell>>
  BY <1>3, <1>10, Known
<1>11. QED
  BY <1>2, <1>6, <1>7, <1>8, <1>9, <1>10

-----------------------------------------------------------------------------
(* The steps of the taskbar.                                               *)

LEMMA RegisteredIs ==
    ASSUME NEW rs, rs \in ListType, NEW w \in Windows, NEW x \in WindowType
    PROVE  /\ onWindowRegistered(rs, w, x) \in ListType
           /\ \A v : v \in Lit(onWindowRegistered(rs, w, x)) <=> v \in Lit(rs)
<1> DEFINE a == x.title
           b == x.appId
           old == [rs[w] EXCEPT !.title = a, !.appId = b]
           new == [Unknown EXCEPT !.title = a, !.appId = b]
           y == IF w \in DOMAIN rs THEN old ELSE new
<1>1. a \in 0..2 /\ b \in 0..2
  BY DEF WindowType
<1>2. onWindowRegistered(rs, w, x) = Put(rs, w, y)
  BY DEF onWindowRegistered
<1> HIDE DEF a, b
<1>3. CASE w \in DOMAIN rs
  <2> DEFINE z == rs[w]
  <2>1. z \in WindowType
    BY <1>3, ListIs
  <2>2. y = [z EXCEPT !.title = a, !.appId = b]
    BY <1>3
  <2> HIDE DEF y, z
  <2>3. y \in WindowType
    BY <1>1, <2>1, <2>2 DEF WindowType
  <2>4. y.focused = z.focused
    BY <2>1, <2>2 DEF WindowType
  <2>5. w \in Lit(rs) <=> y.focused
    BY <1>3, <2>4 DEF Lit, z
  <2>6. QED
    BY <1>2, <2>3, <2>5, PutIs
<1>4. CASE w \notin DOMAIN rs
  <2> DEFINE z == Unknown
  <2>1. z \in WindowType /\ ~z.focused
    BY UnknownType
  <2>2. y = [z EXCEPT !.title = a, !.appId = b]
    BY <1>4
  <2> HIDE DEF y, z
  <2>3. y \in WindowType
    BY <1>1, <2>1, <2>2 DEF WindowType
  <2>4. y.focused = z.focused
    BY <2>1, <2>2 DEF WindowType
  <2>5. w \in Lit(rs) <=> y.focused
    BY <1>4, <2>1, <2>4 DEF Lit
  <2>6. QED
    BY <1>2, <2>3, <2>5, PutIs
<1>5. QED
  BY <1>3, <1>4

LEMMA StateIs ==
    ASSUME NEW rs, rs \in ListType, NEW w \in Windows, NEW x \in WindowType
    PROVE  /\ onWindowStateChanged(rs, w, x) \in ListType
           /\ \A v \in Lit(onWindowStateChanged(rs, w, x)) : (v # w /\ v \in Lit(rs)) \/ (v = w /\ x.focused)
<1>1. CASE w \notin DOMAIN rs
  BY <1>1 DEF onWindowStateChanged, Lit
<1>2. CASE w \in DOMAIN rs
  <2> DEFINE z == rs[w]
             a == x.minimized
             b == x.focused
             y == [z EXCEPT !.minimized = a, !.focused = b]
  <2>1. z \in WindowType /\ a \in BOOLEAN /\ b \in BOOLEAN
    <3>1. a \in BOOLEAN /\ b \in BOOLEAN
      BY DEF WindowType
    <3>2. QED
      BY <1>2, <3>1, ListIs
  <2>2. onWindowStateChanged(rs, w, x) = Put(rs, w, y)
    BY <1>2 DEF onWindowStateChanged
  <2> HIDE DEF a, b, z
  <2>3. y \in WindowType
    BY <2>1 DEF WindowType
  <2>4. y.focused = b
    BY <2>1 DEF WindowType
  <2> HIDE DEF y
  <2>5. /\ Put(rs, w, y) \in ListType
        /\ \A v : v # w => (v \in Lit(Put(rs, w, y)) <=> v \in Lit(rs))
        /\ w \in Lit(Put(rs, w, y)) => y.focused
    BY <2>3, PutIs
  <2>6. y.focused => x.focused
    BY <2>4 DEF b
  <2>7. QED
    BY <2>2, <2>5, <2>6
<1>3. QED
  BY <1>1, <1>2

\* An answer changes its own field.
LEMMA AnswerIs ==
    ASSUME NEW y \in WindowType, NEW z \in WindowType, NEW t \in Asked
    PROVE  /\ [y EXCEPT ![t] = z[t]] \in WindowType
           /\ [y EXCEPT ![t] = z[t]].focused => y.focused \/ (t = "focused" /\ z.focused)
<1>1. CASE t = "title"
  BY <1>1 DEF WindowType
<1>2. CASE t = "appId"
  BY <1>2 DEF WindowType
<1>3. CASE t = "minimized"
  BY <1>3 DEF WindowType
<1>4. CASE t = "focused"
  BY <1>4 DEF WindowType
<1>5. QED
  BY <1>1, <1>2, <1>3, <1>4 DEF Asked

\* A step of the taskbar leaves the registry alone.
LEMMA RegistryRests ==
    ASSUME WindowInv, UNCHANGED wmVars, ShellTypes',
           toShell' \in Seq(Messages), toCompositor' \in Seq(Requests),
           Handover(Lit(rows)', toShell', Lit(windows)), Seeding(toShell', toCompositor', seeds')
    PROVE  WindowInv'
<1>1. UNCHANGED <<windows, counter, focused>>
  BY DEF wmVars
<1>2. Compositor'
  BY <1>1 DEF WindowInv, Compositor, Registry, Lit
<1>3. Lit(windows)' = Lit(windows)
  BY <1>1 DEF Lit
<1>4. Channel(toShell, toCompositor, Lit(windows))'
  BY <1>3 DEF Channel
<1>5. QED
  BY <1>2, <1>4 DEF WindowInv

\* The first message, and what is left of the channel.
LEMMA FirstMessage ==
    ASSUME WindowInv, toShell # <<>>
    PROVE  /\ Head(toShell) \in Messages /\ Tail(toShell) \in Seq(Messages)
           /\ Awaited(Head(toShell).type, Head(toShell).id, seeds)
           /\ Seeding(Tail(toShell), toCompositor, seeds)
           /\ \A e : (\A v \in e : (v \in Lit(rows) /\ ~Clears(Head(toShell), v)) \/ Sets(Head(toShell), v))
                        => Handover(e, Tail(toShell), Lit(windows))
<1> DEFINE m == Head(toShell)
<1>1. m \in Messages /\ Tail(toShell) \in Seq(Messages) /\ m = toShell[1] /\ 1 \in DOMAIN toShell
  BY Known, TailIs
<1>2. Handover(Lit(rows), toShell, Lit(windows)) /\ Seeding(toShell, toCompositor, seeds)
  BY Known DEF Channel
<1>3. Awaited(m.type, m.id, seeds)
  BY <1>1, <1>2 DEF Seeding
<1>4. Seeding(Tail(toShell), toCompositor, seeds)
  BY <1>2, Known, SeedingReceives
<1>5. ASSUME NEW e, \A v \in e : (v \in Lit(rows) /\ ~Clears(m, v)) \/ Sets(m, v)
      PROVE  Handover(e, Tail(toShell), Lit(windows))
  BY <1>2, <1>5, Known, HandoverReceive
<1>6. QED
  BY <1>1, <1>3, <1>4, <1>5

\* The row that becomes focused is remembered.
LEMMA LastFocusedIs ==
    ASSUME lastFocused \in Windows \cup {NoWindow}, NEW rs, NEW w \in Windows, NEW x
    PROVE  lastFocusedAfter(rs, w, x) \in Windows \cup {NoWindow}
  BY DEF lastFocusedAfter

LEMMA SignalStep ==
    ASSUME WindowInv, toShell # <<>>, toShell' = Tail(toShell), onSignal(Head(toShell)), UNCHANGED wmVars
    PROVE  WindowInv'
<1> DEFINE m == Head(toShell)
           r == rows'
<1>1. /\ m \in Messages /\ Tail(toShell) \in Seq(Messages)
      /\ Seeding(Tail(toShell), toCompositor, seeds)
      /\ \A e : (\A v \in e : (v \in Lit(rows) /\ ~Clears(m, v)) \/ Sets(m, v))
                   => Handover(e, Tail(toShell), Lit(windows))
  BY FirstMessage
<1>2. /\ m.type \in Signals /\ UNCHANGED <<seeds, toCompositor>>
      /\ m.type = "registered" => r = onWindowRegistered(rows, m.id, m.win)
      /\ m.type = "unregistered" => r = Drop(rows, m.id)
      /\ m.type = "state" => r = onWindowStateChanged(rows, m.id, m.win)
      /\ m.type = "metadata" =>
            r = IF m.id \in DOMAIN rows THEN onWindowRegistered(rows, m.id, m.win) ELSE rows
      /\ lastFocused' = IF m.type = "state" THEN lastFocusedAfter(rows, m.id, m.win) ELSE lastFocused
      /\ dropped' \in {dropped, dropped \cup {m.id}}
  BY DEF onSignal, Signals
<1>3. m.id \in Windows /\ m.win \in WindowType
  BY <1>1, <1>2 DEF Messages, Signals, Asked
<1>4. rows \in ListType /\ lastFocused \in Windows \cup {NoWindow} /\ dropped \subseteq Windows
  BY Known DEF ShellTypes
<1> HIDE DEF m, r
<1>5. r \in ListType /\ \A v \in Lit(r) : (v \in Lit(rows) /\ ~Clears(m, v)) \/ Sets(m, v)
  <2>1. CASE m.type = "registered"
    BY <1>2, <1>3, <1>4, <2>1, RegisteredIs DEF Clears
  <2>2. CASE m.type = "unregistered"
    <3>1. r \in ListType /\ \A v : v \in Lit(r) <=> v \in Lit(rows) /\ v # m.id
      BY <1>2, <1>4, <2>2, DropIs
    <3>2. QED
      BY <3>1 DEF Clears
  <2>3. CASE m.type = "state"
    <3>1. r \in ListType /\ \A v \in Lit(r) : (v # m.id /\ v \in Lit(rows)) \/ (v = m.id /\ m.win.focused)
      BY <1>2, <1>3, <1>4, <2>3, StateIs
    <3>2. QED
      BY <2>3, <3>1 DEF Clears, Sets
  <2>4. CASE m.type = "metadata"
    BY <1>2, <1>3, <1>4, <2>4, RegisteredIs DEF Clears
  <2>5. QED
    BY <1>2, <2>1, <2>2, <2>3, <2>4 DEF Signals
<1>6. Handover(Lit(r), Tail(toShell), Lit(windows))
  BY <1>1, <1>5
<1>7. lastFocused' \in Windows \cup {NoWindow} /\ dropped' \subseteq Windows
  BY <1>2, <1>3, <1>4, LastFocusedIs
<1>8. ShellTypes'
  BY <1>2, <1>5, <1>7, Known DEF ShellTypes, r
<1>9. Handover(Lit(rows)', toShell', Lit(windows))
  BY <1>6 DEF r, Lit
<1>10. QED
  BY <1>1, <1>2, <1>8, <1>9, Known, RegistryRests

LEMMA SequenceOfMore == ASSUME NEW S, NEW T, S \subseteq T, NEW q, q \in Seq(S) PROVE q \in Seq(T)
  OBVIOUS

\* The list arrives, or its call fails.
LEMMA ListStep ==
    ASSUME WindowInv, toShell # <<>>, toShell' = Tail(toShell), NEW error, onList(Head(toShell), error),
           UNCHANGED wmVars
    PROVE  WindowInv'
<1> DEFINE m == Head(toShell)
           s == SetToSeq(m.ids)
           r == callsFor(s)
           sc == [w \in m.ids |-> [got |-> 0, win |-> Unknown]]
<1>1. /\ m \in Messages /\ Tail(toShell) \in Seq(Messages)
      /\ Seeding(Tail(toShell), toCompositor, seeds)
      /\ \A e : (\A v \in e : (v \in Lit(rows) /\ ~Clears(m, v)) \/ Sets(m, v))
                   => Handover(e, Tail(toShell), Lit(windows))
  BY FirstMessage
<1>2. /\ m.type = "list" /\ UNCHANGED <<rows, lastFocused>>
      /\ \/ seeds' = seeds /\ toCompositor' = toCompositor /\ dropped' = dropped \cup m.ids
         \/ seeds' = sc /\ toCompositor' = toCompositor \o r /\ dropped' = dropped
  BY DEF onList
<1>3. m.ids \subseteq Windows /\ IsFiniteSet(m.ids)
  BY <1>1 DEF Messages
<1>4. Handover(Lit(rows)', toShell', Lit(windows))
  <2>1. \A v \in Lit(rows) : ~Clears(m, v)
    BY <1>2 DEF Clears
  <2>2. Handover(Lit(rows), Tail(toShell), Lit(windows))
    BY <1>1, <2>1
  <2>3. Lit(rows)' = Lit(rows)
    BY <1>2 DEF Lit
  <2>4. QED
    BY <2>2, <2>3
<1> HIDE DEF m
<1>5. CASE seeds' = seeds /\ toCompositor' = toCompositor /\ dropped' = dropped \cup m.ids
  <2>1. ShellTypes'
    BY <1>2, <1>3, <1>5, Known DEF ShellTypes
  <2>2. QED
    BY <1>1, <1>4, <1>5, <2>1, Known, RegistryRests
<1>6. CASE seeds' = sc /\ toCompositor' = toCompositor \o r /\ dropped' = dropped
  <2> DEFINE n == Cardinality(m.ids)
  <2>1. n \in Nat /\ s \in [1..n -> m.ids] /\ \A i, k \in 1..n : s[i] = s[k] => i = k
    BY <1>3, ListedOnce
  <2> HIDE DEF s, n
  <2>2. /\ r \in Seq([method : Asked, id : Windows])
        /\ \A i \in DOMAIN r : r[i].method \in Asked /\ r[i].id \in m.ids
        /\ \A i, k \in DOMAIN r : i < k => InTurn(r[i].method, r[i].id, r[k].method, r[k].id)
    BY <1>3, <2>1, CallsForList
  <2> HIDE DEF r
  <2>3. r \in Seq(Requests)
    <3>1. [method : Asked, id : Windows] \subseteq Requests
      BY DEF Requests, Asked
    <3>2. QED
      BY <2>2, <3>1, SequenceOfMore
  <2>4. \A w \in m.ids : w \in DOMAIN sc /\ sc[w].got = 0 /\ sc[w].win = Unknown
    OBVIOUS
  <2>5. DOMAIN sc = m.ids
    OBVIOUS
  <2> HIDE DEF sc
  <2>6. \A i \in DOMAIN r : Awaited(r[i].method, r[i].id, sc)
    <3>1. \A t : Place(t) > 0
      BY DEF Place
    <3>2. QED
      BY <2>2, <2>4, <3>1, UnknownType DEF Awaited
  <2>7. Seeding(toShell, toCompositor, seeds)
    BY Known DEF Channel
  <2>8. Seeding(Tail(toShell), toCompositor \o r, sc)
    BY <1>2, <2>2, <2>3, <2>6, <2>7, Known, SeedingList DEF m
  <2>9. ShellTypes'
    <3>1. \A w \in DOMAIN seeds' : seeds'[w].got \in 0..3 /\ seeds'[w].win \in WindowType
      BY <1>6, <2>4, <2>5, UnknownType
    <3>2. DOMAIN seeds' \subseteq Windows
      BY <1>3, <1>6, <2>5
    <3>3. QED
      BY <1>2, <1>6, <3>1, <3>2, Known DEF ShellTypes
  <2>10. toCompositor' \in Seq(Requests)
    BY <1>6, <2>3, Known, ConcatIs
  <2>11. QED
    BY <1>1, <1>4, <1>6, <2>8, <2>9, <2>10, RegistryRests
<1>7. QED
  BY <1>2, <1>5, <1>6

\* An answer arrives, or its call fails: the last one makes the row.
LEMMA AnswerStep ==
    ASSUME WindowInv, toShell # <<>>, toShell' = Tail(toShell), NEW error, onAnswer(Head(toShell), error),
           UNCHANGED wmVars
    PROVE  WindowInv'
<1> DEFINE m == Head(toShell)
           w == m.id
           t == m.type
           y == seeds[w].win
           z == m.win
           x == IF error THEN y ELSE [y EXCEPT ![t] = z[t]]
           known == onWindowRegistered(rows, w, x)
           r == rows'
           sc == seeds'
<1>1. /\ m \in Messages /\ Tail(toShell) \in Seq(Messages)
      /\ Awaited(t, w, seeds)
      /\ Seeding(Tail(toShell), toCompositor, seeds)
      /\ \A e : (\A v \in e : (v \in Lit(rows) /\ ~Clears(m, v)) \/ Sets(m, v))
                   => Handover(e, Tail(toShell), Lit(windows))
  BY FirstMessage
<1>2. /\ t \in ToSet(Queries) /\ dropped' \in {dropped, dropped \cup {w}} /\ toCompositor' = toCompositor
      /\ seeds[w].got + 1 < Len(Queries) => /\ sc = Put(seeds, w, [got |-> seeds[w].got + 1, win |-> x])
                                           /\ r = rows /\ lastFocused' = lastFocused
      /\ ~(seeds[w].got + 1 < Len(Queries)) => /\ sc = Drop(seeds, w)
                                              /\ r = onWindowStateChanged(known, w, x)
                                              /\ lastFocused' = lastFocusedAfter(known, w, x)
  BY DEF onAnswer
<1>3. t \in Asked /\ Len(Queries) = 4
  BY <1>2 DEF ToSet, Queries, Asked
<1>4. /\ w \in DOMAIN seeds /\ w \in Windows /\ seeds[w].got \in 0..3
      /\ y \in WindowType /\ ~y.focused /\ Place(t) > seeds[w].got
      /\ z \in WindowType
  BY <1>1, <1>3, Known DEF Awaited, ShellTypes, Messages
<1>5. x \in WindowType /\ (x.focused => t = "focused" /\ z.focused)
  <2>1. CASE error
    BY <1>4, <2>1
  <2>2. CASE ~error
    <3>1. x = [y EXCEPT ![t] = z[t]]
      BY <2>2
    <3> HIDE DEF x, y, z, t
    <3>2. CASE t = "title"
      BY <1>4, <3>1, <3>2 DEF WindowType
    <3>3. CASE t = "appId"
      BY <1>4, <3>1, <3>3 DEF WindowType
    <3>4. CASE t = "minimized"
      BY <1>4, <3>1, <3>4 DEF WindowType
    <3>5. CASE t = "focused"
      BY <1>4, <3>1, <3>5 DEF WindowType
    <3>6. QED
      BY <1>3, <3>2, <3>3, <3>4, <3>5 DEF Asked
  <2>3. QED
    BY <2>1, <2>2
<1>6. rows \in ListType /\ lastFocused \in Windows \cup {NoWindow} /\ dropped \subseteq Windows
      /\ DOMAIN seeds \subseteq Windows
      /\ \A v \in DOMAIN seeds : seeds[v].got \in 0..3 /\ seeds[v].win \in WindowType
  BY Known DEF ShellTypes
<1>7. Seeding(toShell, toCompositor, seeds)
  BY Known DEF Channel
<1>8. \A v : ~Clears(m, v)
  BY <1>3 DEF Clears, Asked
<1> HIDE DEF x, y, z
\* One of the first three answers.
<1>9. CASE seeds[w].got < 3
  <2>1. /\ sc = Put(seeds, w, [got |-> seeds[w].got + 1, win |-> x])
        /\ r = rows /\ lastFocused' = lastFocused
    BY <1>2, <1>3, <1>4, <1>9
  <2>2. /\ DOMAIN sc = DOMAIN seeds /\ sc[w] = [got |-> seeds[w].got + 1, win |-> x]
        /\ \A v \in DOMAIN seeds \ {w} : sc[v] = seeds[v]
    BY <1>4, <2>1 DEF Put
  <2>3. sc[w].got = seeds[w].got + 1 /\ sc[w].win = x
    BY <2>2
  <2> HIDE DEF sc, w, t, m
  <2>4. Seeding(Tail(toShell), toCompositor, sc)
    BY <1>3, <1>4, <1>5, <1>7, <2>2, <2>3, Known, SeedingCollects DEF w, t, m
  <2>5. \A v \in DOMAIN sc : sc[v].got \in 0..3 /\ sc[v].win \in WindowType
    BY <1>4, <1>5, <1>6, <1>9, <2>2, <2>3
  <2>6. ShellTypes'
    BY <1>2, <1>4, <1>6, <2>1, <2>2, <2>5 DEF ShellTypes, sc
  <2>7. Handover(Lit(rows)', toShell', Lit(windows))
    <3>1. Handover(Lit(rows), Tail(toShell), Lit(windows))
      BY <1>1, <1>8 DEF m
    <3>2. Lit(rows)' = Lit(rows)
      BY <2>1 DEF Lit
    <3>3. QED
      BY <3>1, <3>2
  <2>8. QED
    BY <1>1, <1>2, <2>4, <2>6, <2>7, Known, RegistryRests DEF sc
\* The last one.
<1>10. CASE seeds[w].got = 3
  <2>1. /\ sc = Drop(seeds, w) /\ r = onWindowStateChanged(known, w, x)
        /\ lastFocused' = lastFocusedAfter(known, w, x)
    BY <1>2, <1>3, <1>10
  <2>2. DOMAIN sc = DOMAIN seeds \ {w} /\ \A v \in DOMAIN seeds \ {w} : sc[v] = seeds[v]
    BY <2>1 DEF Drop, Restrict
  <2>3. known \in ListType /\ \A v : v \in Lit(known) <=> v \in Lit(rows)
    BY <1>4, <1>5, <1>6, RegisteredIs
  <2> HIDE DEF sc, known, r
  <2>4. /\ r \in ListType
        /\ \A v \in Lit(r) : (v # w /\ v \in Lit(known)) \/ (v = w /\ x.focused)
    BY <1>4, <1>5, <2>1, <2>3, StateIs
  <2>5. \A v \in Lit(r) : (v \in Lit(rows) /\ ~Clears(m, v)) \/ Sets(m, v)
    BY <1>5, <1>8, <2>3, <2>4 DEF Sets, z
  <2>6. Handover(Lit(rows)', toShell', Lit(windows))
    <3>1. Handover(Lit(r), Tail(toShell), Lit(windows))
      BY <1>1, <2>5
    <3>2. QED
      BY <3>1 DEF r, Lit
  <2>7. lastFocused' \in Windows \cup {NoWindow}
    BY <1>4, <1>6, <2>1, LastFocusedIs
  <2> HIDE DEF w, t, m
  <2>8. Seeding(Tail(toShell), toCompositor, sc)
    BY <1>3, <1>4, <1>7, <1>10, <2>2, Known, SeedingCollects DEF w, t, m
  <2>9. ShellTypes'
    BY <1>2, <1>4, <1>6, <2>2, <2>4, <2>7 DEF ShellTypes, sc, r
  <2>10. QED
    BY <1>1, <1>2, <2>6, <2>8, <2>9, Known, RegistryRests DEF sc
<1>11. QED
  BY <1>4, <1>9, <1>10

LEMMA NoRowsIs == NoRows \in ListType /\ DOMAIN NoRows = {} /\ Lit(NoRows) = {}
<1>1. DOMAIN NoRows = {} /\ NoRows = [v \in {} |-> NoRows[v]]
  BY DEF NoRows
<1>2. NoRows \in [{} -> WindowType] /\ {} \in SUBSET Windows
  BY <1>1
<1>3. NoRows \in ListType
  BY <1>2 DEF ListType
<1>4. QED
  BY <1>1, <1>3 DEF Lit

LEMMA ClickStep ==
    ASSUME WindowInv, NEW w \in DOMAIN rows, NEW method \in Commands \cup {"toggle"}, click(w, method)
    PROVE  WindowInv'
<1> DEFINE c == IF method # "toggle" THEN method
                ELSE IF ~rows[w].minimized /\ w = lastFocused THEN "minimize" ELSE "activate"
           a == Call(c, w)
<1>1. /\ toCompositor' = Append(toCompositor, a) /\ toShell' = toShell
      /\ UNCHANGED wmVars /\ UNCHANGED <<rows, lastFocused, seeds, dropped>>
  BY DEF click, shellVars
<1>2. c \in Commands /\ w \in Windows
  BY Known, ListIs DEF Commands, ShellTypes
<1> HIDE DEF c
<1>3. a \in Requests /\ a.method \notin Asked \cup {"list"}
  BY <1>2 DEF Call, Requests, Commands, Asked
<1> HIDE DEF a
<1>4. toCompositor' \in Seq(Requests)
  BY <1>1, <1>3, Known, AppendIs
<1>5. Seeding(toShell, Append(toCompositor, a), seeds)
  BY <1>3, Known, SeedingClick DEF Channel
<1>6. ShellTypes'
  BY <1>1, Known DEF ShellTypes
<1>7. Handover(Lit(rows)', toShell', Lit(windows))
  BY <1>1, Known DEF Channel, Lit
<1>8. QED
  BY <1>1, <1>4, <1>5, <1>6, <1>7, Known, RegistryRests

\* The shell starts anew.
LEMMA RestartStep ==
    ASSUME WindowInv, restart
    PROVE  WindowInv'
<1> DEFINE co == [k \in DOMAIN toCompositor |->
                     IF toCompositor[k].method \in Commands THEN toCompositor[k] ELSE Call("gone", NoWindow)]
           a == Call("list", NoWindow)
<1>1. /\ rows' = NoRows /\ lastFocused' = NoWindow /\ seeds' = NoRows /\ dropped' = {}
      /\ toShell' = <<>> /\ toCompositor' = Append(co, a) /\ UNCHANGED wmVars
  BY DEF restart
<1>2. a \in Requests /\ a.method = "list"
  BY DEF Call, Requests, Asked, Commands
<1>3. Call("gone", NoWindow) \in Requests /\ Call("gone", NoWindow).method = "gone"
  BY DEF Call, Requests, Asked, Commands
<1>4. toCompositor \in Seq(Requests)
  BY Known
<1>5. /\ DOMAIN co = 1..Len(toCompositor) /\ Len(toCompositor) \in Nat
      /\ \A k \in DOMAIN co : co[k] \in Requests /\ (co[k].method \in Commands \/ co[k].method = "gone")
      /\ co = [k \in 1..Len(toCompositor) |-> co[k]]
  BY <1>3, <1>4
<1> HIDE DEF co, a
<1>6. co \in Seq(Requests)
  <2>1. co \in [1..Len(toCompositor) -> Requests]
    BY <1>5
  <2>2. QED
    BY <1>5, <2>1, FunctionIsSequence
<1>7. \A k \in DOMAIN co : co[k].method \notin Asked \cup {"list"}
  BY <1>5 DEF Asked, Commands
<1>8. Seeding(<<>>, Append(co, a), seeds')
  BY <1>2, <1>6, <1>7, SeedingRestarts
<1>9. toCompositor' \in Seq(Requests)
  BY <1>1, <1>2, <1>6, AppendIs
<1>10. NoRows \in ListType /\ DOMAIN NoRows = {} /\ Lit(NoRows) = {}
  BY NoRowsIs
<1>11. Handover({}, <<>>, Lit(windows))
  BY DEF Handover, FocusAt
<1>12. Handover(Lit(rows)', toShell', Lit(windows))
  <2>1. Lit(rows)' = {}
    BY <1>1, <1>10 DEF Lit
  <2>2. QED
    BY <1>1, <1>11, <2>1
<1>13. ShellTypes'
  BY <1>1, <1>10 DEF ShellTypes
<1>14. QED
  BY <1>1, <1>8, <1>9, <1>12, <1>13, RegistryRests

LEMMA WindowInit == WindowAssumption /\ WinInit => WindowInv
<1> SUFFICES ASSUME WindowAssumption, WinInit
             PROVE  WindowInv
  OBVIOUS
<1> DEFINE a == Call("list", NoWindow)
<1>1. /\ windows = [w \in Opened |-> New(1)] /\ counter = Cardinality(Opened) /\ focused = NoWindow
      /\ toShell = <<>> /\ toCompositor = <<a>>
      /\ rows = NoRows /\ lastFocused = NoWindow /\ seeds = NoRows /\ dropped = {}
  BY DEF WinInit
<1>2. NoRows \in ListType /\ DOMAIN NoRows = {} /\ Lit(NoRows) = {}
  BY NoRowsIs
<1>3. counter \in Nat /\ Opened \subseteq 1..counter
  <2>1. PICK n \in Opened \cup {0} : Opened = 1..n
    BY DEF WindowAssumption
  <2>2. n \in Nat
    BY DEF WindowAssumption
  <2>3. Cardinality(1..n) = n
    BY <2>2, FS_Interval
  <2>4. QED
    BY <1>1, <2>1, <2>2, <2>3
<1>4. windows \in [Opened -> WindowType] /\ Opened \in SUBSET Windows
  BY <1>1, UnknownType DEF WindowAssumption
<1>5. windows \in ListType /\ DOMAIN windows \subseteq 1..counter
  BY <1>3, <1>4 DEF ListType
<1>6. Lit(windows) = {}
  BY <1>1, UnknownType DEF Lit
<1>7. Compositor
  BY <1>1, <1>3, <1>5, <1>6 DEF Compositor, Registry
<1>8. ShellTypes
  BY <1>1, <1>2 DEF ShellTypes
<1>9. a \in Requests /\ a.method = "list"
  BY DEF Call, Requests, Asked, Commands
<1> HIDE DEF a
<1>10. toCompositor \in Seq(Requests)
  BY <1>1, <1>9
<1>11. Handover({}, <<>>, {})
  BY DEF Handover, FocusAt
<1>12. Seeding(<<>>, Append(<<>>, a), seeds)
  <2> DEFINE e == <<>>
  <2>1. e \in Seq(Requests) /\ \A i \in DOMAIN e : e[i].method \notin Asked \cup {"list"}
    OBVIOUS
  <2> HIDE DEF e
  <2>2. Seeding(<<>>, Append(e, a), seeds)
    BY <1>9, <2>1, SeedingRestarts
  <2>3. QED
    BY <2>2 DEF e
<1>13. Append(<<>>, a) = <<a>>
  OBVIOUS
<1>14. Channel(toShell, toCompositor, Lit(windows))
  <2>1. Lit(rows) = {}
    BY <1>1, <1>2
  <2>2. Handover(Lit(rows), toShell, Lit(windows))
    BY <1>1, <1>6, <1>11, <2>1
  <2>3. toCompositor = Append(<<>>, a)
    BY <1>1, <1>13
  <2>4. Seeding(toShell, toCompositor, seeds)
    BY <1>1, <1>12, <2>3
  <2>5. toShell \in Seq(Messages)
    BY <1>1
  <2>6. QED
    BY <2>2, <2>4, <2>5 DEF Channel
<1>15. QED
  BY <1>7, <1>8, <1>10, <1>14 DEF WindowInv

LEMMA WindowStep ==
    ASSUME WindowAssumption, WindowInv, [WinNext]_winVars
    PROVE  WindowInv'
<1>1. CASE receive
  <2>1. toShell # <<>> /\ toShell' = Tail(toShell) /\ UNCHANGED wmVars
    BY <1>1 DEF receive
  <2>2. \/ onSignal(Head(toShell))
        \/ \E error \in BOOLEAN : onList(Head(toShell), error) \/ onAnswer(Head(toShell), error)
    BY <1>1 DEF receive
  <2>3. QED
    BY <2>1, <2>2, SignalStep, ListStep, AnswerStep
<1>2. CASE Exporting \/ UNCHANGED winVars
  <2>1. UNCHANGED <<windows, counter, focused, toShell, toCompositor, rows, lastFocused, seeds, dropped>>
    BY <1>2 DEF Exporting, winVars, wmVars, shellVars
  <2>2. ShellTypes'
    BY <2>1, Known DEF ShellTypes
  <2>3. Compositor'
    BY <2>1, Known DEF Compositor, Registry, Lit
  <2>4. Channel(toShell, toCompositor, Lit(windows))'
    BY <2>1, Known DEF Channel, Lit
  <2>5. QED
    BY <2>1, <2>2, <2>3, <2>4, Known DEF WindowInv
<1>3. QED
  BY <1>1, <1>2, SessionStep, TakeCallStep, RestartStep, ClickStep DEF WinNext

-----------------------------------------------------------------------------
(* What the exporter names, and the compositor's end.                      *)

Named == activeWindow.what \in Windows \cup {NoWindow}

LEMMA NamedStep ==
    ASSUME WindowInv, Named, [WinNext]_winVars
    PROVE  Named'
<1>1. ASSUME NEW w \in DOMAIN windows \cup {NoWindow}, setActive(w)
      PROVE  Named'
  <2>1. w \in Windows \cup {NoWindow}
    BY Known
  <2>2. activeWindow'.what \in {w, activeWindow.what}
    BY <1>1 DEF setActive, exporterVars
  <2>3. QED
    BY <2>1, <2>2 DEF Named
<1>2. CASE \/ onFlushTimer \/ writeDone \/ (\E v \in writing : writeToDisk(v))
           \/ UNCHANGED exporter
  <2>1. activeWindow' = activeWindow
    BY <1>2 DEF onFlushTimer, writeDone, writeToDisk, exporter
  <2>2. QED
    BY <2>1 DEF Named
<1>3. QED
  BY <1>1, <1>2, ExporterKinds

LEMMA RunningStep == running \in BOOLEAN /\ [WinNext]_winVars => running' \in BOOLEAN
<1> SUFFICES ASSUME running \in BOOLEAN, [WinNext]_winVars
             PROVE  running' \in BOOLEAN
  OBVIOUS
<1>1. running' = running \/ running' = FALSE
  <2>1. CASE Session
    BY <2>1, Zenon DEF Session, registerWindow, unregisterWindow, minimize, updateWindowMetadata, focus, quit
  <2>2. CASE takeCall \/ receive \/ restart \/ Exporting
    BY <2>2, Zenon DEF takeCall, receive, restart, Exporting, wmVars
  <2>3. CASE \E w \in DOMAIN rows, method \in Commands \cup {"toggle"} : click(w, method)
    BY <2>3, Zenon DEF click, wmVars
  <2>4. CASE UNCHANGED winVars
    BY <2>4, Zenon DEF winVars, wmVars
  <2>5. QED
    BY <2>1, <2>2, <2>3, <2>4, Zenon DEF WinNext
<1>2. QED
  BY <1>1, Zenon

\* However signals, answers, clicks, failed calls and restarts interleave, the
\* taskbar is well formed and never shows two focused windows: the compositor
\* sends the loss before the gain, and an answer enters a row in its turn
\* (TaskbarModel's constructor, onWindowStateChanged; Main.qml's
\* onActiveFocusSurfaceChanged).
THEOREM TaskbarOneFocus == WinSpec => []RowsConsistent
<1> DEFINE Inv == WindowInv /\ OneWrite /\ Named /\ running \in BOOLEAN
<1>1. WinInit => Inv
  <2> SUFFICES ASSUME WinInit
               PROVE  Inv
    OBVIOUS
  <2>1. running \in BOOLEAN
    BY Zenon DEF WinInit
  <2>2. OneWrite /\ Named
    BY DEF WinInit, ExporterInit, OneWrite, Named
  <2>3. QED
    BY <2>1, <2>2, WindowInit, WindowAssumption
<1>2. Inv /\ [WinNext]_winVars => Inv'
  <2> SUFFICES ASSUME Inv, [WinNext]_winVars
               PROVE  Inv'
    OBVIOUS
  <2>1. running' \in BOOLEAN
    BY RunningStep
  <2>2. WindowInv' /\ OneWrite' /\ Named'
    BY WindowStep, WritesInOrder, NamedStep, WindowAssumption
  <2>3. QED
    BY <2>1, <2>2
<1>3. Inv => RowsConsistent
  <2> SUFFICES ASSUME Inv
               PROVE  RowsConsistent
    OBVIOUS
  <2>1. WinTypeOK
    <3>1. file \in 0..activeWindow.version /\ activeWindow.what \in Windows \cup {NoWindow}
      BY DEF OneWrite, Named
    <3>2. QED
      BY <3>1, Known DEF WinTypeOK, ShellTypes
  <2>2. ASSUME NEW v \in DOMAIN rows, NEW w \in DOMAIN rows, rows[v].focused, rows[w].focused
        PROVE  v = w
    <3>1. /\ FocusAt(Lit(rows), toShell, v, 0) /\ FocusAt(Lit(rows), toShell, w, 0)
          /\ Handover(Lit(rows), toShell, Lit(windows))
      BY <2>2, Known DEF FocusAt, Lit, Channel
    <3>2. 0 \in 0..Len(toShell) /\ ~\E j \in DOMAIN toShell : 0 < j /\ j < 0 /\ Clears(toShell[j], v)
      BY Known
    <3>3. QED
      BY <3>1, <3>2 DEF Handover
  <2>3. QED
    BY <2>1, <2>2 DEF RowsConsistent, OneFocused
<1>4. QED
  BY <1>1, <1>2, <1>3, PTL DEF WinSpec

-----------------------------------------------------------------------------
(* The desktop: its files.                                                 *)

Contents == Range(desk)

\* The last of the names, with which the numbering of contents begins.
LastName == Max(Names)

LEMMA LastNameIs ==
    ASSUME IconsAssumption
    PROVE  LastName \in Nat /\ \A n \in Names : n <= LastName
<1>1. \E last \in Names : \A n \in Names : n <= last
  BY DEF IconsAssumption
<1>2. LastName \in Names /\ \A n \in Names : LastName >= n
  BY <1>1 DEF LastName, Max
<1>3. QED
  BY <1>2 DEF IconsAssumption

\* A name in the folder is given content c.
LEMMA WithName ==
    ASSUME NEW n, NEW c
    PROVE  LET f == with(n, c)
           IN  /\ DOMAIN f = DOMAIN desk \cup {n} /\ f[n] = c
               /\ \A m \in DOMAIN desk \ {n} : f[m] = desk[m]
               /\ c \in Range(f) /\ Range(f) \subseteq Contents \cup {c}
               /\ \A x \in Contents : x \in Range(f) \/ (n \in DOMAIN desk /\ x = desk[n])
<1> DEFINE f == with(n, c)
<1>1. /\ DOMAIN f = DOMAIN desk \cup {n} /\ f[n] = c
      /\ \A m \in DOMAIN desk \ {n} : f[m] = desk[m]
  BY DEF with
<1> HIDE DEF f
<1>2. c \in Range(f) /\ Range(f) \subseteq Contents \cup {c}
  BY <1>1 DEF Range, Contents
<1>3. \A x \in Contents : x \in Range(f) \/ (n \in DOMAIN desk /\ x = desk[n])
  BY <1>1 DEF Range, Contents
<1>4. QED
  BY <1>1, <1>2, <1>3 DEF f

\* A name leaves the folder.
LEMMA WithoutName ==
    ASSUME NEW n
    PROVE  LET f == without(n)
           IN  /\ DOMAIN f = DOMAIN desk \ {n}
               /\ \A m \in DOMAIN desk \ {n} : f[m] = desk[m]
               /\ Range(f) \subseteq Contents
               /\ \A x \in Contents : x \in Range(f) \/ (n \in DOMAIN desk /\ x = desk[n])
<1> DEFINE f == without(n)
<1>1. DOMAIN f = DOMAIN desk \ {n} /\ \A m \in DOMAIN desk \ {n} : f[m] = desk[m]
  BY DEF without
<1> HIDE DEF f
<1>2. Range(f) \subseteq Contents
  BY <1>1 DEF Range, Contents
<1>3. \A x \in Contents : x \in Range(f) \/ (n \in DOMAIN desk /\ x = desk[n])
  BY <1>1 DEF Range, Contents
<1>4. QED
  BY <1>1, <1>2, <1>3 DEF f

-----------------------------------------------------------------------------
(* The invariant of the desktop.                                           *)

Paths == Names \cup {Dir}
Kinds == {"file", "folder", "shortcut"}
Calls == Kinds \cup {"idle", "read", "watch", "rename", "gio", "rename to trash", "copy", "remove"}
Rows(w) == Seq(Names \X (0..w))
Gui(w) == [pc : Calls, todo : Seq(Names), rows : Rows(w), name : Nat, data : Nat]

IconFlags == there \in BOOLEAN /\ showHidden \in BOOLEAN /\ trashNotice \in BOOLEAN

IconTypes ==
    /\ writes \in Nat /\ LastName \in Nat /\ writes >= LastName
    /\ DOMAIN desk \subseteq Names /\ (there \/ DOMAIN desk = {})
    /\ Contents \subseteq 1..writes /\ trash \subseteq 1..writes /\ forgone \subseteq 1..writes
    /\ entries \in Rows(writes) /\ missed \subseteq Names
    /\ trashWatch \in {"on", "dead", "off"} /\ itemCount \in Nat

Watches == watched \subseteq Paths /\ notices \subseteq Paths /\ dead \subseteq watched \cap notices

\* What the GUI thread is doing has its parameters.
Doing ==
    /\ gui \in Gui(writes)
    /\ gui.pc = "watch" => gui.todo # <<>>
    /\ gui.pc \in Kinds \cup {"rename"} => gui.name \in Names
    /\ gui.pc = "rename" => gui.data \in Names

\* A file put under a name that a call has found free is one that others
\* forgo; what is about to be removed is in the trash, or theirs.
Safe ==
    /\ gui.pc \in {"file", "shortcut"} /\ gui.name \in DOMAIN desk => desk[gui.name] \in forgone
    /\ gui.pc = "remove" => /\ gui.data \in trash
                            /\ gui.name \in DOMAIN desk => desk[gui.name] \in {gui.data} \cup forgone

Written == Start \cup (LastName + 1)..writes

Found == Written \subseteq Contents \cup trash \cup forgone

DeskInv == IconTypes /\ Watches /\ Doing /\ Safe /\ Found

-----------------------------------------------------------------------------
(* Its parts.                                                              *)

LEMMA RowsGrow ==
    ASSUME NEW w \in Nat
    PROVE  Rows(w) \subseteq Rows(w + 1) /\ Gui(w) \subseteq Gui(w + 1)
<1>1. 0..w \subseteq 0..(w + 1)
  OBVIOUS
<1>2. \A s \in Rows(w) : s \in Rows(w + 1)
  BY <1>1 DEF Rows
<1>3. QED
  BY <1>2 DEF Gui

\* The instance counts as the library does.
LEMMA SameCount == ASSUME NEW S PROVE Cardinality(S) = Cardinality(S)
  BY DEF Cardinality, Cardinality

LEMMA NamesFinite ==
    ASSUME IconsAssumption
    PROVE  IsFiniteSet(Names)
<1>1. LastName \in Nat /\ Names \subseteq 0..LastName
  BY LastNameIs DEF IconsAssumption
<1>2. ASSUME NEW n \in Nat
      PROVE  IsFiniteSet(0..n)
  <2>1. 0 \in Int /\ n \in Int
    OBVIOUS
  <2>2. QED
    BY <2>1, FS_Interval, Zenon
<1>3. QED
  BY <1>1, <1>2, FS_Subset

\* A scan reads each visible name.
LEMMA ScanningIs ==
    ASSUME IconsAssumption, NEW S, S \subseteq Names, NEW g \in Scanning(S)
    PROVE  g \in Gui(writes) /\ g.pc = "read"
<1>1. PICK s \in InOrder(S) : g = [Idle EXCEPT !.pc = "read", !.todo = s]
  BY DEF Scanning
<1>2. s \in Seq(Names)
  <2>1. s \in SetToSeqs(S)
    BY <1>1 DEF InOrder
  <2>2. s \in [1..Cardinality(S) -> S]
    BY <2>1, SameCount DEF SetToSeqs
  <2>3. IsFiniteSet(S)
    BY NamesFinite, FS_Subset
  <2>4. QED
    BY <2>2, <2>3, FS_CardinalityType
<1>3. <<>> \in Rows(writes)
  BY DEF Rows
<1>4. g = [pc |-> "read", todo |-> s, rows |-> <<>>, name |-> 0, data |-> 0]
  BY <1>1 DEF Idle
<1>5. QED
  BY <1>2, <1>3, <1>4 DEF Gui, Calls

LEMMA IdleIs == ASSUME NEW w PROVE Idle \in Gui(w) /\ Idle.pc = "idle"
<1>1. <<>> \in Rows(w) /\ <<>> \in Seq(Names)
  BY DEF Rows
<1>2. QED
  BY <1>1 DEF Idle, Gui, Calls

\* A change of the folder's files keeps the watches accounted for.
LEMMA BecomesWatches ==
    ASSUME Watches, NEW f, NEW gone, gone \subseteq Names, NEW edited, edited \subseteq Names,
           becomes(f, gone, edited)
    PROVE  desk' = f /\ there' = there /\ Watches'
<1>1. /\ desk' = f /\ there' = there /\ watched' = watched
      /\ dead' = dead \cup (gone \cap watched)
  BY DEF becomes
<1>2. /\ notices' \subseteq notices \cup gone \cup edited \cup {Dir}
      /\ notices \subseteq notices'
      /\ \A n \in gone \cap watched : n \in dead \/ n \in notices'
  BY DEF becomes, Live
<1>3. QED
  BY <1>1, <1>2 DEF Watches, Paths

\* So does a scan, which forgets the watches of files that are gone.
LEMMA ScanStarts ==
    ASSUME IconsAssumption, IconTypes, Doing, NEW w, w \subseteq Paths, NEW ns, ns \subseteq Paths,
           NEW d, d \subseteq w \cap ns, scanDirectory(w, d, ns)
    PROVE  Watches' /\ gui' \in Gui(writes) /\ gui'.pc \in {"idle", "read"}
           /\ entries' \in Rows(writes)
<1>1. CASE ~there
  <2>1. /\ entries' = <<>> /\ gui' = Idle
        /\ watched' = w /\ dead' = d /\ notices' = ns
    BY <1>1 DEF scanDirectory
  <2>2. <<>> \in Rows(writes)
    BY DEF Rows
  <2>3. QED
    BY <2>1, <2>2, IdleIs DEF Watches
<1>2. CASE there
  <2> DEFINE stale == w \ ({Dir} \cup DOMAIN desk)
             S == {n \in DOMAIN desk : visible(n)}
  <2>1. /\ watched' = {Dir} \cup (w \ stale) /\ dead' = d \ stale /\ notices' = ns \ stale
        /\ gui' \in Scanning(S) /\ entries' = entries
    BY <1>2 DEF scanDirectory
  <2>2. S \subseteq Names
    BY DEF IconTypes
  <2> HIDE DEF S
  <2>3. gui' \in Gui(writes) /\ gui'.pc = "read"
    BY <2>1, <2>2, ScanningIs
  <2>4. QED
    BY <2>1, <2>3 DEF Watches, Paths, IconTypes
<1>3. QED
  BY <1>1, <1>2

-----------------------------------------------------------------------------
(* Its steps.                                                              *)

files == <<desk, there, trash, writes, forgone, missed, trashWatch>>

\* A scan begins: nothing is written.
LEMMA BeginScan ==
    ASSUME IconsAssumption, DeskInv, UNCHANGED files, itemCount' = itemCount,
           NEW w, w \subseteq Paths, NEW ns, ns \subseteq Paths,
           NEW d, d \subseteq w \cap ns, scanDirectory(w, d, ns)
    PROVE  DeskInv'
<1>0. IconTypes /\ Doing /\ Found /\ UNCHANGED <<desk, there, trash, writes, forgone, missed, trashWatch>>
  BY DEF DeskInv, files
<1>1. Watches' /\ gui' \in Gui(writes) /\ gui'.pc \in {"idle", "read"} /\ entries' \in Rows(writes)
  BY <1>0, ScanStarts
<1>2. IconTypes'
  BY <1>0, <1>1 DEF IconTypes, Contents, Range
<1>3. Doing' /\ Safe'
  BY <1>0, <1>1 DEF Doing, Safe, Kinds
<1>4. Found'
  BY <1>0 DEF Found, Written, Contents, Range
<1>5. QED
  BY <1>1, <1>2, <1>3, <1>4 DEF DeskInv

\* Steps of the GUI thread that touch no file.
LEMMA GuiStep ==
    ASSUME DeskInv, UNCHANGED <<desk, there, trash, writes, forgone, trashWatch>>,
           missed' \subseteq Names, itemCount' \in Nat, entries' \in Rows(writes), Watches', Doing', Safe'
    PROVE  DeskInv'
<1>1. IconTypes'
  BY DEF DeskInv, IconTypes, Contents, Range
<1>2. Found'
  BY DEF DeskInv, Found, Written, Contents, Range
<1>3. QED
  BY <1>1, <1>2 DEF DeskInv

LEMMA ScanStep ==
    ASSUME DeskInv, Scan
    PROVE  DeskInv'
<1>0. IconTypes /\ Watches /\ Doing /\ Safe
  BY DEF DeskInv
<1>1. gui \in Gui(writes)
  BY <1>0 DEF Doing
<1>2. CASE readEntry
  <2> DEFINE n == Head(gui.todo)
             c == IF n \in DOMAIN desk THEN desk[n] ELSE Missing
  <2>1. /\ gui.pc = "read" /\ gui.todo # <<>>
        /\ gui' = [gui EXCEPT !.pc = "watch", !.rows = Append(gui.rows, <<n, c>>)]
        /\ missed' = missed \ {n}
        /\ UNCHANGED <<desk, there, watched, dead, notices, trash, entries, trashWatch, itemCount,
                       writes, forgone>>
    BY <1>2 DEF readEntry, folder, trashIcon
  <2>2. n \in Names
    BY <1>1, <2>1 DEF Gui
  <2>3. c \in 0..writes
    <3>1. /\ writes \in Nat
          /\ \A x \in DOMAIN desk : desk[x] \in 1..writes
      BY <1>0 DEF IconTypes, Contents, Range
    <3>2. QED
      BY <3>1 DEF Missing
  <2> HIDE DEF n, c
  <2>4. Append(gui.rows, <<n, c>>) \in Rows(writes)
    BY <1>1, <2>2, <2>3 DEF Gui, Rows
  <2>5. gui' \in Gui(writes) /\ gui'.pc = "watch" /\ gui'.todo = gui.todo
    BY <1>1, <2>1, <2>4 DEF Gui, Calls
  <2>6. Doing' /\ Safe'
    BY <2>1, <2>5 DEF Doing, Safe, Kinds
  <2>7. Watches' /\ missed' \subseteq Names /\ entries' \in Rows(writes) /\ itemCount' \in Nat
    BY <1>0, <2>1 DEF Watches, IconTypes
  <2>8. QED
    BY <2>1, <2>6, <2>7, GuiStep
<1>3. CASE watchEntry
  <2>1. /\ gui.pc = "watch" /\ gui' = [gui EXCEPT !.pc = "read", !.todo = Tail(gui.todo)]
        /\ watched' = watched \cup ({Head(gui.todo)} \cap (DOMAIN desk \ Folders))
        /\ UNCHANGED <<desk, there, dead, notices, trash, entries, trashWatch, itemCount,
                       writes, forgone, missed>>
    BY <1>3 DEF watchEntry, trashIcon, history
  <2>2. gui.todo # <<>> /\ gui.todo \in Seq(Names)
    BY <1>0, <1>1, <2>1 DEF Doing, Gui
  <2>3. Tail(gui.todo) \in Seq(Names) /\ Head(gui.todo) \in Names
    BY <2>2
  <2>4. gui' \in Gui(writes) /\ gui'.pc = "read"
    BY <1>1, <2>1, <2>3 DEF Gui, Calls
  <2>5. Doing' /\ Safe'
    BY <2>1, <2>4 DEF Doing, Safe, Kinds
  <2>6. Watches' /\ missed' \subseteq Names /\ entries' \in Rows(writes) /\ itemCount' \in Nat
    BY <1>0, <2>1, <2>3 DEF Watches, IconTypes, Paths
  <2>7. QED
    BY <2>1, <2>5, <2>6, GuiStep
<1>4. CASE endScan
  <2>1. /\ entries' = gui.rows /\ gui' = Idle
        /\ UNCHANGED <<desk, there, watched, dead, notices, trash, trashWatch, itemCount,
                       writes, forgone, missed>>
    BY <1>4 DEF endScan, folder, trashIcon, history
  <2>2. Doing' /\ Safe'
    BY <2>1, IdleIs DEF Doing, Safe, Kinds
  <2>3. Watches' /\ missed' \subseteq Names /\ entries' \in Rows(writes) /\ itemCount' \in Nat
    BY <1>0, <1>1, <2>1 DEF Watches, IconTypes, Gui
  <2>4. QED
    BY <2>1, <2>2, <2>3, GuiStep
<1>5. QED
  BY <1>2, <1>3, <1>4 DEF Scan

\* A notification, refresh, and the switch for hidden files scan again.
LEMMA RescanStep ==
    ASSUME IconsAssumption, DeskInv,
           \/ \E x \in Paths : onChanged(x)
           \/ refresh \/ setShowHidden
    PROVE  DeskInv'
<1>0. IconTypes /\ Watches /\ Doing /\ Safe
  BY DEF DeskInv
<1>1. ASSUME NEW x \in Paths, onChanged(x)
      PROVE  DeskInv'
  <2>1. /\ UNCHANGED <<desk, there, trash, writes, forgone, missed, trashWatch, itemCount>>
    BY <1>1 DEF onChanged, trashIcon, history
  <2>2. CASE x \in watched
    <3>1. scanDirectory(watched \ (dead \cap {x}), dead \ {x}, notices \ {x})
      BY <1>1, <2>2 DEF onChanged
    <3>2. /\ watched \ (dead \cap {x}) \subseteq Paths /\ notices \ {x} \subseteq Paths
          /\ dead \ {x} \subseteq (watched \ (dead \cap {x})) \cap (notices \ {x})
      BY <1>0 DEF Watches
    <3>3. UNCHANGED files
      BY <2>1 DEF files
    <3>4. QED
      BY <2>1, <3>1, <3>2, <3>3, BeginScan
  <2>3. CASE x \notin watched
    <3>1. notices' = notices \ {x} /\ UNCHANGED <<watched, dead, entries, gui>>
      BY <1>1, <2>3 DEF onChanged
    <3>2. Watches'
      BY <1>0, <2>3, <3>1 DEF Watches
    <3>3. Doing' /\ Safe' /\ missed' \subseteq Names /\ entries' \in Rows(writes) /\ itemCount' \in Nat
      BY <1>0, <2>1, <3>1 DEF Doing, Safe, IconTypes
    <3>4. QED
      BY <2>1, <3>2, <3>3, GuiStep
  <2>4. QED
    BY <2>2, <2>3
<1>2. CASE refresh \/ setShowHidden
  <2>1. /\ UNCHANGED <<desk, there, trash, writes, forgone, missed, trashWatch, itemCount>>
        /\ scanDirectory(watched, dead, notices)
    BY <1>2 DEF refresh, setShowHidden, trashIcon, history
  <2>2. UNCHANGED files
    BY <2>1 DEF files
  <2>3. QED
    BY <1>0, <2>1, <2>2, BeginScan DEF Watches
<1>3. QED
  BY <1>1, <1>2

\* A call is made: a name is checked, nothing is written.
LEMMA CallStep ==
    ASSUME IconsAssumption, DeskInv,
           \/ \E kind \in DOMAIN NewName : create(kind)
           \/ \E row \in DOMAIN entries : trashEntry(row) \/ \E n \in Names : renameEntry(row, n)
    PROVE  DeskInv'
<1>0. IconTypes /\ Watches /\ Doing /\ Safe /\ Names \subseteq Nat
  BY DEF DeskInv, IconsAssumption
<1>1. ASSUME NEW p \in Calls \ {"watch", "remove"}, NEW n \in Names,
             gui' \in Gui(writes), gui'.pc = p, gui'.name = n,
             p \in {"file", "shortcut"} => n \notin DOMAIN desk,
             p = "rename" => gui'.data \in Names,
             UNCHANGED <<desk, there, watched, dead, notices, trash, entries, trashWatch, itemCount,
                         writes, forgone, missed>>
      PROVE  DeskInv'
  <2>2. Doing' /\ Safe'
    BY <1>1 DEF Doing, Safe
  <2>3. Watches' /\ missed' \subseteq Names /\ entries' \in Rows(writes) /\ itemCount' \in Nat
    BY <1>0, <1>1 DEF Watches, IconTypes
  <2>4. QED
    BY <1>1, <2>2, <2>3, GuiStep
<1>2. ASSUME NEW p \in Calls, NEW n \in Names
      PROVE  LET g == [Idle EXCEPT !.pc = p, !.name = n]
             IN  g \in Gui(writes) /\ g.pc = p /\ g.name = n
  BY <1>0, IdleIs DEF Gui
<1>3. ASSUME NEW kind \in DOMAIN NewName, create(kind)
      PROVE  DeskInv'
  <2>1. PICK n \in Names : uniqueName(kind, n)
                           /\ gui' = [Idle EXCEPT !.pc = kind, !.name = n]
    BY <1>3 DEF create
  <2>2. n \notin DOMAIN desk /\ kind \in Kinds
    BY <2>1 DEF uniqueName, IconsAssumption, Kinds
  <2>3. kind \in Calls \ {"watch", "remove"} /\ kind # "rename"
    BY <2>2 DEF Kinds, Calls
  <2>4. UNCHANGED <<desk, there, watched, dead, notices, trash, entries, trashWatch, itemCount,
                    writes, forgone, missed>>
    BY <1>3 DEF create, folder, trashIcon, history
  <2>5. QED
    BY <1>1, <1>2, <2>1, <2>2, <2>3, <2>4
<1>4. ASSUME NEW row \in DOMAIN entries
      PROVE  entries[row][1] \in Names
  BY <1>0, <1>4 DEF IconTypes, Rows
<1>5. ASSUME NEW row \in DOMAIN entries, trashEntry(row)
      PROVE  DeskInv'
  <2>1. gui' = [Idle EXCEPT !.pc = "gio", !.name = entries[row][1]]
    BY <1>5 DEF trashEntry
  <2>2. UNCHANGED <<desk, there, watched, dead, notices, trash, entries, trashWatch, itemCount,
                    writes, forgone, missed>>
    BY <1>5 DEF trashEntry, folder, trashIcon, history
  <2>3. QED
    <3>1. "gio" \in Calls \ {"watch", "remove"}
      BY DEF Calls
    <3>2. gui' \in Gui(writes) /\ gui'.pc = "gio" /\ gui'.name = entries[row][1]
      <4> DEFINE n == entries[row][1]
      <4>1. n \in Names
        BY <1>4
      <4>2. gui' = [Idle EXCEPT !.pc = "gio", !.name = n]
        BY <2>1
      <4> HIDE DEF n
      <4>3. gui' \in Gui(writes) /\ gui'.pc = "gio" /\ gui'.name = n
        BY <1>2, <3>1, <4>1, <4>2
      <4>4. QED
        BY <4>3 DEF n
    <3>3. QED
      BY <1>1, <1>4, <2>2, <3>1, <3>2
<1>6. ASSUME NEW row \in DOMAIN entries, NEW n \in Names, renameEntry(row, n)
      PROVE  DeskInv'
  <2>1. gui' = [Idle EXCEPT !.pc = "rename", !.name = entries[row][1], !.data = n]
    BY <1>6 DEF renameEntry
  <2>2. UNCHANGED <<desk, there, watched, dead, notices, trash, entries, trashWatch, itemCount,
                    writes, forgone, missed>>
    BY <1>6 DEF renameEntry, folder, trashIcon, history
  <2>3. gui' \in Gui(writes) /\ gui'.pc = "rename" /\ gui'.name = entries[row][1] /\ gui'.data = n
    BY <1>0, <1>4, <2>1, IdleIs DEF Gui, Calls
  <2>4. QED
    BY <1>1, <1>4, <2>2, <2>3 DEF Calls
<1>7. QED
  BY <1>3, <1>5, <1>6

\* What was found is still found when nothing leaves the folder or the trash
\* unless others forgo it, and what is written enters the folder.
LEMMA FoundKept ==
    ASSUME IconTypes, Found, Contents \subseteq Contents' \cup trash' \cup forgone',
           trash \subseteq trash' \cup forgone', forgone \subseteq forgone',
           writes' = writes \/ (writes' = writes + 1 /\ writes' \in Contents')
    PROVE  Found'
<1>1. Written' \subseteq Written \cup {writes'}
  BY DEF IconTypes, Written, LastName
<1>2. writes' = writes => Written' = Written
  BY DEF Written, LastName
<1>3. QED
  BY <1>1, <1>2 DEF Found

\* Types that a change of the files keeps.
LEMMA TypesKept ==
    ASSUME IconTypes, writes' \in {writes, writes + 1},
           DOMAIN desk' \subseteq Names, there' \/ DOMAIN desk' = {},
           Contents' \subseteq 1..writes', trash' \subseteq 1..writes', forgone' \subseteq 1..writes',
           entries' = entries, missed' \subseteq Names,
           trashWatch' \in {"on", "dead", "off"}, itemCount' \in Nat
    PROVE  IconTypes'
<1>1. writes \in Nat /\ writes' \in Nat /\ writes' >= LastName
  BY DEF IconTypes
<1>2. entries' \in Rows(writes')
  BY <1>1, RowsGrow DEF IconTypes
<1>3. QED
  BY <1>1, <1>2 DEF IconTypes, LastName

LEMMA GuiGrows ==
    ASSUME IconTypes, writes' \in {writes, writes + 1}
    PROVE  Gui(writes) \subseteq Gui(writes')
  BY RowsGrow DEF IconTypes

\* A new folder, file or shortcut.
LEMMA MakeNewStep ==
    ASSUME DeskInv, makeNew, DOMAIN NewName \subseteq Kinds
    PROVE  DeskInv'
<1> DEFINE n == gui.name
           f == with(n, writes + 1)
<1>0. IconTypes /\ Watches /\ Doing /\ Safe /\ Found /\ writes \in Nat
  BY DEF DeskInv, IconTypes
<1>1. /\ gui.pc \in Kinds /\ n \in Names /\ gui' = Idle
      /\ UNCHANGED <<trash, entries, trashWatch, itemCount, forgone, missed>>
  BY <1>0 DEF makeNew, trashIcon, history, Doing
<1>2. /\ DOMAIN f = DOMAIN desk \cup {n} /\ writes + 1 \in Range(f)
      /\ Range(f) \subseteq Contents \cup {writes + 1}
      /\ \A x \in Contents : x \in Range(f) \/ (n \in DOMAIN desk /\ x = desk[n])
  BY WithName
<1>3. \/ /\ there /\ ~(gui.pc = "folder" /\ n \in DOMAIN desk)
         /\ becomes(f, {}, {n} \cap DOMAIN desk) /\ writes' = writes + 1
      \/ /\ ~there /\ there' = TRUE /\ desk' = f /\ writes' = writes + 1
         /\ UNCHANGED <<watched, dead, notices>>
      \/ UNCHANGED <<desk, there, watched, dead, notices, writes>>
  BY DEF makeNew, folder
<1> HIDE DEF f, n
<1>4. Doing' /\ Safe'
  BY <1>1, IdleIs DEF Doing, Safe, Kinds
<1>5. ASSUME desk' = f, there', Watches', writes' = writes + 1,
             n \in DOMAIN desk => desk[n] \in forgone
      PROVE  DeskInv'
  <2>1. Contents' = Range(f)
    BY <1>5 DEF Contents, Range
  <2>2. /\ DOMAIN desk' \subseteq Names /\ Contents' \subseteq 1..writes'
        /\ trash' \subseteq 1..writes' /\ forgone' \subseteq 1..writes'
    <3>1. DOMAIN desk' \subseteq Names
      BY <1>0, <1>1, <1>2, <1>5 DEF IconTypes
    <3>2. 1..writes \subseteq 1..writes' /\ writes + 1 \in 1..writes'
      BY <1>0, <1>5
    <3>3. trash \subseteq 1..writes /\ forgone \subseteq 1..writes /\ Contents \subseteq 1..writes
      BY <1>0 DEF IconTypes
    <3>4. QED
      BY <1>1, <1>2, <2>1, <3>1, <3>2, <3>3
  <2>3. IconTypes'
    BY <1>0, <1>1, <1>5, <2>2, TypesKept DEF IconTypes
  <2>4. Found'
    BY <1>0, <1>1, <1>2, <1>5, <2>1, FoundKept
  <2>5. QED
    BY <1>4, <1>5, <2>3, <2>4 DEF DeskInv
<1>6. CASE /\ there /\ ~(gui.pc = "folder" /\ n \in DOMAIN desk)
           /\ becomes(f, {}, {n} \cap DOMAIN desk) /\ writes' = writes + 1
  <2>1. desk' = f /\ there' = there /\ Watches'
    BY <1>0, <1>1, <1>6, BecomesWatches DEF IconTypes
  <2>2. n \in DOMAIN desk => desk[n] \in forgone
    BY <1>0, <1>1, <1>6 DEF Safe, Kinds, n
  <2>3. QED
    BY <1>5, <1>6, <2>1, <2>2
<1>7. CASE /\ ~there /\ there' = TRUE /\ desk' = f /\ writes' = writes + 1
           /\ UNCHANGED <<watched, dead, notices>>
  <2>1. DOMAIN desk = {} /\ Watches'
    BY <1>0, <1>7 DEF IconTypes, Watches
  <2>2. QED
    BY <1>5, <1>7, <2>1
<1>8. CASE UNCHANGED <<desk, there, watched, dead, notices, writes>>
  <2>1. Watches' /\ missed' \subseteq Names /\ entries' \in Rows(writes) /\ itemCount' \in Nat
    BY <1>0, <1>1, <1>8 DEF Watches, IconTypes
  <2>2. QED
    BY <1>1, <1>4, <1>8, <2>1, GuiStep
<1>9. QED
  BY <1>3, <1>6, <1>7, <1>8

\* A rename keeps the content.
LEMMA RenameStep ==
    ASSUME DeskInv, rename
    PROVE  DeskInv'
<1>0. IconTypes /\ Watches /\ Doing /\ Safe /\ Found
  BY DEF DeskInv
<1>1. /\ gui.name \in Names /\ gui.data \in Names /\ gui' = Idle
      /\ UNCHANGED <<trash, entries, trashWatch, itemCount, forgone, missed, writes>>
  BY <1>0 DEF rename, trashIcon, history, Doing
<1>2. Doing' /\ Safe'
  BY <1>1, IdleIs DEF Doing, Safe, Kinds
<1>3. CASE gui.name \notin DOMAIN desk \/ gui.data \in DOMAIN desk
  <2>1. UNCHANGED <<desk, there, watched, dead, notices>>
    BY <1>3 DEF rename, folder
  <2>2. Watches' /\ missed' \subseteq Names /\ entries' \in Rows(writes) /\ itemCount' \in Nat
    BY <1>0, <1>1, <2>1 DEF Watches, IconTypes
  <2>3. QED
    BY <1>1, <1>2, <2>1, <2>2, GuiStep
<1>4. CASE gui.name \in DOMAIN desk /\ gui.data \notin DOMAIN desk
  <2> DEFINE c == desk[gui.name]
             f == [m \in (DOMAIN desk \ {gui.name}) \cup {gui.data} |->
                      IF m = gui.data THEN c ELSE desk[m]]
  <2>1. becomes(f, {gui.name}, {})
    BY <1>4 DEF rename
  <2>2. DOMAIN f \subseteq Names
    BY <1>0, <1>1 DEF IconTypes
  <2>3. Range(f) = Contents
    <3>1. DOMAIN f = (DOMAIN desk \ {gui.name}) \cup {gui.data} /\ f[gui.data] = desk[gui.name]
          /\ \A m \in DOMAIN desk \ {gui.name} : f[m] = desk[m]
      BY <1>4
    <3> HIDE DEF f
    <3>2. QED
      BY <1>4, <3>1 DEF Range, Contents
  <2> HIDE DEF f
  <2>4. desk' = f /\ there' = there /\ Watches'
    BY <1>0, <1>1, <2>1, BecomesWatches
  <2>5. Contents' = Contents
    BY <2>3, <2>4 DEF Contents, Range
  <2>6. there
    BY <1>0, <1>4 DEF IconTypes
  <2>7. IconTypes'
    BY <1>0, <1>1, <2>2, <2>4, <2>5, <2>6, TypesKept DEF IconTypes
  <2>8. Found'
    BY <1>0, <1>1, <2>5, FoundKept
  <2>9. QED
    BY <1>2, <2>4, <2>7, <2>8 DEF DeskInv
<1>5. QED
  BY <1>3, <1>4

\* A file is taken out of the folder; its content is in the trash, or others
\* forgo it.
LEMMA TakenOut ==
    ASSUME DeskInv, becomes(without(gui.name), {gui.name}, {}), gui.name \in DOMAIN desk,
           trash \subseteq trash', trash' \subseteq trash \cup Contents,
           desk[gui.name] \in trash' \cup forgone,
           UNCHANGED <<writes, forgone, entries, missed, trashWatch, itemCount>>, Doing', Safe'
    PROVE  DeskInv'
<1> DEFINE n == gui.name
           f == without(n)
<1>0. IconTypes /\ Watches /\ Found
  BY DEF DeskInv
<1>1. /\ DOMAIN f = DOMAIN desk \ {n} /\ Range(f) \subseteq Contents
      /\ \A x \in Contents : x \in Range(f) \/ (n \in DOMAIN desk /\ x = desk[n])
  BY WithoutName
<1>2. n \in Names /\ there /\ trash' \subseteq 1..writes
  BY <1>0 DEF IconTypes
<1>3. becomes(f, {n}, {})
  OBVIOUS
<1>4. desk[n] \in trash' \cup forgone
  OBVIOUS
<1> HIDE DEF f, n
<1>5. desk' = f /\ there' = there /\ Watches'
  <2>1. {n} \subseteq Names /\ {} \subseteq Names
    BY <1>2
  <2>2. QED
    BY <1>0, <1>3, <2>1, BecomesWatches
<1>6. Contents' = Range(f)
  BY <1>5 DEF Contents, Range
<1>7. IconTypes'
  BY <1>0, <1>1, <1>2, <1>5, <1>6, TypesKept DEF IconTypes
<1>8. Found'
  BY <1>0, <1>1, <1>4, <1>6, FoundKept
<1>9. QED
  BY <1>5, <1>7, <1>8 DEF DeskInv

\* Moving to the trash: in one step, or by a copy and a removal.
LEMMA TrashStep ==
    ASSUME DeskInv,
           moveToTrash \/ trashStepFails \/ copyToTrash \/ removeCopied
    PROVE  DeskInv'
<1>0. IconTypes /\ Watches /\ Doing /\ Safe /\ Found
  BY DEF DeskInv
<1>1. /\ gui \in Gui(writes) /\ Contents \subseteq 1..writes /\ trash \subseteq 1..writes
      /\ writes \in Nat
  BY <1>0 DEF Doing, IconTypes
<1>2. gui.name \in DOMAIN desk => desk[gui.name] \in Contents
  BY DEF Contents, Range
<1>3. UNCHANGED <<writes, forgone, entries, missed>>
  BY DEF moveToTrash, trashStepFails, copyToTrash, removeCopied, history
<1>4. ASSUME NEW p \in {"rename to trash", "copy"}, gui' = [gui EXCEPT !.pc = p], writes' = writes
      PROVE  Doing' /\ Safe'
  <2>1. gui' \in Gui(writes') /\ gui'.pc = p
    BY <1>1, <1>4 DEF Gui, Calls
  <2>2. QED
    BY <1>4, <2>1 DEF Doing, Safe, Kinds
<1>5. ASSUME gui' = Idle
      PROVE  Doing' /\ Safe'
  BY <1>5, IdleIs DEF Doing, Safe, Kinds
<1>6. CASE moveToTrash
  <2>1. /\ gui.name \in DOMAIN desk /\ becomes(without(gui.name), {gui.name}, {})
        /\ trash' = trash \cup {desk[gui.name]} /\ UNCHANGED <<trashWatch, itemCount>>
    BY <1>6 DEF moveToTrash, intoTrash
  <2>2. gui' = Idle \/ gui' = [gui EXCEPT !.pc = "rename to trash"]
    BY <1>6 DEF moveToTrash
  <2>3. Doing' /\ Safe'
    BY <1>3, <1>4, <1>5, <2>2
  <2>4. QED
    BY <1>2, <1>3, <2>1, <2>3, TakenOut
<1>7. CASE trashStepFails
  <2>1. UNCHANGED <<desk, there, watched, dead, notices, trash, trashWatch, itemCount>>
    BY <1>7 DEF trashStepFails, folder, trashIcon
  <2>2. \E p \in {"rename to trash", "copy"} : gui' = [gui EXCEPT !.pc = p]
    BY <1>7 DEF trashStepFails
  <2>3. Doing' /\ Safe'
    BY <1>3, <1>4, <2>2
  <2>4. Watches' /\ missed' \subseteq Names /\ entries' \in Rows(writes) /\ itemCount' \in Nat
    BY <1>0, <1>3, <2>1 DEF Watches, IconTypes
  <2>5. QED
    BY <1>3, <2>1, <2>3, <2>4, GuiStep
<1>8. CASE copyToTrash
  <2>1. UNCHANGED <<desk, there, watched, dead, notices>>
    BY <1>8 DEF copyToTrash, folder
  <2>2. Watches' /\ Contents' = Contents
    BY <1>0, <2>1 DEF Watches, Contents, Range
  <2>3. CASE /\ gui.name \in DOMAIN desk /\ intoTrash(desk[gui.name])
             /\ gui' = [gui EXCEPT !.pc = "remove", !.data = desk[gui.name]]
    <3>1. trash' = trash \cup {desk[gui.name]} /\ UNCHANGED <<trashWatch, itemCount>>
      BY <2>3 DEF intoTrash
    <3>2. desk[gui.name] \in 1..writes /\ desk[gui.name] \in Nat
      BY <1>1, <1>2, <2>3
    <3>3. /\ gui' \in Gui(writes') /\ gui'.pc = "remove" /\ gui'.data = desk[gui.name]
          /\ gui'.name = gui.name
      BY <1>1, <1>3, <2>3, <3>2 DEF Gui, Calls
    <3>4. Doing' /\ Safe'
      BY <2>1, <2>3, <3>1, <3>3 DEF Doing, Safe, Kinds
    <3>5. IconTypes'
      BY <1>0, <1>1, <1>3, <2>1, <2>2, <3>1, <3>2, TypesKept DEF IconTypes
    <3>6. Found'
      BY <1>0, <1>3, <2>2, <3>1, FoundKept
    <3>7. QED
      BY <2>2, <3>4, <3>5, <3>6 DEF DeskInv
  <2>4. CASE gui' = Idle /\ UNCHANGED <<trash, trashWatch, itemCount>>
    <3>1. Doing' /\ Safe'
      BY <1>5, <2>4
    <3>2. missed' \subseteq Names /\ entries' \in Rows(writes) /\ itemCount' \in Nat
      BY <1>0, <1>3, <2>4 DEF IconTypes
    <3>3. QED
      BY <1>3, <2>1, <2>2, <2>4, <3>1, <3>2, GuiStep
  <2>5. QED
    BY <1>8, <2>3, <2>4 DEF copyToTrash, trashIcon
<1>9. CASE removeCopied
  <2>1. /\ gui.pc = "remove" /\ gui' = Idle /\ UNCHANGED <<trash, trashWatch, itemCount>>
    BY <1>9 DEF removeCopied, trashIcon
  <2>2. Doing' /\ Safe'
    BY <1>5, <2>1
  <2>3. CASE gui.name \in DOMAIN desk /\ becomes(without(gui.name), {gui.name}, {})
    <3>1. desk[gui.name] \in trash \cup forgone
      BY <1>0, <2>1, <2>3 DEF Safe
    <3>2. QED
      BY <1>3, <2>1, <2>2, <2>3, <3>1, TakenOut
  <2>4. CASE UNCHANGED <<desk, there, watched, dead, notices>>
    <3>1. Watches' /\ missed' \subseteq Names /\ entries' \in Rows(writes) /\ itemCount' \in Nat
      BY <1>0, <1>3, <2>1, <2>4 DEF Watches, IconTypes
    <3>2. QED
      BY <1>3, <2>1, <2>2, <2>4, <3>1, GuiStep
  <2>5. QED
    BY <1>9, <2>3, <2>4 DEF removeCopied, folder
<1>10. QED
  BY <1>6, <1>7, <1>8, <1>9

\* The trash is counted, or emptied by the user.
LEMMA TrashIconStep ==
    ASSUME DeskInv, onTrashChanged \/ emptyTrash
    PROVE  DeskInv'
<1>0. IconTypes /\ Watches /\ Doing /\ Safe /\ Found
  BY DEF DeskInv
<1>1. gui' = gui /\ gui = Idle
  BY DEF onTrashChanged, emptyTrash, call
<1>2. UNCHANGED <<desk, there, watched, dead, notices, entries, writes, missed>>
  BY DEF onTrashChanged, emptyTrash, folder, history
<1>3. /\ trash' \subseteq trash /\ forgone' = forgone \cup (trash \ trash')
      /\ trashWatch' \in {trashWatch, "dead", "off"} /\ itemCount' = Cardinality(trash')
  BY DEF onTrashChanged, emptyTrash, history
<1>4. trash' \subseteq 1..writes /\ writes \in Nat
  BY <1>0, <1>3 DEF IconTypes
<1>5. itemCount' \in Nat
  <2>1. IsFiniteSet(1..writes)
    <3>1. 1 \in Int /\ writes \in Int
      BY <1>4
    <3>2. QED
      BY <3>1, FS_Interval, Zenon
  <2>2. IsFiniteSet(trash')
    BY <1>4, <2>1, FS_Subset
  <2>3. QED
    BY <1>3, <2>2, FS_CardinalityType, SameCount
<1>6. Watches' /\ Contents' = Contents
  BY <1>0, <1>2 DEF Watches, Contents, Range
<1>7. Doing' /\ Safe'
  <2>1. gui'.pc = "idle"
    BY <1>1, IdleIs
  <2>2. QED
    BY <1>0, <1>1, <1>2, <2>1 DEF Doing, Safe, Kinds
<1>8. IconTypes'
  BY <1>0, <1>2, <1>3, <1>4, <1>5, <1>6, TypesKept DEF IconTypes
<1>9. Found'
  BY <1>0, <1>2, <1>3, <1>6, FoundKept
<1>10. QED
  BY <1>6, <1>7, <1>8, <1>9 DEF DeskInv

\* Other programs, at any moment.
LEMMA OthersStep ==
    ASSUME DeskInv, Others
    PROVE  DeskInv'
<1>0. IconTypes /\ Watches /\ Doing /\ Safe /\ Found /\ writes \in Nat
  BY DEF DeskInv, IconTypes
<1>1. ASSUME NEW n \in Names, NEW how \in {"create", "write", "replace"}, put(n, how)
      PROVE  DeskInv'
  <2> DEFINE f == with(n, writes + 1)
             gone == IF how = "replace" THEN {n} ELSE {}
             edited == IF how = "write" THEN {n} ELSE {}
  <2>1. /\ there /\ (how = "create" <=> n \notin DOMAIN desk) /\ writes' = writes + 1
        /\ becomes(f, gone, edited)
        /\ forgone' = forgone \cup (IF how = "create" THEN {} ELSE {desk[n]})
                              \cup (IF exposed(n) THEN {writes + 1} ELSE {})
        /\ missed' \subseteq missed \cup {n}
        /\ UNCHANGED <<trash, entries, gui, trashWatch, itemCount>>
    BY <1>1 DEF put, trashIcon
  <2>2. /\ DOMAIN f = DOMAIN desk \cup {n} /\ f[n] = writes + 1
        /\ \A m \in DOMAIN desk \ {n} : f[m] = desk[m]
        /\ writes + 1 \in Range(f) /\ Range(f) \subseteq Contents \cup {writes + 1}
        /\ \A x \in Contents : x \in Range(f) \/ (n \in DOMAIN desk /\ x = desk[n])
    BY WithName
  <2>3. gone \subseteq Names /\ edited \subseteq Names
    OBVIOUS
  <2> HIDE DEF f, gone, edited
  <2>4. desk' = f /\ there' = there /\ Watches'
    BY <1>0, <2>1, <2>3, BecomesWatches
  <2>5. Contents' = Range(f)
    BY <2>4 DEF Contents, Range
  <2>6. /\ 1..writes \subseteq 1..writes' /\ writes + 1 \in 1..writes'
        /\ trash \subseteq 1..writes /\ forgone \subseteq 1..writes /\ Contents \subseteq 1..writes
    BY <1>0, <2>1 DEF IconTypes
  <2>7. n \in DOMAIN desk => desk[n] \in Contents
    BY DEF Contents, Range
  <2>8. forgone' \subseteq 1..writes' /\ trash' \subseteq 1..writes' /\ Contents' \subseteq 1..writes'
    BY <2>1, <2>2, <2>5, <2>6, <2>7
  <2>9. DOMAIN desk' \subseteq Names /\ missed' \subseteq Names
    BY <1>0, <2>1, <2>2, <2>4 DEF IconTypes
  <2>10. IconTypes'
    BY <1>0, <2>1, <2>4, <2>8, <2>9, TypesKept DEF IconTypes
  <2>11. Found'
    BY <1>0, <2>1, <2>2, <2>5, FoundKept
  <2>12. Doing'
    BY <1>0, <2>1, GuiGrows DEF Doing
  <2>13. Safe'
    BY <1>0, <2>1, <2>2, <2>4 DEF Safe, exposed
  <2>14. QED
    BY <2>4, <2>10, <2>11, <2>12, <2>13 DEF DeskInv
<1>2. ASSUME NEW n \in Names, delete(n)
      PROVE  DeskInv'
  <2> DEFINE f == without(n)
  <2>1. /\ n \in DOMAIN desk /\ becomes(f, {n}, {}) /\ forgone' = forgone \cup {desk[n]}
        /\ UNCHANGED <<trash, entries, gui, trashWatch, itemCount, writes, missed>>
    BY <1>2 DEF delete, trashIcon
  <2>2. /\ DOMAIN f = DOMAIN desk \ {n} /\ Range(f) \subseteq Contents
        /\ \A m \in DOMAIN desk \ {n} : f[m] = desk[m]
        /\ \A x \in Contents : x \in Range(f) \/ (n \in DOMAIN desk /\ x = desk[n])
    BY WithoutName
  <2> HIDE DEF f
  <2>3. desk' = f /\ there' = there /\ Watches'
    <3>1. {n} \subseteq Names /\ {} \subseteq Names
      OBVIOUS
    <3>2. QED
      BY <1>0, <2>1, <3>1, BecomesWatches
  <2>4. Contents' = Range(f)
    BY <2>3 DEF Contents, Range
  <2>5. desk[n] \in Contents /\ there
    BY <1>0, <2>1 DEF Contents, Range, IconTypes
  <2>6. IconTypes'
    BY <1>0, <2>1, <2>2, <2>3, <2>4, <2>5, TypesKept DEF IconTypes
  <2>7. Found'
    BY <1>0, <2>1, <2>2, <2>4, FoundKept
  <2>8. Doing' /\ Safe'
    BY <1>0, <2>1, <2>2, <2>3 DEF Doing, Safe
  <2>9. QED
    BY <2>3, <2>6, <2>7, <2>8 DEF DeskInv
<1>3. CASE removeFolder
  <2>1. /\ there' = FALSE /\ desk' = [n \in {} |-> 0] /\ dead' = watched
        /\ notices' = notices \cup {x \in watched : Live(x)}
        /\ forgone' = forgone \cup Contents
        /\ UNCHANGED <<trash, entries, watched, gui, trashWatch, itemCount, writes, missed>>
    BY <1>3 DEF removeFolder, trashIcon, Contents
  <2>2. Watches'
    BY <1>0, <2>1 DEF Watches, Live
  <2>3. DOMAIN desk' = {} /\ Contents' = {}
    BY <2>1 DEF Contents, Range
  <2>4. IconTypes'
    BY <1>0, <2>1, <2>3, TypesKept DEF IconTypes
  <2>5. Found'
    BY <1>0, <2>1, <2>3, FoundKept
  <2>6. Doing' /\ Safe'
    BY <1>0, <2>1, <2>3 DEF Doing, Safe
  <2>7. QED
    BY <2>2, <2>4, <2>5, <2>6 DEF DeskInv
<1>4. CASE makeFolder
  <2>1. /\ there' = TRUE
        /\ UNCHANGED <<desk, trash, entries, watched, dead, notices, gui, trashWatch, itemCount,
                       writes, forgone, missed>>
    BY <1>4 DEF makeFolder, trashIcon, history
  <2>2. Watches' /\ Doing' /\ Safe' /\ Contents' = Contents
    BY <1>0, <2>1 DEF Watches, Doing, Safe, Contents, Range
  <2>3. IconTypes' /\ Found'
    BY <1>0, <2>1, <2>2 DEF IconTypes, Found, Written
  <2>4. QED
    BY <2>2, <2>3 DEF DeskInv
<1>5. QED
  BY <1>1, <1>2, <1>3, <1>4 DEF Others

\* The flags stay flags.
LEMMA IconFlagsStep == IconFlags /\ [IconsNext]_iconVars => IconFlags'
<1> SUFFICES ASSUME IconFlags, [IconsNext]_iconVars
             PROVE  IconFlags'
  OBVIOUS
<1> USE DEF IconFlags, folder, trashIcon, becomes, intoTrash
<1>1. CASE Scan
  BY <1>1, Zenon DEF Scan, readEntry, watchEntry, endScan
<1>2. CASE makeNew
  BY <1>2, Zenon DEF makeNew
<1>3. CASE rename \/ removeCopied
  BY <1>3, Zenon DEF rename, removeCopied
<1>4. CASE moveToTrash \/ trashStepFails \/ copyToTrash
  BY <1>4, Zenon DEF moveToTrash, trashStepFails, copyToTrash
<1>5. CASE Notify
  BY <1>5, Zenon DEF Notify, onChanged, onTrashChanged
<1>6. CASE User
  BY <1>6, Zenon DEF User, refresh, setShowHidden, emptyTrash, create,
                     trashEntry, renameEntry
<1>7. CASE Others
  BY <1>7, Zenon DEF Others, delete, put, removeFolder, makeFolder
<1>8. CASE UNCHANGED iconVars
  BY <1>8, Zenon DEF iconVars
<1>9. QED
  BY <1>1, <1>2, <1>3, <1>4, <1>5, <1>6, <1>7, <1>8, Zenon DEF IconsNext, Step

\* The folder at the start.
LEMMA DeskInit ==
    ASSUME IconsAssumption, IconsInit
    PROVE  DeskInv
<1>0. /\ LastName \in Nat /\ \A n \in Names : n <= LastName
      /\ Names \subseteq Nat /\ Start \subseteq Names \ {0}
  BY LastNameIs DEF IconsAssumption
<1>1. /\ desk = [n \in Start |-> n] /\ there = TRUE /\ trash = {} /\ entries = <<>>
      /\ watched = {Dir} /\ dead = {} /\ notices = {} /\ forgone = {} /\ missed = {}
      /\ gui \in Scanning(Start \ HiddenNames) /\ trashWatch = "on" /\ itemCount = 0
      /\ writes = LastName
  BY DEF IconsInit, LastName
<1>2. DOMAIN desk = Start /\ Contents = Start
  BY <1>1 DEF Contents, Range
<1>3. entries \in Rows(writes) /\ Start \subseteq 1..LastName
  BY <1>0, <1>1 DEF Rows
<1>4. IconTypes /\ Watches
  BY <1>0, <1>1, <1>2, <1>3 DEF IconTypes, Watches, Paths
<1>5. gui \in Gui(writes) /\ gui.pc = "read"
  <2>1. Start \ HiddenNames \subseteq Names
    BY <1>0
  <2>2. QED
    BY <1>1, <2>1, ScanningIs
<1>6. Doing /\ Safe
  BY <1>5 DEF Doing, Safe, Kinds
<1>7. Found
  BY <1>0, <1>1, <1>2 DEF Found, Written
<1>8. QED
  BY <1>4, <1>6, <1>7 DEF DeskInv

\* Every step of the desktop.
LEMMA DeskStep ==
    ASSUME IconsAssumption, DeskInv, [IconsNext]_iconVars
    PROVE  DeskInv'
<1>1. CASE Scan
  BY <1>1, ScanStep
<1>2. CASE Step
  <2>1. DOMAIN NewName \subseteq Kinds
    BY DEF IconsAssumption, Kinds
  <2>2. QED
    BY <1>2, <2>1, MakeNewStep, RenameStep, TrashStep DEF Step
<1>3. CASE Notify
  BY <1>3, RescanStep, TrashIconStep DEF Notify, Paths
<1>4. CASE User
  BY <1>4, RescanStep, TrashIconStep, CallStep DEF User
<1>5. CASE Others
  BY <1>5, OthersStep
<1>6. CASE UNCHANGED iconVars
  <2>1. UNCHANGED <<desk, there, watched, dead, notices, trash, entries, gui, trashWatch, itemCount,
                    writes, forgone, missed>>
    BY <1>6 DEF iconVars, folder, trashIcon, history
  <2>2. Watches' /\ Doing' /\ Safe' /\ missed' \subseteq Names /\ entries' \in Rows(writes)
        /\ itemCount' \in Nat
    BY <2>1 DEF DeskInv, Watches, Doing, Safe, IconTypes
  <2>3. QED
    BY <2>1, <2>2, GuiStep
<1>7. QED
  BY <1>1, <1>2, <1>3, <1>4, <1>5, <1>6 DEF IconsNext

\* Whatever fails or is cut short in a creation, a rename or a move to the
\* trash, and whatever other programs do in between, every content that was
\* on the desktop is there, in the trash, or was given up by others, and every
\* watch that has died has its notification on the way (DesktopIconModel).
THEOREM DesktopKeepsFiles == IconsSpec => []DesktopKept
<1>1. IconsInit => DeskInv /\ IconFlags
  <2>1. IconsInit => IconFlags
    BY Zenon DEF IconsInit, IconFlags
  <2>2. QED
    BY <2>1, DeskInit, IconsAssumption
<1>2. (DeskInv /\ IconFlags) /\ [IconsNext]_iconVars => (DeskInv /\ IconFlags)'
  BY DeskStep, IconFlagsStep, IconsAssumption
<1>3. DeskInv /\ IconFlags => DesktopKept
  <2> SUFFICES ASSUME DeskInv, IconFlags
               PROVE  DesktopKept
    OBVIOUS
  <2>1. ~there => DOMAIN desk = {}
    BY DEF DeskInv, IconTypes
  <2>2. IconsTypeOK
    BY <2>1 DEF DeskInv, IconTypes, IconFlags, Watches, Paths, Rows, Contents, IconsTypeOK
  <2>3. DeadIsReported /\ NothingLost
    BY DEF DeskInv, Watches, Found, Written, Contents, LastName, DeadIsReported, NothingLost
  <2>4. QED
    BY <2>2, <2>3 DEF DesktopKept
<1>4. QED
  BY <1>1, <1>2, <1>3, PTL DEF IconsSpec
==============================================================================

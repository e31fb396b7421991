------------------------------- MODULE AiClient -------------------------------
(***************************************************************************)
(* The assistant panel of desktop/shell: AiAssistant.qml and AiClient run  *)
(* on the UI thread, each generation runs on a worker thread that owns a   *)
(* grpc::ClientContext through the shared member activeContext_, and the   *)
(* worker reports through events queued to the UI thread.                  *)
(*                                                                         *)
(* Generations are numbered; generation g is served by the g-th thread.    *)
(***************************************************************************)
EXTENDS Integers, Sequences

CONSTANTS
    MaxGens,    \* bound on the prompts sent
    MaxQueued   \* bound on the token events waiting in the UI's event queue

ASSUME BoundAssumption == MaxGens \in Nat /\ MaxQueued \in Nat

Gens == 1..MaxGens
None == 0       \* activeContext_ is null

VARIABLES
    ui,         \* the UI thread: in its event loop, in a call, closed, crashed
    gen,        \* generations started
    wpc,        \* the worker threads
    active,     \* whose context activeContext_ holds
    ctx,        \* the contexts: "none", "live" or "destroyed"
    timed,      \* contexts with a deadline
    cancelled,  \* contexts TryCancel was called on
    stop,       \* workerStop_
    events,     \* the queue of events for the UI thread
    text,       \* the generations whose tokens are in streamingText
    panel,      \* aiState of the panel
    status,     \* aiState_, what the last status poll said
    leftover    \* history: generations with tokens still queued when the next
                \* one was started

contexts == <<active, ctx, timed, cancelled>>
screen == <<events, text, panel>>
vars == <<ui, gen, wpc, contexts, stop, screen, status, leftover>>

Running(g) == wpc[g] \notin {"none", "exited"}
Goto(g, l) == wpc' = [wpc EXCEPT ![g] = l]
Post(g, what) == events' = Append(events, [gen |-> g, what |-> what])

\* activeContext_.reset()
ResetActive ==
    /\ active' = None
    /\ ctx' = IF active = None THEN ctx ELSE [ctx EXCEPT ![active] = "destroyed"]

\* The section both streamGenerate and the destructor run under contextMutex_.
CancelActive ==
    /\ cancelled' = IF active = None THEN cancelled ELSE cancelled \cup {active}
    /\ ResetActive
    /\ UNCHANGED timed

-----------------------------------------------------------------------------
(* The UI thread *)

\* What a poll finds: the daemon's state, or nothing when it fails.
Statuses == {"unloaded", "loading", "ready", "unloading", ""}

\* sendPrompt clears the buffer and calls streamGenerate, which cancels.
SendPrompt ==
    /\ ui = "idle"
    /\ gen < MaxGens
    /\ text' = {}
    /\ panel' = IF status = "unloaded" THEN "Loading" ELSE "Thinking"
    /\ CancelActive
    /\ ui' = "joining"
    /\ UNCHANGED <<gen, wpc, stop, events, status, leftover>>

\* A prompt over 32 KiB is refused at once; a generation in progress goes on.
RefusePrompt ==
    /\ ui = "idle"
    /\ text' = {}
    /\ panel' = "Idle"
    /\ UNCHANGED <<ui, gen, wpc, contexts, stop, events, status, leftover>>

\* The generations whose tokens the UI thread has not come to yet.
Late == {events[i].gen : i \in {j \in DOMAIN events : events[j].what = "token"}}

\* Mutant: the previous thread is not joined.
Join_NoWait ==
    /\ ui = "joining"
    /\ gen' = gen + 1
    /\ Goto(gen + 1, "start")
    /\ ui' = "idle"
    /\ leftover' = leftover \cup Late
    /\ UNCHANGED <<contexts, stop, screen, status>>

\* The previous thread is joined, the next one started.
Join ==
    /\ ui = "joining"
    /\ \A g \in Gens : ~Running(g)
    /\ gen' = gen + 1
    /\ Goto(gen + 1, "start")
    /\ ui' = "idle"
    /\ leftover' = leftover \cup Late
    /\ UNCHANGED <<contexts, stop, screen, status>>

\* onTokenReceived, onGenerationFinished and onErrorOccurred.
Deliver ==
    /\ ui = "idle"
    /\ events # <<>>
    /\ events' = Tail(events)
    /\ IF Head(events).what = "token"
       THEN /\ text' = text \cup {Head(events).gen}
            /\ panel' = IF panel = "Thinking" THEN "Executing" ELSE panel
       ELSE text' = {} /\ panel' = "Idle"
    /\ UNCHANGED <<ui, gen, wpc, contexts, stop, status, leftover>>

\* The reply of a status poll, which a thread of its own fetched, or the
\* failure of the call, which nobody looks at.
pollStatus(found) ==
    /\ ui = "idle"
    /\ found # status
    /\ status' = found
    /\ panel' = IF found = "ready" /\ panel = "Loading" THEN "Idle" ELSE panel
    /\ UNCHANGED <<ui, gen, wpc, contexts, stop, events, text, leftover>>

\* ~AiClient: workerStop_ is raised before the mutex is taken.
CloseStop ==
    /\ ui = "idle"
    /\ stop' = TRUE
    /\ ui' = "stopping"
    /\ UNCHANGED <<gen, wpc, contexts, screen, status, leftover>>

CloseCancel ==
    /\ ui = "stopping"
    /\ CancelActive
    /\ ui' = "closing"
    /\ UNCHANGED <<gen, wpc, stop, screen, status, leftover>>

\* The thread is joined; events for a destroyed object are dropped.
CloseJoin ==
    /\ ui = "closing"
    /\ \A g \in Gens : ~Running(g)
    /\ ui' = "closed"
    /\ events' = <<>>
    /\ UNCHANGED <<gen, wpc, contexts, stop, text, panel, status, leftover>>

-----------------------------------------------------------------------------
(* runGeneration on the worker thread of generation g *)

\* Mutant: workerStop_ is not looked at under the mutex.
Register_IgnoresStop(g) ==
    /\ wpc[g] = "start"
    /\ active' = g
    /\ ctx' = [ctx EXCEPT ![g] = "live"]
    /\ timed' = timed \cup {g}
    /\ Goto(g, "registered")
    /\ UNCHANGED <<ui, gen, cancelled, stop, screen, status, leftover>>

\* Mutant: no deadline is set.
Register_NoDeadline(g) ==
    /\ wpc[g] = "start"
    /\ IF stop
       THEN Goto(g, "exited") /\ UNCHANGED contexts
       ELSE /\ active' = g
            /\ ctx' = [ctx EXCEPT ![g] = "live"]
            /\ Goto(g, "registered")
            /\ UNCHANGED <<timed, cancelled>>
    /\ UNCHANGED <<ui, gen, stop, screen, status, leftover>>

\* The context gets its 180 s deadline and, under the mutex, is published.
Register(g) ==
    /\ wpc[g] = "start"
    /\ IF stop
       THEN Goto(g, "exited") /\ UNCHANGED contexts
       ELSE /\ active' = g
            /\ ctx' = [ctx EXCEPT ![g] = "live"]
            /\ timed' = timed \cup {g}
            /\ Goto(g, "registered")
            /\ UNCHANGED cancelled
    /\ UNCHANGED <<ui, gen, stop, screen, status, leftover>>

\* The mutex is taken again to get the raw pointer.
Pick(g) ==
    /\ wpc[g] = "registered"
    /\ Goto(g, IF active = None THEN "exited" ELSE "picked")
    /\ UNCHANGED <<ui, gen, contexts, stop, screen, status, leftover>>

\* StreamGenerate(activeCtx, ...)
Open(g) ==
    /\ wpc[g] = "picked"
    /\ Goto(g, "reading")
    /\ UNCHANGED <<ui, gen, contexts, stop, screen, status, leftover>>

\* No reader: the error is reported and the thread ends.
OpenFails(g) ==
    /\ wpc[g] = "picked"
    /\ ResetActive
    /\ Post(g, "error")
    /\ Goto(g, "exited")
    /\ UNCHANGED <<ui, gen, timed, cancelled, stop, text, panel, status, leftover>>

\* A response arrives after workerStop_ was raised.
ReadStopped(g) ==
    /\ wpc[g] = "reading"
    /\ stop
    /\ ResetActive
    /\ Goto(g, "exited")
    /\ UNCHANGED <<ui, gen, timed, cancelled, stop, screen, status, leftover>>

ReadToken(g) ==
    /\ wpc[g] = "reading"
    /\ ~stop
    /\ Len(events) < MaxQueued
    /\ Post(g, "token")
    /\ UNCHANGED <<ui, gen, wpc, contexts, stop, text, panel, status, leftover>>

\* is_finished: the loop ends; the status of the call is still to come.
ReadFinished(g) ==
    /\ wpc[g] = "reading"
    /\ ~stop
    /\ Post(g, "finished")
    /\ Goto(g, "finishing")
    /\ UNCHANGED <<ui, gen, contexts, stop, text, panel, status, leftover>>

\* Read returns false: the server ended the stream or the connection broke.
ReadEnds(g) ==
    /\ wpc[g] = "reading"
    /\ Goto(g, "finishing")
    /\ UNCHANGED <<ui, gen, contexts, stop, screen, status, leftover>>

\* Read returns false because the call was cancelled or its deadline passed;
\* unlike the above, this happens whatever the server does.
ReadGivenUp(g) ==
    /\ g \in timed \cup cancelled
    /\ ReadEnds(g)

\* Finish: the context goes, and an error other than CANCELLED is reported.
Finish(g) ==
    /\ wpc[g] = "finishing"
    /\ ResetActive
    /\ Goto(g, "exited")
    /\ \/ UNCHANGED events
       \/ ~stop /\ g \notin cancelled /\ Post(g, "error")
    /\ UNCHANGED <<ui, gen, timed, cancelled, stop, text, panel, status, leftover>>

\* The worker uses a context that has been destroyed.  What happens is
\* undefined: the process may die, or go on as if nothing had happened.
UseDestroyed(g) ==
    /\ wpc[g] \in {"picked", "reading", "finishing"}
    /\ ctx[g] = "destroyed"
    /\ ui' = "crashed"
    /\ wpc' = [h \in Gens |-> IF Running(h) THEN "exited" ELSE wpc[h]]
    /\ UNCHANGED <<gen, contexts, stop, screen, status, leftover>>

\* What the worker does by itself, without the server.
Own(g) ==
    Register(g) \/ Pick(g) \/ Open(g) \/ OpenFails(g) \/ ReadGivenUp(g) \/ Finish(g)

FromServer(g) ==
    ReadStopped(g) \/ ReadToken(g) \/ ReadFinished(g) \/ ReadEnds(g)

-----------------------------------------------------------------------------

Init ==
    /\ ui = "idle"
    /\ gen = 0
    /\ wpc = [g \in Gens |-> "none"]
    /\ active = None
    /\ ctx = [g \in Gens |-> "none"]
    /\ timed = {}
    /\ cancelled = {}
    /\ stop = FALSE
    /\ events = <<>>
    /\ text = {}
    /\ panel = "Idle"
    /\ status = "unloaded"
    /\ leftover = {}

UiReturn == Join \/ CloseCancel \/ CloseJoin

Terminated == ui \in {"closed", "crashed"} /\ UNCHANGED vars

Next ==
    \/ SendPrompt \/ RefusePrompt \/ Deliver \/ CloseStop
    \/ \E found \in Statuses : pollStatus(found)
    \/ UiReturn
    \/ \E g \in Gens : Own(g) \/ FromServer(g) \/ UseDestroyed(g)
    \/ Terminated

Spec == Init /\ [][Next]_vars

\* Both threads run; nothing is assumed of the server.
FairSpec ==
    /\ Spec
    /\ WF_vars(UiReturn)
    /\ \A g \in Gens : WF_vars(Own(g))

-----------------------------------------------------------------------------
(* Properties *)

TypeOK ==
    /\ ui \in {"idle", "joining", "stopping", "closing", "closed", "crashed"}
    /\ gen \in 0..MaxGens
    /\ wpc \in [Gens -> {"none", "start", "registered", "picked", "reading",
                         "finishing", "exited"}]
    /\ active \in Gens \cup {None}
    /\ ctx \in [Gens -> {"none", "live", "destroyed"}]
    /\ timed \subseteq Gens
    /\ cancelled \subseteq Gens
    /\ stop \in BOOLEAN
    /\ events \in Seq([gen : Gens, what : {"token", "finished", "error"}])
    /\ text \subseteq Gens
    /\ panel \in {"Idle", "Loading", "Thinking", "Executing"}
    /\ status \in Statuses
    /\ leftover \subseteq Gens

\* A worker's clean-up never destroys the context of another generation: the
\* published context belongs to the one thread that runs, or to nobody.
OwnContextOnly ==
    active # None => Running(active) /\ \A g \in Gens : Running(g) => g = active

\* When the destructor is past its cancellation, no stream is open or will be
\* opened that was not cancelled: the desktop shell quits without waiting for
\* an answer.
CloseCancels ==
    ui = "closing" =>
        \A g \in Gens : wpc[g] \in {"start", "registered", "picked", "reading"} =>
            g \in cancelled \/ (wpc[g] = "start" /\ stop)

\* No worker thread outlives the AiClient whose members it uses.
ClosedIsQuiet ==
    ui = "closed" => \A g \in Gens : ~Running(g)

\* Tokens reach the panel in the order of their generations, and the text on
\* the screen is of the latest one, except for what sendPrompt cannot take
\* back: tokens of an earlier answer that were still queued when the latest
\* thread was started.  Those are appended to the text it had just cleared.
AnswersInOrder ==
    /\ \A i, j \in DOMAIN events : i < j => events[i].gen <= events[j].gen
    /\ \A g \in text, i \in DOMAIN events : g <= events[i].gen
    /\ \A g \in text : g = gen \/ g \in leftover

\* streamGenerate and the destructor return, even if the daemon never answers.
UiReleased ==
    ui \in {"joining", "stopping", "closing"} ~> ui \in {"idle", "closed", "crashed"}

\* AiClient.h: "Uses a dedicated worker thread and shared stub ownership to
\* avoid use-after-free": a context is not destroyed while its thread uses it.
ContextAlive ==
    \A g \in Gens : wpc[g] \in {"picked", "reading", "finishing"}
                      => ctx[g] = "live"

\* AiAssistant.qml clears streamingText with every prompt, so that it holds one
\* answer.  The code does not meet this: events carry no generation, and onToken-
\* Received appends the late tokens of the last answer in front of the new one.
OneAnswerShown == \A g, h \in text : g = h

\* The threads of successive prompts take over from one another: one context
\* at a time, owned by the thread that runs, and tokens in the order of the
\* prompts, none of an earlier answer but those queued before the latest.
OneAtATime == TypeOK /\ OwnContextOnly /\ AnswersInOrder

\* Quitting the shell ends every stream and leaves no thread behind.
ClosesCleanly == CloseCancels /\ ClosedIsQuiet
=============================================================================

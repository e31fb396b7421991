----------------------------- MODULE GreeterIPC -----------------------------
(***************************************************************************)
(* The login dialogue: GreeterIPC (the socket client), the QML page that   *)
(* drives it (buttons and the fade-out after a success), and greetd at the *)
(* other end of the socket.  Everything on the greeter's side runs on the  *)
(* GUI thread, so one handler is one action; what interleaves is the user, *)
(* the socket and greetd.  A password stands for the user who was selected *)
(* in the list when its button was clicked, and for that click.            *)
(***************************************************************************)
EXTENDS Naturals, Sequences

CONSTANTS
    NUsers,         \* length of the user list
    MaxAttempts,    \* bound: calls of startAuth
    MaxPrompts,     \* bound: messages greetd sends before it decides
    MaxFaults       \* bound: lost connections and unusable frames

ASSUME BoundsAssumption ==
    {MaxAttempts, MaxPrompts, MaxFaults} \subseteq Nat /\ NUsers \in Nat \ {0}

Users == 1..NUsers

VARIABLES
    phase,                \* phase_
    authenticated,        \* authenticated_
    awaitingResponse,     \* awaitingResponse_
    credentialSubmitted,  \* credentialSubmitted_
    pendingPassword,      \* pendingPassword_, waiting for a prompt
    currentUser,          \* currentUser_, 0 before the first attempt
    attempt,              \* calls of startAuth
    selected,             \* the page's selectedUsername, or the first user
    socket,               \* state of the QLocalSocket
    toGreetd, toGreeter,  \* frames in flight on the current connection
    session,              \* greetd's session of this connection (external)
    fade,                 \* the overlay of the QML page
    prompts, faults,      \* counters for the bounds
    ignored               \* an answer of greetd was unusable and skipped

greeter == <<phase, authenticated, awaitingResponse, credentialSubmitted,
             pendingPassword, currentUser, attempt>>
vars == <<greeter, selected, socket, toGreetd, toGreeter, session, fade, prompts, faults, ignored>>

Phases == {"Idle", "CreatingSession", "Authenticating", "Authenticated", "StartingSession"}
NoSession == [user |-> 0, pam |-> "none"]

\* What is in the password field when "Sign In" or "Continue" is clicked.
Typed(button, n) == [user |-> selected, attempt |-> n, button |-> button]
NoPassword == [user |-> 0, attempt |-> 0, button |-> "none"]
Passwords == [user : 0..NUsers, attempt : 0..MaxAttempts,
              button : {"Sign In", "Continue", "none"}]

busy ==
    \/ phase \in {"CreatingSession", "StartingSession"}
    \/ phase = "Authenticating" /\ ~awaitingResponse

Init ==
    /\ phase = "Idle" /\ authenticated = FALSE /\ awaitingResponse = FALSE
    /\ credentialSubmitted = FALSE /\ pendingPassword = NoPassword
    /\ currentUser = 0 /\ attempt = 0 /\ selected = 1
    /\ socket = "unconnected" /\ toGreetd = <<>> /\ toGreeter = <<>>
    /\ session = NoSession /\ fade = "clear"
    /\ prompts = 0 /\ faults = 0 /\ ignored = FALSE

Request(type, password) ==
    [type |-> type, user |-> currentUser, password |-> password]

\* A request is dropped when the socket, in state s, is not connected.
sendJson(s, request) ==
    toGreetd' = IF s = "connected" THEN Append(toGreetd, request) ELSE toGreetd

\* abort() and a lost connection take everything in flight and greetd's
\* half-finished conversation with them.
ResetConnection ==
    /\ toGreetd' = <<>> /\ toGreeter' = <<>> /\ session' = NoSession

\* What every failure path assigns; the one for a bad frame keeps the password.
Fail == phase' = "Idle" /\ authenticated' = FALSE /\ awaitingResponse' = FALSE

-----------------------------------------------------------------------------
(* The page: the button is enabled unless busy or authenticated, the list   *)
(* of users always.                                                        *)

select(user) ==
    /\ user # selected /\ selected' = user
    /\ UNCHANGED <<greeter, socket, toGreetd, toGreeter, session, fade, prompts,
                   faults, ignored>>

\* Mutant: a password left from an earlier attempt is used first.
keepPassword_IfLeft ==
    pendingPassword' = IF pendingPassword = NoPassword
                       THEN Typed("Sign In", attempt + 1) ELSE pendingPassword

keepPassword == pendingPassword' = Typed("Sign In", attempt + 1)

startAuth ==
    /\ ~authenticated /\ ~busy /\ ~awaitingResponse
    /\ attempt < MaxAttempts
    /\ ResetConnection                       \* abort() when still connected
    /\ attempt' = attempt + 1 /\ currentUser' = selected
    /\ keepPassword
    /\ credentialSubmitted' = FALSE /\ awaitingResponse' = FALSE
    /\ authenticated' = FALSE /\ phase' = "CreatingSession"
    /\ socket' = "connecting" /\ prompts' = 0
    /\ UNCHANGED <<selected, fade, faults, ignored>>

submitPassword(password) ==
    /\ phase' = "Authenticating"
    /\ credentialSubmitted' = TRUE /\ awaitingResponse' = FALSE
    /\ sendJson(socket, Request("response", password))

\* Mutant: the button does not look at awaitingResponse.
continueClicked_Always ==
    /\ phase = "Authenticating" /\ Len(toGreetd) <= 2
    /\ submitPassword(Typed("Continue", attempt))
    /\ UNCHANGED <<authenticated, pendingPassword, currentUser, attempt, selected,
                   socket, toGreeter, session, fade, prompts, faults, ignored>>

\* "Continue": a further prompt of the running session is answered with what
\* was typed for whoever is selected now.
continueClicked ==
    /\ awaitingResponse
    /\ phase \in {"CreatingSession", "Authenticating"}
    /\ submitPassword(Typed("Continue", attempt))
    /\ UNCHANGED <<authenticated, pendingPassword, currentUser, attempt, selected,
                   socket, toGreeter, session, fade, prompts, faults, ignored>>

\* The fade-out has run: startSession(), which does nothing unless the
\* phase is still Authenticated.
startSession ==
    /\ fade = "fading" /\ fade' = "black"
    /\ IF phase = "Authenticated"
       THEN /\ phase' = "StartingSession"
            /\ sendJson(socket, Request("start", NoPassword))
       ELSE UNCHANGED <<phase, toGreetd>>
    /\ UNCHANGED <<authenticated, awaitingResponse, credentialSubmitted,
                   pendingPassword, currentUser, attempt, selected, socket,
                   toGreeter, session, prompts, faults, ignored>>

-----------------------------------------------------------------------------
(* The socket.                                                             *)

sendCreateSession ==
    /\ socket = "connecting" /\ socket' = "connected"
    /\ IF phase = "CreatingSession"
       THEN sendJson("connected", Request("create", NoPassword))
       ELSE UNCHANGED toGreetd
    /\ UNCHANGED <<greeter, selected, toGreeter, session, fade, prompts, faults, ignored>>

\* Refused, reset or closed by greetd.  While a session starts the loss is
\* taken for greetd's handover and nothing changes.
onError ==
    /\ socket # "unconnected" /\ socket' = "unconnected"
    /\ faults < MaxFaults /\ faults' = faults + 1
    /\ ResetConnection
    /\ IF phase = "StartingSession"
       THEN UNCHANGED greeter
       ELSE /\ Fail /\ pendingPassword' = NoPassword
            /\ UNCHANGED <<credentialSubmitted, currentUser, attempt>>
    /\ UNCHANGED <<selected, fade, prompts, ignored>>

\* A frame whose length is zero or above the limit ends the attempt.
badFrame ==
    /\ Fail /\ socket' = "unconnected" /\ ResetConnection
    /\ UNCHANGED <<credentialSubmitted, pendingPassword, currentUser, attempt, fade, ignored>>

\* A frame that is no JSON object, or of an unknown type, is skipped.
junkFrame ==
    /\ ignored' = TRUE
    /\ UNCHANGED <<greeter, socket, toGreetd, session, fade>>

\* Mutant: a message that asks for nothing is shown and not answered.
authMessage_InfoOnly(kind) ==
    /\ IF kind = "secret" /\ ~credentialSubmitted
       THEN submitPassword(pendingPassword) /\ pendingPassword' = NoPassword
       ELSE /\ awaitingResponse' = (kind = "secret")
            /\ UNCHANGED <<phase, credentialSubmitted, pendingPassword, toGreetd>>
    /\ UNCHANGED <<authenticated, currentUser, attempt, socket, session, fade, ignored>>

authMessage(kind) ==
    /\ \/ /\ kind = "secret" /\ ~credentialSubmitted
          /\ submitPassword(pendingPassword) /\ pendingPassword' = NoPassword
       \/ /\ kind = "secret" /\ credentialSubmitted
          /\ awaitingResponse' = TRUE
          /\ UNCHANGED <<phase, credentialSubmitted, pendingPassword, toGreetd>>
       \/ /\ kind = "info"
          /\ sendJson(socket, Request("response", NoPassword))
          /\ UNCHANGED <<phase, awaitingResponse, credentialSubmitted, pendingPassword>>
    /\ UNCHANGED <<authenticated, currentUser, attempt, socket, session, fade, ignored>>

success ==
    /\ IF phase = "StartingSession"
       THEN UNCHANGED <<greeter, fade>>
       ELSE /\ phase' = "Authenticated" /\ authenticated' = TRUE
            /\ awaitingResponse' = FALSE /\ pendingPassword' = NoPassword
            \* onAuthSucceeded: opacity = 1.0 starts the animation, unless
            \* the overlay is already opaque
            /\ fade' = IF fade = "clear" THEN "fading" ELSE fade
            /\ UNCHANGED <<credentialSubmitted, currentUser, attempt>>
    /\ UNCHANGED <<socket, toGreetd, session, ignored>>

\* Mutant: an error is only looked at during authentication.
error_NotAtStart ==
    /\ IF phase = "StartingSession" THEN UNCHANGED greeter
       ELSE Fail /\ pendingPassword' = NoPassword /\ UNCHANGED <<credentialSubmitted, currentUser, attempt>>
    /\ UNCHANGED <<socket, toGreetd, session, fade, ignored>>

error ==
    /\ Fail /\ pendingPassword' = NoPassword
    /\ UNCHANGED <<credentialSubmitted, currentUser, attempt, socket, toGreetd, session,
                   fade, ignored>>

\* handleMessage, called from onReadyRead for each frame in order.
onReadyRead ==
    /\ toGreeter # <<>>
    /\ LET message == Head(toGreeter) IN
       \/ message = "bad" /\ badFrame
       \/ /\ message # "bad" /\ toGreeter' = Tail(toGreeter)
          /\ \/ message = "junk" /\ junkFrame
             \/ message = "success" /\ success
             \/ message = "error" /\ error
             \/ message \in {"secret", "info"} /\ authMessage(message)
    /\ UNCHANGED <<selected, prompts, faults>>

-----------------------------------------------------------------------------
(* greetd (external): it answers the requests of a connection one by one.  *)

Reply(request) ==
    IF request.type = "start"
    THEN {<<"success", [session EXCEPT !.pam = "started"]>>, <<"error", session>>}
    ELSE LET s == IF request.type = "create"
                  THEN [user |-> request.user, pam |-> "asking"] ELSE session
         IN  {<<"error", s>>, <<"success", [s EXCEPT !.pam = "ok"]>>}
             \cup (IF prompts < MaxPrompts
                   THEN {<<"secret", s>>, <<"info", s>>} ELSE {})

greetd ==
    /\ toGreetd # <<>> /\ toGreetd' = Tail(toGreetd)
    /\ \E reply \in Reply(Head(toGreetd)) :
         /\ session' = reply[2]
         /\ prompts' = IF reply[1] \in {"secret", "info"} THEN prompts + 1 ELSE prompts
         /\ \/ toGreeter' = Append(toGreeter, reply[1]) /\ UNCHANGED faults
            \/ /\ faults < MaxFaults /\ faults' = faults + 1
               /\ \E m \in {"bad", "junk"} : toGreeter' = Append(toGreeter, m)
    /\ UNCHANGED <<greeter, selected, socket, fade, ignored>>

Next ==
    \/ \E user \in Users : select(user)
    \/ startAuth \/ continueClicked \/ startSession
    \/ sendCreateSession \/ onError \/ onReadyRead \/ greetd

Spec == Init /\ [][Next]_vars

\* A connection attempt ends, greetd answers, frames are read and the
\* animation runs to its end; nobody has to click and nothing has to fail.
Fairness ==
    /\ WF_vars(sendCreateSession) /\ WF_vars(greetd)
    /\ WF_vars(onReadyRead) /\ WF_vars(startSession)

FairSpec == Spec /\ Fairness

-----------------------------------------------------------------------------
(* Properties.                                                             *)

\* Types of the greeter's fields.
TypeOK ==
    /\ phase \in Phases /\ authenticated \in BOOLEAN
    /\ awaitingResponse \in BOOLEAN /\ credentialSubmitted \in BOOLEAN
    /\ pendingPassword \in Passwords
    /\ currentUser \in 0..NUsers /\ attempt \in 0..MaxAttempts /\ selected \in Users
    /\ socket \in {"unconnected", "connecting", "connected"}
    /\ fade \in {"clear", "fading", "black"}

\* sendJson never drops a request: whenever the greeter is in a phase from
\* which a click, a prompt or the end of the fade makes it write, the
\* connection of this attempt is up.
NothingDropped ==
    /\ phase \in {"Authenticating", "Authenticated"} => socket = "connected"
    /\ phase = "CreatingSession" => socket # "unconnected"
    /\ toGreeter # <<>> => socket = "connected"

\* greetd-ipc is a strict request/response protocol: the greeter never sends
\* a second request before the first is answered, although prompts, clicks
\* and the animation all trigger requests.
OneRequestAtATime ==
    /\ Len(toGreetd) + Len(toGreeter) <= 1
    /\ awaitingResponse \/ phase = "Authenticated" =>
         toGreetd = <<>> /\ toGreeter = <<>>

\* The password of "Sign In", which waits in pendingPassword_ until greetd asks
\* for it, only travels to the session of the user and in the attempt it was
\* typed for, whatever was abandoned before; and what "Continue" sends reaches
\* the session of currentUser_, which need not be the user selected by then.
PasswordForItsUser ==
    /\ pendingPassword # NoPassword =>
         pendingPassword.user = currentUser /\ pendingPassword.attempt = attempt
    /\ \A i \in 1..Len(toGreetd) :
         LET r == toGreetd[i] IN
         /\ r.user = currentUser
         /\ r.type = "response" =>
              /\ session.user = currentUser
              /\ r.password.attempt \in {0, attempt}
              /\ r.password.button = "Sign In" => r.password.user = session.user

\* What the page leads its user to expect: whatever was typed goes to the session
\* of the user selected in the list.  The code does not meet this: the list can
\* be clicked while a further prompt is awaited, and "Continue" answers the
\* session that runs.
TypedForSelected ==
    \A i \in 1..Len(toGreetd) :
        toGreetd[i].password.user \in {0, session.user}

\* The greeter is authenticated only while greetd holds a session it has
\* authenticated for currentUser_ (or has just closed the connection while the
\* session starts), although attempts replace one another.
AuthenticatedIsTrue ==
    /\ authenticated <=> phase \in {"Authenticated", "StartingSession"}
    /\ authenticated /\ socket = "connected" =>
         session.user = currentUser /\ session.pam \in {"ok", "started"}

\* An attempt comes to a decision: the page does not stay disabled in the
\* phases before the success, unless an answer of greetd was unusable.
AttemptEnds ==
    busy /\ ~authenticated ~> ~busy \/ authenticated \/ ignored

\* After a first success the session is asked for, unless the connection is
\* lost during the fade.  (A success after an earlier one failed to start is
\* excluded: see StartFollowsSuccess.)
FirstSuccessStarts ==
    phase = "Authenticated" /\ fade # "black" ~> phase \in {"StartingSession", "Idle"}

\* greetd's answer to StartSession is taken: after an error the greeter leaves
\* the starting phase, and a login can be tried again.  Nothing is claimed when
\* the connection is lost instead (see StartEnds), nor of what can be seen (see
\* FailureShown).
StartAnswered ==
    phase = "StartingSession" ~>
        phase = "Idle" \/ session.pam = "started" \/ socket = "unconnected" \/ ignored

\* Starting a session ends.  The code does not meet this: onError takes every
\* loss of the connection in this phase for greetd's handover, and the button
\* stays disabled.
StartEnds ==
    phase = "StartingSession" ~>
        phase # "StartingSession" \/ session.pam = "started" \/ ignored

\* The login card can be seen whenever a login can be tried.  The code does not
\* meet this: nothing makes fadeOverlay transparent again after a failure.
FailureShown == phase = "Idle" => fade # "black"

\* What the protocol of GreeterIPC.h promises: every success is followed by
\* StartSession (or the connection is lost).
StartFollowsSuccess ==
    phase = "Authenticated" ~> phase # "Authenticated"

\* Greeter and greetd stay in step: every request is written to a live
\* connection, and only when the previous one has been answered.
ConversationInStep == TypeOK /\ NothingDropped /\ OneRequestAtATime

\* Attempts for different users are never mixed, in what is kept and sent for
\* them and in whether one of them is authenticated.
RightUser == PasswordForItsUser /\ AuthenticatedIsTrue

\* A first success is followed by StartSession, and greetd's answer to that by a
\* session or by a greeter that takes another login.
SuccessStarts == FirstSuccessStarts /\ StartAnswered
=============================================================================

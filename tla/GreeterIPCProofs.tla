-------------------------- MODULE GreeterIPCProofs --------------------------
(***************************************************************************)
(* Proofs about the login dialogue for every number of attempts, prompts   *)
(* and faults: greeter and greetd stay in step, and what the greeter sends *)
(* and shows belongs to the user who is logging in.                        *)
(***************************************************************************)
EXTENDS GreeterIPC, TLAPS

Frames == {"secret", "info", "success", "error", "bad", "junk"}
Sessions == [user : 0..NUsers, pam : {"none", "asking", "ok", "started"}]

Logging == phase \in {"CreatingSession", "Authenticating"}
Entered == phase \in {"Authenticated", "StartingSession"}

\* What "Sign In" took in this attempt, and what may answer a prompt of it.
Signed == [user |-> currentUser, attempt |-> attempt, button |-> "Sign In"]
Answers ==
    {NoPassword, Signed} \cup
    {[user |-> user, attempt |-> attempt, button |-> "Continue"] : user \in Users}

\* The kept password is the one of this attempt.
Kept ==
    /\ currentUser \in 0..NUsers /\ attempt \in 0..MaxAttempts /\ selected \in Users
    /\ pendingPassword \in Passwords /\ pendingPassword \in {NoPassword, Signed}

\* What may be on its way to greetd: the request the phase has just made.
Sendable(type) ==
    /\ type = "create" => phase = "CreatingSession"
    /\ type = "response" => Logging /\ session.user = currentUser
    /\ type = "start" => phase = "StartingSession"

\* What may be on its way back: an answer to a request of this phase.
Answerable(m) ==
    /\ Logging \/ phase = "StartingSession"
    /\ session.user = currentUser
    /\ m \in {"secret", "info"} => Logging
    /\ m = "success" => session.pam \in {"ok", "started"}

\* At most one frame is in flight, on a live connection, while the greeter
\* waits for nothing else.
Wire ==
    \/ toGreetd = <<>> /\ toGreeter = <<>>
    \/ /\ socket = "connected" /\ ~awaitingResponse /\ toGreeter = <<>>
       /\ \E type \in {"create", "response", "start"}, password \in Answers :
            toGreetd = <<Request(type, password)>> /\ Sendable(type)
    \/ /\ socket = "connected" /\ ~awaitingResponse /\ toGreetd = <<>>
       /\ \E m \in Frames : toGreeter = <<m>> /\ Answerable(m)

\* What each phase knows of the connection and of greetd's session.
PhaseFacts ==
    /\ authenticated <=> Entered
    /\ socket = "connecting" => phase = "CreatingSession"
    /\ phase = "CreatingSession" =>
         \/ socket = "connecting"
         \/ socket = "connected" /\ (toGreetd # <<>> \/ session.user = currentUser)
    /\ phase = "Authenticating" => socket = "connected" /\ session.user = currentUser
    /\ phase = "Authenticated" => socket = "connected" /\ toGreetd = <<>> /\ toGreeter = <<>>
    /\ Entered /\ socket = "connected" =>
         session.user = currentUser /\ session.pam \in {"ok", "started"}
    /\ awaitingResponse =>
         /\ Logging /\ socket = "connected" /\ session.user = currentUser
         /\ toGreetd = <<>> /\ toGreeter = <<>>

\* The three flags of the greeter.
Flags ==
    /\ authenticated \in BOOLEAN /\ awaitingResponse \in BOOLEAN
    /\ credentialSubmitted \in BOOLEAN

\* Types of what is left.
Fields ==
    /\ phase \in Phases /\ Flags /\ session \in Sessions
    /\ socket \in {"unconnected", "connecting", "connected"}
    /\ fade \in {"clear", "fading", "black"}

\* The inductive invariant.
IInv == Kept /\ Fields /\ Wire /\ PhaseFacts

\* What the queue operators do to an empty queue and to a queue of one frame.
LEMMA OneFrame ==
    ASSUME NEW x
    PROVE  /\ Append(<<>>, x) = <<x>> /\ Head(<<x>>) = x
           /\ Tail(<<x>>) = <<>> /\ <<x>> # <<>>
           /\ Len(<<x>>) = 1 /\ Len(<<>>) = 0
  OBVIOUS

\* Every step leaves them flags.
LEMMA FlagsStep == Flags /\ [Next]_vars => Flags'
<1> SUFFICES ASSUME Flags, [Next]_vars
             PROVE  Flags'
  OBVIOUS
<1> USE DEF Flags, Fail
<1>1. CASE startAuth
  BY <1>1, Zenon DEF startAuth
<1>2. CASE continueClicked \/ startSession
  BY <1>2, Zenon DEF continueClicked, submitPassword, startSession
<1>3. CASE (\E user \in Users : select(user)) \/ sendCreateSession \/ onError
           \/ UNCHANGED vars
  BY <1>3, Zenon DEF select, sendCreateSession, onError, greeter, vars
<1>4. CASE onReadyRead
  <2>1. CASE badFrame \/ junkFrame \/ success \/ error
    BY <2>1, Zenon DEF badFrame, junkFrame, success, error, greeter
  <2>2. ASSUME NEW kind, authMessage(kind)
        PROVE  Flags'
    BY <2>2, Zenon DEF authMessage, submitPassword
  <2>3. QED
    BY <1>4, <2>1, <2>2, Zenon DEF onReadyRead
<1>5. CASE greetd
  BY <1>5, Zenon DEF greetd, greeter
<1>6. QED
  BY <1>1, <1>2, <1>3, <1>4, <1>5, Zenon DEF Next

\* Each step keeps the password of "Sign In", replaces it with that of a new
\* attempt, or drops it.
LEMMA KeptStep == Kept /\ [Next]_vars => Kept'
<1> SUFFICES ASSUME Kept, [Next]_vars
             PROVE  Kept'
  OBVIOUS
<1>1. NoPassword \in Passwords
  BY BoundsAssumption DEF NoPassword, Passwords
<1>2. CASE startAuth
  <2>1. /\ attempt' \in 0..MaxAttempts /\ currentUser' \in 0..NUsers /\ selected' \in Users
        /\ currentUser' = selected
    BY <1>2, BoundsAssumption DEF startAuth, Kept, Users
  <2>2. pendingPassword' = [user |-> currentUser', attempt |-> attempt', button |-> "Sign In"]
    BY <1>2 DEF startAuth, keepPassword, Typed
  <2>3. pendingPassword' \in Passwords
    BY <2>1, <2>2 DEF Passwords
  <2>4. QED
    BY <2>1, <2>2, <2>3 DEF Kept, Signed
<1>3. CASE /\ currentUser' = currentUser /\ attempt' = attempt /\ selected' \in Users
           /\ pendingPassword' \in {pendingPassword, NoPassword}
  BY <1>1, <1>3 DEF Kept, Signed
<1>4. ASSUME NEW user \in Users, select(user)
      PROVE  Kept'
  BY <1>3, <1>4 DEF select, greeter
<1>5. CASE continueClicked \/ startSession \/ sendCreateSession \/ greetd \/ UNCHANGED vars
  BY <1>3, <1>5, Zenon DEF continueClicked, startSession, sendCreateSession, greetd, vars,
     greeter, Kept
<1>6. CASE onError
  BY <1>3, <1>6, Zenon DEF onError, greeter, Kept
<1>7. CASE onReadyRead
  <2>1. selected' = selected
    BY <1>7 DEF onReadyRead
  <2>2. CASE badFrame \/ junkFrame \/ success \/ error
    BY <1>3, <2>1, <2>2, Zenon DEF badFrame, junkFrame, success, error, greeter, Kept
  <2>3. ASSUME NEW kind, authMessage(kind)
        PROVE  Kept'
    BY <1>3, <2>1, <2>3, Zenon DEF authMessage, Kept
  <2>4. QED
    BY <1>7, <2>2, <2>3, Zenon DEF onReadyRead
<1>8. QED
  BY <1>2, <1>4, <1>5, <1>6, <1>7 DEF Next

\* What the greeter may send as a password.
LEMMA AnswerFacts ==
    Kept => /\ NoPassword \in Answers /\ pendingPassword \in Answers
            /\ Typed("Continue", attempt) \in Answers
            /\ currentUser' = currentUser /\ attempt' = attempt => Answers' = Answers
<1> SUFFICES ASSUME Kept
             PROVE  /\ NoPassword \in Answers /\ pendingPassword \in Answers
                    /\ Typed("Continue", attempt) \in Answers
                    /\ currentUser' = currentUser /\ attempt' = attempt
                         => Answers' = Answers
  OBVIOUS
<1>1. NoPassword \in Answers /\ pendingPassword \in Answers
  BY Zenon DEF Answers, Kept
<1>2. Typed("Continue", attempt) \in Answers
  BY Zenon DEF Answers, Kept, Typed
<1>3. ASSUME currentUser' = currentUser, attempt' = attempt
      PROVE  Answers' = Answers
  BY <1>3, Zenon DEF Answers, Signed
<1>4. QED
  BY <1>1, <1>2, <1>3

\* What a request says.
LEMMA RequestFields ==
    ASSUME NEW type, NEW password
    PROVE  LET r == Request(type, password) IN
           r.type = type /\ r.user = currentUser /\ r.password = password
  BY DEF Request

\* The greeter starts with nothing sent and nobody logged in.
LEMMA InitInv == Init => IInv
<1> SUFFICES ASSUME Init
             PROVE  IInv
  OBVIOUS
<1> USE BoundsAssumption DEF Init
<1>1. Flags
  BY Zenon DEF Flags
<1>2. Kept
  <2>1. NoPassword \in Passwords /\ 1 \in Users /\ 0 \in 0..NUsers /\ 0 \in 0..MaxAttempts
    BY DEF NoPassword, Passwords, Users
  <2>2. QED
    BY <2>1, Zenon DEF Kept
<1>3. Fields
  BY <1>1 DEF NoSession, Sessions, Fields, Phases
<1>4. Wire /\ PhaseFacts
  BY DEF Wire, PhaseFacts, Entered, Logging
<1>5. QED
  BY <1>2, <1>3, <1>4 DEF IInv

\* Every step of the user, the socket and greetd keeps the invariant.
LEMMA StepInv == IInv /\ [Next]_vars => IInv'
<1> SUFFICES ASSUME IInv, [Next]_vars
             PROVE  IInv'
  OBVIOUS
<1>0. Flags' /\ Kept'
  BY FlagsStep, KeptStep DEF IInv, Fields
<1>a. NoSession \in Sessions
  BY BoundsAssumption DEF NoSession, Sessions
<1>b. /\ NoPassword \in Answers /\ pendingPassword \in Answers
      /\ Typed("Continue", attempt) \in Answers
      /\ currentUser' = currentUser /\ attempt' = attempt
           => Answers' = Answers /\ \A t, w : Request(t, w)' = Request(t, w)
  BY AnswerFacts DEF IInv, Request
<1>c. currentUser \in 0..NUsers
  BY DEF IInv, Kept
<1> USE <1>0 DEF IInv, Fields, Flags, Phases
<1>g. CASE \E user \in Users : select(user)
  BY <1>b, <1>g DEF select, greeter, Wire, PhaseFacts, Entered, Logging, Sendable, Answerable
<1>1. CASE startAuth
  BY <1>a, <1>1 DEF startAuth, ResetConnection, Wire, PhaseFacts, Entered, Logging
<1>2. CASE continueClicked
  BY <1>b, <1>2, OneFrame DEF continueClicked, submitPassword, sendJson, Wire, PhaseFacts,
     Entered, Logging, Sendable
<1>3. CASE startSession
  <2> USE DEF startSession, Wire, PhaseFacts, Entered, Logging
  <2>1. CASE phase = "Authenticated"
    BY <1>b, <1>3, <2>1, OneFrame DEF sendJson, Sendable
  <2>2. CASE phase # "Authenticated"
    BY <1>b, <1>3, <2>2 DEF Sendable, Answerable
  <2>3. QED
    BY <2>1, <2>2
<1>4. CASE sendCreateSession
  BY <1>b, <1>4, OneFrame DEF sendCreateSession, sendJson, greeter, Wire, PhaseFacts,
     Entered, Logging, Sendable
<1>5. CASE onError
  BY <1>a, <1>5 DEF onError, ResetConnection, Fail, greeter, Wire, PhaseFacts,
     Entered, Logging
<1>6. CASE onReadyRead
  <2> DEFINE m == Head(toGreeter)
  <2>1. /\ m \in Frames /\ Answerable(m) /\ Tail(toGreeter) = <<>>
        /\ socket = "connected" /\ ~awaitingResponse /\ toGreetd = <<>>
    BY <1>6, OneFrame DEF onReadyRead, Wire
  <2> HIDE DEF m
  <2>2. CASE badFrame
    BY <1>a, <2>2 DEF badFrame, ResetConnection, Fail, Wire, PhaseFacts, Entered, Logging
  <2>3. CASE toGreeter' = <<>> /\ junkFrame
    BY <1>b, <2>1, <2>3 DEF junkFrame, greeter, Wire, PhaseFacts, Entered, Logging, Answerable
  <2>4. CASE toGreeter' = <<>> /\ m = "success" /\ success
    BY <1>b, <2>1, <2>4 DEF success, greeter, Wire, PhaseFacts, Entered, Logging, Answerable
  <2>5. CASE toGreeter' = <<>> /\ error
    BY <1>b, <2>1, <2>5 DEF error, Fail, Wire, PhaseFacts, Entered, Logging
  <2>6. CASE toGreeter' = <<>> /\ m \in {"secret", "info"} /\ authMessage(m)
    BY <1>b, <2>1, <2>6, OneFrame DEF authMessage, submitPassword, sendJson, Wire,
       PhaseFacts, Entered, Logging, Sendable, Answerable
  <2>7. QED
    BY <1>6, <2>1, <2>2, <2>3, <2>4, <2>5, <2>6 DEF onReadyRead, m
<1>7. CASE greetd
  <2>1. PICK type \in {"create", "response", "start"}, password \in Answers :
          toGreetd = <<Request(type, password)>> /\ Sendable(type)
    BY <1>7 DEF greetd, Wire
  <2> DEFINE r == Request(type, password)
  <2>2. /\ Head(toGreetd) = r /\ Tail(toGreetd) = <<>> /\ r.type = type
        /\ r.user = currentUser
        /\ socket = "connected" /\ ~awaitingResponse /\ toGreeter = <<>>
    BY <1>7, <2>1, OneFrame, RequestFields DEF greetd, Wire
  <2> HIDE DEF r
  <2>3. PICK reply \in Reply(r) :
          /\ session' = reply[2]
          /\ \/ toGreeter' = Append(toGreeter, reply[1])
             \/ \E m \in {"bad", "junk"} : toGreeter' = Append(toGreeter, m)
    BY <1>7, <2>2 DEF greetd
  <2>4. /\ reply[1] \in {"secret", "info", "success", "error"}
        /\ session' \in Sessions /\ session'.user = currentUser
        /\ reply[1] = "success" => session'.pam \in {"ok", "started"}
        /\ reply[1] \in {"secret", "info"} => type # "start"
        /\ type = "start" => session'.pam \in {session.pam, "started"}
    BY <1>c, <2>1, <2>2, <2>3 DEF Reply, Sessions, Sendable, PhaseFacts, Entered
  <2>5. Logging \/ phase = "StartingSession"
    BY <2>1 DEF Sendable, Logging
  <2>6. PICK m \in Frames :
          /\ toGreeter' = <<m>>
          /\ m \in {"bad", "junk", reply[1]}
    BY <2>2, <2>3, <2>4, OneFrame DEF Frames
  <2>7. /\ toGreetd' = <<>> /\ UNCHANGED greeter /\ UNCHANGED socket /\ UNCHANGED fade
    BY <1>7, <2>2 DEF greetd
  <2>8. Answerable(m)'
    BY <2>1, <2>4, <2>5, <2>6, <2>7 DEF greeter, Answerable, Sendable, Logging
  <2>9. Wire'
    BY <2>2, <2>6, <2>7, <2>8 DEF greeter, Wire
  <2>10. PhaseFacts'
    BY <2>1, <2>4, <2>5, <2>7 DEF greeter, PhaseFacts, Entered, Logging, Sendable
  <2>11. QED
    BY <2>4, <2>7, <2>9, <2>10 DEF greeter
<1>8. CASE UNCHANGED vars
  BY <1>b, <1>8 DEF vars, greeter, Wire, PhaseFacts, Entered, Logging, Sendable, Answerable
<1>9. QED
  BY <1>g, <1>1, <1>2, <1>3, <1>4, <1>5, <1>6, <1>7, <1>8 DEF Next

\* The invariant holds in every state of every login dialogue.
LEMMA Invariant == Spec => []IInv
BY InitInv, StepInv, PTL DEF Spec

\* Greeter and greetd stay in step: sendJson never drops a request, and no
\* request is written before the last one was answered.
THEOREM GreetdConversation == Spec => []ConversationInStep
<1>1. IInv => ConversationInStep
  <2> SUFFICES ASSUME IInv
               PROVE  ConversationInStep
    OBVIOUS
  <2>1. NothingDropped
    BY DEF IInv, NothingDropped, Wire, PhaseFacts
  <2>2. OneRequestAtATime
    <3>1. Len(toGreetd) + Len(toGreeter) <= 1
      <4>1. CASE toGreetd = <<>> /\ toGreeter = <<>>
        BY <4>1, OneFrame
      <4>2. ASSUME NEW r, toGreetd = <<r>>, toGreeter = <<>>
            PROVE  Len(toGreetd) + Len(toGreeter) <= 1
        BY <4>2, OneFrame
      <4>3. ASSUME NEW m \in Frames, toGreetd = <<>>, toGreeter = <<m>>
            PROVE  Len(toGreetd) + Len(toGreeter) <= 1
        BY <4>3, OneFrame
      <4>4. QED
        BY <4>1, <4>2, <4>3 DEF IInv, Wire
    <3>2. awaitingResponse \/ phase = "Authenticated" => toGreetd = <<>> /\ toGreeter = <<>>
      BY DEF IInv, PhaseFacts
    <3>3. QED
      BY <3>1, <3>2 DEF OneRequestAtATime
  <2>3. TypeOK
    BY DEF IInv, Kept, Fields, Flags, TypeOK
  <2>4. QED
    BY <2>1, <2>2, <2>3 DEF ConversationInStep
<1>2. QED
  BY <1>1, Invariant, PTL

\* Whatever attempts are abandoned and whoever is selected meanwhile, the password
\* kept from "Sign In" reaches only the session of the user and the attempt it
\* was typed for, and the greeter is authenticated only while greetd holds an
\* authenticated session of currentUser_.
THEOREM GreeterRightUser == Spec => []RightUser
<1>1. IInv => RightUser
  <2> SUFFICES ASSUME IInv
               PROVE  RightUser
    OBVIOUS
  <2>1. /\ pendingPassword \in {NoPassword, Signed}
        /\ Signed.user = currentUser /\ Signed.attempt = attempt
        /\ NoPassword.attempt = 0 /\ NoPassword.button = "none"
    BY DEF IInv, Kept, Signed, NoPassword
  <2>a. ASSUME NEW w \in Answers
        PROVE  w.attempt \in {0, attempt} /\ (w.button = "Sign In" => w.user = currentUser)
    <3>1. CASE w \in {NoPassword, Signed}
      BY <2>1, <3>1
    <3>2. ASSUME NEW user \in Users,
                 w = [user |-> user, attempt |-> attempt, button |-> "Continue"]
          PROVE  w.attempt = attempt /\ w.button = "Continue"
      BY <3>2
    <3>3. QED
      BY <3>1, <3>2 DEF Answers
  <2>b. pendingPassword # NoPassword =>
          pendingPassword.user = currentUser /\ pendingPassword.attempt = attempt
    BY <2>1
  <2>2. ASSUME toGreetd = <<>>
        PROVE  PasswordForItsUser
    <3>1. \A i : i \notin 1..Len(toGreetd)
      BY <2>2
    <3>2. QED
      BY <2>b, <3>1 DEF PasswordForItsUser
  <2>3. ASSUME NEW type \in {"create", "response", "start"}, NEW password \in Answers,
               toGreetd = <<Request(type, password)>>, Sendable(type)
        PROVE  PasswordForItsUser
    <3> DEFINE r == Request(type, password)
    <3>1. \A i \in 1..Len(toGreetd) : toGreetd[i] = r
      BY <2>3
    <3>2. r.type = type /\ r.user = currentUser /\ r.password = password
      BY RequestFields
    <3> HIDE DEF r
    <3>3. /\ r.user = currentUser
          /\ r.type = "response" =>
               /\ session.user = currentUser
               /\ r.password.attempt \in {0, attempt}
               /\ r.password.button = "Sign In" => r.password.user = session.user
      BY <2>3, <2>a, <3>2 DEF Sendable
    <3>4. QED
      BY <2>b, <3>1, <3>3 DEF PasswordForItsUser
  <2>4. PasswordForItsUser
    <3>1. \/ toGreetd = <<>>
          \/ \E type \in {"create", "response", "start"}, password \in Answers :
               toGreetd = <<Request(type, password)>> /\ Sendable(type)
      BY DEF IInv, Wire
    <3>2. QED
      BY <2>2, <2>3, <3>1
  <2>5. AuthenticatedIsTrue
    BY DEF IInv, AuthenticatedIsTrue, PhaseFacts, Entered
  <2>6. QED
    BY <2>4, <2>5 DEF RightUser
<1>2. QED
  BY <1>1, Invariant, PTL
=============================================================================

---------------------------- MODULE PermissionGate ----------------------------
(***************************************************************************)
(* core/action-manager and core/permission-manager: execute_action asks    *)
(* the permission manager about the concrete resource, the policy engine   *)
(* looks the grant up and writes an audit row while it holds the database  *)
(* mutex, and an allowed action touches files.  Several requests are       *)
(* served at once; grants and files change under them; callers leave;      *)
(* both processes crash and are started again.                             *)
(***************************************************************************)
EXTENDS Integers

CONSTANTS
    Requests,   \* execute_action calls
    Paths,      \* files named by parameters
    Images,     \* contents that pass for a wallpaper
    NoParam,    \* a parameter that is not in the map
    Blank,      \* a parameter that is empty or white space
    Missing,    \* a path where there is no file
    Junk,       \* a regular file that is no acceptable wallpaper
    Free,       \* nobody holds the database mutex
    Asked,      \* the requests that callers make
    MaxTries,   \* connection attempts at start-up (20 in main)
    MaxRegrants, \* bound on the changes of grants
    MaxWrites   \* bound on the changes other programs make to files

Actions == {"filesystem.move", "desktop.wallpaper.change"}
Contents == Images \cup {Junk}
Params == Paths \cup {Blank, NoParam}

\* action_id and the parameters the handler looks at: "source" or "path"
\* is the resource, "destination" only matters to filesystem.move.
ActionRequests ==
    [action : Actions \cup {"unsupported"}, resource : Params, destination : Params]

Keys == Actions \X Paths

\* A row of audit_log; id stands for the rowid.
AuditRows == [id : Requests, action_type : Actions, resource : Paths,
              permission_result : {"allowed", "denied"}]

ASSUME GateAssumption ==
    /\ NoParam \notin Paths /\ Blank \notin Paths /\ Blank # NoParam
    /\ Missing \notin Contents /\ Junk \notin Images
    /\ Free \notin Requests
    /\ Asked \subseteq ActionRequests
    /\ MaxTries \in Nat \ {0}
    /\ MaxRegrants \in Nat
    /\ MaxWrites \in Nat

VARIABLES
    pm,        \* the permission manager: "up" or "down"
    am,        \* the action manager: "down", "connecting", "up" or "stopped"
    tries,     \* connection attempts of this start
    grant,     \* the permissions table, expiry applied
    granted,   \* history: keys that were ever allowed
    regrants,  \* changes of grants so far
    audit,     \* the audit_log table
    mutex,     \* who holds the database mutex
    pc,        \* where each request is
    gone,      \* the caller, or the action manager, no longer waits
    req,       \* the request itself
    decision,  \* what the policy engine found
    file,      \* files of the user
    writes,    \* changes by other programs so far
    stage,     \* staged wallpaper files
    wallpaper, \* the file the compositor shows
    done,      \* history: the request had its effect
    reply      \* what the caller was told

services == <<pm, am, tries>>
policy == <<grant, granted, regrants, audit, mutex>>
world == <<file, writes, stage, wallpaper>>
vars == <<services, policy, pc, gone, req, decision, world, done, reply>>

Goto(r, l) == pc' = [pc EXCEPT ![r] = l]

\* The stages in which the permission manager works on a request.
Evaluating == {"spawned", "query", "audit"}

\* The stages in which the action manager works on a request.
Handling == {"asking", "decided", "movecheck", "movevalidate", "moverename",
             "wallcheck", "wallstage", "wallcopy", "wallinstall", "done"}

\* A response of execute_action, if anybody still waits for it.
Respond(r, answer) ==
    /\ Goto(r, "over")
    /\ reply' = [reply EXCEPT ![r] = IF gone[r] THEN "none" ELSE answer]

-----------------------------------------------------------------------------
(* The processes *)

\* init_db and bind_uds; Restart=always.
PermissionStart ==
    /\ pm = "down"
    /\ pm' = "up"
    /\ UNCHANGED <<am, tries, policy, pc, gone, req, decision, world, done, reply>>

\* The database keeps every committed statement; evaluations end, and their
\* callers see a transport error, which execute_action answers with a refusal.
PermissionCrash ==
    /\ pm = "up"
    /\ pm' = "down"
    /\ mutex' = Free
    /\ pc' = [r \in Requests |-> IF pc[r] \in Evaluating THEN "over" ELSE pc[r]]
    /\ reply' = [r \in Requests |->
                   IF pc[r] \in Evaluating /\ ~gone[r] THEN "refused" ELSE reply[r]]
    /\ UNCHANGED <<am, tries, grant, granted, regrants, audit, gone, req,
                   decision, world, done>>

ActionStart ==
    /\ am = "down"
    /\ am' = "connecting"
    /\ UNCHANGED <<pm, tries, policy, pc, gone, req, decision, world, done, reply>>

\* connect_uds("permissions") at start-up; the counter is gone with the loop.
Connect ==
    /\ am = "connecting" /\ tries < MaxTries
    /\ IF pm = "up" THEN am' = "up" /\ tries' = 0
                    ELSE tries' = tries + 1 /\ UNCHANGED am
    /\ UNCHANGED <<pm, policy, pc, gone, req, decision, world, done, reply>>

\* Mutant: the process ends as if nothing was wrong, and Restart=on-failure
\* leaves it stopped.
GiveUp_Quietly ==
    /\ am = "connecting" /\ tries = MaxTries
    /\ am' = "stopped"
    /\ UNCHANGED <<pm, tries, policy, pc, gone, req, decision, world, done, reply>>

\* main returns an error, the unit fails and systemd starts it again.
GiveUp ==
    /\ am = "connecting" /\ tries = MaxTries
    /\ am' = "down"
    /\ tries' = 0
    /\ UNCHANGED <<pm, policy, pc, gone, req, decision, world, done, reply>>

\* Handlers die with their process; evaluations run on unattended.
ActionCrash ==
    /\ am = "up"
    /\ am' = "down"
    /\ gone' = [r \in Requests |-> gone[r] \/ pc[r] \in Evaluating \cup Handling]
    /\ pc' = [r \in Requests |-> IF pc[r] \in Handling THEN "over" ELSE pc[r]]
    /\ UNCHANGED <<pm, tries, policy, req, decision, world, done, reply>>

-----------------------------------------------------------------------------
(* The world around them *)

\* A grant is written, changed, revoked or expires.  Nothing in the
\* repository writes grants yet: "the future approval broker".
Regrant(k, d) ==
    /\ regrants < MaxRegrants
    /\ grant[k] # d
    /\ grant' = [grant EXCEPT ![k] = d]
    /\ granted' = IF d = "allowed" THEN granted \cup {k} ELSE granted
    /\ regrants' = regrants + 1
    /\ UNCHANGED <<services, audit, mutex, pc, gone, req, decision, world, done, reply>>

\* Another program creates, replaces or removes a file.
OtherWrites(p, c) ==
    /\ writes < MaxWrites
    /\ file[p] # c
    /\ file' = [file EXCEPT ![p] = c]
    /\ writes' = writes + 1
    /\ UNCHANGED <<services, policy, pc, gone, req, decision, stage, wallpaper,
                   done, reply>>

\* The client of the caller goes away and the call is cancelled.  The handler
\* is dropped at its only await; an evaluation that spawn_blocking has already
\* queued is not cancelled.
CallerLeaves(r) ==
    /\ pc[r] \in Evaluating \cup {"asking", "decided"}
    /\ ~gone[r]
    /\ gone' = [gone EXCEPT ![r] = TRUE]
    /\ Goto(r, IF pc[r] \in Evaluating THEN pc[r] ELSE "over")
    /\ UNCHANGED <<services, policy, req, decision, world, done, reply>>

-----------------------------------------------------------------------------
(* execute_action, up to the question *)

\* The early returns: an unsupported action or a missing resource.
WellFormed(q) == q.action \in Actions /\ q.resource # NoParam

\* Mutant: a request that nobody handles is answered as if it was.
Submit_Success(r, q) ==
    /\ am = "up"
    /\ pc[r] = "idle"
    /\ req' = [req EXCEPT ![r] = q]
    /\ IF WellFormed(q) THEN Goto(r, "asking") /\ UNCHANGED reply
                        ELSE Respond(r, "success")
    /\ UNCHANGED <<services, policy, gone, decision, world, done>>

Submit(r, q) ==
    /\ am = "up"
    /\ pc[r] = "idle"
    /\ req' = [req EXCEPT ![r] = q]
    /\ IF WellFormed(q) THEN Goto(r, "asking") /\ UNCHANGED reply
                        ELSE Respond(r, "refused")
    /\ UNCHANGED <<services, policy, gone, decision, world, done>>

\* request_capability cannot be delivered, or evaluate_sync's first check
\* rejects the resource.
AskRefused(r) ==
    /\ pc[r] = "asking"
    /\ pm = "down" \/ req[r].resource = Blank
    /\ Respond(r, "refused")
    /\ UNCHANGED <<services, policy, gone, req, decision, world, done>>

\* evaluate_capability hands the work to a blocking thread.
Ask(r) ==
    /\ pc[r] = "asking"
    /\ pm = "up"
    /\ req[r].resource \in Paths
    /\ Goto(r, "spawned")
    /\ UNCHANGED <<services, policy, gone, req, decision, world, done, reply>>

-----------------------------------------------------------------------------
(* evaluate_sync *)

Key(r) == <<req[r].action, req[r].resource>>

EvaluateLock(r) ==
    /\ pc[r] = "spawned"
    /\ mutex = Free
    /\ mutex' = r
    /\ Goto(r, "query")
    /\ UNCHANGED <<services, grant, granted, regrants, audit, gone, req, decision,
                   world, done, reply>>

\* Mutant: an error is first recorded by a helper that locks the database for
\* itself, and the mutex, held here already, does not lock twice.
EvaluateError_LocksAgain(r) ==
    /\ mutex = Free
    /\ Respond(r, "refused")
    /\ UNCHANGED <<services, policy, gone, req, decision, world, done>>

\* An error inside evaluate_sync: the guard is dropped, the status goes back
\* and execute_action refuses.
EvaluateError(r) ==
    /\ mutex' = Free
    /\ Respond(r, "refused")
    /\ UNCHANGED <<services, grant, granted, regrants, audit, gone, req, decision,
                   world, done>>

\* Mutant: the lookup matches the capability and forgets the scope.
Lookup_AnyScope(r) ==
    IF \E p \in Paths : grant[<<req[r].action, p>>] = "allowed"
    THEN "allowed" ELSE grant[Key(r)]

\* The SELECT: capability and scope must match and the grant be unexpired.
Lookup(r) == grant[Key(r)]

\* Only "allowed" allows; no row and "denied" deny.
EvaluateQuery(r) ==
    /\ pc[r] = "query"
    /\ Lookup(r) # "invalid"
    /\ decision' = [decision EXCEPT ![r] = IF Lookup(r) = "allowed" THEN "allowed"
                                           ELSE "denied"]
    /\ Goto(r, "audit")
    /\ UNCHANGED <<services, policy, gone, req, world, done, reply>>

\* An unknown decision in the table, or an error of the database.
EvaluateQueryFails(r) == pc[r] = "query" /\ EvaluateError(r)

Row(r) == [id |-> r, action_type |-> req[r].action, resource |-> req[r].resource,
           permission_result |-> decision[r]]

\* The INSERT; the decision is returned only after it.
EvaluateAudit(r) ==
    /\ pc[r] = "audit"
    /\ audit' = audit \cup {Row(r)}
    /\ mutex' = Free
    /\ Goto(r, IF gone[r] THEN "over" ELSE "decided")
    /\ UNCHANGED <<services, grant, granted, regrants, gone, req, decision, world,
                   done, reply>>

\* Mutant: a failed INSERT is ignored.
EvaluateAuditFails_Ignored(r) ==
    /\ pc[r] = "audit"
    /\ mutex' = Free
    /\ Goto(r, IF gone[r] THEN "over" ELSE "decided")
    /\ UNCHANGED <<services, grant, granted, regrants, audit, gone, req, decision,
                   world, done, reply>>

EvaluateAuditFails(r) == pc[r] = "audit" /\ EvaluateError(r)

-----------------------------------------------------------------------------
(* execute_action, from the answer on.  What follows has no await: nobody   *)
(* can cancel it, but other handlers and programs run in between.          *)

\* The answer is lost with the connection.
AnswerLost(r) ==
    /\ pc[r] = "decided" /\ pm = "down"
    /\ Respond(r, "refused")
    /\ UNCHANGED <<services, policy, gone, req, decision, world, done>>

Decide(r) ==
    /\ pc[r] = "decided"
    /\ \/ /\ \/ decision[r] # "allowed"
             \/ /\ req[r].action = "filesystem.move"
                /\ req[r].destination = NoParam
          /\ Respond(r, "refused")
       \/ /\ decision[r] = "allowed"
          /\ req[r].action = "filesystem.move"
          /\ req[r].destination # NoParam
          /\ Goto(r, "movecheck") /\ UNCHANGED reply
       \/ /\ decision[r] = "allowed"
          /\ req[r].action = "desktop.wallpaper.change"
          /\ Goto(r, "wallcheck") /\ UNCHANGED reply
    /\ UNCHANGED <<services, policy, gone, req, decision, world, done>>

\* Any step of an action can fail: relative paths, symbolic links, paths
\* outside /home/nira, the state directory missing, errors of the file system.
\* A staged file is removed.
ActionFails(r) ==
    /\ pc[r] \in Handling \ {"asking", "decided", "done"}
    /\ stage' = [stage EXCEPT ![r] = Missing]
    /\ Respond(r, "refused")
    /\ UNCHANGED <<services, policy, gone, req, decision, file, writes, wallpaper,
                   done>>

\* move_file_safely refuses a destination that exists ...
MoveCheck(r) ==
    /\ pc[r] = "movecheck"
    /\ req[r].destination \in Paths
    /\ file[req[r].destination] = Missing
    /\ Goto(r, "movevalidate")
    /\ UNCHANGED <<services, policy, gone, req, decision, world, done, reply>>

\* ... and validate_no_symlinks refuses one that does not: only a destination
\* that appears in between gets to the rename.
MoveValidate(r) ==
    /\ pc[r] = "movevalidate"
    /\ file[req[r].resource] # Missing /\ file[req[r].destination] # Missing
    /\ Goto(r, "moverename")
    /\ UNCHANGED <<services, policy, gone, req, decision, world, done, reply>>

\* rename(2) replaces what is there by then, or nothing.
MoveRename(r) ==
    LET source == req[r].resource
        destination == req[r].destination
    IN /\ pc[r] = "moverename"
       /\ file[source] # Missing
       /\ file' = [file EXCEPT ![destination] = file[source],
                               ![source] = IF source = destination THEN file[source]
                                           ELSE Missing]
       /\ done' = [done EXCEPT ![r] = TRUE]
       /\ Goto(r, "done")
       /\ UNCHANGED <<services, policy, gone, req, decision, writes, stage,
                      wallpaper, reply>>

\* change_wallpaper's checks of the source.
WallpaperCheck(r) ==
    /\ pc[r] = "wallcheck"
    /\ file[req[r].resource] \in Images
    /\ Goto(r, "wallstage")
    /\ UNCHANGED <<services, policy, gone, req, decision, world, done, reply>>

\* The source is opened and an empty staging file created under a new name.
WallpaperStage(r) ==
    /\ pc[r] = "wallstage"
    /\ file[req[r].resource] # Missing
    /\ stage' = [stage EXCEPT ![r] = [data |-> file[req[r].resource], whole |-> FALSE]]
    /\ Goto(r, "wallcopy")
    /\ UNCHANGED <<services, policy, gone, req, decision, file, writes, wallpaper,
                   done, reply>>

\* io::copy, sync_all and the file mode.
WallpaperCopy(r) ==
    /\ pc[r] = "wallcopy"
    /\ stage' = [stage EXCEPT ![r].whole = TRUE]
    /\ Goto(r, "wallinstall")
    /\ UNCHANGED <<services, policy, gone, req, decision, file, writes, wallpaper,
                   done, reply>>

\* The rename over the wallpaper.
WallpaperInstall(r) ==
    /\ pc[r] = "wallinstall"
    /\ wallpaper' = stage[r]
    /\ stage' = [stage EXCEPT ![r] = Missing]
    /\ done' = [done EXCEPT ![r] = TRUE]
    /\ Goto(r, "done")
    /\ UNCHANGED <<services, policy, gone, req, decision, file, writes, reply>>

Succeed(r) ==
    /\ pc[r] = "done"
    /\ Respond(r, "success")
    /\ UNCHANGED <<services, policy, gone, req, decision, world, done>>

-----------------------------------------------------------------------------

NoRequest == [action |-> "unsupported", resource |-> NoParam, destination |-> NoParam]

Init ==
    /\ pm = "down" /\ am = "down" /\ tries = 0
    /\ grant = [k \in Keys |-> "denied"]
    /\ granted = {}
    /\ regrants = 0
    /\ audit = {}
    /\ mutex = Free
    /\ pc = [r \in Requests |-> "idle"]
    /\ gone = [r \in Requests |-> FALSE]
    /\ req = [r \in Requests |-> NoRequest]
    /\ decision = [r \in Requests |-> "denied"]
    /\ file \in [Paths -> Contents \cup {Missing}]
    /\ writes = 0
    /\ stage = [r \in Requests |-> Missing]
    /\ wallpaper = Missing
    /\ done = [r \in Requests |-> FALSE]
    /\ reply = [r \in Requests |-> "none"]

Asking(r) == AskRefused(r) \/ Ask(r)

Evaluation(r) ==
    \/ EvaluateQuery(r) \/ EvaluateQueryFails(r)
    \/ EvaluateAudit(r) \/ EvaluateAuditFails(r)

Acting(r) ==
    \/ AnswerLost(r) \/ Decide(r) \/ ActionFails(r)
    \/ MoveCheck(r) \/ MoveValidate(r) \/ MoveRename(r)
    \/ WallpaperCheck(r) \/ WallpaperStage(r) \/ WallpaperCopy(r)
    \/ WallpaperInstall(r) \/ Succeed(r)

Starting == ActionStart \/ Connect \/ GiveUp

Next ==
    \/ PermissionStart \/ PermissionCrash \/ Starting \/ ActionCrash
    \/ \E k \in Keys, d \in {"allowed", "denied", "invalid"} : Regrant(k, d)
    \/ \E p \in Paths, c \in Contents \cup {Missing} : OtherWrites(p, c)
    \/ \E r \in Requests, q \in Asked : Submit(r, q)
    \/ \E r \in Requests :
         \/ CallerLeaves(r) \/ Asking(r) \/ EvaluateLock(r)
         \/ Evaluation(r) \/ Acting(r)

Spec == Init /\ [][Next]_vars

\* systemd starts both units; tasks and blocking threads keep running; the
\* mutex is handed on, so a thread that waits for it gets it when it is free
\* again and again.
FairSpec ==
    /\ Spec
    /\ WF_vars(PermissionStart)
    /\ WF_vars(Starting)
    /\ \A r \in Requests :
         /\ WF_vars(Asking(r)) /\ SF_vars(EvaluateLock(r))
         /\ WF_vars(Evaluation(r)) /\ WF_vars(Acting(r))

-----------------------------------------------------------------------------
(* Properties *)

Staged == {Missing} \cup [data : Contents, whole : BOOLEAN]

TypeOK ==
    /\ pm \in {"up", "down"}
    /\ am \in {"down", "connecting", "up", "stopped"}
    /\ tries \in 0..MaxTries
    /\ grant \in [Keys -> {"allowed", "denied", "invalid"}]
    /\ granted \subseteq Keys
    /\ regrants \in 0..MaxRegrants
    /\ audit \subseteq AuditRows
    /\ mutex \in Requests \cup {Free}
    /\ pc \in [Requests -> Handling \cup Evaluating \cup {"idle", "over"}]
    /\ gone \in [Requests -> BOOLEAN]
    /\ req \in [Requests -> ActionRequests]
    /\ decision \in [Requests -> {"allowed", "denied"}]
    /\ file \in [Paths -> Contents \cup {Missing}]
    /\ writes \in 0..MaxWrites
    /\ stage \in [Requests -> Staged]
    /\ wallpaper \in Staged
    /\ done \in [Requests -> BOOLEAN]
    /\ reply \in [Requests -> {"none", "refused", "success"}]

\* "The permission manager gates every AI action": whatever fails, crashes or
\* is lost on the way, a request has an effect only if the audit log says
\* that this very action on this very resource was allowed.
FailClosed ==
    \A r \in Requests : done[r] =>
        [id |-> r, action_type |-> req[r].action, resource |-> req[r].resource,
         permission_result |-> "allowed"] \in audit

\* policy/mod.rs, "An explicit, unexpired grant must already exist in the
\* database": an allowed row is about a key that was granted.
GrantedFirst ==
    \A a \in audit : a.permission_result = "allowed"
                       => <<a.action_type, a.resource>> \in granted

\* A caller that is told of a success had its effect, and one that is told of
\* a failure had none.
ReplyTruthful ==
    \A r \in Requests : /\ reply[r] = "success" => done[r]
                        /\ reply[r] = "refused" => ~done[r]

\* change_wallpaper, "The compositor therefore never observes a partial file".
WallpaperWhole == wallpaper # Missing => wallpaper.whole

\* A request that reached the permission manager is answered, or its caller
\* left or lost the action manager.
RequestsAnswered ==
    \A r \in Requests : pc[r] # "idle" ~> (reply[r] # "none" \/ gone[r])

\* A permission manager that stays up brings the action manager up, however
\* often its start-up gave up before.
ActionManagerComesUp == <>[](pm = "up") => []<>(am = "up")
-----------------------------------------------------------------------------
(* The inductive invariant behind the theorems of PermissionGateProofs *)

\* What the early returns have established about a request in progress.
RequestKnown ==
    \A r \in Requests :
        /\ pc[r] \notin {"idle", "over"} => req[r].action \in Actions
        /\ pc[r] \notin {"idle", "over", "asking"} => req[r].resource \in Paths
        /\ pc[r] \in {"movevalidate", "moverename"} => req[r].destination \in Paths

\* A staging file exists while it is copied and is whole when it is installed.
StageKnown ==
    /\ \A r \in Requests :
         /\ pc[r] \in {"wallcopy", "wallinstall"}
              => stage[r] \in [data : Contents, whole : BOOLEAN]
         /\ pc[r] = "wallinstall" => stage[r].whole
    /\ wallpaper # Missing => wallpaper.whole

\* The stages behind the decision "allowed".
Allowed == Handling \ {"asking", "decided"}

\* An answered request has its row, and an acting one was allowed.
AuditKnown ==
    \A r \in Requests :
        /\ pc[r] \in Allowed \cup {"decided"} => Row(r) \in audit
        /\ pc[r] \in Allowed => decision[r] = "allowed"

\* Where a request that had its effect can be, and what it may be told.
DoneKnown ==
    \A r \in Requests :
        /\ done[r] => /\ pc[r] \in {"done", "over"}
                      /\ decision[r] = "allowed" /\ Row(r) \in audit
        /\ pc[r] = "done" => done[r]
        /\ reply[r] # "none" => pc[r] = "over"
        /\ reply[r] = "success" => done[r]
        /\ reply[r] = "refused" => ~done[r]

\* What is allowed, or was found to be, has been granted.
GrantKnown ==
    /\ \A k \in Keys : grant[k] = "allowed" => k \in granted
    /\ \A r \in Requests :
         pc[r] = "audit" /\ decision[r] = "allowed" => Key(r) \in granted
    /\ \A a \in audit : a.permission_result = "allowed"
                           => <<a.action_type, a.resource>> \in granted

IInv ==
    TypeOK /\ RequestKnown /\ StageKnown /\ AuditKnown /\ DoneKnown /\ GrantKnown
=============================================================================

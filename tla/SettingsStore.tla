---------------------------- MODULE SettingsStore ----------------------------
(***************************************************************************)
(* core/settings-service: the in-memory store behind a tokio RwLock, the   *)
(* set_setting handlers that change it and then save it, the settings file *)
(* and the process itself, which systemd starts again when it fails.       *)
(*                                                                         *)
(* A handler inserts under the write lock, releases it, takes a snapshot   *)
(* under the read lock, writes the snapshot to a temporary file and        *)
(* renames that over the settings file; other handlers run in between.     *)
(***************************************************************************)
CONSTANTS
    Setters,    \* set_setting requests that can be served at the same time
    Keys,       \* setting names
    Values,     \* setting values
    NoValue,    \* the key is not in the map
    Absent,     \* there is no settings file
    Malformed,  \* a settings file that cannot be read or parsed
    Partial,    \* a temporary file that is only partly written
    SaveMayFail, \* whether I/O errors happen
    CallersLeave \* whether callers give up on their requests

Maps == [Keys -> Values \cup {NoValue}]

ASSUME ValueAssumption ==
    /\ NoValue \notin Values
    /\ {Absent, Malformed, Partial} \cap Maps = {}
    /\ Absent # Malformed /\ Absent # Partial /\ Malformed # Partial
    /\ SaveMayFail \in BOOLEAN
    /\ CallersLeave \in BOOLEAN

VARIABLES
    svc,    \* the process: "down", "up" or "panicked"
    store,  \* SettingsManager.store
    disk,   \* the settings file
    pc,     \* where each handler is; "detached" when only its rename is left
    snap,   \* the serialised store a handler is saving
    tmp,    \* temporary files
    unsaved, \* history: a save failed or was cancelled since the last success
    overlap, \* history: requests that were served together with another one
    raced   \* history: the last request to be answered was one of these

vars == <<svc, store, disk, pc, snap, tmp, unsaved, overlap, raced>>
races == <<overlap, raced>>

Empty == [k \in Keys |-> NoValue]

-----------------------------------------------------------------------------
(* The process *)

\* SettingsManager::new.  A file that cannot be read or parsed is reported
\* and the service starts with an empty store.  Both other paths, the parsed
\* file and the seeding of defaults, call RwLock::blocking_write on the
\* thread that runs the async main, where tokio panics.
Start ==
    /\ svc = "down"
    /\ svc' = IF disk = Malformed THEN "up" ELSE "panicked"
    /\ store' = Empty
    /\ UNCHANGED <<disk, pc, snap, tmp, unsaved, races>>

\* The process dies; handlers and store die with it, files stay.
Crash ==
    /\ svc = "up"
    /\ svc' = "down"
    /\ store' = Empty
    /\ pc' = [s \in Setters |-> "idle"]
    /\ snap' = [s \in Setters |-> Empty]
    /\ tmp' = [s \in Setters |-> Absent]
    /\ unsaved' = TRUE
    /\ UNCHANGED <<disk, races>>

\* Restart=on-failure.
Restart ==
    /\ svc = "panicked"
    /\ svc' = "down"
    /\ UNCHANGED <<store, disk, pc, snap, tmp, unsaved, races>>

-----------------------------------------------------------------------------
(* set_setting and save_to_disk_atomic *)

Goto(s, l) == pc' = [pc EXCEPT ![s] = l]

\* Mutant: every handler uses the same temporary file.
TmpOf_Shared(s) == CHOOSE x \in Setters : TRUE

\* The temporary file's name carries a nanosecond timestamp, taken to be
\* unique.
TmpOf(s) == s

\* The insert, under the write lock.
Insert(s, k, v) ==
    /\ svc = "up"
    /\ pc[s] = "idle"
    /\ store' = [store EXCEPT ![k] = v]
    /\ Goto(s, "snapshot")
    /\ LET others == {u \in Setters : pc[u] # "idle"}
       IN  overlap' = IF others = {} THEN overlap \ {s}
                                     ELSE overlap \cup others \cup {s}
    /\ UNCHANGED <<svc, disk, snap, tmp, unsaved, raced>>

\* The serialisation, under the read lock.
Snapshot(s) ==
    /\ pc[s] = "snapshot"
    /\ snap' = [snap EXCEPT ![s] = store]
    /\ Goto(s, "create")
    /\ UNCHANGED <<svc, store, disk, tmp, unsaved, races>>

\* tokio::fs::write creates or truncates the temporary file ...
CreateTmp(s) ==
    /\ pc[s] = "create"
    /\ tmp' = [tmp EXCEPT ![TmpOf(s)] = Partial]
    /\ Goto(s, "write")
    /\ UNCHANGED <<svc, store, disk, snap, unsaved, races>>

\* ... and fills it.
WriteTmp(s) ==
    /\ pc[s] = "write"
    /\ tmp' = [tmp EXCEPT ![TmpOf(s)] = snap[s]]
    /\ Goto(s, "rename")
    /\ UNCHANGED <<svc, store, disk, snap, unsaved, races>>

\* Mutant: success is reported without the rename.
RenameTmp_Skipped(s) ==
    /\ pc[s] = "rename"
    /\ unsaved' = FALSE
    /\ raced' = (s \in overlap)
    /\ Goto(s, "idle")
    /\ UNCHANGED <<svc, store, disk, snap, tmp, overlap>>

\* The rename, and the successful response if the caller is still there.
RenameTmp(s) ==
    /\ pc[s] \in {"rename", "detached"}
    /\ tmp[TmpOf(s)] # Absent
    /\ disk' = tmp[TmpOf(s)]
    /\ tmp' = [tmp EXCEPT ![TmpOf(s)] = Absent]
    /\ unsaved' = (unsaved /\ pc[s] = "detached")
    /\ raced' = (s \in overlap)
    /\ Goto(s, "idle")
    /\ UNCHANGED <<svc, store, snap, overlap>>

\* An I/O error is answered with success = false; the insert is not undone.
\* The temporary file is left behind, under a name nobody uses again.
SaveFails(s) ==
    /\ SaveMayFail
    /\ pc[s] \in {"create", "write", "rename"}
    /\ tmp' = [tmp EXCEPT ![TmpOf(s)] = Absent]
    /\ unsaved' = TRUE
    /\ Goto(s, "idle")
    /\ UNCHANGED <<svc, store, disk, snap, races>>

\* The caller's 5 s deadline passes and the handler is dropped at an await.
\* A rename already handed to tokio's blocking pool still happens.
CallerLeaves(s) ==
    /\ CallersLeave
    /\ pc[s] \notin {"idle", "detached"}
    /\ unsaved' = TRUE
    /\ IF pc[s] = "rename"
       THEN Goto(s, "detached") /\ UNCHANGED tmp
       ELSE Goto(s, "idle") /\ tmp' = [tmp EXCEPT ![TmpOf(s)] = Absent]
    /\ UNCHANGED <<svc, store, disk, snap, races>>

SetterStep(s) ==
    Snapshot(s) \/ CreateTmp(s) \/ WriteTmp(s) \/ RenameTmp(s)

-----------------------------------------------------------------------------

Init ==
    /\ svc = "down"
    /\ store = Empty
    /\ disk \in {Absent, Malformed}
    /\ pc = [s \in Setters |-> "idle"]
    /\ snap = [s \in Setters |-> Empty]
    /\ tmp = [s \in Setters |-> Absent]
    /\ unsaved = TRUE
    /\ overlap = {}
    /\ raced = FALSE

Next ==
    \/ Start \/ Restart \/ Crash
    \/ \E s \in Setters, k \in Keys, v \in Values : Insert(s, k, v)
    \/ \E s \in Setters : SetterStep(s) \/ SaveFails(s) \/ CallerLeaves(s)

Spec == Init /\ [][Next]_vars

\* systemd starts the unit and restarts it when it fails.
FairSpec == Spec /\ WF_vars(Start) /\ WF_vars(Restart)

-----------------------------------------------------------------------------
(* Properties *)

TypeOK ==
    /\ svc \in {"down", "up", "panicked"}
    /\ store \in Maps
    /\ disk \in Maps \cup {Absent, Malformed, Partial}
    /\ pc \in [Setters -> {"idle", "snapshot", "create", "write", "rename",
                        "detached"}]
    /\ snap \in [Setters -> Maps]
    /\ tmp \in [Setters -> Maps \cup {Absent, Partial}]
    /\ unsaved \in BOOLEAN
    /\ overlap \subseteq Setters
    /\ raced \in BOOLEAN

Quiet == \A s \in Setters : pc[s] = "idle"

\* Concurrent saves do not damage each other: the settings file is never a
\* file another handler is still writing.
NeverTorn == disk # Partial

\* set_setting: "serialise + persist while still holding the lock so
\* concurrent writers never see stale data": once every request has been
\* answered with success, the file holds what the store holds.
AckedIsPersisted ==
    svc = "up" /\ Quiet /\ ~unsaved => disk = store

\* The promise does hold for a request that overlapped no other: after its
\* success, and until the next request, the file holds what the store holds,
\* whatever failed, was abandoned or crashed before.
LonePersisted ==
    svc = "up" /\ Quiet /\ ~unsaved /\ ~raced => disk = store

\* docs/architecture/arch-v1.md, "Persistent key-value config store": the
\* service comes up, with defaults, on a machine without a settings file.
ComesUp == disk = Absent ~> svc = "up"
=============================================================================

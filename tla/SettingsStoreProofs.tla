------------------------ MODULE SettingsStoreProofs ------------------------
(***************************************************************************)
(* Proofs about SettingsStore for every set of requests, keys and values.  *)
(***************************************************************************)
EXTENDS SettingsStore, TLAPS

\* The initial states are type correct.
LEMMA InitType == Init => TypeOK
<1> SUFFICES ASSUME Init
             PROVE  TypeOK
  OBVIOUS
<1>1. Empty \in Maps
  BY DEF Empty, Maps
<1>2. /\ store \in Maps
      /\ disk \in Maps \cup {Absent, Malformed, Partial}
      /\ snap \in [Setters -> Maps]
      /\ tmp \in [Setters -> Maps \cup {Absent, Partial}]
  BY <1>1 DEF Init
<1>3. unsaved \in BOOLEAN /\ raced \in BOOLEAN
  BY DEF Init
<1>4. /\ svc \in {"down", "up", "panicked"}
      /\ pc \in [Setters -> {"idle", "snapshot", "create", "write", "rename",
                              "detached"}]
      /\ overlap \subseteq Setters
  BY DEF Init
<1>5. QED
  BY <1>2, <1>3, <1>4 DEF TypeOK

\* Every variable keeps its type across every step.
LEMMA TypeStep == TypeOK /\ [Next]_vars => TypeOK'
<1> SUFFICES ASSUME TypeOK, [Next]_vars
             PROVE  TypeOK'
  OBVIOUS
<1> USE DEF TypeOK, Maps, Goto, TmpOf, races
<1>0. Empty \in Maps
  BY DEF Empty
<1>1. CASE Start \/ Restart
  BY <1>0, <1>1 DEF Start, Restart
<1>2. CASE Crash
  BY <1>0, <1>2 DEF Crash
<1>3. ASSUME NEW s \in Setters, NEW k \in Keys, NEW v \in Values,
             Insert(s, k, v)
      PROVE  TypeOK'
  BY <1>3 DEF Insert
<1>4. ASSUME NEW s \in Setters,
             SetterStep(s) \/ SaveFails(s) \/ CallerLeaves(s)
      PROVE  TypeOK'
  <2>1. CASE Snapshot(s)
    BY <2>1 DEF Snapshot
  <2>2. CASE CreateTmp(s)
    BY <2>2 DEF CreateTmp
  <2>3. CASE WriteTmp(s)
    BY <2>3 DEF WriteTmp
  <2>4. CASE RenameTmp(s)
    <3>1. unsaved' \in BOOLEAN
      BY <2>4 DEF RenameTmp
    <3>2. disk' \in Maps \cup {Absent, Malformed, Partial}
      BY <2>4 DEF RenameTmp
    <3>3. raced' \in BOOLEAN
      BY <2>4 DEF RenameTmp
    <3>4. QED
      BY <2>4, <3>1, <3>2, <3>3 DEF RenameTmp
  <2>5. CASE SaveFails(s)
    BY <2>5 DEF SaveFails
  <2>6. CASE CallerLeaves(s)
    BY <2>6 DEF CallerLeaves
  <2>7. QED
    BY <1>4, <2>1, <2>2, <2>3, <2>4, <2>5, <2>6 DEF SetterStep
<1>5. CASE UNCHANGED vars
  BY <1>5 DEF vars
<1>6. QED
  BY <1>1, <1>2, <1>3, <1>4, <1>5 DEF Next

\* A handler that is about to rename has written its own file completely.
Written == \A s \in Setters : pc[s] \in {"rename", "detached"} => tmp[s] # Partial

\* Only a completely written file is renamed over the settings file.
LEMMA WrittenStep ==
    TypeOK /\ Written /\ NeverTorn /\ [Next]_vars => Written' /\ NeverTorn'
<1> SUFFICES ASSUME TypeOK, Written, NeverTorn, [Next]_vars
             PROVE  Written' /\ NeverTorn'
  OBVIOUS
<1> USE ValueAssumption DEF Written, NeverTorn, Goto, TmpOf, races
<1>0. /\ pc \in [Setters -> {"idle", "snapshot", "create", "write", "rename",
                              "detached"}]
      /\ snap \in [Setters -> Maps]
      /\ tmp \in [Setters -> Maps \cup {Absent, Partial}]
  BY DEF TypeOK
<1>1. CASE Start \/ Restart
  BY <1>1 DEF Start, Restart
<1>2. CASE Crash
  BY <1>2 DEF Crash
<1>3. ASSUME NEW s \in Setters, NEW k \in Keys, NEW v \in Values,
             Insert(s, k, v)
      PROVE  Written' /\ NeverTorn'
  BY <1>0, <1>3 DEF Insert
<1>4. ASSUME NEW s \in Setters,
             SetterStep(s) \/ SaveFails(s) \/ CallerLeaves(s)
      PROVE  Written' /\ NeverTorn'
  <2>1. CASE Snapshot(s) \/ CreateTmp(s)
    BY <1>0, <2>1 DEF Snapshot, CreateTmp
  <2>2. CASE WriteTmp(s)
    <3>1. snap[s] # Partial
      BY <1>0
    <3>2. QED
      BY <1>0, <2>2, <3>1 DEF WriteTmp
  <2>3. CASE RenameTmp(s)
    BY <1>0, <2>3 DEF RenameTmp
  <2>4. CASE SaveFails(s) \/ CallerLeaves(s)
    BY <1>0, <2>4 DEF SaveFails, CallerLeaves
  <2>5. QED
    BY <1>4, <2>1, <2>2, <2>3, <2>4 DEF SetterStep
<1>5. CASE UNCHANGED vars
  BY <1>5 DEF vars
<1>6. QED
  BY <1>1, <1>2, <1>3, <1>4, <1>5 DEF Next

\* However many set_setting requests run, fail or are abandoned at the same
\* time, the settings file is never a partly written one.
THEOREM FileNeverTorn == Spec => []NeverTorn
<1>1. Init => TypeOK
  BY InitType
<1>2. Init => Written /\ NeverTorn
  BY ValueAssumption DEF Init, Written, NeverTorn
<1>3. QED
  BY <1>1, <1>2, TypeStep, WrittenStep, PTL DEF Spec

\* A request that overlaps no other is alone in a running service, its
\* snapshot is the store, and its finished temporary file is that snapshot.
AloneNow ==
    \A s \in Setters : pc[s] # "idle" /\ s \notin overlap =>
        /\ \A u \in Setters : u # s => pc[u] = "idle"
        /\ pc[s] \in {"create", "write", "rename", "detached"} => snap[s] = store
        /\ pc[s] \in {"rename", "detached"} => tmp[s] = store

\* Requests are only served while the service is up, and nothing counts as
\* saved before it has come up.
ServedUp ==
    svc # "up" => unsaved /\ \A s \in Setters : pc[s] = "idle"

\* The facts that make LonePersisted inductive.
LoneInv == AloneNow /\ ServedUp /\ LonePersisted

\* Every step keeps them.
LEMMA LoneStep == TypeOK /\ LoneInv /\ [Next]_vars => LoneInv'
<1> SUFFICES ASSUME TypeOK, LoneInv, [Next]_vars
             PROVE  LoneInv'
  OBVIOUS
<1> USE DEF LoneInv, AloneNow, ServedUp, LonePersisted, Quiet, Goto, TmpOf, races
<1>0. /\ pc \in [Setters -> {"idle", "snapshot", "create", "write", "rename",
                              "detached"}]
      /\ snap \in [Setters -> Maps]
      /\ tmp \in [Setters -> Maps \cup {Absent, Partial}]
      /\ overlap \subseteq Setters
  BY DEF TypeOK
<1>1. CASE Start \/ Restart
  BY <1>1 DEF Start, Restart
<1>2. CASE Crash
  BY <1>2 DEF Crash
<1>3. ASSUME NEW s \in Setters, NEW k \in Keys, NEW v \in Values,
             Insert(s, k, v)
      PROVE  LoneInv'
  BY <1>0, <1>3 DEF Insert
<1>4. ASSUME NEW s \in Setters,
             SetterStep(s) \/ SaveFails(s) \/ CallerLeaves(s)
      PROVE  LoneInv'
  <2>1. CASE Snapshot(s)
    BY <1>0, <2>1 DEF Snapshot
  <2>2. CASE CreateTmp(s)
    BY <1>0, <2>2 DEF CreateTmp
  <2>3. CASE WriteTmp(s)
    BY <1>0, <2>3 DEF WriteTmp
  <2>4. CASE RenameTmp(s)
    BY <1>0, <2>4 DEF RenameTmp
  <2>5. CASE SaveFails(s)
    BY <1>0, <2>5 DEF SaveFails
  <2>6. CASE CallerLeaves(s)
    BY <1>0, <2>6 DEF CallerLeaves
  <2>7. QED
    BY <1>4, <2>1, <2>2, <2>3, <2>4, <2>5, <2>6 DEF SetterStep
<1>5. CASE UNCHANGED vars
  BY <1>5 DEF vars
<1>6. QED
  BY <1>1, <1>2, <1>3, <1>4, <1>5 DEF Next

\* For every set of requests, keys and values: a set_setting that overlapped
\* no other and was answered with success is in the settings file.
THEOREM LoneRequestPersisted == Spec => []LonePersisted
<1>1. Init => TypeOK
  BY InitType
<1>2. Init => LoneInv
  BY DEF Init, LoneInv, AloneNow, ServedUp, LonePersisted
<1>3. LoneInv => LonePersisted
  BY DEF LoneInv
<1>4. QED
  BY <1>1, <1>2, <1>3, TypeStep, LoneStep, PTL DEF Spec
=============================================================================

------------------------- MODULE PermissionGateProofs -------------------------
(***************************************************************************)
(* Proofs about PermissionGate, for any requests, paths, images and        *)
(* bounds: each part of the inductive invariant IInv is shown to survive    *)
(* every action, one lemma per part.                                       *)
(***************************************************************************)
EXTENDS PermissionGate, TLAPS

\* Every step preserves what kind of value each variable holds.
LEMMA TypeOKStep == IInv /\ [Next]_vars => TypeOK'
<1> SUFFICES ASSUME IInv, [Next]_vars PROVE TypeOK'
  OBVIOUS
<1> USE GateAssumption DEF IInv, TypeOK, RequestKnown, StageKnown, Actions,
      Contents, Keys, Staged, ActionRequests, Goto, Respond, EvaluateError,
      Evaluating, Handling, services, policy, world
<1>1. CASE PermissionStart
  BY <1>1 DEF PermissionStart
<1>2. CASE PermissionCrash
  BY <1>2 DEF PermissionCrash
<1>3. CASE ActionStart
  BY <1>3 DEF ActionStart
<1>4. CASE Connect
  BY <1>4 DEF Connect
<1>5. CASE GiveUp
  BY <1>5 DEF GiveUp
<1>6. CASE ActionCrash
  BY <1>6 DEF ActionCrash
<1>7. ASSUME NEW k \in Keys, NEW d \in {"allowed", "denied", "invalid"},
            Regrant(k, d)
     PROVE  TypeOK'
  BY <1>7 DEF Regrant
<1>8. ASSUME NEW p \in Paths, NEW c \in Contents \cup {Missing},
            OtherWrites(p, c)
     PROVE  TypeOK'
  BY <1>8 DEF OtherWrites
<1>9. ASSUME NEW r \in Requests, NEW q \in Asked, Submit(r, q) PROVE TypeOK'
  <2>1. req' \in [Requests -> ActionRequests]
    BY <1>9 DEF Submit
  <2>2. /\ pc' \in [Requests -> Handling \cup Evaluating \cup {"idle", "over"}]
        /\ reply' \in [Requests -> {"none", "refused", "success"}]
    <3>1. /\ pc \in [Requests -> Handling \cup Evaluating \cup {"idle", "over"}]
          /\ reply \in [Requests -> {"none", "refused", "success"}]
      OBVIOUS
    <3>2. {"asking", "over"} \subseteq Handling \cup Evaluating \cup {"idle", "over"}
      OBVIOUS
    <3> HIDE DEF IInv, TypeOK, RequestKnown, StageKnown, Actions, Contents,
          Keys, Staged, ActionRequests, Handling, Evaluating
    <3>3. CASE WellFormed(q)
      BY <1>9, <3>1, <3>2, <3>3 DEF Submit
    <3>4. CASE ~WellFormed(q)
      BY <1>9, <3>1, <3>2, <3>4 DEF Submit
    <3> QED
      BY <3>3, <3>4
  <2> HIDE DEF ActionRequests
  <2> QED
    BY <1>9, <2>1, <2>2 DEF Submit
<1>10. ASSUME NEW r \in Requests, CallerLeaves(r) PROVE TypeOK'
  BY <1>10 DEF CallerLeaves
<1>11. ASSUME NEW r \in Requests, AskRefused(r) PROVE TypeOK'
  BY <1>11 DEF AskRefused
<1>12. ASSUME NEW r \in Requests, Ask(r) PROVE TypeOK'
  BY <1>12 DEF Ask
<1>13. ASSUME NEW r \in Requests, EvaluateLock(r) PROVE TypeOK'
  BY <1>13 DEF EvaluateLock
<1>14. ASSUME NEW r \in Requests, EvaluateQuery(r) PROVE TypeOK'
  BY <1>14 DEF EvaluateQuery
<1>15. ASSUME NEW r \in Requests, EvaluateQueryFails(r) PROVE TypeOK'
  BY <1>15 DEF EvaluateQueryFails
<1>16. ASSUME NEW r \in Requests, EvaluateAudit(r) PROVE TypeOK'
  <2>1. Row(r) \in AuditRows
    BY <1>16 DEF EvaluateAudit, Row, AuditRows
  <2> QED
    BY <1>16, <2>1 DEF EvaluateAudit
<1>17. ASSUME NEW r \in Requests, EvaluateAuditFails(r) PROVE TypeOK'
  BY <1>17 DEF EvaluateAuditFails
<1>18. ASSUME NEW r \in Requests, AnswerLost(r) PROVE TypeOK'
  BY <1>18 DEF AnswerLost
<1>19. ASSUME NEW r \in Requests, Decide(r) PROVE TypeOK'
  BY <1>19 DEF Decide
<1>20. ASSUME NEW r \in Requests, ActionFails(r) PROVE TypeOK'
  BY <1>20 DEF ActionFails
<1>21. ASSUME NEW r \in Requests, MoveCheck(r) PROVE TypeOK'
  BY <1>21 DEF MoveCheck
<1>29. ASSUME NEW r \in Requests, MoveValidate(r) PROVE TypeOK'
  BY <1>29 DEF MoveValidate
<1>22. ASSUME NEW r \in Requests, MoveRename(r) PROVE TypeOK'
  BY <1>22 DEF MoveRename
<1>23. ASSUME NEW r \in Requests, WallpaperCheck(r) PROVE TypeOK'
  BY <1>23 DEF WallpaperCheck
<1>24. ASSUME NEW r \in Requests, WallpaperStage(r) PROVE TypeOK'
  BY <1>24 DEF WallpaperStage
<1>25. ASSUME NEW r \in Requests, WallpaperCopy(r) PROVE TypeOK'
  BY <1>25 DEF WallpaperCopy
<1>26. ASSUME NEW r \in Requests, WallpaperInstall(r) PROVE TypeOK'
  BY <1>26 DEF WallpaperInstall
<1>27. ASSUME NEW r \in Requests, Succeed(r) PROVE TypeOK'
  BY <1>27 DEF Succeed
<1>28. CASE UNCHANGED vars
  BY <1>28 DEF vars
<1> HIDE DEF TypeOK, IInv, Contents
<1> QED
  BY <1>1, <1>2, <1>3, <1>4, <1>5, <1>6, <1>7, <1>8, <1>9, <1>10, <1>11,
     <1>12, <1>13, <1>14, <1>15, <1>16, <1>17, <1>18, <1>19, <1>20, <1>21,
     <1>22, <1>23, <1>24, <1>25, <1>26, <1>27, <1>28, <1>29 DEF Next, Starting,
     Asking, Evaluation, Acting

\* Every step preserves what the early returns established.
LEMMA RequestKnownStep == IInv /\ [Next]_vars => RequestKnown'
<1> SUFFICES ASSUME IInv, [Next]_vars PROVE RequestKnown'
  OBVIOUS
<1> USE GateAssumption DEF IInv, RequestKnown, TypeOK, WellFormed,
      ActionRequests, Goto, Respond, EvaluateError, Evaluating, Handling,
      services, policy, world
<1>1. CASE PermissionStart
  BY <1>1 DEF PermissionStart
<1>2. CASE PermissionCrash
  BY <1>2 DEF PermissionCrash
<1>3. CASE ActionStart
  BY <1>3 DEF ActionStart
<1>4. CASE Connect
  BY <1>4 DEF Connect
<1>5. CASE GiveUp
  BY <1>5 DEF GiveUp
<1>6. CASE ActionCrash
  BY <1>6 DEF ActionCrash
<1>7. ASSUME NEW k \in Keys, NEW d \in {"allowed", "denied", "invalid"},
            Regrant(k, d)
     PROVE  RequestKnown'
  BY <1>7 DEF Regrant
<1>8. ASSUME NEW p \in Paths, NEW c \in Contents \cup {Missing},
            OtherWrites(p, c)
     PROVE  RequestKnown'
  BY <1>8 DEF OtherWrites
<1>9. ASSUME NEW r \in Requests, NEW q \in Asked,
            Submit(r, q)
     PROVE  RequestKnown'
  BY <1>9 DEF Submit
<1>10. ASSUME NEW r \in Requests, CallerLeaves(r) PROVE RequestKnown'
  BY <1>10 DEF CallerLeaves
<1>11. ASSUME NEW r \in Requests, AskRefused(r) PROVE RequestKnown'
  BY <1>11 DEF AskRefused
<1>12. ASSUME NEW r \in Requests, Ask(r) PROVE RequestKnown'
  BY <1>12 DEF Ask
<1>13. ASSUME NEW r \in Requests, EvaluateLock(r) PROVE RequestKnown'
  BY <1>13 DEF EvaluateLock
<1>14. ASSUME NEW r \in Requests, EvaluateQuery(r) PROVE RequestKnown'
  BY <1>14 DEF EvaluateQuery
<1>15. ASSUME NEW r \in Requests, EvaluateQueryFails(r) PROVE RequestKnown'
  BY <1>15 DEF EvaluateQueryFails
<1>16. ASSUME NEW r \in Requests, EvaluateAudit(r) PROVE RequestKnown'
  BY <1>16 DEF EvaluateAudit
<1>17. ASSUME NEW r \in Requests, EvaluateAuditFails(r) PROVE RequestKnown'
  BY <1>17 DEF EvaluateAuditFails
<1>18. ASSUME NEW r \in Requests, AnswerLost(r) PROVE RequestKnown'
  BY <1>18 DEF AnswerLost
<1>19. ASSUME NEW r \in Requests, Decide(r) PROVE RequestKnown'
  BY <1>19 DEF Decide
<1>20. ASSUME NEW r \in Requests, ActionFails(r) PROVE RequestKnown'
  BY <1>20 DEF ActionFails
<1>21. ASSUME NEW r \in Requests, MoveCheck(r) PROVE RequestKnown'
  BY <1>21 DEF MoveCheck
<1>29. ASSUME NEW r \in Requests, MoveValidate(r) PROVE RequestKnown'
  BY <1>29 DEF MoveValidate
<1>22. ASSUME NEW r \in Requests, MoveRename(r) PROVE RequestKnown'
  BY <1>22 DEF MoveRename
<1>23. ASSUME NEW r \in Requests, WallpaperCheck(r) PROVE RequestKnown'
  BY <1>23 DEF WallpaperCheck
<1>24. ASSUME NEW r \in Requests, WallpaperStage(r) PROVE RequestKnown'
  BY <1>24 DEF WallpaperStage
<1>25. ASSUME NEW r \in Requests, WallpaperCopy(r) PROVE RequestKnown'
  BY <1>25 DEF WallpaperCopy
<1>26. ASSUME NEW r \in Requests, WallpaperInstall(r) PROVE RequestKnown'
  BY <1>26 DEF WallpaperInstall
<1>27. ASSUME NEW r \in Requests, Succeed(r) PROVE RequestKnown'
  BY <1>27 DEF Succeed
<1>28. CASE UNCHANGED vars
  BY <1>28 DEF vars
<1> QED
  BY <1>1, <1>2, <1>3, <1>4, <1>5, <1>6, <1>7, <1>8, <1>9, <1>10, <1>11,
     <1>12, <1>13, <1>14, <1>15, <1>16, <1>17, <1>18, <1>19, <1>20, <1>21,
     <1>22, <1>23, <1>24, <1>25, <1>26, <1>27, <1>28, <1>29 DEF Next, Starting,
     Asking, Evaluation, Acting

\* Every step preserves the state of the staging files.
LEMMA StageKnownStep == IInv /\ [Next]_vars => StageKnown'
<1> SUFFICES ASSUME IInv, [Next]_vars PROVE StageKnown'
  OBVIOUS
<1> USE GateAssumption DEF IInv, StageKnown, TypeOK, RequestKnown, Contents,
      Goto, Respond, EvaluateError, Evaluating, Handling, services, policy,
      world
<1>1. CASE PermissionStart
  BY <1>1 DEF PermissionStart
<1>2. CASE PermissionCrash
  BY <1>2 DEF PermissionCrash
<1>3. CASE ActionStart
  BY <1>3 DEF ActionStart
<1>4. CASE Connect
  BY <1>4 DEF Connect
<1>5. CASE GiveUp
  BY <1>5 DEF GiveUp
<1>6. CASE ActionCrash
  BY <1>6 DEF ActionCrash
<1>7. ASSUME NEW k \in Keys, NEW d \in {"allowed", "denied", "invalid"},
            Regrant(k, d)
     PROVE  StageKnown'
  BY <1>7 DEF Regrant
<1>8. ASSUME NEW p \in Paths, NEW c \in Contents \cup {Missing},
            OtherWrites(p, c)
     PROVE  StageKnown'
  BY <1>8 DEF OtherWrites
<1>9. ASSUME NEW r \in Requests, NEW q \in Asked,
            Submit(r, q)
     PROVE  StageKnown'
  BY <1>9 DEF Submit
<1>10. ASSUME NEW r \in Requests, CallerLeaves(r) PROVE StageKnown'
  BY <1>10 DEF CallerLeaves
<1>11. ASSUME NEW r \in Requests, AskRefused(r) PROVE StageKnown'
  BY <1>11 DEF AskRefused
<1>12. ASSUME NEW r \in Requests, Ask(r) PROVE StageKnown'
  BY <1>12 DEF Ask
<1>13. ASSUME NEW r \in Requests, EvaluateLock(r) PROVE StageKnown'
  BY <1>13 DEF EvaluateLock
<1>14. ASSUME NEW r \in Requests, EvaluateQuery(r) PROVE StageKnown'
  BY <1>14 DEF EvaluateQuery
<1>15. ASSUME NEW r \in Requests, EvaluateQueryFails(r) PROVE StageKnown'
  BY <1>15 DEF EvaluateQueryFails
<1>16. ASSUME NEW r \in Requests, EvaluateAudit(r) PROVE StageKnown'
  BY <1>16 DEF EvaluateAudit
<1>17. ASSUME NEW r \in Requests, EvaluateAuditFails(r) PROVE StageKnown'
  BY <1>17 DEF EvaluateAuditFails
<1>18. ASSUME NEW r \in Requests, AnswerLost(r) PROVE StageKnown'
  BY <1>18 DEF AnswerLost
<1>19. ASSUME NEW r \in Requests, Decide(r) PROVE StageKnown'
  BY <1>19 DEF Decide
<1>20. ASSUME NEW r \in Requests, ActionFails(r) PROVE StageKnown'
  BY <1>20 DEF ActionFails
<1>21. ASSUME NEW r \in Requests, MoveCheck(r) PROVE StageKnown'
  BY <1>21 DEF MoveCheck
<1>29. ASSUME NEW r \in Requests, MoveValidate(r) PROVE StageKnown'
  BY <1>29 DEF MoveValidate
<1>22. ASSUME NEW r \in Requests, MoveRename(r) PROVE StageKnown'
  BY <1>22 DEF MoveRename
<1>23. ASSUME NEW r \in Requests, WallpaperCheck(r) PROVE StageKnown'
  BY <1>23 DEF WallpaperCheck
<1>24. ASSUME NEW r \in Requests, WallpaperStage(r) PROVE StageKnown'
  BY <1>24 DEF WallpaperStage
<1>25. ASSUME NEW r \in Requests, WallpaperCopy(r) PROVE StageKnown'
  BY <1>25 DEF WallpaperCopy
<1>26. ASSUME NEW r \in Requests, WallpaperInstall(r) PROVE StageKnown'
  BY <1>26 DEF WallpaperInstall
<1>27. ASSUME NEW r \in Requests, Succeed(r) PROVE StageKnown'
  BY <1>27 DEF Succeed
<1>28. CASE UNCHANGED vars
  BY <1>28 DEF vars
<1> QED
  BY <1>1, <1>2, <1>3, <1>4, <1>5, <1>6, <1>7, <1>8, <1>9, <1>10, <1>11,
     <1>12, <1>13, <1>14, <1>15, <1>16, <1>17, <1>18, <1>19, <1>20, <1>21,
     <1>22, <1>23, <1>24, <1>25, <1>26, <1>27, <1>28, <1>29 DEF Next, Starting,
     Asking, Evaluation, Acting

\* Every step preserves the rows behind the answers.
LEMMA AuditKnownStep == IInv /\ [Next]_vars => AuditKnown'
<1> SUFFICES ASSUME IInv, [Next]_vars PROVE AuditKnown'
  OBVIOUS
<1> USE GateAssumption DEF IInv, AuditKnown, TypeOK, Allowed, Row, Goto,
      Respond, EvaluateError, Evaluating, Handling, services, policy, world
<1>1. CASE PermissionStart
  BY <1>1 DEF PermissionStart
<1>2. CASE PermissionCrash
  BY <1>2 DEF PermissionCrash
<1>3. CASE ActionStart
  BY <1>3 DEF ActionStart
<1>4. CASE Connect
  BY <1>4 DEF Connect
<1>5. CASE GiveUp
  BY <1>5 DEF GiveUp
<1>6. CASE ActionCrash
  BY <1>6 DEF ActionCrash
<1>7. ASSUME NEW k \in Keys, NEW d \in {"allowed", "denied", "invalid"},
            Regrant(k, d)
     PROVE  AuditKnown'
  BY <1>7 DEF Regrant
<1>8. ASSUME NEW p \in Paths, NEW c \in Contents \cup {Missing},
            OtherWrites(p, c)
     PROVE  AuditKnown'
  BY <1>8 DEF OtherWrites
<1>9. ASSUME NEW r \in Requests, NEW q \in Asked,
            Submit(r, q)
     PROVE  AuditKnown'
  BY <1>9 DEF Submit
<1>10. ASSUME NEW r \in Requests, CallerLeaves(r) PROVE AuditKnown'
  BY <1>10 DEF CallerLeaves
<1>11. ASSUME NEW r \in Requests, AskRefused(r) PROVE AuditKnown'
  BY <1>11 DEF AskRefused
<1>12. ASSUME NEW r \in Requests, Ask(r) PROVE AuditKnown'
  BY <1>12 DEF Ask
<1>13. ASSUME NEW r \in Requests, EvaluateLock(r) PROVE AuditKnown'
  BY <1>13 DEF EvaluateLock
<1>14. ASSUME NEW r \in Requests, EvaluateQuery(r) PROVE AuditKnown'
  BY <1>14 DEF EvaluateQuery
<1>15. ASSUME NEW r \in Requests, EvaluateQueryFails(r) PROVE AuditKnown'
  BY <1>15 DEF EvaluateQueryFails
<1>16. ASSUME NEW r \in Requests, EvaluateAudit(r) PROVE AuditKnown'
  BY <1>16 DEF EvaluateAudit
<1>17. ASSUME NEW r \in Requests, EvaluateAuditFails(r) PROVE AuditKnown'
  BY <1>17 DEF EvaluateAuditFails
<1>18. ASSUME NEW r \in Requests, AnswerLost(r) PROVE AuditKnown'
  BY <1>18 DEF AnswerLost
<1>19. ASSUME NEW r \in Requests, Decide(r) PROVE AuditKnown'
  BY <1>19 DEF Decide
<1>20. ASSUME NEW r \in Requests, ActionFails(r) PROVE AuditKnown'
  BY <1>20 DEF ActionFails
<1>21. ASSUME NEW r \in Requests, MoveCheck(r) PROVE AuditKnown'
  BY <1>21 DEF MoveCheck
<1>29. ASSUME NEW r \in Requests, MoveValidate(r) PROVE AuditKnown'
  BY <1>29 DEF MoveValidate
<1>22. ASSUME NEW r \in Requests, MoveRename(r) PROVE AuditKnown'
  BY <1>22 DEF MoveRename
<1>23. ASSUME NEW r \in Requests, WallpaperCheck(r) PROVE AuditKnown'
  BY <1>23 DEF WallpaperCheck
<1>24. ASSUME NEW r \in Requests, WallpaperStage(r) PROVE AuditKnown'
  BY <1>24 DEF WallpaperStage
<1>25. ASSUME NEW r \in Requests, WallpaperCopy(r) PROVE AuditKnown'
  BY <1>25 DEF WallpaperCopy
<1>26. ASSUME NEW r \in Requests, WallpaperInstall(r) PROVE AuditKnown'
  BY <1>26 DEF WallpaperInstall
<1>27. ASSUME NEW r \in Requests, Succeed(r) PROVE AuditKnown'
  BY <1>27 DEF Succeed
<1>28. CASE UNCHANGED vars
  BY <1>28 DEF vars
<1> QED
  BY <1>1, <1>2, <1>3, <1>4, <1>5, <1>6, <1>7, <1>8, <1>9, <1>10, <1>11,
     <1>12, <1>13, <1>14, <1>15, <1>16, <1>17, <1>18, <1>19, <1>20, <1>21,
     <1>22, <1>23, <1>24, <1>25, <1>26, <1>27, <1>28, <1>29 DEF Next, Starting,
     Asking, Evaluation, Acting

\* Every step preserves which requests had their effect.
LEMMA DoneKnownStep == IInv /\ [Next]_vars => DoneKnown'
<1> SUFFICES ASSUME IInv, [Next]_vars PROVE DoneKnown'
  OBVIOUS
<1> USE GateAssumption DEF IInv, DoneKnown, TypeOK, AuditKnown, Allowed, Row,
      Goto, Respond, EvaluateError, Evaluating, Handling, services, policy,
      world
<1>1. CASE PermissionStart
  BY <1>1 DEF PermissionStart
<1>2. CASE PermissionCrash
  BY <1>2 DEF PermissionCrash
<1>3. CASE ActionStart
  BY <1>3 DEF ActionStart
<1>4. CASE Connect
  BY <1>4 DEF Connect
<1>5. CASE GiveUp
  BY <1>5 DEF GiveUp
<1>6. CASE ActionCrash
  BY <1>6 DEF ActionCrash
<1>7. ASSUME NEW k \in Keys, NEW d \in {"allowed", "denied", "invalid"},
            Regrant(k, d)
     PROVE  DoneKnown'
  BY <1>7 DEF Regrant
<1>8. ASSUME NEW p \in Paths, NEW c \in Contents \cup {Missing},
            OtherWrites(p, c)
     PROVE  DoneKnown'
  BY <1>8 DEF OtherWrites
<1>9. ASSUME NEW r \in Requests, NEW q \in Asked,
            Submit(r, q)
     PROVE  DoneKnown'
  <2>1. /\ pc[r] = "idle" /\ ~done[r] /\ reply[r] = "none"
        /\ UNCHANGED <<done, decision, audit>>
    BY <1>9 DEF Submit
  <2>2. \/ pc'[r] = "asking" /\ reply' = reply
        \/ pc'[r] = "over" /\ reply'[r] \in {"none", "refused"}
    <3>1. CASE WellFormed(q)
      BY <1>9, <3>1 DEF Submit
    <3>2. CASE ~WellFormed(q)
      <4>1. reply' = [reply EXCEPT ![r] = IF gone[r] THEN "none" ELSE "refused"]
        BY <1>9, <3>2 DEF Submit
      <4>2. pc' = [pc EXCEPT ![r] = "over"]
        BY <1>9, <3>2 DEF Submit
      <4> QED
        BY <4>1, <4>2
    <3> QED
      BY <3>1, <3>2
  <2>3. ASSUME NEW s \in Requests \ {r}
        PROVE  /\ pc'[s] = pc[s] /\ reply'[s] = reply[s] /\ req'[s] = req[s]
    BY <1>9 DEF Submit
  <2> QED
    BY <2>1, <2>2, <2>3
<1>10. ASSUME NEW r \in Requests, CallerLeaves(r) PROVE DoneKnown'
  BY <1>10 DEF CallerLeaves
<1>11. ASSUME NEW r \in Requests, AskRefused(r) PROVE DoneKnown'
  BY <1>11 DEF AskRefused
<1>12. ASSUME NEW r \in Requests, Ask(r) PROVE DoneKnown'
  BY <1>12 DEF Ask
<1>13. ASSUME NEW r \in Requests, EvaluateLock(r) PROVE DoneKnown'
  BY <1>13 DEF EvaluateLock
<1>14. ASSUME NEW r \in Requests, EvaluateQuery(r) PROVE DoneKnown'
  BY <1>14 DEF EvaluateQuery
<1>15. ASSUME NEW r \in Requests, EvaluateQueryFails(r) PROVE DoneKnown'
  BY <1>15 DEF EvaluateQueryFails
<1>16. ASSUME NEW r \in Requests, EvaluateAudit(r) PROVE DoneKnown'
  BY <1>16 DEF EvaluateAudit
<1>17. ASSUME NEW r \in Requests, EvaluateAuditFails(r) PROVE DoneKnown'
  BY <1>17 DEF EvaluateAuditFails
<1>18. ASSUME NEW r \in Requests, AnswerLost(r) PROVE DoneKnown'
  BY <1>18 DEF AnswerLost
<1>19. ASSUME NEW r \in Requests, Decide(r) PROVE DoneKnown'
  BY <1>19 DEF Decide
<1>20. ASSUME NEW r \in Requests, ActionFails(r) PROVE DoneKnown'
  BY <1>20 DEF ActionFails
<1>21. ASSUME NEW r \in Requests, MoveCheck(r) PROVE DoneKnown'
  BY <1>21 DEF MoveCheck
<1>29. ASSUME NEW r \in Requests, MoveValidate(r) PROVE DoneKnown'
  BY <1>29 DEF MoveValidate
<1>22. ASSUME NEW r \in Requests, MoveRename(r) PROVE DoneKnown'
  BY <1>22 DEF MoveRename
<1>23. ASSUME NEW r \in Requests, WallpaperCheck(r) PROVE DoneKnown'
  BY <1>23 DEF WallpaperCheck
<1>24. ASSUME NEW r \in Requests, WallpaperStage(r) PROVE DoneKnown'
  BY <1>24 DEF WallpaperStage
<1>25. ASSUME NEW r \in Requests, WallpaperCopy(r) PROVE DoneKnown'
  BY <1>25 DEF WallpaperCopy
<1>26. ASSUME NEW r \in Requests, WallpaperInstall(r) PROVE DoneKnown'
  BY <1>26 DEF WallpaperInstall
<1>27. ASSUME NEW r \in Requests, Succeed(r) PROVE DoneKnown'
  BY <1>27 DEF Succeed
<1>28. CASE UNCHANGED vars
  BY <1>28 DEF vars
<1> HIDE DEF DoneKnown, IInv
<1> QED
  BY <1>1, <1>2, <1>3, <1>4, <1>5, <1>6, <1>7, <1>8, <1>9, <1>10, <1>11,
     <1>12, <1>13, <1>14, <1>15, <1>16, <1>17, <1>18, <1>19, <1>20, <1>21,
     <1>22, <1>23, <1>24, <1>25, <1>26, <1>27, <1>28, <1>29 DEF Next, Starting,
     Asking, Evaluation, Acting

\* Every step preserves the grants behind the rows.
LEMMA GrantKnownStep == IInv /\ [Next]_vars => GrantKnown'
<1> SUFFICES ASSUME IInv, [Next]_vars PROVE GrantKnown'
  OBVIOUS
<1> USE GateAssumption DEF IInv, GrantKnown, TypeOK, RequestKnown, Key,
      Lookup, Row, Goto, Respond, EvaluateError, Evaluating, Handling,
      services, policy, world
<1>1. CASE PermissionStart
  BY <1>1 DEF PermissionStart
<1>2. CASE PermissionCrash
  BY <1>2 DEF PermissionCrash
<1>3. CASE ActionStart
  BY <1>3 DEF ActionStart
<1>4. CASE Connect
  BY <1>4 DEF Connect
<1>5. CASE GiveUp
  BY <1>5 DEF GiveUp
<1>6. CASE ActionCrash
  BY <1>6 DEF ActionCrash
<1>7. ASSUME NEW k \in Keys, NEW d \in {"allowed", "denied", "invalid"},
            Regrant(k, d)
     PROVE  GrantKnown'
  BY <1>7 DEF Regrant
<1>8. ASSUME NEW p \in Paths, NEW c \in Contents \cup {Missing},
            OtherWrites(p, c)
     PROVE  GrantKnown'
  BY <1>8 DEF OtherWrites
<1>9. ASSUME NEW r \in Requests, NEW q \in Asked,
            Submit(r, q)
     PROVE  GrantKnown'
  BY <1>9 DEF Submit
<1>10. ASSUME NEW r \in Requests, CallerLeaves(r) PROVE GrantKnown'
  BY <1>10 DEF CallerLeaves
<1>11. ASSUME NEW r \in Requests, AskRefused(r) PROVE GrantKnown'
  BY <1>11 DEF AskRefused
<1>12. ASSUME NEW r \in Requests, Ask(r) PROVE GrantKnown'
  BY <1>12 DEF Ask
<1>13. ASSUME NEW r \in Requests, EvaluateLock(r) PROVE GrantKnown'
  BY <1>13 DEF EvaluateLock
<1>14. ASSUME NEW r \in Requests, EvaluateQuery(r) PROVE GrantKnown'
  <2>1. Key(r) \in Keys
    BY <1>14 DEF EvaluateQuery, Keys
  <2> QED
    BY <1>14, <2>1 DEF EvaluateQuery
<1>15. ASSUME NEW r \in Requests, EvaluateQueryFails(r) PROVE GrantKnown'
  BY <1>15 DEF EvaluateQueryFails
<1>16. ASSUME NEW r \in Requests, EvaluateAudit(r) PROVE GrantKnown'
  BY <1>16 DEF EvaluateAudit
<1>17. ASSUME NEW r \in Requests, EvaluateAuditFails(r) PROVE GrantKnown'
  BY <1>17 DEF EvaluateAuditFails
<1>18. ASSUME NEW r \in Requests, AnswerLost(r) PROVE GrantKnown'
  BY <1>18 DEF AnswerLost
<1>19. ASSUME NEW r \in Requests, Decide(r) PROVE GrantKnown'
  BY <1>19 DEF Decide
<1>20. ASSUME NEW r \in Requests, ActionFails(r) PROVE GrantKnown'
  BY <1>20 DEF ActionFails
<1>21. ASSUME NEW r \in Requests, MoveCheck(r) PROVE GrantKnown'
  BY <1>21 DEF MoveCheck
<1>29. ASSUME NEW r \in Requests, MoveValidate(r) PROVE GrantKnown'
  BY <1>29 DEF MoveValidate
<1>22. ASSUME NEW r \in Requests, MoveRename(r) PROVE GrantKnown'
  BY <1>22 DEF MoveRename
<1>23. ASSUME NEW r \in Requests, WallpaperCheck(r) PROVE GrantKnown'
  BY <1>23 DEF WallpaperCheck
<1>24. ASSUME NEW r \in Requests, WallpaperStage(r) PROVE GrantKnown'
  BY <1>24 DEF WallpaperStage
<1>25. ASSUME NEW r \in Requests, WallpaperCopy(r) PROVE GrantKnown'
  BY <1>25 DEF WallpaperCopy
<1>26. ASSUME NEW r \in Requests, WallpaperInstall(r) PROVE GrantKnown'
  BY <1>26 DEF WallpaperInstall
<1>27. ASSUME NEW r \in Requests, Succeed(r) PROVE GrantKnown'
  BY <1>27 DEF Succeed
<1>28. CASE UNCHANGED vars
  BY <1>28 DEF vars
<1> QED
  BY <1>1, <1>2, <1>3, <1>4, <1>5, <1>6, <1>7, <1>8, <1>9, <1>10, <1>11,
     <1>12, <1>13, <1>14, <1>15, <1>16, <1>17, <1>18, <1>19, <1>20, <1>21,
     <1>22, <1>23, <1>24, <1>25, <1>26, <1>27, <1>28, <1>29 DEF Next, Starting,
     Asking, Evaluation, Acting

\* The initial states satisfy the invariant.
LEMMA InitInv == Init => IInv
  BY GateAssumption DEF Init, IInv, TypeOK, RequestKnown, StageKnown, AuditKnown,
     DoneKnown, GrantKnown, Allowed, Handling, Evaluating, NoRequest,
     ActionRequests, Params, Staged

\* IInv is an invariant: the facts about requests, rows, grants, staged files
\* and effects support each other.
THEOREM GateInvariant == Spec => []IInv
<1>1. IInv /\ [Next]_vars => IInv'
  BY TypeOKStep, RequestKnownStep, StageKnownStep, AuditKnownStep,
     DoneKnownStep, GrantKnownStep DEF IInv
<1> QED
  BY InitInv, <1>1, PTL DEF Spec

\* execute_action acts only on requests whose own audit row says "allowed".
THEOREM GateFailsClosed == Spec => []FailClosed
<1>1. IInv => FailClosed
  BY DEF IInv, DoneKnown, FailClosed, Row
<1> QED
  BY <1>1, GateInvariant, PTL

\* evaluate_sync writes "allowed" only about keys that were granted.
THEOREM GateGrantedFirst == Spec => []GrantedFirst
<1>1. IInv => GrantedFirst
  BY DEF IInv, GrantKnown, GrantedFirst
<1> QED
  BY <1>1, GateInvariant, PTL

\* execute_action never reports a success without the effect, nor a failure
\* with it.
THEOREM GateReplyTruthful == Spec => []ReplyTruthful
<1>1. IInv => ReplyTruthful
  BY DEF IInv, DoneKnown, ReplyTruthful
<1> QED
  BY <1>1, GateInvariant, PTL

\* change_wallpaper never shows the compositor a partial file.
THEOREM GateWallpaperWhole == Spec => []WallpaperWhole
<1>1. IInv => WallpaperWhole
  BY DEF IInv, StageKnown, WallpaperWhole
<1> QED
  BY <1>1, GateInvariant, PTL
=============================================================================

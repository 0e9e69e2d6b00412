----------------------- MODULE WorkspaceControlProofs -----------------------
(***************************************************************************)
(* Proofs about WorkspaceControl, for every number of tickets and outages  *)
(* and every set of workspaces and sessions.                               *)
(*                                                                         *)
(* One invariant, IInv, is inductive.  Beyond the properties it says what  *)
(* a ticket's columns tell about each other (TicketsPlaced, WorkersSound), *)
(* that the active control records are those of the delivered controls     *)
(* that are still open (ControlsSound), and that a control epoch a         *)
(* termination remembers is past or was reached under its requester        *)
(* (EpochsHeld).                                                           *)
(***************************************************************************)
EXTENDS WorkspaceControl, TLAPS

(* A row exists from its acceptance on, with the scope its tool asks for,  *)
(* and an absent one is untouched (admit()).                               *)
TicketsPlaced ==
    \A r \in Request :
        /\ state[r] = "absent" <=> tool[r] = "none"
        /\ state[r] = "absent" =>
              acknowledgement[r] = "pending" /\ recordedControl[r] = 0 /\ copiedControl[r] = 0
        /\ tool[r] # "none" => requester[r] \in Session
        /\ tool[r] \in Ordinary \cup WorkspaceTool => place[r] \in Workspace

(* Only a delivered, claimed ticket has a worker or a pause condition, and *)
(* one that waits for the human has no worker (claimRequest()).            *)
WorkersSound ==
    \A r \in Request :
        /\ state[r] = "running" => acknowledgement[r] = "delivered"
        /\ stage[r] # "none" => state[r] = "running"
        /\ pause[r] # "none" => state[r] = "running"
        /\ pause[r] = "user_confirmation_required" => stage[r] = "none" /\ tool[r] = "command"
        /\ stage[r] = "attaching" => tool[r] = "command"

(* The active control records are those of the delivered controls that are *)
(* still open (activateControl(), succeedTicket(), failTicket()).          *)
ControlsSound ==
    /\ \A r \in control :
          Open(r) /\ acknowledgement[r] = "delivered" /\ tool[r] \in Control
    /\ \A r \in Request :
          Open(r) /\ acknowledgement[r] = "delivered" /\ tool[r] \in Control => r \in control

(* A control epoch a termination remembers, forgotten ones read as 0, is   *)
(* past, or no takeover came after it (takeOverWorkspace()).               *)
EpochsHeld ==
    \A r \in Request :
        tool[r] = "termination" =>
            \A e \in {0, acceptedControl[r], recordedControl[r], copiedControl[r]} :
                /\ e <= controlEpoch[place[r]]
                /\ e = controlEpoch[place[r]] => requester[r] = owner[place[r]]

(* What holds together in every reachable state.                           *)
IInv ==
    /\ TypeOK
    /\ TicketsPlaced
    /\ WorkersSound
    /\ ControlsSound
    /\ EpochsHeld
    /\ AuthorityFollowsOwner
    /\ EndedByItsOwner
    /\ PausedWorkHasCause
    /\ EndpointControlsExclusive
    /\ ArchivingIsQuiet

-----------------------------------------------------------------------------
(* Types. *)

(* No action writes a value outside its column. *)
LEMMA TypeOKStep == TypeOK /\ TicketsPlaced /\ [Next]_vars => TypeOK'
<1> SUFFICES ASSUME TypeOK /\ TicketsPlaced, [Next]_vars PROVE TypeOK'
  OBVIOUS
<1> USE ControlAssumption DEF TypeOK, outcomeVars, ticketVars, authorityVars,
        epochVars, workerVars, workspaceVars,
        OpenState, PauseCondition, Stage, Cause
<1>1. ASSUME NEW r \in Request, NEW t \in Tools, NEW w \in Workspace \cup {NoWorkspace}, NEW
             s \in Session, Submit(r, t, w, s)
      PROVE  TypeOK'
  <2>1. t \in Ordinary \cup Control
    OBVIOUS
  <2>2. w # NoWorkspace => ownerEpoch[w] \in Nat /\ controlEpoch[w] \in Nat
    OBVIOUS
  <2>3. t = "takeover" => owner[w] \in Session
    BY <1>1 DEF Submit, Unsubmitted, Admissible, Ordinary, EndpointTool
  <2>4. acceptedOwner' \in [Request -> Nat] /\ acceptedControl' \in [Request -> Nat]
    BY <1>1, <2>2 DEF Submit, Unsubmitted
  <2>5. previous' \in [Request -> Session \cup {NoSession}]
    BY <1>1, <2>3 DEF Submit, Unsubmitted
  <2> QED
    BY <1>1, <2>1, <2>4, <2>5 DEF Submit, Unsubmitted
<1>2. ASSUME NEW r \in Request, Acknowledge(r) PROVE TypeOK'
  BY <1>2 DEF Acknowledge, FencedBy
<1>3. ASSUME NEW r \in Request, AcknowledgeRefused(r) PROVE TypeOK'
  BY <1>3 DEF AcknowledgeRefused, End
<1>4. ASSUME NEW r \in Request, WaitForExtension(r) PROVE TypeOK'
  BY <1>4 DEF WaitForExtension, PauseTicket
<1>5. ASSUME NEW r \in Request, RunCommand(r) PROVE TypeOK'
  BY <1>5 DEF RunCommand, Await
<1>6. ASSUME NEW r \in Request, PauseCommand(r) PROVE TypeOK'
  BY <1>6 DEF PauseCommand, PauseTicket
<1>7. ASSUME NEW r \in Request, RejectCommand(r) PROVE TypeOK'
  BY <1>7 DEF RejectCommand, End
<1>8. ASSUME NEW r \in Request, RunCreation(r) PROVE TypeOK'
  BY <1>8 DEF RunCreation, Await
<1>9. ASSUME NEW r \in Request, TakeOver(r) PROVE TypeOK'
  BY <1>9 DEF TakeOver, End, TicketsPlaced, Ready, Open, Moved, WorkspaceTool
<1>10. ASSUME NEW r \in Request, TakeoverLoses(r) PROVE TypeOK'
  BY <1>10 DEF TakeoverLoses, End
<1>11. ASSUME NEW r \in Request, StopWorkspace(r) PROVE TypeOK'
  BY <1>11 DEF StopWorkspace, End
<1>12. ASSUME NEW r \in Request, KillEndpoint(r) PROVE TypeOK'
  BY <1>12 DEF KillEndpoint, End
<1>13. ASSUME NEW r \in Request, RunResume(r) PROVE TypeOK'
  BY <1>13 DEF RunResume, Await
<1>14. ASSUME NEW r \in Request, RunTermination(r) PROVE TypeOK'
  <2>1. place[r] \in Workspace
    BY <1>14 DEF RunTermination, TicketsPlaced, WorkspaceTool
  <2>2. controlEpoch' \in [Workspace -> Nat]
    BY <1>14, <2>1 DEF RunTermination
  <2>3. recordedControl' \in [Request -> Nat] /\ copiedControl' \in [Request -> Nat]
    BY <1>14, <2>1, <2>2 DEF RunTermination
  <2>4. state' \in [Request -> OpenState \cup {"absent", "succeeded", "failed"}]
        /\ pause' \in [Request -> PauseCondition]
    BY <1>14 DEF RunTermination
  <2> QED
    BY <1>14, <2>2, <2>3, <2>4 DEF RunTermination
<1>15. ASSUME NEW r \in Request, TerminationLoses(r) PROVE TypeOK'
  BY <1>15 DEF TerminationLoses, End
<1>16. ASSUME NEW r \in Request, Attached(r) PROVE TypeOK'
  BY <1>16 DEF Attached
<1>17. ASSUME NEW r \in Request, CreateTab(r) PROVE TypeOK'
  BY <1>17 DEF CreateTab
<1>18. ASSUME NEW r \in Request, NEW outcome \in {"succeeded", "failed"}, WorkEnds(r, outcome)
       PROVE  TypeOK'
  BY <1>18 DEF WorkEnds, End, Return
<1>19. ASSUME NEW r \in Request, WorkFails(r) PROVE TypeOK'
  BY <1>19 DEF WorkFails, End, Return
<1>20. ASSUME NEW r \in Request, LoseResult(r) PROVE TypeOK'
  BY <1>20 DEF LoseResult, PauseTicket, Return
<1>21. ASSUME NEW r \in Request, FinishResume(r) PROVE TypeOK'
  BY <1>21 DEF FinishResume, Return, Resumed, Remaining
<1>22. ASSUME NEW r \in Request, WaitOver(r) PROVE TypeOK'
  BY <1>22 DEF WaitOver
<1>23. ASSUME NEW r \in Request, WaitInterrupted(r) PROVE TypeOK'
  BY <1>23 DEF WaitInterrupted, Return
<1>24. ASSUME NEW r \in Request, ArchiveConfirmed(r) PROVE TypeOK'
  BY <1>24 DEF ArchiveConfirmed, FinishTermination, End, Return
<1>25. ASSUME NEW r \in Request, RequestRename(r) PROVE TypeOK'
  BY <1>25 DEF RequestRename
<1>26. ASSUME NEW r \in Request, RenameSucceeds(r) PROVE TypeOK'
  BY <1>26 DEF RenameSucceeds
<1>27. ASSUME NEW r \in Request, NEW renamed \in BOOLEAN, FailTermination(r, renamed)
       PROVE  TypeOK'
  BY <1>27 DEF FailTermination, End, Return
<1>28. ASSUME NEW r \in Request, NEW outcome \in {"succeeded", "failed"}, HumanResolves(r,
              outcome)
       PROVE  TypeOK'
  BY <1>28 DEF HumanResolves, End
<1>29. ASSUME NEW A \in SUBSET Workspace, Disconnect(A) PROVE TypeOK'
  <2>1. pause' \in [Request -> PauseCondition] /\ archived' \in [Workspace -> BOOLEAN]
    BY <1>29 DEF Disconnect
  <2>2. recordedControl' \in [Request -> Nat] /\ copiedControl' \in [Request -> Nat]
    BY <1>29 DEF Disconnect
  <2>3. stage' \in [Request -> Stage]
    BY <1>29 DEF Disconnect
  <2>4. connected' \in BOOLEAN
    BY <1>29 DEF Disconnect
  <2>5. outages' \in Nat
    BY <1>29 DEF Disconnect
  <2> QED
    BY <1>29, <2>1, <2>2, <2>3, <2>4, <2>5 DEF Disconnect
<1>30. ASSUME Reconnect PROVE TypeOK'
  BY <1>30 DEF Reconnect, Remaining
<1>31. ASSUME NEW C \in SUBSET Request, Restart(C) PROVE TypeOK'
  <2>1. pause' \in [Request -> PauseCondition]
    BY <1>31 DEF Restart
  <2>2. acceptedControl' \in [Request -> Nat] /\ recordedControl' \in [Request -> Nat]
    BY <1>31 DEF Restart
  <2>3. copiedControl' \in [Request -> Nat] /\ stage' \in [Request -> Stage]
    BY <1>31 DEF Restart
  <2>4. state' \in [Request -> OpenState \cup {"absent", "succeeded", "failed"}]
    BY <1>31 DEF Restart
  <2>5. acknowledgement' \in [Request -> {"pending", "delivered", "lost"}]
    BY <1>31 DEF Restart
  <2>6. connected' \in BOOLEAN
    BY <1>31 DEF Restart
  <2>7. outages' \in Nat
    BY <1>31 DEF Restart
  <2> QED
    BY <1>31, <2>1, <2>2, <2>3, <2>4, <2>5, <2>6, <2>7 DEF Restart
<1>32. CASE UNCHANGED vars
  BY <1>32 DEF vars
<1> HIDE DEF TypeOK, outcomeVars, ticketVars, authorityVars,
        epochVars, workerVars, workspaceVars,
        OpenState, PauseCondition, Stage, Cause
<1> QED
  BY <1>1, <1>2, <1>3, <1>4, <1>5, <1>6, <1>7, <1>8, <1>9, <1>10, <1>11, <1>12, <1>13, <1>14,
     <1>15, <1>16, <1>17, <1>18, <1>19, <1>20, <1>21, <1>22, <1>23, <1>24, <1>25, <1>26, <1>27,
     <1>28, <1>29, <1>30, <1>31, <1>32 DEF Next, Unsubmitted, Start, Progress

-----------------------------------------------------------------------------
(* What the properties rest on. *)

(* A ticket's tool, place and requester are fixed when it is accepted. *)
LEMMA TicketsPlacedStep ==
    TypeOK /\ TicketsPlaced /\ WorkersSound /\ [Next]_vars
        => TicketsPlaced'
<1> SUFFICES ASSUME TypeOK /\ TicketsPlaced /\ WorkersSound, [Next]_vars PROVE TicketsPlaced'
  OBVIOUS
<1> USE ControlAssumption DEF TypeOK, TicketsPlaced, outcomeVars, ticketVars, authorityVars,
        epochVars, workerVars, workspaceVars
<1>1. ASSUME NEW r \in Request, NEW t \in Tools, NEW w \in Workspace \cup {NoWorkspace}, NEW
             s \in Session, Submit(r, t, w, s)
      PROVE  TicketsPlaced'
  BY <1>1 DEF Submit, Unsubmitted, Admissible, WorkspaceTool, EndpointTool, Control, Ordinary
<1>2. ASSUME NEW r \in Request, Acknowledge(r) PROVE TicketsPlaced'
  BY <1>2 DEF Acknowledge, FencedBy, Ordinary
<1>3. ASSUME NEW r \in Request, AcknowledgeRefused(r) PROVE TicketsPlaced'
  BY <1>3 DEF AcknowledgeRefused, End
<1>4. ASSUME NEW r \in Request, WaitForExtension(r) PROVE TicketsPlaced'
  BY <1>4 DEF WaitForExtension, PauseTicket, Ready, Open, OpenState
<1>5. ASSUME NEW r \in Request, RunCommand(r) PROVE TicketsPlaced'
  BY <1>5 DEF RunCommand, Await, Ready, Open, OpenState
<1>6. ASSUME NEW r \in Request, PauseCommand(r) PROVE TicketsPlaced'
  BY <1>6 DEF PauseCommand, PauseTicket, Ready, Open, OpenState
<1>7. ASSUME NEW r \in Request, RejectCommand(r) PROVE TicketsPlaced'
  BY <1>7 DEF RejectCommand, End, Ready, Open, OpenState
<1>8. ASSUME NEW r \in Request, RunCreation(r) PROVE TicketsPlaced'
  BY <1>8 DEF RunCreation, Await, Ready, Open, OpenState
<1>9. ASSUME NEW r \in Request, TakeOver(r) PROVE TicketsPlaced'
  BY <1>9 DEF TakeOver, End, Ready, Open, OpenState
<1>10. ASSUME NEW r \in Request, TakeoverLoses(r) PROVE TicketsPlaced'
  BY <1>10 DEF TakeoverLoses, End, Ready, Open, OpenState
<1>11. ASSUME NEW r \in Request, StopWorkspace(r) PROVE TicketsPlaced'
  BY <1>11 DEF StopWorkspace, End, Ready, Open, OpenState
<1>12. ASSUME NEW r \in Request, KillEndpoint(r) PROVE TicketsPlaced'
  BY <1>12 DEF KillEndpoint, End, Ready, Open, OpenState
<1>13. ASSUME NEW r \in Request, RunResume(r) PROVE TicketsPlaced'
  BY <1>13 DEF RunResume, Await, Ready, Open, OpenState
<1>14. ASSUME NEW r \in Request, RunTermination(r) PROVE TicketsPlaced'
  BY <1>14 DEF RunTermination, FencedBy, Ready, Open, OpenState, Ordinary
<1>15. ASSUME NEW r \in Request, TerminationLoses(r) PROVE TicketsPlaced'
  BY <1>15 DEF TerminationLoses, End, Ready, Open, OpenState
<1>16. ASSUME NEW r \in Request, Attached(r) PROVE TicketsPlaced'
  BY <1>16 DEF Attached
<1>17. ASSUME NEW r \in Request, CreateTab(r) PROVE TicketsPlaced'
  BY <1>17 DEF CreateTab
<1>18. ASSUME NEW r \in Request, NEW outcome \in {"succeeded", "failed"}, WorkEnds(r, outcome)
       PROVE  TicketsPlaced'
  BY <1>18 DEF WorkEnds, End, Return, Ordinary
<1>19. ASSUME NEW r \in Request, WorkFails(r) PROVE TicketsPlaced'
  BY <1>19 DEF WorkFails, End, Return, WorkersSound
<1>20. ASSUME NEW r \in Request, LoseResult(r) PROVE TicketsPlaced'
  BY <1>20 DEF LoseResult, PauseTicket, Return
<1>21. ASSUME NEW r \in Request, FinishResume(r) PROVE TicketsPlaced'
  BY <1>21 DEF FinishResume, Return
<1>22. ASSUME NEW r \in Request, WaitOver(r) PROVE TicketsPlaced'
  BY <1>22 DEF WaitOver
<1>23. ASSUME NEW r \in Request, WaitInterrupted(r) PROVE TicketsPlaced'
  BY <1>23 DEF WaitInterrupted, Return
<1>24. ASSUME NEW r \in Request, ArchiveConfirmed(r) PROVE TicketsPlaced'
  BY <1>24 DEF ArchiveConfirmed, FinishTermination, End, Return
<1>25. ASSUME NEW r \in Request, RequestRename(r) PROVE TicketsPlaced'
  BY <1>25 DEF RequestRename
<1>26. ASSUME NEW r \in Request, RenameSucceeds(r) PROVE TicketsPlaced'
  BY <1>26 DEF RenameSucceeds
<1>27. ASSUME NEW r \in Request, NEW renamed \in BOOLEAN, FailTermination(r, renamed)
       PROVE  TicketsPlaced'
  BY <1>27 DEF FailTermination, End, Return
<1>28. ASSUME NEW r \in Request, NEW outcome \in {"succeeded", "failed"}, HumanResolves(r,
              outcome)
       PROVE  TicketsPlaced'
  BY <1>28 DEF HumanResolves, End
<1>29. ASSUME NEW A \in SUBSET Workspace, Disconnect(A) PROVE TicketsPlaced'
  BY <1>29 DEF Disconnect
<1>30. ASSUME Reconnect PROVE TicketsPlaced'
  BY <1>30 DEF Reconnect
<1>31. ASSUME NEW C \in SUBSET Request, Restart(C) PROVE TicketsPlaced'
  BY <1>31 DEF Restart, Ready, Open, OpenState
<1>32. CASE UNCHANGED vars
  BY <1>32 DEF vars
<1> HIDE DEF TypeOK, TicketsPlaced, outcomeVars, ticketVars, authorityVars,
        epochVars, workerVars, workspaceVars
<1> QED
  BY <1>1, <1>2, <1>3, <1>4, <1>5, <1>6, <1>7, <1>8, <1>9, <1>10, <1>11, <1>12, <1>13, <1>14,
     <1>15, <1>16, <1>17, <1>18, <1>19, <1>20, <1>21, <1>22, <1>23, <1>24, <1>25, <1>26, <1>27,
     <1>28, <1>29, <1>30, <1>31, <1>32 DEF Next, Unsubmitted, Start, Progress

(* A worker's ticket is running and was delivered, a pause is of a running  *)
(* ticket, and only a command without a worker waits for the human.        *)
LEMMA WorkersSoundStep ==
    TypeOK /\ TicketsPlaced /\ WorkersSound /\ [Next]_vars
        => WorkersSound'
<1> SUFFICES ASSUME TypeOK /\ TicketsPlaced /\ WorkersSound, [Next]_vars PROVE WorkersSound'
  OBVIOUS
<1> USE ControlAssumption DEF TypeOK, WorkersSound, outcomeVars, ticketVars, authorityVars,
        epochVars, workerVars, workspaceVars
<1>1. ASSUME NEW r \in Request, NEW t \in Tools, NEW w \in Workspace \cup {NoWorkspace}, NEW
             s \in Session, Submit(r, t, w, s)
      PROVE  WorkersSound'
  BY <1>1 DEF Submit, Unsubmitted, Admissible, TicketsPlaced
<1>2. ASSUME NEW r \in Request, Acknowledge(r) PROVE WorkersSound'
  BY <1>2 DEF Acknowledge, FencedBy
<1>3. ASSUME NEW r \in Request, AcknowledgeRefused(r) PROVE WorkersSound'
  BY <1>3 DEF AcknowledgeRefused, End
<1>4. ASSUME NEW r \in Request, WaitForExtension(r) PROVE WorkersSound'
  BY <1>4 DEF WaitForExtension, PauseTicket, Ready, Open, OpenState
<1>5. ASSUME NEW r \in Request, RunCommand(r) PROVE WorkersSound'
  BY <1>5 DEF RunCommand, Await, Ready, Open, OpenState
<1>6. ASSUME NEW r \in Request, PauseCommand(r) PROVE WorkersSound'
  BY <1>6 DEF PauseCommand, PauseTicket, Ready, Open, OpenState
<1>7. ASSUME NEW r \in Request, RejectCommand(r) PROVE WorkersSound'
  BY <1>7 DEF RejectCommand, End, Ready, Open, OpenState
<1>8. ASSUME NEW r \in Request, RunCreation(r) PROVE WorkersSound'
  BY <1>8 DEF RunCreation, Await, Ready, Open, OpenState
<1>9. ASSUME NEW r \in Request, TakeOver(r) PROVE WorkersSound'
  BY <1>9 DEF TakeOver, End, Ready, Open, OpenState
<1>10. ASSUME NEW r \in Request, TakeoverLoses(r) PROVE WorkersSound'
  BY <1>10 DEF TakeoverLoses, End, Ready, Open, OpenState
<1>11. ASSUME NEW r \in Request, StopWorkspace(r) PROVE WorkersSound'
  BY <1>11 DEF StopWorkspace, End, Ready, Open, OpenState
<1>12. ASSUME NEW r \in Request, KillEndpoint(r) PROVE WorkersSound'
  BY <1>12 DEF KillEndpoint, End, Ready, Open, OpenState
<1>13. ASSUME NEW r \in Request, RunResume(r) PROVE WorkersSound'
  BY <1>13 DEF RunResume, Await, Ready, Open, OpenState
<1>14. ASSUME NEW r \in Request, RunTermination(r) PROVE WorkersSound'
  BY <1>14 DEF RunTermination, FencedBy, Ready, Open, OpenState, Ordinary
<1>15. ASSUME NEW r \in Request, TerminationLoses(r) PROVE WorkersSound'
  BY <1>15 DEF TerminationLoses, End, Ready, Open, OpenState
<1>16. ASSUME NEW r \in Request, Attached(r) PROVE WorkersSound'
  BY <1>16 DEF Attached
<1>17. ASSUME NEW r \in Request, CreateTab(r) PROVE WorkersSound'
  BY <1>17 DEF CreateTab
<1>18. ASSUME NEW r \in Request, NEW outcome \in {"succeeded", "failed"}, WorkEnds(r, outcome)
       PROVE  WorkersSound'
  BY <1>18 DEF WorkEnds, End, Return
<1>19. ASSUME NEW r \in Request, WorkFails(r) PROVE WorkersSound'
  BY <1>19 DEF WorkFails, End, Return
<1>20. ASSUME NEW r \in Request, LoseResult(r) PROVE WorkersSound'
  BY <1>20 DEF LoseResult, PauseTicket, Return
<1>21. ASSUME NEW r \in Request, FinishResume(r) PROVE WorkersSound'
  <2>1. ASSUME NEW q \in Request, q # r
        PROVE  pause'[q] # "none" => pause[q] = CauseResumed(r) \/ pause'[q] = pause[q]
    BY <1>21, <2>1 DEF FinishResume, Resumed
  <2>2. CauseResumed(r) \in {"manual_workspace_stop", "endpoint_killed"}
    BY DEF CauseResumed
  <2>3. ASSUME NEW q \in Request
        PROVE  pause'[q] \in {"none", "manual_workspace_stop", "endpoint_killed", pause[q]}
    BY <1>21, <2>3 DEF FinishResume, Resumed, Remaining
  <2>4. stage[r] = "surveying" /\ stage' = [stage EXCEPT ![r] = "none"] /\ pause'[r] = "none"
        /\ state' = [state EXCEPT ![r] = "succeeded"] /\ acknowledgement' = acknowledgement
        /\ tool' = tool
    BY <1>21 DEF FinishResume, Return, Resumed
  <2> QED
    BY <2>1, <2>2, <2>3, <2>4
<1>22. ASSUME NEW r \in Request, WaitOver(r) PROVE WorkersSound'
  BY <1>22 DEF WaitOver
<1>23. ASSUME NEW r \in Request, WaitInterrupted(r) PROVE WorkersSound'
  BY <1>23 DEF WaitInterrupted, Return
<1>24. ASSUME NEW r \in Request, ArchiveConfirmed(r) PROVE WorkersSound'
  BY <1>24 DEF ArchiveConfirmed, FinishTermination, End, Return
<1>25. ASSUME NEW r \in Request, RequestRename(r) PROVE WorkersSound'
  BY <1>25 DEF RequestRename
<1>26. ASSUME NEW r \in Request, RenameSucceeds(r) PROVE WorkersSound'
  BY <1>26 DEF RenameSucceeds
<1>27. ASSUME NEW r \in Request, NEW renamed \in BOOLEAN, FailTermination(r, renamed)
       PROVE  WorkersSound'
  BY <1>27 DEF FailTermination, End, Return
<1>28. ASSUME NEW r \in Request, NEW outcome \in {"succeeded", "failed"}, HumanResolves(r,
              outcome)
       PROVE  WorkersSound'
  BY <1>28 DEF HumanResolves, End
<1>29. ASSUME NEW A \in SUBSET Workspace, Disconnect(A) PROVE WorkersSound'
  BY <1>29 DEF Disconnect, AwaitsExtension
<1>30. ASSUME Reconnect PROVE WorkersSound'
  BY <1>30 DEF Reconnect, Remaining
<1>31. ASSUME NEW C \in SUBSET Request, Restart(C) PROVE WorkersSound'
  BY <1>31 DEF Restart, Ready, Open, OpenState
<1>32. CASE UNCHANGED vars
  BY <1>32 DEF vars
<1> HIDE DEF TypeOK, WorkersSound, outcomeVars, ticketVars, authorityVars,
        epochVars, workerVars, workspaceVars
<1> QED
  BY <1>1, <1>2, <1>3, <1>4, <1>5, <1>6, <1>7, <1>8, <1>9, <1>10, <1>11, <1>12, <1>13, <1>14,
     <1>15, <1>16, <1>17, <1>18, <1>19, <1>20, <1>21, <1>22, <1>23, <1>24, <1>25, <1>26, <1>27,
     <1>28, <1>29, <1>30, <1>31, <1>32 DEF Next, Unsubmitted, Start, Progress

(* A delivered control has an active record until its ticket ends, and no  *)
(* other ticket has one.                                                   *)
LEMMA ControlsSoundStep ==
    TypeOK /\ TicketsPlaced /\ WorkersSound /\ ControlsSound /\ [Next]_vars
        => ControlsSound'
<1> SUFFICES ASSUME TypeOK /\ TicketsPlaced /\ WorkersSound /\ ControlsSound,
                    [Next]_vars
             PROVE  ControlsSound'
  OBVIOUS
<1> USE DEF TypeOK, ControlsSound, outcomeVars, ticketVars, authorityVars,
        epochVars, workerVars, workspaceVars,
        Open, OpenState
<1>1. ASSUME NEW r \in Request, NEW t \in Tools, NEW w \in Workspace \cup {NoWorkspace}, NEW
             s \in Session, Submit(r, t, w, s)
      PROVE  ControlsSound'
  BY <1>1 DEF Submit, Unsubmitted, Admissible, TicketsPlaced
<1>2. ASSUME NEW r \in Request, Acknowledge(r) PROVE ControlsSound'
  BY <1>2 DEF Acknowledge, FencedBy, Ordinary, Control, WorkspaceTool, EndpointTool
<1>3. ASSUME NEW r \in Request, AcknowledgeRefused(r) PROVE ControlsSound'
  BY <1>3 DEF AcknowledgeRefused, End
<1>4. ASSUME NEW r \in Request, WaitForExtension(r) PROVE ControlsSound'
  BY <1>4 DEF WaitForExtension, PauseTicket, Ready
<1>5. ASSUME NEW r \in Request, RunCommand(r) PROVE ControlsSound'
  BY <1>5 DEF RunCommand, Await, Ready
<1>6. ASSUME NEW r \in Request, PauseCommand(r) PROVE ControlsSound'
  BY <1>6 DEF PauseCommand, PauseTicket, Ready
<1>7. ASSUME NEW r \in Request, RejectCommand(r) PROVE ControlsSound'
  BY <1>7 DEF RejectCommand, End, Ready
<1>8. ASSUME NEW r \in Request, RunCreation(r) PROVE ControlsSound'
  BY <1>8 DEF RunCreation, Await, Ready
<1>9. ASSUME NEW r \in Request, TakeOver(r) PROVE ControlsSound'
  BY <1>9 DEF TakeOver, End, Ready
<1>10. ASSUME NEW r \in Request, TakeoverLoses(r) PROVE ControlsSound'
  BY <1>10 DEF TakeoverLoses, End, Ready
<1>11. ASSUME NEW r \in Request, StopWorkspace(r) PROVE ControlsSound'
  BY <1>11 DEF StopWorkspace, End, Ready
<1>12. ASSUME NEW r \in Request, KillEndpoint(r) PROVE ControlsSound'
  BY <1>12 DEF KillEndpoint, End, Ready
<1>13. ASSUME NEW r \in Request, RunResume(r) PROVE ControlsSound'
  BY <1>13 DEF RunResume, Await, Ready
<1>14. ASSUME NEW r \in Request, RunTermination(r) PROVE ControlsSound'
  BY <1>14 DEF RunTermination, FencedBy, Ready, Ordinary, Control, WorkspaceTool, EndpointTool
<1>15. ASSUME NEW r \in Request, TerminationLoses(r) PROVE ControlsSound'
  BY <1>15 DEF TerminationLoses, End, Ready
<1>16. ASSUME NEW r \in Request, Attached(r) PROVE ControlsSound'
  BY <1>16 DEF Attached
<1>17. ASSUME NEW r \in Request, CreateTab(r) PROVE ControlsSound'
  BY <1>17 DEF CreateTab
<1>18. ASSUME NEW r \in Request, NEW outcome \in {"succeeded", "failed"}, WorkEnds(r, outcome)
       PROVE  ControlsSound'
  BY <1>18 DEF WorkEnds, End, Return, WorkersSound, Ordinary, Control
<1>19. ASSUME NEW r \in Request, WorkFails(r) PROVE ControlsSound'
  BY <1>19 DEF WorkFails, End, Return, WorkersSound
<1>20. ASSUME NEW r \in Request, LoseResult(r) PROVE ControlsSound'
  BY <1>20 DEF LoseResult, PauseTicket, Return, WorkersSound
<1>21. ASSUME NEW r \in Request, FinishResume(r) PROVE ControlsSound'
  BY <1>21 DEF FinishResume, Return, WorkersSound
<1>22. ASSUME NEW r \in Request, WaitOver(r) PROVE ControlsSound'
  BY <1>22 DEF WaitOver
<1>23. ASSUME NEW r \in Request, WaitInterrupted(r) PROVE ControlsSound'
  BY <1>23 DEF WaitInterrupted, Return
<1>24. ASSUME NEW r \in Request, ArchiveConfirmed(r) PROVE ControlsSound'
  BY <1>24 DEF ArchiveConfirmed, FinishTermination, End, Return
<1>25. ASSUME NEW r \in Request, RequestRename(r) PROVE ControlsSound'
  BY <1>25 DEF RequestRename
<1>26. ASSUME NEW r \in Request, RenameSucceeds(r) PROVE ControlsSound'
  BY <1>26 DEF RenameSucceeds
<1>27. ASSUME NEW r \in Request, NEW renamed \in BOOLEAN, FailTermination(r, renamed)
       PROVE  ControlsSound'
  BY <1>27 DEF FailTermination, End, Return
<1>28. ASSUME NEW r \in Request, NEW outcome \in {"succeeded", "failed"}, HumanResolves(r,
              outcome)
       PROVE  ControlsSound'
  BY <1>28 DEF HumanResolves, End
<1>29. ASSUME NEW A \in SUBSET Workspace, Disconnect(A) PROVE ControlsSound'
  BY <1>29 DEF Disconnect
<1>30. ASSUME Reconnect PROVE ControlsSound'
  BY <1>30 DEF Reconnect
<1>31. ASSUME NEW C \in SUBSET Request, Restart(C) PROVE ControlsSound'
  BY <1>31 DEF Restart, Ready
<1>32. CASE UNCHANGED vars
  BY <1>32 DEF vars
<1> HIDE DEF TypeOK, ControlsSound, outcomeVars, ticketVars, authorityVars,
        epochVars, workerVars, workspaceVars,
        Open, OpenState
<1> QED
  BY <1>1, <1>2, <1>3, <1>4, <1>5, <1>6, <1>7, <1>8, <1>9, <1>10, <1>11, <1>12, <1>13, <1>14,
     <1>15, <1>16, <1>17, <1>18, <1>19, <1>20, <1>21, <1>22, <1>23, <1>24, <1>25, <1>26, <1>27,
     <1>28, <1>29, <1>30, <1>31, <1>32 DEF Next, Unsubmitted, Start, Progress

(* A takeover leaves every remembered epoch behind, and only the requester *)
(* of a termination can claim the next one.                                *)
LEMMA EpochsHeldStep == TypeOK /\ TicketsPlaced /\ EpochsHeld /\ [Next]_vars => EpochsHeld'
<1> SUFFICES ASSUME TypeOK /\ TicketsPlaced /\ EpochsHeld, [Next]_vars PROVE EpochsHeld'
  OBVIOUS
<1> USE DEF TypeOK, EpochsHeld, outcomeVars, ticketVars, authorityVars,
        epochVars, workerVars, workspaceVars
<1>1. ASSUME NEW r \in Request, NEW t \in Tools, NEW w \in Workspace \cup {NoWorkspace}, NEW
             s \in Session, Submit(r, t, w, s)
      PROVE  EpochsHeld'
  <2>1. r \in Request /\ recordedControl[r] = 0 /\ copiedControl[r] = 0
    BY <1>1 DEF Submit, Unsubmitted, TicketsPlaced
  <2>2. t = "termination" => w \in Workspace /\ s = owner[w]
    BY <1>1 DEF Submit, Unsubmitted, Admissible, EndpointTool
  <2>3. t = "termination" => acceptedControl'[r] = controlEpoch[w] /\ controlEpoch[w] \in Nat
    BY <1>1, <2>2, ControlAssumption DEF Submit, Unsubmitted
  <2>4. ASSUME NEW q \in Request, q # r, tool'[q] = "termination",
               NEW e \in {0, acceptedControl'[q], recordedControl'[q], copiedControl'[q]}
        PROVE  e <= controlEpoch'[place'[q]]
               /\ (e = controlEpoch'[place'[q]] => requester'[q] = owner'[place'[q]])
    BY <1>1, <2>4 DEF Submit, Unsubmitted
  <2>5. ASSUME tool'[r] = "termination",
               NEW e \in {0, acceptedControl'[r], recordedControl'[r], copiedControl'[r]}
        PROVE  e <= controlEpoch'[place'[r]]
               /\ (e = controlEpoch'[place'[r]] => requester'[r] = owner'[place'[r]])
    BY <1>1, <2>1, <2>2, <2>3, <2>5 DEF Submit, Unsubmitted
  <2> QED
    BY <2>4, <2>5
<1>2. ASSUME NEW r \in Request, Acknowledge(r) PROVE EpochsHeld'
  BY <1>2 DEF Acknowledge, FencedBy
<1>3. ASSUME NEW r \in Request, AcknowledgeRefused(r) PROVE EpochsHeld'
  BY <1>3 DEF AcknowledgeRefused, End
<1>4. ASSUME NEW r \in Request, WaitForExtension(r) PROVE EpochsHeld'
  BY <1>4 DEF WaitForExtension, PauseTicket
<1>5. ASSUME NEW r \in Request, RunCommand(r) PROVE EpochsHeld'
  BY <1>5 DEF RunCommand, Await
<1>6. ASSUME NEW r \in Request, PauseCommand(r) PROVE EpochsHeld'
  BY <1>6 DEF PauseCommand, PauseTicket
<1>7. ASSUME NEW r \in Request, RejectCommand(r) PROVE EpochsHeld'
  BY <1>7 DEF RejectCommand, End
<1>8. ASSUME NEW r \in Request, RunCreation(r) PROVE EpochsHeld'
  BY <1>8 DEF RunCreation, Await
<1>9. ASSUME NEW r \in Request, TakeOver(r) PROVE EpochsHeld'
  BY <1>9 DEF TakeOver, End, Ready, Open, OpenState, TicketsPlaced, WorkspaceTool,
     EndpointTool, Control, Ordinary
<1>10. ASSUME NEW r \in Request, TakeoverLoses(r) PROVE EpochsHeld'
  BY <1>10 DEF TakeoverLoses, End
<1>11. ASSUME NEW r \in Request, StopWorkspace(r) PROVE EpochsHeld'
  BY <1>11 DEF StopWorkspace, End
<1>12. ASSUME NEW r \in Request, KillEndpoint(r) PROVE EpochsHeld'
  BY <1>12 DEF KillEndpoint, End
<1>13. ASSUME NEW r \in Request, RunResume(r) PROVE EpochsHeld'
  BY <1>13 DEF RunResume, Await
<1>14. ASSUME NEW r \in Request, RunTermination(r) PROVE EpochsHeld'
  BY <1>14 DEF RunTermination, FencedBy, ClaimsControl, HoldsControl, Ready, Open, OpenState,
     TicketsPlaced, WorkspaceTool, EndpointTool, Control, Ordinary
<1>15. ASSUME NEW r \in Request, TerminationLoses(r) PROVE EpochsHeld'
  BY <1>15 DEF TerminationLoses, End
<1>16. ASSUME NEW r \in Request, Attached(r) PROVE EpochsHeld'
  BY <1>16 DEF Attached
<1>17. ASSUME NEW r \in Request, CreateTab(r) PROVE EpochsHeld'
  BY <1>17 DEF CreateTab
<1>18. ASSUME NEW r \in Request, NEW outcome \in {"succeeded", "failed"}, WorkEnds(r, outcome)
       PROVE  EpochsHeld'
  BY <1>18 DEF WorkEnds, End, Return
<1>19. ASSUME NEW r \in Request, WorkFails(r) PROVE EpochsHeld'
  BY <1>19 DEF WorkFails, End, Return
<1>20. ASSUME NEW r \in Request, LoseResult(r) PROVE EpochsHeld'
  BY <1>20 DEF LoseResult, PauseTicket, Return
<1>21. ASSUME NEW r \in Request, FinishResume(r) PROVE EpochsHeld'
  BY <1>21 DEF FinishResume, Return
<1>22. ASSUME NEW r \in Request, WaitOver(r) PROVE EpochsHeld'
  BY <1>22 DEF WaitOver
<1>23. ASSUME NEW r \in Request, WaitInterrupted(r) PROVE EpochsHeld'
  BY <1>23 DEF WaitInterrupted, Return
<1>24. ASSUME NEW r \in Request, ArchiveConfirmed(r) PROVE EpochsHeld'
  BY <1>24 DEF ArchiveConfirmed, FinishTermination, End, Return
<1>25. ASSUME NEW r \in Request, RequestRename(r) PROVE EpochsHeld'
  BY <1>25 DEF RequestRename
<1>26. ASSUME NEW r \in Request, RenameSucceeds(r) PROVE EpochsHeld'
  BY <1>26 DEF RenameSucceeds
<1>27. ASSUME NEW r \in Request, NEW renamed \in BOOLEAN, FailTermination(r, renamed)
       PROVE  EpochsHeld'
  BY <1>27 DEF FailTermination, End, Return
<1>28. ASSUME NEW r \in Request, NEW outcome \in {"succeeded", "failed"}, HumanResolves(r,
              outcome)
       PROVE  EpochsHeld'
  BY <1>28 DEF HumanResolves, End
<1>29. ASSUME NEW A \in SUBSET Workspace, Disconnect(A) PROVE EpochsHeld'
  BY <1>29 DEF Disconnect
<1>30. ASSUME Reconnect PROVE EpochsHeld'
  BY <1>30 DEF Reconnect
<1>31. ASSUME NEW C \in SUBSET Request, Restart(C) PROVE EpochsHeld'
  BY <1>31 DEF Restart
<1>32. CASE UNCHANGED vars
  BY <1>32 DEF vars
<1> HIDE DEF TypeOK, EpochsHeld, outcomeVars, ticketVars, authorityVars,
        epochVars, workerVars, workspaceVars
<1> QED
  BY <1>1, <1>2, <1>3, <1>4, <1>5, <1>6, <1>7, <1>8, <1>9, <1>10, <1>11, <1>12, <1>13, <1>14,
     <1>15, <1>16, <1>17, <1>18, <1>19, <1>20, <1>21, <1>22, <1>23, <1>24, <1>25, <1>26, <1>27,
     <1>28, <1>29, <1>30, <1>31, <1>32 DEF Next, Unsubmitted, Start, Progress

-----------------------------------------------------------------------------
(* The properties. *)

(* Authority moves with ownership. *)
LEMMA AuthorityStep ==
    TypeOK /\ TicketsPlaced /\ AuthorityFollowsOwner /\ [Next]_vars
        => AuthorityFollowsOwner'
<1> SUFFICES ASSUME TypeOK /\ TicketsPlaced /\ AuthorityFollowsOwner,
                    [Next]_vars
             PROVE  AuthorityFollowsOwner'
  OBVIOUS
<1> USE DEF TypeOK, AuthorityFollowsOwner, OwnerScoped,
        outcomeVars, ticketVars, authorityVars, epochVars, workerVars, workspaceVars
<1>1. ASSUME NEW r \in Request, NEW t \in Tools, NEW w \in Workspace \cup {NoWorkspace}, NEW
             s \in Session, Submit(r, t, w, s)
      PROVE  AuthorityFollowsOwner'
  <2>1. CASE w = NoWorkspace
    <3>1. t \in EndpointTool
      BY <1>1, <2>1, ControlAssumption DEF Submit, Unsubmitted, Admissible
    <3> QED
      BY <1>1, <2>1, <3>1, ControlAssumption DEF Submit, Unsubmitted
  <2>2. CASE w # NoWorkspace
    <3>1. t \notin EndpointTool \cup {"takeover"} => s = owner[w]
      BY <1>1, <2>2, ControlAssumption DEF Submit, Unsubmitted, Admissible
    <3> QED
      BY <1>1, <2>2, <3>1 DEF Submit, Unsubmitted
  <2> QED
    BY <2>1, <2>2
<1>2. ASSUME NEW r \in Request, Acknowledge(r) PROVE AuthorityFollowsOwner'
  BY <1>2 DEF Acknowledge, FencedBy
<1>3. ASSUME NEW r \in Request, AcknowledgeRefused(r) PROVE AuthorityFollowsOwner'
  BY <1>3 DEF AcknowledgeRefused, End
<1>4. ASSUME NEW r \in Request, WaitForExtension(r) PROVE AuthorityFollowsOwner'
  BY <1>4 DEF WaitForExtension, PauseTicket
<1>5. ASSUME NEW r \in Request, RunCommand(r) PROVE AuthorityFollowsOwner'
  BY <1>5 DEF RunCommand, Await
<1>6. ASSUME NEW r \in Request, PauseCommand(r) PROVE AuthorityFollowsOwner'
  BY <1>6 DEF PauseCommand, PauseTicket
<1>7. ASSUME NEW r \in Request, RejectCommand(r) PROVE AuthorityFollowsOwner'
  BY <1>7 DEF RejectCommand, End
<1>8. ASSUME NEW r \in Request, RunCreation(r) PROVE AuthorityFollowsOwner'
  BY <1>8 DEF RunCreation, Await
<1>9. ASSUME NEW r \in Request, TakeOver(r) PROVE AuthorityFollowsOwner'
  BY <1>9 DEF TakeOver, End, Moved, TicketsPlaced, OwnerScoped, Ready, Open, OpenState,
     WorkspaceTool, EndpointTool, Control, Ordinary
<1>10. ASSUME NEW r \in Request, TakeoverLoses(r) PROVE AuthorityFollowsOwner'
  BY <1>10 DEF TakeoverLoses, End
<1>11. ASSUME NEW r \in Request, StopWorkspace(r) PROVE AuthorityFollowsOwner'
  BY <1>11 DEF StopWorkspace, End
<1>12. ASSUME NEW r \in Request, KillEndpoint(r) PROVE AuthorityFollowsOwner'
  BY <1>12 DEF KillEndpoint, End
<1>13. ASSUME NEW r \in Request, RunResume(r) PROVE AuthorityFollowsOwner'
  BY <1>13 DEF RunResume, Await
<1>14. ASSUME NEW r \in Request, RunTermination(r) PROVE AuthorityFollowsOwner'
  BY <1>14 DEF RunTermination, FencedBy
<1>15. ASSUME NEW r \in Request, TerminationLoses(r) PROVE AuthorityFollowsOwner'
  BY <1>15 DEF TerminationLoses, End
<1>16. ASSUME NEW r \in Request, Attached(r) PROVE AuthorityFollowsOwner'
  BY <1>16 DEF Attached
<1>17. ASSUME NEW r \in Request, CreateTab(r) PROVE AuthorityFollowsOwner'
  BY <1>17 DEF CreateTab
<1>18. ASSUME NEW r \in Request, NEW outcome \in {"succeeded", "failed"}, WorkEnds(r, outcome)
       PROVE  AuthorityFollowsOwner'
  BY <1>18 DEF WorkEnds, End, Return
<1>19. ASSUME NEW r \in Request, WorkFails(r) PROVE AuthorityFollowsOwner'
  BY <1>19 DEF WorkFails, End, Return
<1>20. ASSUME NEW r \in Request, LoseResult(r) PROVE AuthorityFollowsOwner'
  BY <1>20 DEF LoseResult, PauseTicket, Return
<1>21. ASSUME NEW r \in Request, FinishResume(r) PROVE AuthorityFollowsOwner'
  BY <1>21 DEF FinishResume, Return
<1>22. ASSUME NEW r \in Request, WaitOver(r) PROVE AuthorityFollowsOwner'
  BY <1>22 DEF WaitOver
<1>23. ASSUME NEW r \in Request, WaitInterrupted(r) PROVE AuthorityFollowsOwner'
  BY <1>23 DEF WaitInterrupted, Return
<1>24. ASSUME NEW r \in Request, ArchiveConfirmed(r) PROVE AuthorityFollowsOwner'
  BY <1>24 DEF ArchiveConfirmed, FinishTermination, End, Return
<1>25. ASSUME NEW r \in Request, RequestRename(r) PROVE AuthorityFollowsOwner'
  BY <1>25 DEF RequestRename
<1>26. ASSUME NEW r \in Request, RenameSucceeds(r) PROVE AuthorityFollowsOwner'
  BY <1>26 DEF RenameSucceeds
<1>27. ASSUME NEW r \in Request, NEW renamed \in BOOLEAN, FailTermination(r, renamed)
       PROVE  AuthorityFollowsOwner'
  BY <1>27 DEF FailTermination, End, Return
<1>28. ASSUME NEW r \in Request, NEW outcome \in {"succeeded", "failed"}, HumanResolves(r,
              outcome)
       PROVE  AuthorityFollowsOwner'
  BY <1>28 DEF HumanResolves, End
<1>29. ASSUME NEW A \in SUBSET Workspace, Disconnect(A) PROVE AuthorityFollowsOwner'
  BY <1>29 DEF Disconnect
<1>30. ASSUME Reconnect PROVE AuthorityFollowsOwner'
  BY <1>30 DEF Reconnect
<1>31. ASSUME NEW C \in SUBSET Request, Restart(C) PROVE AuthorityFollowsOwner'
  BY <1>31 DEF Restart
<1>32. CASE UNCHANGED vars
  BY <1>32 DEF vars
<1> HIDE DEF TypeOK, AuthorityFollowsOwner, OwnerScoped,
        outcomeVars, ticketVars, authorityVars, epochVars, workerVars, workspaceVars
<1> QED
  BY <1>1, <1>2, <1>3, <1>4, <1>5, <1>6, <1>7, <1>8, <1>9, <1>10, <1>11, <1>12, <1>13, <1>14,
     <1>15, <1>16, <1>17, <1>18, <1>19, <1>20, <1>21, <1>22, <1>23, <1>24, <1>25, <1>26, <1>27,
     <1>28, <1>29, <1>30, <1>31, <1>32 DEF Next, Unsubmitted, Start, Progress

(* No endpoint control joins another. *)
LEMMA ExclusiveStep ==
    TypeOK /\ TicketsPlaced /\ ControlsSound /\ EndpointControlsExclusive /\ [Next]_vars
        => EndpointControlsExclusive'
<1> SUFFICES ASSUME TypeOK /\ TicketsPlaced /\ ControlsSound /\ EndpointControlsExclusive,
                    [Next]_vars
             PROVE  EndpointControlsExclusive'
  OBVIOUS
<1> USE DEF TypeOK, EndpointControlsExclusive, EndpointControl,
        outcomeVars, ticketVars, authorityVars, epochVars, workerVars, workspaceVars
<1>1. ASSUME NEW r \in Request, NEW t \in Tools, NEW w \in Workspace \cup {NoWorkspace}, NEW
             s \in Session, Submit(r, t, w, s)
      PROVE  EndpointControlsExclusive'
  BY <1>1 DEF Submit, Unsubmitted, Admissible, TicketsPlaced, ControlsSound, Open, OpenState
<1>2. ASSUME NEW r \in Request, Acknowledge(r) PROVE EndpointControlsExclusive'
  BY <1>2 DEF Acknowledge, FencedBy, Refused, EndpointControl
<1>3. ASSUME NEW r \in Request, AcknowledgeRefused(r) PROVE EndpointControlsExclusive'
  BY <1>3 DEF AcknowledgeRefused, End
<1>4. ASSUME NEW r \in Request, WaitForExtension(r) PROVE EndpointControlsExclusive'
  BY <1>4 DEF WaitForExtension, PauseTicket
<1>5. ASSUME NEW r \in Request, RunCommand(r) PROVE EndpointControlsExclusive'
  BY <1>5 DEF RunCommand, Await
<1>6. ASSUME NEW r \in Request, PauseCommand(r) PROVE EndpointControlsExclusive'
  BY <1>6 DEF PauseCommand, PauseTicket
<1>7. ASSUME NEW r \in Request, RejectCommand(r) PROVE EndpointControlsExclusive'
  BY <1>7 DEF RejectCommand, End
<1>8. ASSUME NEW r \in Request, RunCreation(r) PROVE EndpointControlsExclusive'
  BY <1>8 DEF RunCreation, Await
<1>9. ASSUME NEW r \in Request, TakeOver(r) PROVE EndpointControlsExclusive'
  BY <1>9 DEF TakeOver, End
<1>10. ASSUME NEW r \in Request, TakeoverLoses(r) PROVE EndpointControlsExclusive'
  BY <1>10 DEF TakeoverLoses, End
<1>11. ASSUME NEW r \in Request, StopWorkspace(r) PROVE EndpointControlsExclusive'
  BY <1>11 DEF StopWorkspace, End
<1>12. ASSUME NEW r \in Request, KillEndpoint(r) PROVE EndpointControlsExclusive'
  BY <1>12 DEF KillEndpoint, End
<1>13. ASSUME NEW r \in Request, RunResume(r) PROVE EndpointControlsExclusive'
  BY <1>13 DEF RunResume, Await
<1>14. ASSUME NEW r \in Request, RunTermination(r) PROVE EndpointControlsExclusive'
  BY <1>14 DEF RunTermination, FencedBy
<1>15. ASSUME NEW r \in Request, TerminationLoses(r) PROVE EndpointControlsExclusive'
  BY <1>15 DEF TerminationLoses, End
<1>16. ASSUME NEW r \in Request, Attached(r) PROVE EndpointControlsExclusive'
  BY <1>16 DEF Attached
<1>17. ASSUME NEW r \in Request, CreateTab(r) PROVE EndpointControlsExclusive'
  BY <1>17 DEF CreateTab
<1>18. ASSUME NEW r \in Request, NEW outcome \in {"succeeded", "failed"}, WorkEnds(r, outcome)
       PROVE  EndpointControlsExclusive'
  BY <1>18 DEF WorkEnds, End, Return
<1>19. ASSUME NEW r \in Request, WorkFails(r) PROVE EndpointControlsExclusive'
  BY <1>19 DEF WorkFails, End, Return
<1>20. ASSUME NEW r \in Request, LoseResult(r) PROVE EndpointControlsExclusive'
  BY <1>20 DEF LoseResult, PauseTicket, Return
<1>21. ASSUME NEW r \in Request, FinishResume(r) PROVE EndpointControlsExclusive'
  BY <1>21 DEF FinishResume, Return
<1>22. ASSUME NEW r \in Request, WaitOver(r) PROVE EndpointControlsExclusive'
  BY <1>22 DEF WaitOver
<1>23. ASSUME NEW r \in Request, WaitInterrupted(r) PROVE EndpointControlsExclusive'
  BY <1>23 DEF WaitInterrupted, Return
<1>24. ASSUME NEW r \in Request, ArchiveConfirmed(r) PROVE EndpointControlsExclusive'
  BY <1>24 DEF ArchiveConfirmed, FinishTermination, End, Return
<1>25. ASSUME NEW r \in Request, RequestRename(r) PROVE EndpointControlsExclusive'
  BY <1>25 DEF RequestRename
<1>26. ASSUME NEW r \in Request, RenameSucceeds(r) PROVE EndpointControlsExclusive'
  BY <1>26 DEF RenameSucceeds
<1>27. ASSUME NEW r \in Request, NEW renamed \in BOOLEAN, FailTermination(r, renamed)
       PROVE  EndpointControlsExclusive'
  BY <1>27 DEF FailTermination, End, Return
<1>28. ASSUME NEW r \in Request, NEW outcome \in {"succeeded", "failed"}, HumanResolves(r,
              outcome)
       PROVE  EndpointControlsExclusive'
  BY <1>28 DEF HumanResolves, End
<1>29. ASSUME NEW A \in SUBSET Workspace, Disconnect(A) PROVE EndpointControlsExclusive'
  BY <1>29 DEF Disconnect
<1>30. ASSUME Reconnect PROVE EndpointControlsExclusive'
  BY <1>30 DEF Reconnect
<1>31. ASSUME NEW C \in SUBSET Request, Restart(C) PROVE EndpointControlsExclusive'
  BY <1>31 DEF Restart
<1>32. CASE UNCHANGED vars
  BY <1>32 DEF vars
<1> HIDE DEF TypeOK, EndpointControlsExclusive, EndpointControl,
        outcomeVars, ticketVars, authorityVars, epochVars, workerVars, workspaceVars
<1> QED
  BY <1>1, <1>2, <1>3, <1>4, <1>5, <1>6, <1>7, <1>8, <1>9, <1>10, <1>11, <1>12, <1>13, <1>14,
     <1>15, <1>16, <1>17, <1>18, <1>19, <1>20, <1>21, <1>22, <1>23, <1>24, <1>25, <1>26, <1>27,
     <1>28, <1>29, <1>30, <1>31, <1>32 DEF Next, Unsubmitted, Start, Progress

(* Whoever ends a workspace owns it, and it changes hands no more. *)
LEMMA EndedStep ==
    TypeOK /\ TicketsPlaced /\ WorkersSound /\ EpochsHeld /\ EndedByItsOwner /\ [Next]_vars
        => EndedByItsOwner'
<1> SUFFICES ASSUME TypeOK /\ TicketsPlaced /\ WorkersSound /\ EpochsHeld /\ EndedByItsOwner,
                    [Next]_vars
             PROVE  EndedByItsOwner'
  OBVIOUS
<1> USE DEF TypeOK, EndedByItsOwner, Active,
        outcomeVars, ticketVars, authorityVars, epochVars, workerVars, workspaceVars
<1>1. ASSUME NEW r \in Request, NEW t \in Tools, NEW w \in Workspace \cup {NoWorkspace}, NEW
             s \in Session, Submit(r, t, w, s)
      PROVE  EndedByItsOwner'
  BY <1>1 DEF Submit, Unsubmitted, Admissible, TicketsPlaced
<1>2. ASSUME NEW r \in Request, Acknowledge(r) PROVE EndedByItsOwner'
  BY <1>2 DEF Acknowledge, FencedBy, Open, OpenState
<1>3. ASSUME NEW r \in Request, AcknowledgeRefused(r) PROVE EndedByItsOwner'
  BY <1>3 DEF AcknowledgeRefused, End
<1>4. ASSUME NEW r \in Request, WaitForExtension(r) PROVE EndedByItsOwner'
  BY <1>4 DEF WaitForExtension, PauseTicket, Ready, Open, OpenState
<1>5. ASSUME NEW r \in Request, RunCommand(r) PROVE EndedByItsOwner'
  BY <1>5 DEF RunCommand, Await, Ready, Open, OpenState
<1>6. ASSUME NEW r \in Request, PauseCommand(r) PROVE EndedByItsOwner'
  BY <1>6 DEF PauseCommand, PauseTicket, Ready, Open, OpenState
<1>7. ASSUME NEW r \in Request, RejectCommand(r) PROVE EndedByItsOwner'
  BY <1>7 DEF RejectCommand, End, Ready, Open, OpenState
<1>8. ASSUME NEW r \in Request, RunCreation(r) PROVE EndedByItsOwner'
  BY <1>8 DEF RunCreation, Await, Ready, Open, OpenState
<1>9. ASSUME NEW r \in Request, TakeOver(r) PROVE EndedByItsOwner'
  BY <1>9 DEF TakeOver, End, Ready, Open, OpenState, TakeoverWins
<1>10. ASSUME NEW r \in Request, TakeoverLoses(r) PROVE EndedByItsOwner'
  BY <1>10 DEF TakeoverLoses, End, Ready, Open, OpenState
<1>11. ASSUME NEW r \in Request, StopWorkspace(r) PROVE EndedByItsOwner'
  BY <1>11 DEF StopWorkspace, End, Ready, Open, OpenState
<1>12. ASSUME NEW r \in Request, KillEndpoint(r) PROVE EndedByItsOwner'
  BY <1>12 DEF KillEndpoint, End, Ready, Open, OpenState
<1>13. ASSUME NEW r \in Request, RunResume(r) PROVE EndedByItsOwner'
  BY <1>13 DEF RunResume, Await, Ready, Open, OpenState
<1>14. ASSUME NEW r \in Request, RunTermination(r) PROVE EndedByItsOwner'
  BY <1>14 DEF RunTermination, FencedBy, Ready, Open, OpenState
<1>15. ASSUME NEW r \in Request, TerminationLoses(r) PROVE EndedByItsOwner'
  BY <1>15 DEF TerminationLoses, End, Ready, Open, OpenState
<1>16. ASSUME NEW r \in Request, Attached(r) PROVE EndedByItsOwner'
  BY <1>16 DEF Attached, WorkersSound
<1>17. ASSUME NEW r \in Request, CreateTab(r) PROVE EndedByItsOwner'
  BY <1>17 DEF CreateTab, WorkersSound
<1>18. ASSUME NEW r \in Request, NEW outcome \in {"succeeded", "failed"}, WorkEnds(r, outcome)
       PROVE  EndedByItsOwner'
  BY <1>18 DEF WorkEnds, End, Return, WorkersSound
<1>19. ASSUME NEW r \in Request, WorkFails(r) PROVE EndedByItsOwner'
  BY <1>19 DEF WorkFails, End, Return, WorkersSound
<1>20. ASSUME NEW r \in Request, LoseResult(r) PROVE EndedByItsOwner'
  BY <1>20 DEF LoseResult, PauseTicket, Return, WorkersSound
<1>21. ASSUME NEW r \in Request, FinishResume(r) PROVE EndedByItsOwner'
  BY <1>21 DEF FinishResume, Return, WorkersSound
<1>22. ASSUME NEW r \in Request, WaitOver(r) PROVE EndedByItsOwner'
  BY <1>22 DEF WaitOver
<1>23. ASSUME NEW r \in Request, WaitInterrupted(r) PROVE EndedByItsOwner'
  BY <1>23 DEF WaitInterrupted, Return
<1>24. ASSUME NEW r \in Request, ArchiveConfirmed(r) PROVE EndedByItsOwner'
  BY <1>24 DEF ArchiveConfirmed, FinishTermination, End, Return, StillControls, EpochsHeld,
     WorkersSound, TicketsPlaced, WorkspaceTool
<1>25. ASSUME NEW r \in Request, RequestRename(r) PROVE EndedByItsOwner'
  BY <1>25 DEF RequestRename
<1>26. ASSUME NEW r \in Request, RenameSucceeds(r) PROVE EndedByItsOwner'
  BY <1>26 DEF RenameSucceeds
<1>27. ASSUME NEW r \in Request, NEW renamed \in BOOLEAN, FailTermination(r, renamed)
       PROVE  EndedByItsOwner'
  BY <1>27 DEF FailTermination, End, Return, WorkersSound
<1>28. ASSUME NEW r \in Request, NEW outcome \in {"succeeded", "failed"}, HumanResolves(r,
              outcome)
       PROVE  EndedByItsOwner'
  BY <1>28 DEF HumanResolves, End
<1>29. ASSUME NEW A \in SUBSET Workspace, Disconnect(A) PROVE EndedByItsOwner'
  BY <1>29 DEF Disconnect
<1>30. ASSUME Reconnect PROVE EndedByItsOwner'
  BY <1>30 DEF Reconnect
<1>31. ASSUME NEW C \in SUBSET Request, Restart(C) PROVE EndedByItsOwner'
  BY <1>31 DEF Restart, Ready, Open, OpenState
<1>32. CASE UNCHANGED vars
  BY <1>32 DEF vars
<1> HIDE DEF TypeOK, EndedByItsOwner, Active,
        outcomeVars, ticketVars, authorityVars, epochVars, workerVars, workspaceVars
<1> QED
  BY <1>1, <1>2, <1>3, <1>4, <1>5, <1>6, <1>7, <1>8, <1>9, <1>10, <1>11, <1>12, <1>13, <1>14,
     <1>15, <1>16, <1>17, <1>18, <1>19, <1>20, <1>21, <1>22, <1>23, <1>24, <1>25, <1>26, <1>27,
     <1>28, <1>29, <1>30, <1>31, <1>32 DEF Next, Unsubmitted, Start, Progress

(* A pause of a stop or kill goes with the cause it is for. *)
LEMMA PausedStep ==
    TypeOK /\ TicketsPlaced /\ WorkersSound /\ ControlsSound /\ PausedWorkHasCause /\ [Next]_vars
        => PausedWorkHasCause'
<1> SUFFICES ASSUME TypeOK /\ TicketsPlaced /\ WorkersSound /\ ControlsSound /\ PausedWorkHasCause,
                    [Next]_vars
             PROVE  PausedWorkHasCause'
  OBVIOUS
<1> USE DEF TypeOK, PausedWorkHasCause, Active, Killing, Controlled,
        outcomeVars, ticketVars, authorityVars, epochVars, workerVars, workspaceVars
<1>1. ASSUME NEW r \in Request, NEW t \in Tools, NEW w \in Workspace \cup {NoWorkspace}, NEW
             s \in Session, Submit(r, t, w, s)
      PROVE  PausedWorkHasCause'
  BY <1>1 DEF Submit, Unsubmitted, Admissible, TicketsPlaced, WorkersSound, ControlsSound, Open, OpenState
<1>2. ASSUME NEW r \in Request, Acknowledge(r) PROVE PausedWorkHasCause'
  BY <1>2 DEF Acknowledge, FencedBy
<1>3. ASSUME NEW r \in Request, AcknowledgeRefused(r) PROVE PausedWorkHasCause'
  BY <1>3 DEF AcknowledgeRefused, End, EndpointTool, ControlsSound
<1>4. ASSUME NEW r \in Request, WaitForExtension(r) PROVE PausedWorkHasCause'
  BY <1>4 DEF WaitForExtension, PauseTicket
<1>5. ASSUME NEW r \in Request, RunCommand(r) PROVE PausedWorkHasCause'
  BY <1>5 DEF RunCommand, Await
<1>6. ASSUME NEW r \in Request, PauseCommand(r) PROVE PausedWorkHasCause'
  BY <1>6 DEF PauseCommand, PauseTicket, Fence
<1>7. ASSUME NEW r \in Request, RejectCommand(r) PROVE PausedWorkHasCause'
  BY <1>7 DEF RejectCommand, End
<1>8. ASSUME NEW r \in Request, RunCreation(r) PROVE PausedWorkHasCause'
  BY <1>8 DEF RunCreation, Await
<1>9. ASSUME NEW r \in Request, TakeOver(r) PROVE PausedWorkHasCause'
  BY <1>9 DEF TakeOver, End
<1>10. ASSUME NEW r \in Request, TakeoverLoses(r) PROVE PausedWorkHasCause'
  BY <1>10 DEF TakeoverLoses, End
<1>11. ASSUME NEW r \in Request, StopWorkspace(r) PROVE PausedWorkHasCause'
  BY <1>11 DEF StopWorkspace, End
<1>12. ASSUME NEW r \in Request, KillEndpoint(r) PROVE PausedWorkHasCause'
  BY <1>12 DEF KillEndpoint, End
<1>13. ASSUME NEW r \in Request, RunResume(r) PROVE PausedWorkHasCause'
  BY <1>13 DEF RunResume, Await
<1>14. ASSUME NEW r \in Request, RunTermination(r) PROVE PausedWorkHasCause'
  BY <1>14 DEF RunTermination, FencedBy
<1>15. ASSUME NEW r \in Request, TerminationLoses(r) PROVE PausedWorkHasCause'
  BY <1>15 DEF TerminationLoses, End
<1>16. ASSUME NEW r \in Request, Attached(r) PROVE PausedWorkHasCause'
  BY <1>16 DEF Attached
<1>17. ASSUME NEW r \in Request, CreateTab(r) PROVE PausedWorkHasCause'
  BY <1>17 DEF CreateTab
<1>18. ASSUME NEW r \in Request, NEW outcome \in {"succeeded", "failed"}, WorkEnds(r, outcome)
       PROVE  PausedWorkHasCause'
  BY <1>18 DEF WorkEnds, End, Return, Ordinary
<1>19. ASSUME NEW r \in Request, WorkFails(r) PROVE PausedWorkHasCause'
  BY <1>19 DEF WorkFails, End, Return, WorkersSound
<1>20. ASSUME NEW r \in Request, LoseResult(r) PROVE PausedWorkHasCause'
  BY <1>20 DEF LoseResult, PauseTicket, Return
<1>21. ASSUME NEW r \in Request, FinishResume(r) PROVE PausedWorkHasCause'
  BY <1>21 DEF FinishResume, Return, Resumed, Remaining, Resumes, CauseResumed, WorkersSound,
     Open, OpenState
<1>22. ASSUME NEW r \in Request, WaitOver(r) PROVE PausedWorkHasCause'
  BY <1>22 DEF WaitOver
<1>23. ASSUME NEW r \in Request, WaitInterrupted(r) PROVE PausedWorkHasCause'
  BY <1>23 DEF WaitInterrupted, Return
<1>24. ASSUME NEW r \in Request, ArchiveConfirmed(r) PROVE PausedWorkHasCause'
  BY <1>24 DEF ArchiveConfirmed, FinishTermination, End, Return
<1>25. ASSUME NEW r \in Request, RequestRename(r) PROVE PausedWorkHasCause'
  BY <1>25 DEF RequestRename
<1>26. ASSUME NEW r \in Request, RenameSucceeds(r) PROVE PausedWorkHasCause'
  BY <1>26 DEF RenameSucceeds
<1>27. ASSUME NEW r \in Request, NEW renamed \in BOOLEAN, FailTermination(r, renamed)
       PROVE  PausedWorkHasCause'
  BY <1>27 DEF FailTermination, End, Return
<1>28. ASSUME NEW r \in Request, NEW outcome \in {"succeeded", "failed"}, HumanResolves(r,
              outcome)
       PROVE  PausedWorkHasCause'
  BY <1>28 DEF HumanResolves, End, WorkersSound
<1>29. ASSUME NEW A \in SUBSET Workspace, Disconnect(A) PROVE PausedWorkHasCause'
  BY <1>29 DEF Disconnect
<1>30. ASSUME Reconnect PROVE PausedWorkHasCause'
  BY <1>30 DEF Reconnect, Remaining
<1>31. ASSUME NEW C \in SUBSET Request, Restart(C) PROVE PausedWorkHasCause'
  BY <1>31 DEF Restart
<1>32. CASE UNCHANGED vars
  BY <1>32 DEF vars
<1> HIDE DEF TypeOK, PausedWorkHasCause, Active, Killing, Controlled,
        outcomeVars, ticketVars, authorityVars, epochVars, workerVars, workspaceVars
<1> QED
  BY <1>1, <1>2, <1>3, <1>4, <1>5, <1>6, <1>7, <1>8, <1>9, <1>10, <1>11, <1>12, <1>13, <1>14,
     <1>15, <1>16, <1>17, <1>18, <1>19, <1>20, <1>21, <1>22, <1>23, <1>24, <1>25, <1>26, <1>27,
     <1>28, <1>29, <1>30, <1>31, <1>32 DEF Next, Unsubmitted, Start, Progress

(* Once a termination has stopped waiting no command of its workspace gets *)
(* a worker.                                                               *)
LEMMA ArchivingStep ==
    TypeOK /\ TicketsPlaced /\ WorkersSound /\ ControlsSound /\ ArchivingIsQuiet /\ [Next]_vars
        => ArchivingIsQuiet'
<1> SUFFICES ASSUME TypeOK /\ TicketsPlaced /\ WorkersSound /\ ControlsSound /\ ArchivingIsQuiet,
                    [Next]_vars
             PROVE  ArchivingIsQuiet'
  OBVIOUS
<1> USE DEF TypeOK, ArchivingIsQuiet,
        outcomeVars, ticketVars, authorityVars, epochVars, workerVars, workspaceVars
<1>1. ASSUME NEW r \in Request, NEW t \in Tools, NEW w \in Workspace \cup {NoWorkspace}, NEW
             s \in Session, Submit(r, t, w, s)
      PROVE  ArchivingIsQuiet'
  BY <1>1 DEF Submit, Unsubmitted, Admissible, TicketsPlaced, WorkersSound
<1>2. ASSUME NEW r \in Request, Acknowledge(r) PROVE ArchivingIsQuiet'
  BY <1>2 DEF Acknowledge, FencedBy
<1>3. ASSUME NEW r \in Request, AcknowledgeRefused(r) PROVE ArchivingIsQuiet'
  BY <1>3 DEF AcknowledgeRefused, End
<1>4. ASSUME NEW r \in Request, WaitForExtension(r) PROVE ArchivingIsQuiet'
  BY <1>4 DEF WaitForExtension, PauseTicket
<1>5. ASSUME NEW r \in Request, RunCommand(r) PROVE ArchivingIsQuiet'
  BY <1>5 DEF RunCommand, Await, Fence, Controlled, ControlsSound, WorkersSound, Open,
     OpenState, Control, WorkspaceTool
<1>6. ASSUME NEW r \in Request, PauseCommand(r) PROVE ArchivingIsQuiet'
  BY <1>6 DEF PauseCommand, PauseTicket
<1>7. ASSUME NEW r \in Request, RejectCommand(r) PROVE ArchivingIsQuiet'
  BY <1>7 DEF RejectCommand, End
<1>8. ASSUME NEW r \in Request, RunCreation(r) PROVE ArchivingIsQuiet'
  BY <1>8 DEF RunCreation, Await
<1>9. ASSUME NEW r \in Request, TakeOver(r) PROVE ArchivingIsQuiet'
  BY <1>9 DEF TakeOver, End
<1>10. ASSUME NEW r \in Request, TakeoverLoses(r) PROVE ArchivingIsQuiet'
  BY <1>10 DEF TakeoverLoses, End
<1>11. ASSUME NEW r \in Request, StopWorkspace(r) PROVE ArchivingIsQuiet'
  BY <1>11 DEF StopWorkspace, End
<1>12. ASSUME NEW r \in Request, KillEndpoint(r) PROVE ArchivingIsQuiet'
  BY <1>12 DEF KillEndpoint, End
<1>13. ASSUME NEW r \in Request, RunResume(r) PROVE ArchivingIsQuiet'
  BY <1>13 DEF RunResume, Await
<1>14. ASSUME NEW r \in Request, RunTermination(r) PROVE ArchivingIsQuiet'
  BY <1>14 DEF RunTermination, FencedBy
<1>15. ASSUME NEW r \in Request, TerminationLoses(r) PROVE ArchivingIsQuiet'
  BY <1>15 DEF TerminationLoses, End
<1>16. ASSUME NEW r \in Request, Attached(r) PROVE ArchivingIsQuiet'
  BY <1>16 DEF Attached
<1>17. ASSUME NEW r \in Request, CreateTab(r) PROVE ArchivingIsQuiet'
  BY <1>17 DEF CreateTab
<1>18. ASSUME NEW r \in Request, NEW outcome \in {"succeeded", "failed"}, WorkEnds(r, outcome)
       PROVE  ArchivingIsQuiet'
  BY <1>18 DEF WorkEnds, End, Return
<1>19. ASSUME NEW r \in Request, WorkFails(r) PROVE ArchivingIsQuiet'
  BY <1>19 DEF WorkFails, End, Return
<1>20. ASSUME NEW r \in Request, LoseResult(r) PROVE ArchivingIsQuiet'
  BY <1>20 DEF LoseResult, PauseTicket, Return
<1>21. ASSUME NEW r \in Request, FinishResume(r) PROVE ArchivingIsQuiet'
  BY <1>21 DEF FinishResume, Return
<1>22. ASSUME NEW r \in Request, WaitOver(r) PROVE ArchivingIsQuiet'
  BY <1>22 DEF WaitOver, Blockers, WorkersSound, Open, OpenState, Ordinary
<1>23. ASSUME NEW r \in Request, WaitInterrupted(r) PROVE ArchivingIsQuiet'
  BY <1>23 DEF WaitInterrupted, Return
<1>24. ASSUME NEW r \in Request, ArchiveConfirmed(r) PROVE ArchivingIsQuiet'
  BY <1>24 DEF ArchiveConfirmed, FinishTermination, End, Return
<1>25. ASSUME NEW r \in Request, RequestRename(r) PROVE ArchivingIsQuiet'
  BY <1>25 DEF RequestRename
<1>26. ASSUME NEW r \in Request, RenameSucceeds(r) PROVE ArchivingIsQuiet'
  BY <1>26 DEF RenameSucceeds
<1>27. ASSUME NEW r \in Request, NEW renamed \in BOOLEAN, FailTermination(r, renamed)
       PROVE  ArchivingIsQuiet'
  BY <1>27 DEF FailTermination, End, Return
<1>28. ASSUME NEW r \in Request, NEW outcome \in {"succeeded", "failed"}, HumanResolves(r,
              outcome)
       PROVE  ArchivingIsQuiet'
  BY <1>28 DEF HumanResolves, End
<1>29. ASSUME NEW A \in SUBSET Workspace, Disconnect(A) PROVE ArchivingIsQuiet'
  BY <1>29 DEF Disconnect
<1>30. ASSUME Reconnect PROVE ArchivingIsQuiet'
  BY <1>30 DEF Reconnect
<1>31. ASSUME NEW C \in SUBSET Request, Restart(C) PROVE ArchivingIsQuiet'
  BY <1>31 DEF Restart
<1>32. CASE UNCHANGED vars
  BY <1>32 DEF vars
<1> HIDE DEF TypeOK, ArchivingIsQuiet,
        outcomeVars, ticketVars, authorityVars, epochVars, workerVars, workspaceVars
<1> QED
  BY <1>1, <1>2, <1>3, <1>4, <1>5, <1>6, <1>7, <1>8, <1>9, <1>10, <1>11, <1>12, <1>13, <1>14,
     <1>15, <1>16, <1>17, <1>18, <1>19, <1>20, <1>21, <1>22, <1>23, <1>24, <1>25, <1>26, <1>27,
     <1>28, <1>29, <1>30, <1>31, <1>32 DEF Next, Unsubmitted, Start, Progress

-----------------------------------------------------------------------------
(* The invariant. *)

(* It holds of an empty request store with every workspace at its first    *)
(* owner.                                                                  *)
LEMMA IInvInit == Init => IInv
<1> SUFFICES ASSUME Init PROVE IInv
  OBVIOUS
<1> USE ControlAssumption DEF Init
<1>1. TypeOK
  BY DEF TypeOK, PauseCondition, Stage, Cause
<1>2. TicketsPlaced /\ WorkersSound
  BY DEF TicketsPlaced, WorkersSound, Ordinary, WorkspaceTool
<1>3. ControlsSound /\ EndpointControlsExclusive
  BY DEF ControlsSound, Open, OpenState, EndpointControlsExclusive, EndpointControl
<1>4. EpochsHeld /\ AuthorityFollowsOwner
  BY DEF EpochsHeld, AuthorityFollowsOwner, OwnerScoped
<1>5. EndedByItsOwner /\ PausedWorkHasCause /\ ArchivingIsQuiet
  BY DEF EndedByItsOwner, PausedWorkHasCause, ArchivingIsQuiet, Active
<1> QED
  BY <1>1, <1>2, <1>3, <1>4, <1>5 DEF IInv

(* Every step keeps it. *)
LEMMA IInvStep == IInv /\ [Next]_vars => IInv'
BY TypeOKStep, TicketsPlacedStep, WorkersSoundStep, ControlsSoundStep, AuthorityStep,
   ExclusiveStep, EpochsHeldStep, EndedStep, PausedStep, ArchivingStep
   DEF IInv

(* IInv holds in every reachable state. *)
THEOREM Inductive == Spec => []IInv
BY IInvInit, IInvStep, PTL DEF Spec

(* Every variable keeps the values its column or field may have. *)
THEOREM ControlTypes == Spec => []TypeOK
<1>1. IInv => TypeOK
  BY DEF IInv
<1> QED
  BY <1>1, Inductive, PTL

(* Tickets governed by ownership are under the authority of the present    *)
(* owner and epoch: takeOverWorkspace() moves them all, and submit() reads *)
(* the row it writes the ticket for.                                       *)
THEOREM AuthorityIsTransferred == Spec => []AuthorityFollowsOwner
<1>1. IInv => AuthorityFollowsOwner
  BY DEF IInv
<1> QED
  BY <1>1, Inductive, PTL

(* A workspace is ended by its owner's termination only: the control epoch *)
(* fences a termination that lost the workspace to a takeover, also after  *)
(* recover() has dropped the epochs it was accepted and claimed under.     *)
THEOREM OnlyOwnersEnd == Spec => []EndedByItsOwner
<1>1. IInv => EndedByItsOwner
  BY DEF IInv
<1> QED
  BY <1>1, Inductive, PTL

(* No ticket of an active workspace is paused by a stop or a kill that is  *)
(* neither recorded nor being carried out.                                 *)
THEOREM NothingIsStranded == Spec => []PausedWorkHasCause
<1>1. IInv => PausedWorkHasCause
  BY DEF IInv
<1> QED
  BY <1>1, Inductive, PTL

(* activateControl() admits one endpoint control at a time. *)
THEOREM OneEndpointControl == Spec => []EndpointControlsExclusive
<1>1. IInv => EndpointControlsExclusive
  BY DEF IInv
<1> QED
  BY <1>1, Inductive, PTL

(* A termination that archives has no command of its workspace beside it:  *)
(* its control record outlives its wait, and executeCdp() looks for it.    *)
THEOREM NoCommandWhileArchiving == Spec => []ArchivingIsQuiet
<1>1. IInv => ArchivingIsQuiet
  BY DEF IInv
<1> QED
  BY <1>1, Inductive, PTL

=============================================================================

-------------------------- MODULE WorkspaceControl --------------------------
(***************************************************************************)
(* Who may do what to the workspaces of one browser endpoint: ownership    *)
(* and takeover, termination with its archive phase, workspace stop and    *)
(* resume, endpoint kill and resume, and the ordinary work (commands and   *)
(* tab creations) that these controls fence, pause and wait for            *)
(* (core/octopus/octopus-broker.ts, storage/sqlite/logical-repository.ts). *)
(*                                                                         *)
(* Claims, leases and lanes are those of RequestStore; here every command  *)
(* is for a tab of its own, and a ticket whose handoff fails is one that   *)
(* was never submitted.                                                    *)
(*                                                                         *)
(* The broker is one JavaScript event loop.  pump() runs as a microtask,   *)
(* so what it can start it starts before the next answer, message or       *)
(* timer: the actions of those have the guard Quiet.  Only a crash         *)
(* intervenes (Restart).                                                   *)
(***************************************************************************)
EXTENDS Integers

CONSTANTS
    MaxRequests,    \* bound: how many tickets are submitted
    Tools,          \* the tools they may be submitted for
    Workspace,      \* the workspaces of the endpoint
    NoWorkspace,    \* workspace_ref IS NULL: an endpoint control
    Session,        \* callers, each of a lineage of its own
    NoSession,      \* no caller yet
    FirstOwner,     \* who owns every workspace at the start
    MaxOutages      \* bound: losses of the connection and broker restarts

(* Tickets are numbered in the order of their acceptance. *)
Request == 1 .. MaxRequests

Ordinary == {"command", "creation"}
EndpointTool == {"kill", "endpoint_resume"}
WorkspaceTool == {"takeover", "termination", "stop", "resume"}
Control == WorkspaceTool \cup EndpointTool

(* needsExtension(). *)
NeedsExtension == {"command", "creation", "termination", "resume", "endpoint_resume"}

ASSUME ControlAssumption ==
    /\ MaxRequests \in Nat
    /\ Tools \subseteq Ordinary \cup Control
    /\ NoWorkspace \notin Workspace
    /\ NoSession \notin Session
    /\ FirstOwner \in Session
    /\ MaxOutages \in Nat

VARIABLES
    state,           \* request_tickets.state; "absent": no row
    acknowledgement, \* "lost": pending, and the process that would report is gone
    pause,           \* pause_condition
    tool,            \* tool_name, "none" while absent
    place,           \* workspace_ref
    requester,       \* requester_session_ref
    previous,        \* a takeover's previous_owner_session_ref
    authority,       \* authority_session_ref
    acceptedOwner,   \* accepted_owner_epoch
    acceptedControl, \* the checkpoint's accepted_control_epoch, 0 if it has none
    recordedControl, \* the checkpoint's termination_control_epoch, 0 if it has none
    attempt,         \* state of the newest row of request_attempts
    control,         \* tickets with a control record in state 'active'
    stage,           \* what the ticket's worker awaits, "none": no worker
    copiedControl,   \* recordedControl as the worker's ticket object has it
    owner, ownerEpoch, controlEpoch, lifecycle,  \* browser_workspaces
    causes,          \* workspace_pause_causes not cleared
    archived,        \* the tab group in Chrome bears the archive title
    connected,       \* the endpoint is connected and its inventory reconciled
    outages          \* how many happened, against the bound

ticketVars == <<tool, place, requester, previous>>
outcomeVars == <<state, pause>>
authorityVars == <<authority, acceptedOwner>>
epochVars == <<acceptedControl, recordedControl>>
workerVars == <<stage, copiedControl>>
workspaceVars == <<owner, ownerEpoch, controlEpoch, lifecycle>>
vars == <<outcomeVars, acknowledgement, ticketVars, authorityVars, epochVars, attempt, control,
          workerVars, workspaceVars, causes, archived, connected, outages>>

OpenState == {"queued", "running"}
Cause == {"manual_workspace_stop", "endpoint_killed", "termination_failed"}
PauseCondition == {"none", "extension_disconnected", "manual_workspace_stop", "endpoint_killed",
                   "user_confirmation_required"}
Stage == {"none", "attaching", "executing", "waiting", "surveying", "renaming", "confirming"}

Init ==
    /\ state = [r \in Request |-> "absent"]
    /\ acknowledgement = [r \in Request |-> "pending"]
    /\ pause = [r \in Request |-> "none"]
    /\ tool = [r \in Request |-> "none"]
    /\ place = [r \in Request |-> NoWorkspace]
    /\ requester = [r \in Request |-> NoSession]
    /\ previous = [r \in Request |-> NoSession]
    /\ authority = [r \in Request |-> NoSession]
    /\ acceptedOwner = [r \in Request |-> 0]
    /\ acceptedControl = [r \in Request |-> 0]
    /\ recordedControl = [r \in Request |-> 0]
    /\ attempt = [r \in Request |-> "none"]
    /\ control = {}
    /\ stage = [r \in Request |-> "none"]
    /\ copiedControl = [r \in Request |-> 0]
    /\ owner = [w \in Workspace |-> FirstOwner]
    /\ ownerEpoch = [w \in Workspace |-> 1]
    /\ controlEpoch = [w \in Workspace |-> 0]
    /\ lifecycle = [w \in Workspace |-> "active"]
    /\ causes = [w \in Workspace |-> {}]
    /\ archived = [w \in Workspace |-> FALSE]
    /\ connected = TRUE
    /\ outages = 0

-----------------------------------------------------------------------------
(* What the actions are built from.                                        *)

Open(r) == state[r] \in OpenState
Active(w) == lifecycle[w] = "active"

(* What pump() starts: delivered, open, unpaused, without a worker. *)
Ready(r) ==
    /\ Open(r)
    /\ acknowledgement[r] = "delivered"
    /\ pause[r] = "none"
    /\ stage[r] = "none"

(* The microtask queue is empty: the event loop takes its next task. *)
Quiet == \A r \in Request : ~Ready(r)

(* activeWorkspaceControl() and getActiveEndpointControl(). *)
Controlled(w, kind) == \E r \in control : place[r] = w /\ tool[r] = kind
EndpointControl == {r \in control : tool[r] \in EndpointTool}
Killing == \E r \in control : tool[r] = "kill"

(* succeedTicket(), failTicket() and the terminalizeRequest() of a fence,  *)
(* for all of S: the control record of an ended ticket is finished in the  *)
(* same transaction.                                                       *)
End(S, outcome) ==
    /\ state' = [r \in Request |-> IF r \in S THEN outcome ELSE state[r]]
    /\ pause' = [r \in Request |-> IF r \in S THEN "none" ELSE pause[r]]
    /\ control' = control \ S

(* claimRequest(); the ticket's worker now awaits something. *)
Await(r, what) ==
    /\ state' = [state EXCEPT ![r] = "running"]
    /\ stage' = [stage EXCEPT ![r] = what]

(* A worker that returns or throws. *)
Return(r) ==
    /\ stage' = [stage EXCEPT ![r] = "none"]
    /\ copiedControl' = [copiedControl EXCEPT ![r] = 0]

(* claimRequest() and then pauseTicket(). *)
PauseTicket(r, condition) ==
    /\ state' = [state EXCEPT ![r] = "running"]
    /\ pause' = [pause EXCEPT ![r] = condition]

-----------------------------------------------------------------------------
(* Admission.                                                              *)

Admissible(t, w, s) ==
    \/ /\ t \in EndpointTool
       /\ w = NoWorkspace
       /\ \A v \in Workspace : Active(v) => owner[v] = s
       /\ EndpointControl = {}
    \/ /\ t = "takeover"
       /\ w \in Workspace
       /\ Active(w)
       /\ owner[w] # s
       /\ EndpointControl = {}
    \/ /\ t \in Ordinary \cup {"termination", "stop", "resume"}
       /\ w \in Workspace
       /\ Active(w)
       /\ owner[w] = s

Unsubmitted == {r \in Request : state[r] = "absent"}

(* submit() and admit(): a rejected submission leaves nothing behind. *)
Submit(r, t, w, s) ==
    /\ r \in Unsubmitted
    /\ \A q \in Unsubmitted : r <= q
    /\ Admissible(t, w, s)
    /\ Quiet
    /\ state' = [state EXCEPT ![r] = "queued"]
    /\ tool' = [tool EXCEPT ![r] = t]
    /\ place' = [place EXCEPT ![r] = w]
    /\ requester' = [requester EXCEPT ![r] = s]
    /\ authority' = [authority EXCEPT ![r] = s]
    /\ previous' = [previous EXCEPT ![r] = IF t = "takeover" THEN owner[w] ELSE NoSession]
    /\ acceptedOwner' =
          [acceptedOwner EXCEPT ![r] = IF w = NoWorkspace THEN 0 ELSE ownerEpoch[w]]
    /\ acceptedControl' =
          [acceptedControl EXCEPT ![r] = IF w = NoWorkspace THEN 0 ELSE controlEpoch[w]]
    /\ UNCHANGED <<pause, acknowledgement, recordedControl, attempt, control,
                   workerVars, workspaceVars, causes, archived, connected,
                   outages>>

(* The tickets fenceTerminationQueue() fails for the termination r: open   *)
(* ordinary work of the workspace without an open attempt and a worker.    *)
FencedBy(r) ==
    {q \in Request :
        /\ tool[q] \in Ordinary
        /\ place[q] = place[r]
        /\ Open(q)
        /\ attempt[q] # "open"
        /\ stage[q] = "none"}

(* Mutant: one endpoint control beside another. *)
RefusedIfTakenOver(r) ==
    /\ tool[r] \in EndpointTool
    /\ \E w \in Workspace : Active(w) /\ owner[w] # requester[r]

(* activateControl() refuses an endpoint control beside another one, or    *)
(* when a workspace of the endpoint has changed hands.                     *)
Refused(r) ==
    /\ tool[r] \in EndpointTool
    /\ \/ EndpointControl # {}
       \/ \E w \in Workspace : Active(w) /\ owner[w] # requester[r]

(* confirmAcknowledgement() of a delivered response. *)
Acknowledge(r) ==
    /\ state[r] = "queued"
    /\ Quiet
    /\ acknowledgement[r] = "pending"
    /\ ~Refused(r)
    /\ acknowledgement' = [acknowledgement EXCEPT ![r] = "delivered"]
    /\ LET fenced == IF tool[r] = "termination" THEN FencedBy(r) ELSE {} IN
       /\ state' = [q \in Request |-> IF q \in fenced THEN "failed" ELSE state[q]]
       /\ pause' = [q \in Request |-> IF q \in fenced THEN "none" ELSE pause[q]]
    /\ control' = IF tool[r] \in Control THEN control \cup {r} ELSE control
    /\ UNCHANGED <<ticketVars, authorityVars, epochVars, attempt, workerVars,
                   workspaceVars, causes, archived, connected, outages>>

AcknowledgeRefused(r) ==
    /\ state[r] = "queued"
    /\ Quiet
    /\ acknowledgement[r] = "pending"
    /\ Refused(r)
    /\ acknowledgement' = [acknowledgement EXCEPT ![r] = "delivered"]
    /\ End({r}, "failed")
    /\ UNCHANGED <<ticketVars, authorityVars, epochVars, attempt, workerVars,
                   workspaceVars, causes, archived, connected, outages>>

(* runWorker(): the claimed ticket needs the extension, and it is not      *)
(* there.                                                                  *)
WaitForExtension(r) ==
    /\ tool[r] \in NeedsExtension
    /\ Ready(r)
    /\ ~connected
    /\ PauseTicket(r, "extension_disconnected")
    /\ UNCHANGED <<acknowledgement, ticketVars, authorityVars, epochVars,
                   attempt, control, workerVars, workspaceVars, causes,
                   archived, connected, outages>>

-----------------------------------------------------------------------------
(* Ordinary work.                                                          *)

(* The condition executeCdp() pauses a command with, if it does: a kill or *)
(* stop being carried out, then the causes recorded on the workspace.      *)
Fence(w) ==
    IF Killing THEN "endpoint_killed"
    ELSE IF Controlled(w, "stop") THEN "manual_workspace_stop"
    ELSE IF Controlled(w, "termination") THEN "terminating"
    ELSE IF "endpoint_killed" \in causes[w] THEN "endpoint_killed"
    ELSE IF "manual_workspace_stop" \in causes[w] THEN "manual_workspace_stop"
    ELSE "none"

(* executeCdp() up to its first await: the attachment, if the tab has none *)
(* on this connection, or the command itself.                              *)
RunCommand(r) ==
    /\ tool[r] = "command"
    /\ Ready(r)
    /\ connected
    /\ Fence(place[r]) = "none"
    /\ \/ Await(r, "attaching") /\ UNCHANGED attempt
       \/ Await(r, "executing") /\ attempt' = [attempt EXCEPT ![r] = "open"]
    /\ UNCHANGED <<pause, acknowledgement, ticketVars, authorityVars,
                   epochVars, control, copiedControl, workspaceVars, causes,
                   archived, connected, outages>>

PauseCommand(r) ==
    /\ tool[r] = "command"
    /\ Ready(r)
    /\ connected
    /\ Fence(place[r]) \in {"endpoint_killed", "manual_workspace_stop"}
    /\ PauseTicket(r, Fence(place[r]))
    /\ UNCHANGED <<acknowledgement, ticketVars, authorityVars, epochVars,
                   attempt, control, workerVars, workspaceVars, causes,
                   archived, connected, outages>>

RejectCommand(r) ==
    /\ tool[r] = "command"
    /\ Ready(r)
    /\ connected
    /\ Fence(place[r]) = "terminating"
    /\ End({r}, "failed")
    /\ UNCHANGED <<acknowledgement, ticketVars, authorityVars, epochVars,
                   attempt, workerVars, workspaceVars, causes, archived,
                   connected, outages>>

(* The attachment succeeded: an open attempt is reconciled, otherwise the  *)
(* command is sent.  No fence is looked at again.                          *)
Attached(r) ==
    /\ stage[r] = "attaching"
    /\ Quiet
    /\ stage' = [stage EXCEPT ![r] = "executing"]
    /\ attempt' = [attempt EXCEPT ![r] = "open"]
    /\ UNCHANGED <<outcomeVars, acknowledgement, ticketVars, authorityVars,
                   epochVars, control, copiedControl, workspaceVars, causes,
                   archived, connected, outages>>

(* executeCreateTab(): no fence is looked at. *)
RunCreation(r) ==
    /\ tool[r] = "creation"
    /\ Ready(r)
    /\ connected
    /\ Await(r, "surveying")
    /\ UNCHANGED <<pause, acknowledgement, ticketVars, authorityVars,
                   epochVars, attempt, control, copiedControl, workspaceVars,
                   causes, archived, connected, outages>>

(* createManagedTabInWorkspace() with its inventory: createTabReliably(),  *)
(* which reconciles an open attempt before it tries again.                 *)
CreateTab(r) ==
    /\ tool[r] = "creation"
    /\ Quiet
    /\ stage[r] = "surveying"
    /\ Active(place[r])
    /\ stage' = [stage EXCEPT ![r] = "executing"]
    /\ attempt' = [attempt EXCEPT ![r] = "open"]
    /\ UNCHANGED <<outcomeVars, acknowledgement, ticketVars, authorityVars,
                   epochVars, control, copiedControl, workspaceVars, causes,
                   archived, connected, outages>>

(* The extension's answer, a result or an error that settles the effect.   *)
(* What a failed creation leaves in its attempt is read by nobody.         *)
WorkEnds(r, outcome) ==
    /\ tool[r] \in Ordinary
    /\ Quiet
    /\ stage[r] = "executing"
    /\ attempt' = [attempt EXCEPT ![r] = "completed"]
    /\ End({r}, outcome)
    /\ Return(r)
    /\ UNCHANGED <<acknowledgement, ticketVars, authorityVars, epochVars,
                   workspaceVars, causes, archived, connected, outages>>

(* What throws on a live connection: the attachment, an inventory, and a   *)
(* creation on a workspace that ended meanwhile.                           *)
WorkFails(r) ==
    /\ Quiet
    /\ \/ stage[r] = "attaching"
       \/ stage[r] = "surveying" /\ tool[r] \in {"creation", "resume", "endpoint_resume"}
    /\ End({r}, "failed")
    /\ Return(r)
    /\ UNCHANGED <<acknowledgement, ticketVars, authorityVars, epochVars,
                   attempt, workspaceVars, causes, archived, connected,
                   outages>>

(* pauseForHumanConfirmation(): a command's answer was lost, or its        *)
(* reconciliation found nothing.                                           *)
LoseResult(r) ==
    /\ tool[r] = "command"
    /\ Quiet
    /\ stage[r] = "executing"
    /\ attempt' = [attempt EXCEPT ![r] = "missing"]
    /\ PauseTicket(r, "user_confirmation_required")
    /\ Return(r)
    /\ UNCHANGED <<acknowledgement, ticketVars, authorityVars, epochVars,
                   control, workspaceVars, causes, archived, connected,
                   outages>>

(* A resolve_browser_request, here only as what it does to its target. *)
HumanResolves(r, outcome) ==
    /\ state[r] = "running"
    /\ Quiet
    /\ pause[r] = "user_confirmation_required"
    /\ End({r}, outcome)
    /\ UNCHANGED <<acknowledgement, ticketVars, authorityVars, epochVars,
                   attempt, workerVars, workspaceVars, causes, archived,
                   connected, outages>>

-----------------------------------------------------------------------------
(* Takeover, stop and kill: their workers do not await anything.           *)

(* takeOverWorkspace()'s compare-and-write finds the row it expects. *)
TakeoverWins(r) ==
    /\ Active(place[r])
    /\ owner[place[r]] = previous[r]
    /\ ownerEpoch[place[r]] = acceptedOwner[r]
    /\ controlEpoch[place[r]] = acceptedControl[r]

(* authority_scope = 'owner' *)
OwnerScoped(q) == tool[q] \notin EndpointTool \cup {"takeover", "none"}

(* Mutant: what was not delivered stays with its requester. *)
MovedIfDelivered(r) ==
    {q \in Request : place[q] = place[r] /\ OwnerScoped(q) /\ acknowledgement[q] = "delivered"}

(* The tickets whose authority goes to the winner of the takeover r.       *)
Moved(r) == {q \in Request : place[q] = place[r] /\ OwnerScoped(q)}

(* executeTakeover(): ownership and the authority over every ticket of the *)
(* workspace change hands in one transaction.                              *)
TakeOver(r) ==
    /\ tool[r] = "takeover"
    /\ Ready(r)
    /\ TakeoverWins(r)
    /\ owner' = [owner EXCEPT ![place[r]] = requester[r]]
    /\ ownerEpoch' = [ownerEpoch EXCEPT ![place[r]] = @ + 1]
    /\ controlEpoch' = [controlEpoch EXCEPT ![place[r]] = @ + 1]
    /\ authority' = [q \in Request |-> IF q \in Moved(r) THEN requester[r] ELSE authority[q]]
    /\ acceptedOwner' = [q \in Request |->
                            IF q \in Moved(r) THEN ownerEpoch[place[r]] + 1
                                                  ELSE acceptedOwner[q]]
    /\ End({r}, "succeeded")
    /\ UNCHANGED <<acknowledgement, ticketVars, epochVars, attempt,
                   workerVars, lifecycle, causes, archived, connected,
                   outages>>

TakeoverLoses(r) ==
    /\ tool[r] = "takeover"
    /\ Ready(r)
    /\ ~TakeoverWins(r)
    /\ End({r}, "failed")
    /\ UNCHANGED <<acknowledgement, ticketVars, authorityVars, epochVars,
                   attempt, workerVars, workspaceVars, causes, archived,
                   connected, outages>>

(* executeWorkspaceStop() *)
StopWorkspace(r) ==
    /\ tool[r] = "stop"
    /\ Ready(r)
    /\ causes' = [causes EXCEPT ![place[r]] = @ \cup {"manual_workspace_stop"}]
    /\ End({r}, "succeeded")
    /\ UNCHANGED <<acknowledgement, ticketVars, authorityVars, epochVars,
                   attempt, workerVars, workspaceVars, archived, connected,
                   outages>>

(* executeEndpointKill() *)
KillEndpoint(r) ==
    /\ tool[r] = "kill"
    /\ Ready(r)
    /\ causes' = [w \in Workspace |->
                     IF Active(w) THEN causes[w] \cup {"endpoint_killed"} ELSE causes[w]]
    /\ End({r}, "succeeded")
    /\ UNCHANGED <<acknowledgement, ticketVars, authorityVars, epochVars,
                   attempt, workerVars, workspaceVars, archived, connected,
                   outages>>

-----------------------------------------------------------------------------
(* Workspace and endpoint resume: they await one inventory.                *)

(* Mutant: the causes are those from before the resume. *)
RemainingBefore(w, cleared) ==
    IF "endpoint_killed" \in causes[w] THEN "endpoint_killed"
    ELSE IF "manual_workspace_stop" \in causes[w] THEN "manual_workspace_stop"
    ELSE "none"

(* The condition a paused ticket of w is left with once `cleared' is gone. *)
Remaining(w, cleared) ==
    IF "endpoint_killed" \in causes[w] \ {cleared} THEN "endpoint_killed"
    ELSE IF "manual_workspace_stop" \in causes[w] \ {cleared} THEN "manual_workspace_stop"
    ELSE "none"

(* The pauses after clearWorkspacePauseCause() and                         *)
(* resumeWorkspacePausedRequests() for every workspace of W.               *)
Resumed(W, cleared) ==
    [q \in Request |-> IF place[q] \in W /\ Open(q) /\ pause[q] = cleared
                       THEN Remaining(place[q], cleared) ELSE pause[q]]

Resumes(r) ==
    IF tool[r] = "resume" THEN {place[r]} ELSE {w \in Workspace : Active(w)}

CauseResumed(r) ==
    IF tool[r] = "resume" THEN "manual_workspace_stop" ELSE "endpoint_killed"

RunResume(r) ==
    /\ tool[r] \in {"resume", "endpoint_resume"}
    /\ Ready(r)
    /\ connected
    /\ Await(r, "surveying")
    /\ UNCHANGED <<pause, acknowledgement, ticketVars, authorityVars,
                   epochVars, attempt, control, copiedControl, workspaceVars,
                   causes, archived, connected, outages>>

(* executeWorkspaceResume() and executeEndpointResume() with the inventory. *)
FinishResume(r) ==
    /\ stage[r] = "surveying"
    /\ Quiet
    /\ tool[r] \in {"resume", "endpoint_resume"}
    /\ causes' = [w \in Workspace |->
                     IF w \in Resumes(r) THEN causes[w] \ {CauseResumed(r)} ELSE causes[w]]
    /\ pause' = [Resumed(Resumes(r), CauseResumed(r)) EXCEPT ![r] = "none"]
    /\ state' = [state EXCEPT ![r] = "succeeded"]
    /\ control' = control \ {r}
    /\ Return(r)
    /\ UNCHANGED <<acknowledgement, ticketVars, authorityVars, epochVars,
                   attempt, workspaceVars, archived, connected, outages>>

-----------------------------------------------------------------------------
(* Termination.                                                            *)

(* claimWorkspaceControl() matches the row. *)
ClaimsControl(r) ==
    /\ recordedControl[r] = 0
    /\ Active(place[r])
    /\ controlEpoch[place[r]] = acceptedControl[r]

(* A termination that had claimed the control still holds it. *)
HoldsControl(r) ==
    /\ recordedControl[r] # 0
    /\ controlEpoch[place[r]] = recordedControl[r]

(* executeTermination() up to its wait.  The worker's ticket object is as  *)
(* it was claimed: the epoch it records now is in the row only.            *)
RunTermination(r) ==
    /\ tool[r] = "termination"
    /\ Ready(r)
    /\ connected
    /\ \/ /\ ClaimsControl(r)
          /\ controlEpoch' = [controlEpoch EXCEPT ![place[r]] = @ + 1]
       \/ HoldsControl(r) /\ UNCHANGED controlEpoch
    /\ recordedControl' = [recordedControl EXCEPT ![r] = controlEpoch'[place[r]]]
    /\ copiedControl' = [copiedControl EXCEPT ![r] = recordedControl[r]]
    /\ LET fenced == FencedBy(r) IN
       /\ state' = [q \in Request |-> IF q \in fenced THEN "failed"
                                      ELSE IF q = r THEN "running" ELSE state[q]]
       /\ pause' = [q \in Request |-> IF q \in fenced THEN "none" ELSE pause[q]]
    /\ stage' = [stage EXCEPT ![r] = "waiting"]
    /\ UNCHANGED <<acknowledgement, ticketVars, authorityVars,
                   acceptedControl, attempt, control, owner, ownerEpoch,
                   lifecycle, causes, archived, connected, outages>>

TerminationLoses(r) ==
    /\ tool[r] = "termination"
    /\ Ready(r)
    /\ connected
    /\ ~ClaimsControl(r)
    /\ ~HoldsControl(r)
    /\ End({r}, "failed")
    /\ UNCHANGED <<acknowledgement, ticketVars, authorityVars, epochVars,
                   attempt, workerVars, workspaceVars, causes, archived,
                   connected, outages>>

(* Mutant: it waits only for what has been sent. *)
BlockersSent(r) ==
    {q \in Request :
        tool[q] \in Ordinary /\ place[q] = place[r] /\ Open(q) /\ attempt[q] = "open"}

(* Mutant: the termination is among what it waits for. *)
BlockersOfAnyTool(r) == {q \in Request : place[q] = place[r] /\ Open(q)}

(* What waitForWorkspaceReconciliation() waits for. *)
Blockers(r) ==
    {q \in Request : tool[q] \in Ordinary /\ place[q] = place[r] /\ Open(q)}

WaitOver(r) ==
    /\ stage[r] = "waiting"
    /\ Quiet
    /\ pause[r] = "none"
    /\ Blockers(r) = {}
    /\ stage' = [stage EXCEPT ![r] = "surveying"]
    /\ UNCHANGED <<outcomeVars, acknowledgement, ticketVars, authorityVars,
                   epochVars, attempt, control, copiedControl, workspaceVars,
                   causes, archived, connected, outages>>

(* The poll finds its own ticket paused and gives up. *)
WaitInterrupted(r) ==
    /\ stage[r] = "waiting"
    /\ Quiet
    /\ pause[r] # "none"
    /\ Return(r)
    /\ UNCHANGED <<outcomeVars, acknowledgement, ticketVars, authorityVars,
                   epochVars, attempt, control, workspaceVars, causes,
                   archived, connected, outages>>

(* Mutant: the control epoch is not compared. *)
StillControlsIfActive(r) == Active(place[r])

(* finishWorkspaceTermination() matches the row. *)
StillControls(r) == Active(place[r]) /\ controlEpoch[place[r]] = recordedControl[r]

(* The archive title is confirmed: the workspace ends, or the race is lost. *)
FinishTermination(r) ==
    /\ IF StillControls(r)
       THEN /\ lifecycle' = [lifecycle EXCEPT ![place[r]] = "ended"]
            /\ End({r}, "succeeded")
       ELSE /\ UNCHANGED lifecycle
            /\ End({r}, "failed")
    /\ Return(r)
    /\ UNCHANGED <<owner, ownerEpoch, controlEpoch>>

(* The inventory before or after the rename shows the archive title. *)
ArchiveConfirmed(r) ==
    /\ tool[r] = "termination"
    /\ Quiet
    /\ stage[r] \in {"surveying", "confirming"}
    /\ archived[place[r]]
    /\ FinishTermination(r)
    /\ UNCHANGED <<acknowledgement, ticketVars, authorityVars, epochVars,
                   attempt, causes, archived, connected, outages>>

(* RENAME_GROUP is sent. *)
RequestRename(r) ==
    /\ tool[r] = "termination"
    /\ Quiet
    /\ stage[r] = "surveying"
    /\ ~archived[place[r]]
    /\ stage' = [stage EXCEPT ![r] = "renaming"]
    /\ UNCHANGED <<outcomeVars, acknowledgement, ticketVars, authorityVars,
                   epochVars, attempt, control, copiedControl, workspaceVars,
                   causes, archived, connected, outages>>

RenameSucceeds(r) ==
    /\ stage[r] = "renaming"
    /\ Quiet
    /\ archived' = [archived EXCEPT ![place[r]] = TRUE]
    /\ stage' = [stage EXCEPT ![r] = "confirming"]
    /\ UNCHANGED <<outcomeVars, acknowledgement, ticketVars, authorityVars,
                   epochVars, attempt, control, copiedControl, workspaceVars,
                   causes, connected, outages>>

(* failTermination(): an inventory, a locator or the rename failed on a    *)
(* live connection; a rename whose answer timed out may have happened.     *)
FailTermination(r, renamed) ==
    /\ tool[r] = "termination"
    /\ Quiet
    /\ stage[r] \in {"surveying", "renaming", "confirming"}
    /\ renamed => stage[r] = "renaming"
    /\ archived' = [archived EXCEPT ![place[r]] = @ \/ renamed]
    /\ causes' = [causes EXCEPT ![place[r]] =
                     IF StillControls(r) THEN @ \cup {"termination_failed"} ELSE @]
    /\ End({r}, "failed")
    /\ Return(r)
    /\ UNCHANGED <<acknowledgement, ticketVars, authorityVars, epochVars,
                   attempt, workspaceVars, connected, outages>>

-----------------------------------------------------------------------------
(* The endpoint goes away and comes back; the broker restarts.             *)

(* What a worker awaits of the extension. *)
AwaitsExtension(r) == stage[r] \notin {"none", "waiting"}

(* closeEndpointConnection(): every running ticket is paused, and whatever *)
(* was awaited is rejected.  executeTermination() then pauses once more,   *)
(* with the checkpoint of its ticket object.  Renames of the groups of A   *)
(* had happened, or still will.                                            *)
Disconnect(A) ==
    /\ connected
    /\ Quiet
    /\ outages < MaxOutages
    /\ A \subseteq {place[r] : r \in {q \in Request : stage[q] = "renaming"}}
    /\ outages' = outages + 1
    /\ connected' = FALSE
    /\ pause' = [r \in Request |->
                    IF state[r] = "running" THEN "extension_disconnected" ELSE pause[r]]
    /\ recordedControl' = [r \in Request |->
                              IF tool[r] = "termination" /\ AwaitsExtension(r)
                              THEN copiedControl[r] ELSE recordedControl[r]]
    /\ stage' = [r \in Request |-> IF AwaitsExtension(r) THEN "none" ELSE stage[r]]
    /\ copiedControl' = [r \in Request |-> IF AwaitsExtension(r) THEN 0 ELSE copiedControl[r]]
    /\ archived' = [w \in Workspace |-> archived[w] \/ w \in A]
    /\ UNCHANGED <<state, acknowledgement, ticketVars, authorityVars,
                   acceptedControl, attempt, control, workspaceVars, causes>>

(* READY and the first inventory: resumeEndpointPausedRequests(). *)
Reconnect ==
    /\ ~connected
    /\ Quiet
    /\ connected' = TRUE
    /\ pause' = [r \in Request |->
                    IF pause[r] # "extension_disconnected" THEN pause[r]
                    ELSE IF place[r] = NoWorkspace THEN "none"
                    ELSE Remaining(place[r], "extension_disconnected")]
    /\ UNCHANGED <<state, acknowledgement, ticketVars, authorityVars,
                   epochVars, attempt, control, workerVars, workspaceVars,
                   causes, archived, outages>>

(* A crash and recover(), which replaces the checkpoints of the running    *)
(* tickets.  Those of C were claimed when the process died.                *)
Restart(C) ==
    /\ outages < MaxOutages
    /\ C \subseteq {r \in Request : Ready(r)}
    /\ outages' = outages + 1
    /\ connected' = FALSE
    /\ LET recovered == {r \in Request : state[r] = "running" /\ pause[r] = "none"} \cup C IN
       /\ state' = [r \in Request |-> IF r \in C THEN "running" ELSE state[r]]
       /\ pause' = [r \in Request |->
                       IF r \in recovered THEN "extension_disconnected" ELSE pause[r]]
       /\ acceptedControl' = [r \in Request |->
                                 IF r \in recovered THEN 0 ELSE acceptedControl[r]]
       /\ recordedControl' = [r \in Request |->
                                 IF r \in recovered THEN 0 ELSE recordedControl[r]]
    /\ acknowledgement' = [r \in Request |->
                              IF state[r] = "queued" /\ acknowledgement[r] = "pending"
                              THEN "lost" ELSE acknowledgement[r]]
    /\ stage' = [r \in Request |-> "none"]
    /\ copiedControl' = [r \in Request |-> 0]
    /\ UNCHANGED <<ticketVars, authorityVars, attempt, control, workspaceVars,
                   causes, archived>>

-----------------------------------------------------------------------------
Start(r) ==
    \/ WaitForExtension(r)
    \/ RunCommand(r)
    \/ PauseCommand(r)
    \/ RejectCommand(r)
    \/ RunCreation(r)
    \/ TakeOver(r)
    \/ TakeoverLoses(r)
    \/ StopWorkspace(r)
    \/ KillEndpoint(r)
    \/ RunResume(r)
    \/ RunTermination(r)
    \/ TerminationLoses(r)

Progress(r) ==
    \/ Attached(r)
    \/ CreateTab(r)
    \/ \E outcome \in {"succeeded", "failed"} : WorkEnds(r, outcome)
    \/ WorkFails(r)
    \/ LoseResult(r)
    \/ FinishResume(r)
    \/ WaitOver(r)
    \/ WaitInterrupted(r)
    \/ ArchiveConfirmed(r)
    \/ RequestRename(r)
    \/ RenameSucceeds(r)
    \/ \E renamed \in BOOLEAN : FailTermination(r, renamed)

Next ==
    \/ \E r \in Unsubmitted, t \in Tools, w \in Workspace \cup {NoWorkspace}, s \in Session :
          Submit(r, t, w, s)
    \/ \E r \in Request : Acknowledge(r) \/ AcknowledgeRefused(r)
    \/ \E r \in Request : Start(r) \/ Progress(r)
    \/ \E r \in Request, outcome \in {"succeeded", "failed"} : HumanResolves(r, outcome)
    \/ \E A \in SUBSET Workspace : Disconnect(A)
    \/ Reconnect
    \/ \E C \in SUBSET Request : Restart(C)

Spec == Init /\ [][Next]_vars

-----------------------------------------------------------------------------
(* Fairness: delivery is reported for every response that was handed over, *)
(* pump() starts what it can, awaited calls settle or time out, the        *)
(* extension's reconnect timer runs on.  The first three exclude each other *)
(* for a ticket, so that one weak fairness is that of each.  Nobody         *)
(* promises a human's answer, another submission or an outage.             *)
GoesOn(r) == Acknowledge(r) \/ AcknowledgeRefused(r) \/ Start(r) \/ Progress(r)

Fairness ==
    /\ \A r \in Request : WF_vars(GoesOn(r))
    /\ WF_vars(Reconnect)

FairSpec == Spec /\ Fairness

-----------------------------------------------------------------------------
(* Properties.                                                             *)

(* Every variable keeps the values its column or field may have.           *)
TypeOK ==
    /\ state \in [Request -> OpenState \cup {"absent", "succeeded", "failed"}]
    /\ acknowledgement \in [Request -> {"pending", "delivered", "lost"}]
    /\ pause \in [Request -> PauseCondition]
    /\ tool \in [Request -> Ordinary \cup Control \cup {"none"}]
    /\ place \in [Request -> Workspace \cup {NoWorkspace}]
    /\ requester \in [Request -> Session \cup {NoSession}]
    /\ previous \in [Request -> Session \cup {NoSession}]
    /\ authority \in [Request -> Session \cup {NoSession}]
    /\ acceptedOwner \in [Request -> Nat]
    /\ acceptedControl \in [Request -> Nat]
    /\ recordedControl \in [Request -> Nat]
    /\ attempt \in [Request -> {"none", "open", "completed", "missing"}]
    /\ control \subseteq Request
    /\ stage \in [Request -> Stage]
    /\ copiedControl \in [Request -> Nat]
    /\ owner \in [Workspace -> Session]
    /\ ownerEpoch \in [Workspace -> Nat]
    /\ controlEpoch \in [Workspace -> Nat]
    /\ lifecycle \in [Workspace -> {"active", "ended"}]
    /\ causes \in [Workspace -> SUBSET Cause]
    /\ archived \in [Workspace -> BOOLEAN]
    /\ connected \in BOOLEAN
    /\ outages \in Nat

(* Every ticket governed by ownership is under the authority of the owner  *)
(* of its workspace and of that owner's epoch, however many takeovers and  *)
(* submissions race (takeOverWorkspace(), canReadTicket()).                *)
AuthorityFollowsOwner ==
    \A r \in Request :
        OwnerScoped(r) =>
            /\ authority[r] = owner[place[r]]
            /\ acceptedOwner[r] = ownerEpoch[place[r]]

(* A workspace has ended only through a termination its owner asked for:   *)
(* no takeover came between that termination's admission and its archive   *)
(* confirmation, through outages and restarts (claimWorkspaceControl(),    *)
(* finishWorkspaceTermination(), recover()).                               *)
EndedByItsOwner ==
    \A w \in Workspace :
        ~Active(w) =>
            \E r \in Request :
                /\ tool[r] = "termination"
                /\ place[r] = w
                /\ state[r] = "succeeded"
                /\ requester[r] = owner[w]

(* A ticket paused by a stop or kill finds the cause still recorded on its *)
(* workspace, or the control that is about to record it active, over       *)
(* resumes of either scope, outages and crashes: a later resume will look  *)
(* for it.  A resume or termination that a reconnect paused has its cause  *)
(* too, and may yet wait for ever                                          *)
(* (resumeWorkspacePausedRequests(), resumeEndpointPausedRequests()).      *)
PausedWorkHasCause ==
    \A r \in Request :
        place[r] \in Workspace /\ Active(place[r]) =>
            /\ pause[r] = "manual_workspace_stop" =>
                  pause[r] \in causes[place[r]] \/ Controlled(place[r], "stop")
            /\ pause[r] = "endpoint_killed" =>
                  pause[r] \in causes[place[r]] \/ Killing

(* At most one endpoint control is carried out at a time                   *)
(* (activateControl()).                                                    *)
EndpointControlsExclusive == \A q, r \in EndpointControl : q = r

(* Beyond its wait a termination has no command of the workspace under     *)
(* way: what was dispatched has been reconciled and nothing was dispatched *)
(* since (fenceTerminationQueue(), waitForWorkspaceReconciliation(),       *)
(* executeCdp()).                                                          *)
ArchivingIsQuiet ==
    \A r, q \in Request :
        /\ tool[r] = "termination"
        /\ stage[r] \in {"surveying", "renaming", "confirming"}
        /\ tool[q] = "command"
        /\ place[q] = place[r]
        => stage[q] = "none"

Delivered(r) == tool[r] = "termination" /\ acknowledgement[r] = "delivered"

(* A command of the workspace waits for a human. *)
HumanAsked(w) == \E q \in Request : place[q] = w /\ pause[q] = "user_confirmation_required"

(* After an outage the termination itself, or work it waits for, is paused  *)
(* for a stop or kill: resumeEndpointPausedRequests() gives every ticket it *)
(* finds the cause of its workspace, and exempts no control.                *)
KeptByPause(r) ==
    outages > 0 /\ \E q \in {r} \cup Blockers(r) :
        pause[q] \in {"manual_workspace_stop", "endpoint_killed"}

(* A delivered termination ends, unless a command of its workspace waits    *)
(* for a human, or a stop or kill keeps it after an outage until somebody   *)
(* resumes: its wait and the work it waits for are not stuck on each other, *)
(* and without an outage no stop or kill keeps it                           *)
(* (waitForWorkspaceReconciliation(), fenceTerminationQueue(),              *)
(* executeCdp(), resumeEndpointPausedRequests()).                           *)
TerminationsEnd ==
    []<>(\A r \in Request :
            Delivered(r) => ~Open(r) \/ HumanAsked(place[r]) \/ KeptByPause(r))

(* System-Architecture.md: takeover and termination "remain eligible while  *)
(* ordinary automation is paused", so that a stop or kill keeps none.  Not  *)
(* so once a reconnect has paused it (resumeEndpointPausedRequests()).      *)
PausesKeepNoTermination ==
    []<>(\A r \in Request : Delivered(r) => ~Open(r) \/ HumanAsked(place[r]))

(* A stopped or killed workspace sees no new browser work: nothing is sent  *)
(* for it while such a cause is recorded (executeCdp(), executeCreateTab()). *)
PauseBlocksDispatch ==
    [][\A r \in Request :
          attempt[r] # "open" /\ attempt'[r] = "open" =>
              causes[place[r]] \cap {"manual_workspace_stop", "endpoint_killed"} = {}]_vars

=============================================================================

---------------------------- MODULE RequestStore ----------------------------
(***************************************************************************)
(* The durable request tickets and tab lanes of the broker                 *)
(* (storage/sqlite/request-repository.ts), written by the parts of         *)
(* core/octopus/octopus-broker.ts that schedule them: acknowledgement      *)
(* gating, the pump and its workers, endpoint loss and return, workspace   *)
(* stop, the termination fence, human resolution, and broker restart.      *)
(*                                                                         *)
(* The tickets are those of one workspace on one endpoint.  A ticket with  *)
(* a lane is a send_cdp_command for that tab; one with a target is a       *)
(* resolve_browser_request; the others are create_browser_tab.             *)
(*                                                                         *)
(* One action is one synchronous stretch of the broker: JavaScript runs it *)
(* to the next await without interruption, and every write to SQLite in it *)
(* is synchronous.  A crash between two transactions of one stretch is     *)
(* covered where it leaves a state that Restart would not otherwise meet.  *)
(***************************************************************************)
EXTENDS Integers

CONSTANTS
    Request,        \* the tickets that may be submitted
    Lane,           \* the managed tabs
    NoLane,         \* tab_ref IS NULL
    NoRequest,      \* a NULL request reference
    LaneOf,         \* (workspace_ref, tab_ref) of every ticket
    Target,         \* resolution_of_request_ref of every ticket
    RestartFailed,  \* the resolvers whose decision is restart_failed
    Worker,         \* process identities: worker_<pid>
    MaxFaults,      \* bound: outages, detaches, stops and terminations
    MaxRestarts     \* bound: broker restarts

ASSUME RequestAssumption ==
    /\ NoRequest \notin Request
    /\ NoLane \notin Lane
    /\ LaneOf \in [Request -> Lane \cup {NoLane}]
    /\ Target \in [Request -> Request \cup {NoRequest}]
    /\ \A r \in Request : Target[r] # NoRequest =>
          /\ LaneOf[r] = NoLane
          /\ LaneOf[Target[r]] # NoLane
    /\ RestartFailed \subseteq {r \in Request : Target[r] # NoRequest}
    /\ Worker \subseteq Nat \ {0}
    /\ Worker # {}
    /\ MaxFaults \in Nat
    /\ MaxRestarts \in Nat

VARIABLES
    state,          \* request_tickets.state; "absent": no row
    acknowledgement, \* acknowledgement_state
    visible,        \* publicly_visible
    position,       \* lane_position, 0 for NULL
    phase,          \* phase, as far as it tells how a ticket ended
    pause,          \* pause_condition
    generation,     \* claim_generation
    claimedBy,      \* claimed_by, 0 for NULL
    leased,         \* claim_expires_at lies in the future
    attempt,        \* state of the newest row of request_attempts
    nextPosition,   \* tab_lanes.next_position
    head,           \* tab_lanes.head_request_ref
    worker,         \* identity of the running broker process
    held,           \* runningWorkers: the claim generation its worker holds, or 0
    handoff,        \* tickets whose MCP response this process is still writing
    connected,      \* the endpoint is connected and its inventory reconciled
    stopped,        \* manual_workspace_stop is among the workspace's pause causes
    terminating,    \* a termination control is active on the workspace
    faults,         \* how many faults happened, against MaxFaults
    restarts        \* how many restarts happened, against MaxRestarts

claimVars == <<generation, claimedBy, leased>>
laneVars == <<nextPosition, head>>
fenceVars == <<connected, stopped, terminating>>
boundVars == <<faults, restarts>>
vars == <<state, acknowledgement, visible, position, phase, pause, claimVars,
          attempt, laneVars, worker, held, handoff, fenceVars, boundVars>>

OpenState == {"queued", "running"}
Terminal == {"succeeded", "failed"}
RequestState == {"absent"} \cup OpenState \cup Terminal
Phase == {"open", "done", "acknowledgement_failed", "human_resolved", "resolved",
          "termination_fenced_before_dispatch", "restart_failed_follower_invalidated"}
PauseCondition == {"none", "extension_disconnected", "manual_workspace_stop",
                   "user_confirmation_required"}
AttemptState == {"none", "pending", "completed", "missing"}

Init ==
    /\ state = [r \in Request |-> "absent"]
    /\ acknowledgement = [r \in Request |-> "pending"]
    /\ visible = [r \in Request |-> TRUE]
    /\ position = [r \in Request |-> 0]
    /\ phase = [r \in Request |-> "open"]
    /\ pause = [r \in Request |-> "none"]
    /\ generation = [r \in Request |-> 0]
    /\ claimedBy = [r \in Request |-> 0]
    /\ leased = [r \in Request |-> FALSE]
    /\ attempt = [r \in Request |-> "none"]
    /\ nextPosition = [l \in Lane |-> 1]
    /\ head = [l \in Lane |-> NoRequest]
    /\ worker \in Worker
    /\ held = [r \in Request |-> 0]
    /\ handoff = {}
    /\ connected = TRUE
    /\ stopped = FALSE
    /\ terminating = FALSE
    /\ faults = 0
    /\ restarts = 0

-----------------------------------------------------------------------------
(* What the actions are built from.                                        *)

HasLane(r) == LaneOf[r] # NoLane
IsResolver(r) == Target[r] # NoRequest
Open(r) == state[r] \in OpenState

(* needsExtension(). *)
NeedsExtension(r) == IsResolver(r) => r \in RestartFailed

(* The tickets advanceLane() would choose from once those of S are gone. *)
Followers(r, S) ==
    {q \in Request \ S :
        /\ LaneOf[q] = LaneOf[r]
        /\ position[q] > position[r]
        /\ Open(q)
        /\ visible[q]}

(* advanceLane(), called for the tickets of S one after the other: a lane  *)
(* moves only if its head is among them.                                   *)
AdvancedHead(S) ==
    [l \in Lane |->
        IF head[l] \notin S THEN head[l]
        ELSE LET F == Followers(head[l], S)
             IN  IF F = {} THEN NoRequest
                 ELSE CHOOSE q \in F : \A o \in F : position[q] <= position[o]]

(* Mutant: the lane is not advanced. *)
TerminalizeWithoutAdvance(S, outcome, ending) ==
    /\ state' = [r \in Request |-> IF r \in S THEN outcome[r] ELSE state[r]]
    /\ phase' = [r \in Request |-> IF r \in S THEN ending[r] ELSE phase[r]]
    /\ pause' = [r \in Request |-> IF r \in S THEN "none" ELSE pause[r]]
    /\ claimedBy' = [r \in Request |-> IF r \in S THEN 0 ELSE claimedBy[r]]
    /\ leased' = [r \in Request |-> leased[r] /\ r \notin S]
    /\ UNCHANGED laneVars

(* terminalizeRequest() of the tickets of S, all of them open. *)
Terminalize(S, outcome, ending) ==
    /\ state' = [r \in Request |-> IF r \in S THEN outcome[r] ELSE state[r]]
    /\ phase' = [r \in Request |-> IF r \in S THEN ending[r] ELSE phase[r]]
    /\ pause' = [r \in Request |-> IF r \in S THEN "none" ELSE pause[r]]
    /\ claimedBy' = [r \in Request |-> IF r \in S THEN 0 ELSE claimedBy[r]]
    /\ leased' = [r \in Request |-> leased[r] /\ r \notin S]
    /\ head' = AdvancedHead(S)
    /\ UNCHANGED nextPosition

(* The same outcome and phase for every ticket. *)
All(value) == [r \in Request |-> value]

(* The tickets a worker-side write reaches: recordCheckpoint() and         *)
(* terminalizeRequest() match the row only if it is open and its claim     *)
(* generation is the one the worker was given.                             *)
OwnedBy(r) == {q \in {r} : Open(q) /\ generation[q] = held[q]}

Release(r) == held' = [held EXCEPT ![r] = 0]
-----------------------------------------------------------------------------
(* Admission and acknowledgement.                                          *)

(* Mutant: a new ticket becomes the head of a lane that has one. *)
AcceptRequestAsHead(r) ==
    /\ state[r] = "absent"
    /\ IsResolver(r) =>
          state[Target[r]] = "running" /\ pause[Target[r]] = "user_confirmation_required"
    /\ state' = [state EXCEPT ![r] = "queued"]
    /\ handoff' = handoff \cup {r}
    /\ position' = [position EXCEPT ![r] = IF HasLane(r) THEN nextPosition[LaneOf[r]] ELSE 0]
    /\ nextPosition' = [l \in Lane |-> IF l = LaneOf[r] THEN nextPosition[l] + 1 ELSE nextPosition[l]]
    /\ head' = [l \in Lane |-> IF l = LaneOf[r] THEN r ELSE head[l]]
    /\ UNCHANGED <<acknowledgement, visible, phase, pause, claimVars, attempt, worker, held,
                   fenceVars, boundVars>>

(* submit() / admit() / acceptRequest(): the row, its lane position and    *)
(* the lane's head are written in one transaction.  A resolver is admitted *)
(* only while its target waits for the human.                              *)
AcceptRequest(r) ==
    /\ state[r] = "absent"
    /\ IsResolver(r) =>
          state[Target[r]] = "running" /\ pause[Target[r]] = "user_confirmation_required"
    /\ state' = [state EXCEPT ![r] = "queued"]
    /\ handoff' = handoff \cup {r}
    /\ position' = [position EXCEPT ![r] = IF HasLane(r) THEN nextPosition[LaneOf[r]] ELSE 0]
    /\ nextPosition' = [l \in Lane |-> IF l = LaneOf[r] THEN nextPosition[l] + 1 ELSE nextPosition[l]]
    /\ head' = [l \in Lane |-> IF l = LaneOf[r] /\ head[l] = NoRequest THEN r ELSE head[l]]
    /\ UNCHANGED <<acknowledgement, visible, phase, pause, claimVars, attempt, worker, held,
                   fenceVars, boundVars>>

(* confirmAcknowledgement(): the response was handed to the transport, or  *)
(* it was not.  Both repository calls match only a queued row whose        *)
(* outcome is still pending.                                               *)
AcknowledgementDelivered(r) ==
    /\ r \in handoff
    /\ handoff' = handoff \ {r}
    /\ acknowledgement' =
          [acknowledgement EXCEPT ![r] = IF state[r] = "queued" THEN "delivered" ELSE @]
    /\ UNCHANGED <<state, visible, position, phase, pause, claimVars, attempt, laneVars,
                   worker, held, fenceVars, boundVars>>

(* Mutant: a ticket whose handoff failed stays the head of its lane. *)
AcknowledgementFailedAsHead(r) ==
    LET S == {q \in {r} : state[q] = "queued"} IN
    /\ r \in handoff
    /\ handoff' = handoff \ {r}
    /\ acknowledgement' = [q \in Request |-> IF q \in S THEN "failed" ELSE acknowledgement[q]]
    /\ visible' = [q \in Request |-> visible[q] /\ q \notin S]
    /\ state' = [q \in Request |-> IF q \in S THEN "failed" ELSE state[q]]
    /\ phase' = [q \in Request |-> IF q \in S THEN "acknowledgement_failed" ELSE phase[q]]
    /\ UNCHANGED <<position, pause, claimVars, attempt, laneVars, worker, held, fenceVars,
                   boundVars>>

AcknowledgementFailed(r) ==
    LET S == {q \in {r} : state[q] = "queued"} IN
    /\ r \in handoff
    /\ handoff' = handoff \ {r}
    /\ acknowledgement' = [q \in Request |-> IF q \in S THEN "failed" ELSE acknowledgement[q]]
    /\ visible' = [q \in Request |-> visible[q] /\ q \notin S]
    /\ state' = [q \in Request |-> IF q \in S THEN "failed" ELSE state[q]]
    /\ phase' = [q \in Request |-> IF q \in S THEN "acknowledgement_failed" ELSE phase[q]]
    /\ head' = AdvancedHead(S)
    /\ UNCHANGED <<position, pause, claimVars, attempt, nextPosition, worker, held,
                   fenceVars, boundVars>>

-----------------------------------------------------------------------------
(* The pump, claims and workers.                                           *)

(* pump(): the tickets it starts a worker for.                             *)
PumpSelects(r) ==
    /\ Open(r)
    /\ visible[r]
    /\ acknowledgement[r] = "delivered"
    /\ pause[r] = "none"
    /\ held[r] = 0
    /\ HasLane(r) => head[LaneOf[r]] = r

(* claimRequest(): what it checks again inside its transaction.            *)
ClaimGranted(r) ==
    /\ acknowledgement[r] = "delivered"
    /\ visible[r]
    /\ Open(r)
    /\ HasLane(r) => head[LaneOf[r]] = r
    /\ claimedBy[r] = 0 \/ ~leased[r] \/ claimedBy[r] = worker

(* Mutant: neither the pump nor the claim asks for the acknowledgement. *)
ClaimableUndelivered(r) ==
    /\ Open(r) /\ visible[r] /\ pause[r] = "none" /\ held[r] = 0
    /\ HasLane(r) => head[LaneOf[r]] = r
    /\ claimedBy[r] = 0 \/ ~leased[r] \/ claimedBy[r] = worker

(* Mutant: neither the pump nor the claim looks at the head of the lane. *)
ClaimableAnywhere(r) ==
    /\ Open(r) /\ visible[r] /\ pause[r] = "none" /\ held[r] = 0
    /\ acknowledgement[r] = "delivered"
    /\ claimedBy[r] = 0 \/ ~leased[r] \/ claimedBy[r] = worker

Claimable(r) == PumpSelects(r) /\ ClaimGranted(r)

Claim(r) ==
    /\ state' = [state EXCEPT ![r] = "running"]
    /\ generation' = [generation EXCEPT ![r] = @ + 1]
    /\ claimedBy' = [claimedBy EXCEPT ![r] = worker]
    /\ leased' = [leased EXCEPT ![r] = TRUE]

(* What the first synchronous stretch of the worker finds.                 *)
OfflineFor(r) == NeedsExtension(r) /\ ~connected
TerminationFences(r) == HasLane(r) /\ terminating
StopFences(r) == stopped /\ (HasLane(r) \/ r \in RestartFailed)

(* runWorker() up to its first await: the claim is kept and work begins.   *)
BeginWork(r) ==
    /\ Claimable(r)
    /\ ~OfflineFor(r) /\ ~TerminationFences(r) /\ ~StopFences(r)
    /\ Claim(r)
    /\ held' = [held EXCEPT ![r] = generation[r] + 1]
    /\ UNCHANGED <<acknowledgement, visible, position, phase, pause, attempt, laneVars,
                   worker, handoff, fenceVars, boundVars>>

(* runWorker() / executeCdp() / executeResolution(): the endpoint is gone  *)
(* or the workspace is stopped, so the claimed ticket is paused at once.   *)
ClaimThenPause(r) ==
    /\ Claimable(r)
    /\ OfflineFor(r) \/ (StopFences(r) /\ ~TerminationFences(r))
    /\ Claim(r)
    /\ pause' = [pause EXCEPT ![r] = IF OfflineFor(r) THEN "extension_disconnected"
                                     ELSE "manual_workspace_stop"]
    /\ UNCHANGED <<acknowledgement, visible, position, phase, attempt, laneVars, worker, held,
                   handoff, fenceVars, boundVars>>

(* executeCdp(): a termination control is active on the workspace.         *)
ClaimThenFail(r) ==
    /\ Claimable(r)
    /\ ~OfflineFor(r) /\ TerminationFences(r)
    /\ Terminalize({r}, All("failed"), All("done"))
    /\ generation' = [generation EXCEPT ![r] = @ + 1]
    /\ UNCHANGED <<acknowledgement, visible, position, attempt, worker, held, handoff,
                   fenceVars, boundVars>>

(* claim_expires_at passes. *)
ExpireLease(r) ==
    /\ leased[r]
    /\ leased' = [leased EXCEPT ![r] = FALSE]
    /\ UNCHANGED <<state, acknowledgement, visible, position, phase, pause, generation,
                   claimedBy, attempt, laneVars, worker, held, handoff, fenceVars, boundVars>>

(* startAttempt() and markAttemptDispatched(), then the command leaves.    *)
StartAttempt(r) ==
    /\ held[r] # 0
    /\ ~IsResolver(r)
    /\ attempt[r] # "pending"
    /\ attempt' = [attempt EXCEPT ![r] = "pending"]
    /\ UNCHANGED <<state, acknowledgement, visible, position, phase, pause, claimVars, laneVars,
                   worker, held, handoff, fenceVars, boundVars>>

(* The result, or the reconciliation, settles the attempt: finishAttempt() *)
(* and then succeedTicket() or failTicket().                               *)
CompleteWork(r, outcome) ==
    /\ held[r] # 0
    /\ attempt[r] = "pending"
    /\ attempt' = [attempt EXCEPT ![r] = "completed"]
    /\ Terminalize(OwnedBy(r), All(outcome), All("done"))
    /\ Release(r)
    /\ UNCHANGED <<acknowledgement, visible, position, generation, worker, handoff,
                   fenceVars, boundVars>>

(* executeCdp() and reconcileCdpAttempt() on a connected endpoint that     *)
(* cannot say what happened: finishAttempt('missing') and                  *)
(* pauseForHumanConfirmation().                                            *)
LoseResult(r) ==
    /\ held[r] # 0
    /\ HasLane(r)
    /\ attempt[r] = "pending"
    /\ attempt' = [attempt EXCEPT ![r] = "missing"]
    /\ pause' = [q \in Request |-> IF q \in OwnedBy(r) THEN "user_confirmation_required" ELSE pause[q]]
    /\ Release(r)
    /\ UNCHANGED <<state, acknowledgement, visible, position, phase, claimVars, laneVars,
                   worker, handoff, fenceVars, boundVars>>

(* createTabReliably(): the attempt left no tab behind, try another.       *)
RetryCreation(r) ==
    /\ held[r] # 0
    /\ ~HasLane(r)
    /\ attempt[r] = "pending"
    /\ attempt' = [attempt EXCEPT ![r] = "missing"]
    /\ UNCHANGED <<state, acknowledgement, visible, position, phase, pause, claimVars, laneVars,
                   worker, held, handoff, fenceVars, boundVars>>

(* The catch of runWorker(): an executor threw while the endpoint is       *)
(* connected.  A ticket somebody paused or finished meanwhile is left.     *)
AbandonWork(r) ==
    /\ held[r] # 0
    /\ Terminalize({q \in {r} : state[q] = "running" /\ pause[q] = "none"},
                   All("failed"), All("done"))
    /\ Release(r)
    /\ UNCHANGED <<acknowledgement, visible, position, generation, attempt, worker, handoff,
                   fenceVars, boundVars>>

(* executeResolution(): what the decision is applied to, and what a        *)
(* restart_failed decision takes with it.                                  *)
(* Mutant: the target is not looked at again before the commit. *)
AwaitsHumanUnchecked(t) == state[t] # "absent"

AwaitsHuman(t) == state[t] = "running" /\ pause[t] = "user_confirmation_required"

Invalidated(r) ==
    IF r \in RestartFailed
    THEN {q \in Request : /\ LaneOf[q] = LaneOf[Target[r]]
                          /\ position[q] > position[Target[r]]
                          /\ Open(q)
                          /\ visible[q]}
    ELSE {}

(* resolveRequest() with its followers, one transaction.  The replacement  *)
(* tab of a restart_failed decision may have been created or not.          *)
ResolveTarget(r, replaced) ==
    LET t == Target[r] IN
    /\ held[r] # 0
    /\ IsResolver(r)
    /\ AwaitsHuman(t)
    /\ Open(r)
    /\ r \notin RestartFailed => replaced
    /\ LET F == Invalidated(r)
           ended == [q \in Request |->
                        IF q = r THEN IF replaced THEN "succeeded" ELSE "failed"
                        ELSE IF q = t /\ r \notin RestartFailed THEN "succeeded"
                        ELSE "failed"]
           ending == [q \in Request |->
                        IF q = r THEN "resolved"
                        ELSE IF q = t THEN "human_resolved"
                        ELSE "restart_failed_follower_invalidated"]
           S == {r, t} \cup F
       IN  /\ state' = [q \in Request |-> IF q \in S THEN ended[q] ELSE state[q]]
           /\ phase' = [q \in Request |-> IF q \in S THEN ending[q] ELSE phase[q]]
           /\ pause' = [q \in Request |-> IF q \in {t} \cup F THEN "none" ELSE pause[q]]
           /\ claimedBy' = [q \in Request |-> IF q \in {t} \cup F THEN 0 ELSE claimedBy[q]]
           /\ leased' = [q \in Request |-> leased[q] /\ q \notin {t} \cup F]
           /\ head' = AdvancedHead(S)
    /\ Release(r)
    /\ UNCHANGED <<acknowledgement, visible, position, generation, attempt, nextPosition,
                   worker, handoff, fenceVars, boundVars>>

(* REQUEST_RESOLUTION_RACE_LOST: the target no longer waits. *)
ResolutionRaceLost(r) ==
    /\ held[r] # 0
    /\ IsResolver(r)
    /\ ~AwaitsHuman(Target[r])
    /\ Terminalize(OwnedBy(r), All("failed"), All("done"))
    /\ Release(r)
    /\ UNCHANGED <<acknowledgement, visible, position, generation, attempt, worker, handoff,
                   fenceVars, boundVars>>

-----------------------------------------------------------------------------
(* What happens to tickets from outside their worker.                      *)

Fault == faults < MaxFaults /\ faults' = faults + 1 /\ UNCHANGED restarts

(* Mutant: the scan returns ended tickets as well. *)
ScannedWhateverState == {r \in Request : state[r] # "absent" /\ visible[r]}

(* The tickets scanRequestRecovery() returns. *)
Scanned == {r \in Request : Open(r) /\ visible[r]}

(* closeEndpointConnection(): every running ticket of the endpoint is      *)
(* paused, whatever it waited for.  rejectEndpointAttempts() rejected the  *)
(* promises just before, and their continuations run before anything else  *)
(* does: each finds the endpoint gone, records the same pause and returns. *)
EndpointDown ==
    /\ connected
    /\ Fault
    /\ connected' = FALSE
    /\ pause' = [r \in Request |->
                    IF r \in Scanned /\ state[r] = "running" THEN "extension_disconnected" ELSE pause[r]]
    /\ held' = [r \in Request |-> 0]
    /\ UNCHANGED <<state, acknowledgement, visible, position, phase, claimVars, attempt, laneVars,
                   worker, handoff, stopped, terminating>>

(* Mutant: what is resumed goes back to the queue. *)
EndpointUpRequeues ==
    /\ ~connected
    /\ connected' = TRUE
    /\ state' = [r \in Request |->
                    IF r \in Scanned /\ pause[r] = "extension_disconnected" THEN "queued" ELSE state[r]]
    /\ pause' = [r \in Request |->
                    IF r \in Scanned /\ pause[r] = "extension_disconnected" THEN "none" ELSE pause[r]]
    /\ UNCHANGED <<acknowledgement, visible, position, phase, claimVars, attempt, laneVars,
                   worker, held, handoff, stopped, terminating, boundVars>>

(* onInventory() / resumeEndpointPausedRequests(): the first inventory of  *)
(* the new connection is reconciled.                                       *)
EndpointUp ==
    /\ ~connected
    /\ connected' = TRUE
    /\ pause' = [r \in Request |->
                    IF r \in Scanned /\ pause[r] = "extension_disconnected"
                    THEN IF stopped THEN "manual_workspace_stop" ELSE "none"
                    ELSE pause[r]]
    /\ UNCHANGED <<state, acknowledgement, visible, position, phase, claimVars, attempt, laneVars,
                   worker, held, handoff, stopped, terminating, boundVars>>

(* onDebuggerDetached() / pauseTabRequests(). *)
DebuggerDetached(l) ==
    /\ connected
    /\ Fault
    /\ pause' = [r \in Request |->
                    IF r \in Scanned /\ LaneOf[r] = l /\ state[r] = "running"
                    THEN "extension_disconnected" ELSE pause[r]]
    /\ UNCHANGED <<state, acknowledgement, visible, position, phase, claimVars, attempt, laneVars,
                   worker, held, handoff, fenceVars>>

(* executeWorkspaceStop(). *)
StopWorkspace ==
    /\ ~stopped
    /\ Fault
    /\ stopped' = TRUE
    /\ UNCHANGED <<state, acknowledgement, visible, position, phase, pause, claimVars, attempt,
                   laneVars, worker, held, handoff, connected, terminating>>

(* executeWorkspaceResume() / resumeWorkspacePausedRequests(). *)
ResumeWorkspace ==
    /\ stopped
    /\ connected
    /\ stopped' = FALSE
    /\ pause' = [r \in Request |->
                    IF r \in Scanned /\ pause[r] = "manual_workspace_stop" THEN "none" ELSE pause[r]]
    /\ UNCHANGED <<state, acknowledgement, visible, position, phase, claimVars, attempt, laneVars,
                   worker, held, handoff, connected, terminating, boundVars>>

(* Mutant: tickets with a worker are fenced too. *)
FenceableAtWork == {r \in Scanned : ~IsResolver(r) /\ attempt[r] # "pending"}

Fenceable == {r \in Scanned : ~IsResolver(r) /\ attempt[r] # "pending" /\ held[r] = 0}

(* fenceTerminationQueue(), when a termination's acknowledgement is        *)
(* delivered and again whenever executeTermination() starts over: browser  *)
(* work with no attempt pending and no worker fails.                       *)
FenceTerminationQueue ==
    /\ Fault
    /\ terminating' = TRUE
    /\ Terminalize(Fenceable, All("failed"), All("termination_fenced_before_dispatch"))
    /\ UNCHANGED <<acknowledgement, visible, position, generation, attempt, worker, held, handoff,
                   connected, stopped>>

(* failTermination(): the workspace stays active, its control is gone. *)
TerminationFails ==
    /\ terminating
    /\ terminating' = FALSE
    /\ UNCHANGED <<state, acknowledgement, visible, position, phase, pause, claimVars, attempt,
                   laneVars, worker, held, handoff, connected, stopped, boundVars>>

(* closeRequest(). *)
CloseRequest(r) ==
    /\ state[r] \in Terminal
    /\ visible[r]
    /\ visible' = [visible EXCEPT ![r] = FALSE]
    /\ UNCHANGED <<state, acknowledgement, position, phase, pause, claimVars, attempt, laneVars,
                   worker, held, handoff, fenceVars, boundVars>>

(* The process dies and another starts: its workers and its half-written   *)
(* responses are gone, rows stay.  recover() runs before any extension can *)
(* connect, so every running ticket that was not paused is paused.         *)
Restart ==
    /\ restarts < MaxRestarts
    /\ restarts' = restarts + 1
    /\ worker' \in Worker
    /\ held' = [r \in Request |-> 0]
    /\ handoff' = {}
    /\ connected' = FALSE
    /\ pause' = [r \in Request |->
                    IF r \in Scanned /\ state[r] = "running" /\ pause[r] = "none"
                    THEN "extension_disconnected" ELSE pause[r]]
    /\ UNCHANGED <<state, acknowledgement, visible, position, phase, claimVars, attempt, laneVars,
                   stopped, terminating, faults>>

-----------------------------------------------------------------------------
WorkerStep(r) ==
    \/ StartAttempt(r)
    \/ \E outcome \in Terminal : CompleteWork(r, outcome)
    \/ LoseResult(r)
    \/ RetryCreation(r)
    \/ AbandonWork(r)
    \/ \E replaced \in BOOLEAN : ResolveTarget(r, replaced)
    \/ ResolutionRaceLost(r)

RequestStep(r) ==
    \/ AcceptRequest(r)
    \/ AcknowledgementDelivered(r)
    \/ AcknowledgementFailed(r)
    \/ BeginWork(r)
    \/ ClaimThenPause(r)
    \/ ClaimThenFail(r)
    \/ ExpireLease(r)
    \/ WorkerStep(r)
    \/ CloseRequest(r)

Next ==
    \/ \E r \in Request : RequestStep(r)
    \/ \E l \in Lane : DebuggerDetached(l)
    \/ EndpointDown
    \/ EndpointUp
    \/ StopWorkspace
    \/ ResumeWorkspace
    \/ FenceTerminationQueue
    \/ TerminationFails
    \/ Restart

Spec == Init /\ [][Next]_vars

-----------------------------------------------------------------------------
(* Safety.                                                                 *)

(* Every column, lane and process variable keeps its type. *)
TypeOK ==
    /\ state \in [Request -> RequestState]
    /\ acknowledgement \in [Request -> {"pending", "delivered", "failed"}]
    /\ visible \in [Request -> BOOLEAN]
    /\ position \in [Request -> Nat]
    /\ phase \in [Request -> Phase]
    /\ pause \in [Request -> PauseCondition]
    /\ generation \in [Request -> Nat]
    /\ claimedBy \in [Request -> Worker \cup {0}]
    /\ leased \in [Request -> BOOLEAN]
    /\ attempt \in [Request -> AttemptState]
    /\ nextPosition \in [Lane -> Nat]
    /\ head \in [Lane -> Request \cup {NoRequest}]
    /\ worker \in Worker
    /\ held \in [Request -> Nat]
    /\ handoff \subseteq Request
    /\ connected \in BOOLEAN
    /\ stopped \in BOOLEAN
    /\ terminating \in BOOLEAN
    /\ faults \in Nat
    /\ restarts \in Nat

(* The head column of a lane, maintained incrementally by acceptance,      *)
(* failed handoffs, completions, resolutions and fences, always names the  *)
(* open ticket of least position, and is NULL only for a lane with none.   *)
LaneHeadIsLeastOpen ==
    \A l \in Lane :
        LET waiting == {r \in Request : LaneOf[r] = l /\ Open(r)} IN
        IF waiting = {} THEN head[l] = NoRequest
        ELSE /\ head[l] \in waiting
             /\ \A r \in waiting : position[head[l]] <= position[r]

(* "Later positions cannot overtake or overlap it": while a ticket of a    *)
(* lane is open, no later ticket of the lane was ever claimed, has a       *)
(* worker, or sent anything, across outages, restarts, expired leases,     *)
(* fences and resolutions.                                                 *)
NoOvertaking ==
    \A q, r \in Request :
        LaneOf[q] = LaneOf[r] /\ HasLane(r) /\ Open(q) /\ position[q] < position[r]
            => generation[r] = 0 /\ held[r] = 0 /\ attempt[r] = "none"

(* "Every async ticket is durable and delivered before its effect is       *)
(* eligible": nothing was sent for a ticket whose acknowledgement was not  *)
(* handed over, and a failed handoff leaves no claim.                      *)
EffectAfterDelivery ==
    \A r \in Request :
        generation[r] > 0 \/ attempt[r] # "none" => acknowledgement[r] = "delivered"

(* A live worker's ticket is still open, and the claim it holds is still   *)
(* the one in the row: its checkpoints and its terminal write are never    *)
(* dropped by the claim-generation check, and no other process owns it.    *)
WorkerOwnsItsTicket ==
    \A r \in Request : held[r] # 0 =>
        state[r] = "running" /\ generation[r] = held[r] /\ claimedBy[r] = worker

(* What the facts published with an invalidated follower say               *)
(* ("dispatched: false"): no follower a restart_failed resolution takes    *)
(* with it had ever been sent.                                             *)
InvalidatedNeverDispatched ==
    \A r \in Request :
        phase[r] = "restart_failed_follower_invalidated" => attempt[r] = "none" /\ held[r] = 0

(* A terminal ticket retains no pause condition, the resolver included,    *)
(* whose row resolveRequest() terminalizes without clearing it.            *)
TerminalIsUnpaused ==
    \A r \in Request : state[r] \in Terminal => pause[r] = "none"

(* A target and its resolver commit together, and of several resolvers of  *)
(* one target exactly one commits.                                         *)
ResolutionIsAtomic ==
    \A t \in Request :
        LET winners == {r \in Request : Target[r] = t /\ phase[r] = "resolved"} IN
        /\ winners # {} <=> phase[t] = "human_resolved"
        /\ \A a, b \in winners : a = b

(* A terminal outcome is final: no late result, fence, resolution or       *)
(* restart writes over it, and a closed ticket does not come back.         *)
TerminalIsFinal ==
    [][\A r \in Request : state[r] \in Terminal =>
          /\ state'[r] = state[r]
          /\ phase'[r] = phase[r]
          /\ ~visible[r] => ~visible'[r]]_vars

(* The lanes of the database do what the class tab-lane.ts does. *)
Laned == {r \in Request : HasLane(r)}

TabLane == INSTANCE TabLane WITH
    Request <- Laned,
    LaneOf <- [r \in Laned |-> LaneOf[r]],
    position <- [r \in Laned |-> position[r]],
    acknowledgement <- [r \in Laned |-> acknowledgement[r]],
    state <- [r \in Laned |-> state[r]],
    claimed <- [r \in Laned |-> held[r] # 0],
    nextPosition <- nextPosition

ImplementsTabLane == TabLane!Spec

-----------------------------------------------------------------------------
(* What the invariants above rest on: none of them is inductive alone.     *)

OpenIsVisible == \A r \in Request : Open(r) \/ state[r] = "absent" => visible[r]

PositionsAreDistinct ==
    /\ \A r \in Request : HasLane(r) /\ state[r] # "absent" => position[r] < nextPosition[LaneOf[r]]
    /\ \A q, r \in Request :
          /\ q # r
          /\ LaneOf[q] = LaneOf[r]
          /\ HasLane(r)
          /\ state[q] # "absent"
          /\ state[r] # "absent"
          => position[q] # position[r]

UnclaimedIsUntouched ==
    \A r \in Request : state[r] \in {"absent", "queued"} =>
        generation[r] = 0 /\ held[r] = 0 /\ attempt[r] = "none" /\ pause[r] = "none"

UndoneHasNoEnding ==
    \A r \in Request : state[r] \in {"absent", "queued", "running"} => phase[r] = "open"

HandoffIsPending ==
    \A r \in Request : state[r] = "absent" \/ r \in handoff => acknowledgement[r] = "pending"

AskedHasNoWorker ==
    \A r \in Request : pause[r] = "user_confirmation_required" => held[r] = 0

(* A resolver or a tab creation is paused only by what also takes its      *)
(* worker away.                                                            *)
LanelessWorkerIsUnpaused ==
    \A r \in Request : held[r] # 0 /\ ~HasLane(r) => pause[r] = "none"

(* What holds of every ticket by itself, what holds along a lane, and all  *)
(* of it together: the inductive invariant.                                *)
TicketInv ==
    /\ OpenIsVisible
    /\ UnclaimedIsUntouched
    /\ UndoneHasNoEnding
    /\ HandoffIsPending
    /\ AskedHasNoWorker
    /\ LanelessWorkerIsUnpaused
    /\ EffectAfterDelivery
    /\ WorkerOwnsItsTicket
    /\ InvalidatedNeverDispatched
    /\ TerminalIsUnpaused

LaneInv ==
    /\ PositionsAreDistinct
    /\ LaneHeadIsLeastOpen
    /\ NoOvertaking

Inv == TypeOK /\ TicketInv /\ LaneInv /\ ResolutionIsAtomic

-----------------------------------------------------------------------------
(* Progress.  The transport always reports one outcome of a handoff; the   *)
(* recovery interval pumps every second at most, and a lease lasts 30 s;   *)
(* every extension operation settles within its timeout; a worker only     *)
(* has finitely many tries; the extension reconnects by its alarm.         *)
WorkEnds(r) ==
    \/ \E outcome \in Terminal : CompleteWork(r, outcome)
    \/ LoseResult(r)
    \/ AbandonWork(r)
    \/ \E replaced \in BOOLEAN : ResolveTarget(r, replaced)
    \/ ResolutionRaceLost(r)

Fairness ==
    /\ \A r \in Request :
          /\ WF_vars(AcknowledgementDelivered(r) \/ AcknowledgementFailed(r))
          /\ WF_vars(BeginWork(r) \/ ClaimThenPause(r) \/ ClaimThenFail(r))
          /\ WF_vars(ExpireLease(r))
          /\ WF_vars(WorkEnds(r))
    /\ WF_vars(EndpointUp)

FairSpec == Spec /\ Fairness

(* What may keep a ticket from ending: the human is asked; a debugger      *)
(* detach paused it on an endpoint that never went away; its handoff was   *)
(* under way when the process died.                                        *)
StrandedByDetach(q) == connected /\ pause[q] = "extension_disconnected"
LostHandoff(q) == Open(q) /\ acknowledgement[q] = "pending" /\ q \notin handoff

Ahead(q, r) == HasLane(r) /\ LaneOf[q] = LaneOf[r] /\ position[q] < position[r]

Blocked(r) ==
    \E q \in Request :
        /\ q = r \/ Ahead(q, r)
        /\ AwaitsHuman(q) \/ StrandedByDetach(q) \/ LostHandoff(q)

(* No delivered ticket is lost in its lane: with every outage over, every  *)
(* lease expired and every ticket ahead of it settled it ends, unless it   *)
(* or a ticket ahead of it is blocked in one of those three ways, or the   *)
(* workspace was stopped.                                                  *)
DeliveredWorkEnds ==
    \A r \in Request :
        (Open(r) /\ acknowledgement[r] = "delivered") ~> (~Open(r) \/ Blocked(r) \/ stopped)

-----------------------------------------------------------------------------
(* What the documentation says and the code does not keep.                 *)

(* System-Architecture.md, "Durable acceptance and response delivery":     *)
(* a handoff that did not happen "removes its private scheduling barrier". *)
UndeliveredFreesItsLane ==
    \A r \in Request : LostHandoff(r) ~> ~Open(r)

(* System-Architecture.md, "Debugger detach pauses only the affected       *)
(* attachment tree": after a detach the broker reconciles and continues.   *)
DetachedWorkContinues ==
    \A r \in Request : StrandedByDetach(r) ~> ~StrandedByDetach(r)
=============================================================================

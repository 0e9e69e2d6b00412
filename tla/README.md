# A verified model of the Octopus Browser Relay

Octopus lets agents drive the tabs of browser profiles through MCP. An agent
submits a request to a local broker; the broker stores a *ticket*, acknowledges
it, and later works it off through an extension in the browser profile. The
code is TypeScript on one event loop per process, so there are no data races;
what is hard is everything that happens *between* two awaits: sockets that
break and are replaced, answers that come late or never, a broker or a service
worker that restarts, humans who decide about commands whose effect is unknown,
and controls (stop, kill, terminate, take over) that arrive in the middle.

This directory holds TLA+ modules that model those parts, TLC configurations
that check them on small instances, and proofs, checked by TLAPS, of what holds
for every number of tickets and tabs.

    tlc -config RequestStore_lanes.cfg MCRequestStore.tla
    tlapm RequestStoreProofs.tla

## 1. The system

Paths are below `src/apps/`; `broker` is `broker/src`, `ext` is
`browser-extension/src`.

| Component | Code | State it keeps | Operations | Status |
|---|---|---|---|---|
| Request store and tab lanes | `broker/storage/sqlite/request-repository.ts`, migration 004 | tickets, attempts, lanes with position counter and head | accept, acknowledge, claim, checkpoint, attempts, terminalize, resolve, close, recovery scan | `RequestStore` |
| Lane contract | `broker/core/octopus/tab-lane.ts` | entries of a lane | accept, acknowledge, claimHead, releaseClaim, terminalize | `TabLane` |
| Broker scheduler | `broker/core/octopus/octopus-broker.ts` | running workers, pending endpoint reconciliations | submit, confirmAcknowledgement, pump, runWorker, recover, pauses and resumes, fences, resolution | `RequestStore`; admission's choice of endpoints is not modelled |
| CDP execution | same file, `executeCdp`, `reconcileCdpAttempt` | the awaited operation | attach, dispatch, reconcile, settle, ask the human | `CdpExecution` |
| Extension gateway | `broker/extension-relay/websocket-server.ts`, `connection-registry.ts` | sockets past HELLO or AUTH, pending operations | hello, auth, execute, requestInventory, results, errors, timeouts, close, heartbeat sweep | `CdpExecution`, `EventStream`, `TabCreation`; v1 sockets in `BrokerCore` |
| Extension dispatcher, attempt cache, attachments, relay client | `ext/protocol/dispatcher.ts`, `ext/executor/recent-command-cache.ts`, `ext/debugger/*`, `ext/transport/websocket-client.ts` | active attempts, remembered outcomes, attachment generations, connection generation | send, attach, create, group, reconcile, report, publish inventory, reconnect | `CdpExecution` (one tab's debugger), `TabCreation` (tabs and groups), `EventStream` (events) |
| Workspace control | `octopus-broker.ts` 584-701, 1446-1647, 1857-1915; `logical-repository.ts` 307-412 | control epochs, owner epochs, pause causes, control records | takeover, termination, stop, resume, kill, endpoint resume | `WorkspaceControl` |
| Tab creation and workspace allocation | `octopus-broker.ts` 783-1213, `ext/browser/tab-groups.ts` | attempts and checkpoints of a creation | inventory, reconcile, create, group, title, at most three tries | `TabCreation` (one endpoint) |
| Inventory reconciliation | `octopus-broker.ts` 2057-2198, `ext/browser/inventory.ts` | rows of windows, groups and tabs with their locators | snapshot, reconcile, assert | `TabCreation` (rows), `EventStream` (streams), `CdpExecution` (a locator) |
| Event streams | `broker/storage/sqlite/event-repository.ts`, `octopus-broker.ts` 282-376 and 2200-2244, `ext/debugger/event-forwarder.ts` | streams, cursors, baselines | append, read, replace baseline | `EventStream` |
| MCP server | `broker/mcp/server.ts` | open sessions and responses | tool calls, acknowledgement handoff | input of `RequestStore` |
| Caller registry, discovery views, audit | `core/octopus/caller-registry.ts`, `mcp-presenter.ts`, `audit-repository.ts` | sessions, cursors | reads | not modelled: read models |
| Relay v1 | `core/broker-core.ts`, `lease-manager.ts`, `routing-policy.ts`, `target-state-index.ts`, `database.ts` | bindings, leases, commands, targets, connections | an older command path: bind, lease, route, queue, deliver, answer, sweep, recover | `BrokerCore` |
| Native host, stdio adapter, identity, update, options, tools | | | byte proxies and local one-shot decisions | not modelled |

**Interaction.** The MCP server calls `submit` and reports, once, whether the
response was handed over (`confirmAcknowledgement`). The broker writes SQLite
synchronously and starts a worker per eligible ticket. A worker awaits the
gateway's `execute`; the gateway correlates answers by attempt identifier and
connection generation. The gateway tells the broker of readiness, inventories,
detaches and closes. The extension answers from Chrome or, for a
reconciliation, from its cache in `chrome.storage`.

**What makes each part correct.** The store: the first open ticket of a lane
and only that one is worked on, after its acknowledgement, by one worker; an
outcome is final; a resolution is one transaction. The execution: a published
result is what Chrome did, nothing is sent twice, in order, and nothing is
forgotten. Workspace control: ownership and the authority over tickets move together, only
the owner's termination ends a workspace, a termination ends and archives in
quiet, and no pause outlives its cause. Tab creation: no retry while an earlier
try is in doubt, one row per tab, one workspace per request. Event streams:
order, one ownership per cursor, nothing of an earlier connection after an
outage. Relay v1: one command in flight per target, none repeated that must not
be, leases that follow bindings. The contract of a lane is written down
twice in the code (a class
with unit tests, and SQL); that they agree is a theorem here.

The full list of hazards, each at its line with the properties that cover it,
is in `PROJECT.json` under `hazards`.

## 2. The modules

`TabLane` (110 lines) is the abstract specification of a lane: the class
`TabLane` with one instance per lane. A database transaction or a crash does
several of its calls at once, so its `Terminalize` and `ReleaseClaim` take sets.

`RequestStore` models tickets of one workspace on one endpoint, in three kinds:
with a lane (`send_cdp_command`), with a target (`resolve_browser_request`),
and with neither (`create_browser_tab`). Its variables are columns of
`request_tickets`, `request_attempts` and `tab_lanes`, plus what the process
holds in memory (`held`, `handoff`, `worker`) and what the tickets depend on
(`connected`, `stopped`, `terminating`). An action is one synchronous stretch of
the broker, up to the next await, with every write it makes:

| Action | Code |
|---|---|
| `AcceptRequest`, `AcknowledgementDelivered`, `AcknowledgementFailed` | `admit`, `acceptRequest`; `confirmAcknowledgement` |
| `BeginWork`, `ClaimThenPause`, `ClaimThenFail` | `pump`, `claimRequest`, and what the worker's first stretch finds: work, an absent extension or a stop, a termination |
| `StartAttempt`, `CompleteWork`, `LoseResult`, `RetryCreation`, `AbandonWork` | the executors' later stretches |
| `ResolveTarget`, `ResolutionRaceLost` | `executeResolution`, `resolveRequest` with its followers |
| `EndpointDown`, `EndpointUp`, `DebuggerDetached` | `closeEndpointConnection`, `onInventory`, `onDebuggerDetached` |
| `StopWorkspace`, `ResumeWorkspace`, `FenceTerminationQueue`, `TerminationFails` | the controls, as far as tickets see them |
| `ExpireLease`, `CloseRequest`, `Restart` | the clock, `closeRequest`, `recover` |

`MCRequestStore` gives it lanes and targets for TLC. `RequestStoreProofs` holds
the proofs, the refinement of `TabLane` among them, `TabLaneProofs` those of the
contract.

`CdpExecution` models one tab's commands end to end. Tickets `1..N` are in lane
order and acknowledged; an attempt is a ticket and the number of its try. The
variables are grouped by where they live: rows, broker memory, extension memory
and storage, the wire. Worker operators (`Dispatch`, `AskHuman`, `Settle`,
`WorkerThrows`, `Rejected`) are what follows an await, and every event that
settles a promise (an answer, an error, a timer, a close) runs one of them.
`CdpExecutionProofs` and `CdpEffectProofs` hold the proofs.

`WorkspaceControl` models eight tools on the workspaces of one endpoint:
commands and tab creations, takeover, termination, workspace stop and resume,
endpoint kill and resume. A ticket is a number in the order of acceptance. The
variables are columns of `request_tickets` with two entries of its checkpoint
(`acceptedControl`, `recordedControl`), of `browser_workspaces`,
`workspace_pause_causes` and `control_records` (`control`, the active ones), and
per worker what it awaits (`stage`) and the one checkpoint entry whose stale copy
in its ticket object matters (`copiedControl`).

| Action | Code |
|---|---|
| `Submit`, `Acknowledge`, `AcknowledgeRefused` | `admit`; `confirmAcknowledgement` with `activateControl` and a termination's `fenceTerminationQueue` |
| `WaitForExtension`, `RunCommand`, `PauseCommand`, `RejectCommand`, `RunCreation` | `runWorker` and the first stretch of `executeCdp` and `executeCreateTab` |
| `Attached`, `CreateTab`, `WorkEnds`, `WorkFails`, `LoseResult`, `HumanResolves` | what follows their awaits |
| `TakeOver`, `TakeoverLoses`, `StopWorkspace`, `KillEndpoint` | workers without an await |
| `RunResume`, `FinishResume` | `executeWorkspaceResume`, `executeEndpointResume` with their inventory |
| `RunTermination`, `TerminationLoses`, `WaitOver`, `WaitInterrupted`, `RequestRename`, `RenameSucceeds`, `ArchiveConfirmed`, `FailTermination` | `executeTermination` from claim to archive, `waitForWorkspaceReconciliation`, `failTermination` |
| `Disconnect`, `Reconnect`, `Restart` | `closeEndpointConnection`, `onInventory`, `recover` |

It takes claims, leases and lanes from `RequestStore` as given. Every command is
for a tab of its own, so none waits behind another; each session is a lineage of
its own; a failed handoff is a ticket that was never submitted; the control
epochs of endpoint controls, which no code compares, are left out; one bound,
`MaxOutages`, counts disconnects and restarts together. `pump` is a microtask, so
every action but those it starts, and a crash, has the guard `Quiet`.
`WorkspaceControlProofs` holds the proofs.

`TabCreation` composes the worker of `create_browser_tab` and
`request_browser_workspace` with the gateway's correlation, the extension's
dispatcher, cache and tab operations, Chrome's tabs and groups, and the
inventories between them, on one endpoint with one window. A tab is named by the
attempt that opened it. The variables are the tickets with their attempts, the
rows of workspaces and tabs, what each worker awaits, the two directions of the
socket, and the extension.

| Action | Code |
|---|---|
| `StartWork`, `StartElsewhere`, `Looked` | `runWorker`, `executeWorkspaceRequest`, `createManagedTabInWorkspace` up to the loop |
| `UsePriorSuccess`, `ReconcileAttempt`, `Attempt`, `Exhausted` | one turn of the loop of `createTabReliably`, which reconciles its inventory and then decides |
| `AttemptEnds`, `CreateRefused`, `OperationFails`, `TimesOut` | its answers, errors and the gateway's timer |
| `CreateSucceeds`, `AskGroup`, `AskTitle`, `WorkspaceMade` | what follows the tab |
| `ElsewhereEnds`, `ElsewherePauses`, `ElsewhereResumes` | the other endpoints of a workspace request |
| `ReadInventory`, `ReadAnswer` | `handleInventory` with `onInventory`; `handleOperationResult`, `handleV2Error` |
| `TakeInventory`, `TakeCreate`, `TakeReconcile`, `TakeGroup`, `TakeTitle`, `Refuse` | `dispatch`, `dispatchMutation`, `assertExpected` |
| `OpenTab`, `GroupTab`, `GroupsNothing`, `ChromeFails`, `Report` | `TabGroupOperations.createTab` between its awaits, and the memory and report of its outcome |
| `Publish`, `OutcomeForgotten`, `Disconnect`, `Connect`, `ExtensionRestarts`, `BrokerRestarts`, `UserCloses` | the timer of 100 ms after a change, the cache's limits, connections, `recover`, the user |

The inventory generation is modelled by who still knows the current one: a
change by anybody else, the extension's own publication included, makes the
next operation refused. A workspace's end during a creation is left to
`WorkspaceControl`, where a termination waits for it. `MCTabCreation` gives the
tickets and faults each run begins with; `TabCreationProofs` holds the proofs.

`EventStream` models the tabs of one workspace: streams with their epochs
(the workspace's ownership), the events Chrome raises, the connections that
carry them (the database's current one, the one being greeted, the one that is
bound and the one the extension believes in), inventories captured before they
are sent, and takeovers. Its cursors are every stored position, so a property
about reads speaks of any caller that kept a cursor for any time. `EventStreamProofs`
holds the proofs.

`BrokerCore` models relay v1: agents, their bindings and leases with the callers
that wait for one, commands with the state machine of
`command-state-machine.ts`, the routing policy, delivery over the gateway's
registry (which v1 and v2 sockets share, each with a counter of its own), the
target index with its health and heartbeats, revocation and pairing, the sweep,
and the end of the process, of its own or by an exception. `MCBrokerCore` adds
the exchange of agents for TLC. `Unsteady` bounds the instance: only its targets
fall silent or are revoked and paired again. `BrokerCoreProofs` holds the
proofs.

**Abstractions worth knowing**

- A queued head may be taken up at any time: it may have just arrived. A ticket
  whose pause was lifted is taken up before the broker handles another event
  (`Pumped`), because `pump` is a microtask. `RequestStore` is weaker there and
  allows any delay.
- The gap between READY and the first inventory is in `CdpExecution` only;
  `connected` in `RequestStore` means connected and reconciled.
- Reading a snapshot and sending it is one step; remembering an outcome and
  reporting it is one step. A message sent before the broker has read AUTH
  waits; the case where the gateway closes the socket instead is `SocketBreaks`.
- `SendInventory` sends only what would tell the broker something new. Repeated
  inventories change nothing in the model's rows.
- The cache's limits (128 outcomes, 4 MB, 30 minutes) are one possibility: a
  reconciliation may find nothing although the outcome was remembered.
- Chrome is assumed to answer a command it carried out before a detach, and to
  refuse one whose attachment is gone.
- `RequestStore` and `CdpExecution` have one workspace and one endpoint. Lanes of different tabs share no
  rows, and no property relates two workspaces.
- Endpoint kill is in `WorkspaceControl` only. `connected` there means connected
  and reconciled, as in `RequestStore`. Recording delivery and activating
  a control are one step of it.
- `BrokerCore` leaves out three things: the heartbeat of a v1 socket that is
  already closing when its target is revoked does not lapse, an agent waits for
  one lease at a time, and a second HELLO on one socket is ignored.
- Of sockets that are greeted at the same time `EventStream` keeps the newest.

## 3. What the runs check

Passing runs:

| Run | Instance | Distinct states | Shows |
|---|---|---|---|
| `RequestStore_resolution` | two commands of a tab, a confirming and a restarting resolver, 1 fault, 1 process | 166,757 | `LaneHeadIsLeastOpen`, `InvalidatedNeverDispatched`, `ResolutionIsAtomic`, and `ImplementsTabLane` |
| `RequestStore_lanes` | two commands of a tab, 1 fault, 2 restarts, two process identities | 104,210 | `NoOvertaking`, `EffectAfterDelivery`, and `DeliveredWorkEnds` (liveness) |
| `RequestStore_creation` | a command and a tab creation, 2 faults, 1 restart, two identities | 201,268 | `WorkerOwnsItsTicket`, `TerminalIsFinal` |
| `CdpExecution` | two commands, the second with a result above the payload limit, 3 connections, 2 faults, 2 queued messages | 99,090 | `RawResultMeansEffect`, `EffectsInLaneOrder`, `CommandsFollowInventory`, `HumanAskedInDoubt`, `NoEffectAfterTheEnd`, and `EveryCommandEnds` (liveness) |
| `WorkspaceControl` | three tickets of any of the eight tools, two sessions, one workspace, 1 outage or restart | 667,556 | `AuthorityFollowsOwner`, `EndedByItsOwner`, `PausedWorkHasCause`, `EndpointControlsExclusive`, `ArchivingIsQuiet`, and `TerminationsEnd` (liveness) |
| `TabCreation` | one creation or one workspace request with two tries and 2 faults; two creations, or a creation and a request, without faults | 551,482 | `ReconciledBeforeRetry`, `RetryUnlessMisled`, `OneRowPerTab`, `AllocatedOnce`, `RowsFollowBrowser`, `TypeOK`, and `EveryRequestEnds` (liveness) |
| `EventStream` | two tabs (one of them in the group at first, one with a debugger), 2 events of each, 2 connections, one takeover, 3 moves into and out of groups, one message on a wire, pages of 2 | 1,865,366 | `StreamsInOrder`, `ReadsStayInEpoch`, `FactsAreReadable`, `FreshAfterOutage` |
| `BrokerCore_sessions` | two agents (exchangeable), a read and a write, one target, two connections, two leases | 1,099,516 | `OneInFlight`, `LeaseFollowsBinding`, `DeliveredUnderLease` |
| `BrokerCore_sockets` | one agent, a repeatable and a non-repeatable command, one target that falls silent and is revoked, a v1 and a v2 connection, a restart | 539,113 | `NeverRepeated`, `FinalStaysFinal`, `UnregisteredByItself`, and `WorkMoves` (liveness) |

Why these bounds are enough to be interesting: two tickets make a lane with a
head and a follower; two resolvers of one target make a race; a fault is an
outage, a detach, a stop or a fence, and one of them between any two steps of
two tickets already meets every await. Two restarts allow a process that
returns under its earlier identity. Three connections allow one to be replaced
while the next is opening. Three control tickets and an outage
hold every race of two controls with a third thing between them: two takeovers
and a termination, a stop, a kill and the resume of either, a termination whose
remembered epochs are lost with a command at its attachment. A creation meets
every pair of faults, among them an answer that is lost and then one of: a
reconciliation that is lost too, a forgotten outcome, a second outage, a restart
of either side, a closed tab; two workers on one socket meet each other's
inventories and refusals in every order. Two tries are one retry, and every
retry is decided alike. Two epochs and two connections hold a takeover and an
outage in either order. The proofs below
remove the bounds for the safety of the store, of command execution, of
workspace control (several workspaces included), of tab creation, of the event
streams and of relay v1.

Three runs end in a violation on purpose. Each states what the documentation says
and the code does not do; the quotes and lines are under `findings`.

| Run | Property | What happens |
|---|---|---|
| `CdpExecution_replay` | `NoReplay` | The pause condition is one column. An outage overwrites `user_confirmation_required`, the reconnect lifts the outage's pause, and the command is sent a second time. |
| `WorkspaceControl_pause` | `PauseBlocksDispatch` | A command that was attaching when a stop came, and any tab creation, is sent after the stop has succeeded. |
| `WorkspaceControl_outage` | `PausesKeepNoTermination` | A stop succeeds, a termination of the workspace is delivered, the connection drops once. The reconnect pauses the termination for the stop, and it waits until somebody resumes the workspace. |

The last one has a second form, with a command and the same stop: a command that
was sent before the outage is paused for the stop by the reconnect, with its
attempt open. The termination's fence spares it, its wait does not end, and no
pause of the termination itself shows it. `TerminationsEnd` names both
(`KeptByPause`), and says that they take an outage and that a resume ends them.

### Divergences

The modules contain more behaviour that the documentation speaks against. The
first seven are stated as properties beside the others; a cfg that names one
finds it violated within seconds. They have no run of their own.

| Property or place | What the code does | What is said |
|---|---|---|
| `UndeliveredFreesItsLane` (`RequestStore`, a crash and no fault) | A crash between acceptance and the outcome of the handoff leaves a ticket that blocks its lane forever. | System-Architecture.md:124, Component-Architecture.md:139 |
| `DetachedWorkContinues` (`RequestStore`, one command and one detach) | A command paused by a debugger detach is resumed only by a later disconnect and reconnect. | System-Architecture.md:178 |
| `ErrorMeansNoEffect` (`CdpExecution`) | Building the report of a success fails while the socket is down; the catch remembers a failure over the success, and reconciliation publishes it. | System-Architecture.md:255 |
| `ReconnectFailsNothing` (`CdpExecution`) | A queued command pumped after READY and before the first inventory fails for good. | User-Experience-Definition.md:265 |
| `RetryProvesAbsence` (`TabCreation`, one creation and 2 faults) | `RECONCILE_ATTEMPT` asks the cache and not `activeAttempts`: a creation that outlasts the gateway's timer is reported missing, tried again, and both tabs open. | System-Architecture.md:152 |
| `OneConnectionPerStream` (`EventStream`) | Between READY and the first inventory, events of the new connection go into the old stream; a tab that was outside its group at that inventory keeps its stream over the outage. | Product-Definition.md:117 |
| `OverdueEnds` (`BrokerCore`) | `sweep()` asks for the commands that are not past their deadline, so its branch for those that are is dead; nothing times a v1 command out. | technical-architecture.md (profile-aware-browser-relay) 8.7 |
| `WorkspaceControl` | A termination fails a command whose effect is in doubt as never dispatched; a reconnect pauses even the resume of a stopped workspace, which then waits for itself (beside the terminations above); a takeover accepted before an endpoint control was activated commits under it. | System-Architecture.md:190, User-Experience-Definition.md:298 |
| `TabCreation`, `BrokerRestarts` | `recover()` forgets the workspaces a running request has made: it makes a second one with the same tab, which then has two active rows. | System-Architecture.md:224 |
| `TabCreation`, `ReadInventory` and `Looked` | A worker reconciles the inventory it holds after a newer one was read in the same chunk of the socket: the row of a live tab is closed until the next inventory. | |
| not modelled | Automatic assignment ranks endpoints by nickname only. | System-Architecture.md:144 |
| not modelled | A ticket fenced during its handoff stays visible when the handoff fails; the causes `termination_failed` and `workspace_missing_after_reconnect` are read by no executor; the documented bounds on workers and queued requests are not enforced. | System-Architecture.md:200 |

Of relay v1 the model further shows: a command whose connection is lost keeps
its target busy until a restart; a lease can be granted to a caller whose
binding was revoked while it waited; queued commands survive revocation and
unbinding; closing a v1 socket unregisters the v2 connection that bears the same
number; a target in error recovers only by being revoked and paired anew; and
the close or the sweep of a revoked target throws and ends the process. The
properties name each of these exceptions, so that anything beyond them would be
found.

Three of the liveness properties that hold name these cases (`Stranded`,
`StrandedByDetach`, `LostHandoff`, `Obstructed`, waiting for the human) as the only ways a
command may fail to end. A termination may wait for a human, or, after an
outage, for the resume of a stop or kill (`KeptByPause`); a tab creation for
nothing.

**Deadlock** is not checked: a system whose requests have all ended and whose
faults are used up may stop.

**Fairness.** The transport reports one outcome of a handoff (the MCP server's
`finish` and `close` handlers). `pump` runs after every worker and from the
recovery interval, so an eligible ticket is claimed; a lease lasts 30 s. An
extension operation ends within the gateway's 120 s timer. Both event loops
keep running, each side notices a socket that is gone, and the extension's
alarm calls `connect` every minute. In `WorkspaceControl` these are weak
fairness of `GoesOn` for each ticket (its delivery is reported, `Start` by `pump`,
`Progress` where an awaited call settles and the 25 ms poll runs on; for one
ticket at most one of the three is possible at a time) and of `Reconnect`. `TabCreation` needs
less: one weak fairness of `Progress`, that some of the workers, sockets, Chrome
and the reconnecting extension goes on, in whatever order. `BrokerCore` has its
timers, sockets and the extension's work weakly fair. Nothing is assumed of the human, of a
`resume` ever being asked for, or of faults happening.

## 4. What is proved

For arbitrary sets of tickets, lanes and process identities, under the
named assumption of `RequestStore` (a resolver has no lane and its target has
one; `restart_failed` is a property of resolvers; references differ from the
null values); for workspace control for arbitrary sets of workspaces, sessions
and tools and any number of tickets and outages (`ControlAssumption`); for the
event streams for any set of tabs and any bounds (its named assumption); for
command execution for any number of tickets, connections, faults and messages
(`CdpAssumption`); for
relay v1 for any sets of agents, targets and commands and any bounds
(`CoreAssumption`; `NoSocketAssumption`, that no socket is the null value).
For tab creation it is for any tickets, any number of tries, and any faults
(`TabCreationAssumption`: a ticket is of one kind and is not one of the two
null values, `"none"` and `"home"`).
Nothing is assumed about finiteness. Where a type invariant is proved the runs
do not check it again, but for that of `TabCreation`, which also bounds tries
and groups.

| Theorem | Module | States |
|---|---|---|
| `TypeCorrect` | `RequestStoreProofs` | `[]TypeOK` |
| `HeadsAreRight`, `LanesAreInOrder` | | `[]LaneHeadIsLeastOpen`, `[]NoOvertaking` |
| `DeliveryGatesEffects`, `WorkersKeepTheirClaims`, `InvalidationIsSafe`, `EndedIsUnpaused` | | the ticket invariants |
| `ResolutionsAreAtomic` | | `[]ResolutionIsAtomic` |
| `OutcomesAreFinal` | | `TerminalIsFinal`, an action property |
| `LanesImplementTabLane` | | `Spec => TabLane!Spec` |
| `TabLaneRunsInOrder` | `TabLaneProofs` | the contract serialises a lane |
| `RawResultsAreEffects`, `EffectsFollowTheLane`, `CommandsAwaitInventory`, `HumanIsAskedInDoubt`, `ExecutionTypes` | `CdpExecutionProofs` | `[]RawResultMeansEffect`, `[]EffectsInLaneOrder`, `[]CommandsFollowInventory`, `[]HumanAskedInDoubt`, `[]TypeOK` |
| `NothingAfterTheEnd` | `CdpEffectProofs` | `NoEffectAfterTheEnd`, an action property |
| `AuthorityIsTransferred`, `OnlyOwnersEnd` | `WorkspaceControlProofs` | `[]AuthorityFollowsOwner`, `[]EndedByItsOwner` |
| `NothingIsStranded`, `OneEndpointControl`, `NoCommandWhileArchiving`, `ControlTypes` | | `[]PausedWorkHasCause`, `[]EndpointControlsExclusive`, `[]ArchivingIsQuiet`, `[]TypeOK` |
| `EventsInOrder`, `ReadsInEpoch`, `FactsReadable`, `Fresh`, `TypeCorrect` | `EventStreamProofs` | `[]StreamsInOrder`, `[]ReadsStayInEpoch`, `[]FactsAreReadable`, `[]FreshAfterOutage`, `[]TypeOK` |
| `OneCommandInFlight`, `NothingRepeated`, `LeasesFollowBindings`, `CoreTypes` | `BrokerCoreProofs` | `[]OneInFlight`, `[]NeverRepeated`, `[]LeaseFollowsBinding`, `[]TypeOK` |
| `FinalStatesStay`, `DeliveriesAreCovered`, `ConnectionsStay` | | `FinalStaysFinal`, `DeliveredUnderLease`, `UnregisteredByItself`, action properties |
| `NoRetryBeforeReconciliation`, `NoSecondWorkspace`, `OneActiveRow`, `RowsFollow`, `TypeCorrect` | `TabCreationProofs` | `[]ReconciledBeforeRetry`, `[]AllocatedOnce`, `[]OneRowPerTab`, `[]RowsFollowBrowser`, `[]TypeOK` |
| `RetriesAreSafe` | | `RetryUnlessMisled`, an action property |
| `AnswersHold` | | what the journal says of an attempt is so |

**The argument for the store.** The invariants need each other, so one inductive invariant
`Inv` holds them all: `TypeOK`, `TicketInv` (each ticket by itself), `LaneInv`
(along a lane) and `ResolutionIsAtomic`. Added to what the runs check are facts
nobody would state for their own sake: an untouched ticket has no claim,
attempt or pause (`UnclaimedIsUntouched`); only an ended ticket has an ending
(`UndoneHasNoEnding`); an absent ticket or one whose handoff is under way is
still unacknowledged (`HandoffIsPending`); a ticket that waits for the human has
no worker (`AskedHasNoWorker`); a worker without a lane is not paused
(`LanelessWorkerIsUnpaused`); positions of a lane are distinct and below its
counter (`PositionsAreDistinct`).

- *Lanes.* `LeastNumber` and `LeastPosition` give a least position in any
  non-empty set of tickets by well-founded induction on the naturals.
  `AdvancedHeadFacts` says what `AdvancedHead(S)` returns, `AdvanceKeepsHeads`
  that ending any set `S` of open tickets leaves every lane's head right, and
  `LanesKept` that a step which ends tickets, moves heads so and touches only
  heads keeps `LaneInv`. Every action then falls under one of these lemmas.
- *Tickets.* `TicketStep` goes through the actions. The hard case is
  `ResolveTarget`: that the followers it ends were never sent is `NoOvertaking`
  applied to the target, which is open and ahead of them.
- *Resolution.* `ResolutionStep` needs that the resolver is open and the target
  still waits in the very step that commits.
- *Finality.* `OutcomesAreFinal` follows action by action from `Inv`.
- *Refinement.* Each action maps to a call of the class or to a stutter;
  `Restart` and `EndpointDown` are a `ReleaseClaim` of all workers,
  `ResolveTarget` and the fence a `Terminalize` of a set. That a claimed ticket
  is the class's head is `LaneHeadIsLeastOpen`.

**The argument for command execution.** A step is the worker's, and then
changes the columns of one ticket, the open head of the lane (`Worked`), or it
leaves the attempts alone and ends at most tickets no operation is under way for
(`Elsewhere`). `IInv` of `CdpExecutionProofs` says what the awaited operation
tells about its ticket (`Waits`), what the columns of a ticket tell about each
other (`Rows`), that nothing is under way over a connection newer than the
locator (`Generations`), and that success is never remembered or reported of an
attempt Chrome did not carry out (`Truthful`). An answer is of the newest try of
the head, so `Truthful` gives `RawResultMeansEffect`; a ticket is tried when
everything ahead of it has ended, which gives `EffectsInLaneOrder`.

`NoEffectAfterTheEnd` is about what is still on its way to Chrome when a ticket
ends, and needs an invariant of its own (`EInv` of `CdpEffectProofs`). A ticket
ends in one of four ways. By a result: a try is sent once (`Once`) and one with
an outcome, remembered or reported, is not under way any more (`Reported`). By a
locator of an earlier connection: only an unsent command does (`Unsent`). By an
attach that came to nothing: then the attachment every earlier try names is
gone (`Attached`). By the human, which the property allows. `Attached` is the
hard part: it holds because the broker learns of attachments in the order in
which the extension's socket tells them. An attachment followed by another view
in the queue, or by one the broker already read, does not come back while the
extension runs (`Views`, `Known`), its generations only rise (`Ages`), and a
newer connection starts with nothing in the queue (`Greeted`).

**The argument for workspace control.** `IInv` (theorem `Inductive`) adds four
facts to the properties. `TicketsPlaced` and `WorkersSound` say what the columns
of one ticket tell about each other. `ControlsSound`: the active control records
are exactly those of the delivered controls that are open; so a termination past
its wait still has its record, `executeCdp` finds it, and no command starts
(`ArchivingIsQuiet`), and a pause set while a stop or kill is being carried out
finds either the record or the cause (`PausedWorkHasCause`). `EpochsHeld`: every
control epoch a termination remembers (as accepted, in its row, in its worker's
copy, or 0 where an outage or a restart dropped it) is at most the workspace's,
and where it is equal no takeover came since, because a takeover raises the
epoch; a termination that matches the epoch is therefore the owner's
(`EndedByItsOwner`). Each part has a lemma with a step per action.

**The argument for the event streams.** `IInv` is `TypeOK` and
`StreamsInOrder` with four facts. `Connections`: only the newest connection is
greeted, on a socket nothing was sent on, and where the registered socket is its
own, its row is still open. `EpochsRise`: epochs never fall along a stream, nor
pass the workspace's. `StreamsCurrent`: a tab that was not skipped has a stream
of the present owner and, once a connection's first inventory is in, one that
holds that connection's events only. `WireAhead`: what the registered socket
still carries of a tab was raised after everything stored of it. They are
inductive together: an event is stored only from the registered socket
(`Current`), so what a replaced one still carries is dropped, and a newer one
starts with an empty wire. `IInv` gives the four properties.

**The argument for relay v1.** Many callers reach `dispatchNext`, so a step is
looked at in two parts. `Turn` is what it makes of the commands itself: it
submits one, moves one in flight on, ends one, or queues again one that may be
repeated. `Deliver` is what it then sends: queued commands of targets that have
nothing in flight, at most one of each, under a lease that covers them. Lemma
`Commands` shows, action by action, that every step is a `Turn` with a
`Deliver`, and the invariants and two of the action properties follow from the
pair alone. `IInv` adds to the three safety properties `TypeOK`, what the
columns of a command say about each other (`Submission`), that a queued command
which must not be repeated was never handed over (`QueuedIsUntouched`, without
which a second delivery could not be told from a first), and that a registered
socket is of its own target (`Registered`).

**The argument for tab creation.** Many parties change the state (workers, the
gateway's timers, both directions of a socket, the dispatcher, Chrome, the
extension's cache, the user, restarts), so lemma `Summary` first sorts every step
by what it is to the rest: a worker's step for one ticket, which changes nothing of
the extension (`Worked`); a step of the extension or Chrome, which leaves the
tickets alone (`Served`); an answer or an inventory read (`Heard`); or a
connection or a process that ends. The invariant is then built in
layers, each kept with the help of those before it.

1. `Base`: types (`Shape`), what the operation a worker awaits tells of its
   ticket (`Control`), whom a message is about (`Addressed`). An attempt that
   has no outcome is the newest, which is `ReconciledBeforeRetry`.
2. `Outstanding`: an open ticket has at most one request on the two queues, the
   one its worker waits for; only a CREATE_TAB that timed out may outlive its
   wait. Without it an answer could not be told from one to an earlier question.
3. `Allocation`: workspaces of a ticket are at most its restarts and one for
   the checkpoint that lists it (`Counted`), and a group that was made and is not
   yet a workspace is the next one (`Grouped`). This gives `AllocatedOnce`.
4. `Owners`, `RowsKept`: a tab is only ever in a group of its own ticket, and of
   its rows in one workspace only the newest is active. With `Counted` at no
   restart this gives `OneRowPerTab`.
5. `Living`: a creation is on the socket, under way, remembered or gone, and
   never two of these (`Life`); whose tab is there is under way or remembered as
   a success, or the extension has lost it (`Accounted`, `misled`).
6. `Judgements`: whatever an answer says, on the socket, with its worker or in
   the journal, is so. That an answer cannot be outrun by its own request is
   `Ordered`: a reconciliation is behind its creation on the same socket.
7. `Seen`: an inventory asked for since an attempt succeeded shows its tab if
   it is there, and the tabs of earlier successes are gone. A retry follows a
   failure or a missing outcome, which `Judgements` covers, or a success whose
   tab that inventory does not show; so `RetryUnlessMisled`.
8. `LatestOnly`, `Uptodate`: only the newest success is grouped, and if no
   publication is due the newest inventory is of the browser as it is.
   The rows were reconciled with it, or a worker overtook it, which the
   property excepts: `RowsFollowBrowser`.

Proving changed the model in three places without changing its behaviour:
`OneRowPerTab` and `AllocatedOnce` now also say what a broker restart cannot
do (two active rows in one workspace; more than one workspace per restart), and
the number of a new group is how many its ticket has rather than a choice.

Only model-checked: the liveness properties (`DeliveredWorkEnds`,
`EveryCommandEnds`, `TerminationsEnd`, `EveryRequestEnds`, `WorkMoves`), for
liveness is beyond the prover, and the three findings, which the code violates. Every other property a passing
run checks is a theorem.

## 5. Plan

1. Done: `TabLane`, `RequestStore`, their proofs and the refinement;
   `CdpExecution`, `WorkspaceControl`, `EventStream`, `BrokerCore` and
   `TabCreation`, each with its proofs.
2. `WorkspaceControl`: the crash between recording delivery and activating a
   control, and an abstract specification (one control at a time decides a
   workspace) for it to implement.
3. Two endpoints of one workspace request, and the ranking of endpoints at
   admission; several windows and openers in the inventory.
4. Child sessions of the debugger, and the attempt cache by its three limits.

## 6. Not modelled

Contents of messages and results; pairing, signatures and capability
manifests; pagination and discovery; the audit log; the native host and the
stdio adapter (a break of theirs is a broken socket); the documented limits on
workers and queues, for which there is no code. Idempotency keys and caller
authority are checked before a ticket exists and decide only whether it does.

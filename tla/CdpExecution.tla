---------------------------- MODULE CdpExecution ----------------------------
(***************************************************************************)
(* One tab's send_cdp_command tickets, from the broker's executor          *)
(* (executeCdp, reconcileCdpAttempt) through the relay gateway             *)
(* (websocket-server.ts) to the extension that carries the command out     *)
(* (dispatcher.ts, cdp-executor.ts, attachment-manager.ts,                 *)
(* recent-command-cache.ts) and back, over sockets that break, are         *)
(* replaced and reconnect, with restarts on both sides.                    *)
(*                                                                         *)
(* The tickets 1..N are in lane order, acknowledged and waiting; that one  *)
(* of them at a time is worked on is what RequestStore establishes.  An    *)
(* attempt is a ticket and the number of the try.                          *)
(***************************************************************************)
EXTENDS Naturals, Sequences

CONSTANTS
    N,              \* tickets in the lane
    MaxGenerations, \* bound: connections the extension may open
    Oversize,       \* tickets whose result exceeds the relay's payload limit
    MaxFaults,      \* bound: broken sockets, restarts, detaches, lost answers
    MaxQueue        \* bound: messages on their way to the broker

ASSUME CdpAssumption ==
    /\ {N, MaxGenerations, MaxFaults, MaxQueue} \subseteq Nat
    /\ N > 0
    /\ MaxGenerations > 0
    /\ Oversize \subseteq 1..N

Ticket == 1..N

VARIABLES
    \* rows of the database
    state,          \* request_tickets.state
    pause,          \* request_tickets.pause_condition
    basis,          \* what the terminal result rests on
    tries,          \* how many rows of request_attempts the ticket has
    attempt,        \* the state of the newest of them
    dbGeneration,   \* connection_generation of the endpoint
    dbConnected,    \* its newest connection row has no disconnected_at
    locator,        \* connectionGeneration inside the tab's private locator
    dbAttachment,   \* attachment_generation of the tab
    \* memory of the broker process
    bound,          \* epoch the ConnectionRegistry holds for the endpoint, or 0
    greeting,       \* epoch of a socket past HELLO and before AUTH, or 0
    reconciling,    \* pendingEndpointReconciliation has the endpoint
    waiting,        \* the operation the lane's worker awaits
    \* memory and storage of the extension
    extGeneration,  \* RelayClient.connectionGeneration, 0 for null
    attachment,     \* generation of the debugger attachment of the tab, 0: none
    attachments,    \* the manager's generation counter
    running,        \* activeAttempts: commands not reported yet
    cache,          \* RecentAttemptCache: remembered outcomes
    executed,       \* attempts Chrome carried out
    \* the wire
    toExtension, toBroker,
    faults

tickets == <<state, pause, basis, tries, attempt>>
endpoint == <<dbGeneration, dbConnected, locator, dbAttachment>>
process == <<bound, greeting, reconciling, waiting>>
extension == <<extGeneration, attachment, attachments, running, cache, executed>>
wire == <<toExtension, toBroker>>
vars == <<tickets, endpoint, process, extension, wire, faults>>

Operation == {"attach", "send", "reconcile"}
Idle == [operation |-> "none", ticket |-> 0, try |-> 0, generation |-> 0]

Init ==
    /\ state = [t \in Ticket |-> "queued"]
    /\ pause = [t \in Ticket |-> "none"]
    /\ basis = [t \in Ticket |-> "none"]
    /\ tries = [t \in Ticket |-> 0]
    /\ attempt = [t \in Ticket |-> "none"]
    /\ dbGeneration = 1 /\ dbConnected = TRUE /\ locator = 1 /\ dbAttachment = 0
    /\ bound = 1 /\ greeting = 0 /\ reconciling = FALSE /\ waiting = Idle
    /\ extGeneration = 1 /\ attachment = 0 /\ attachments = 0
    /\ running = {} /\ cache = {} /\ executed = {}
    /\ toExtension = {} /\ toBroker = <<>>
    /\ faults = 0

Open(t) == state[t] \in {"queued", "running"}

(* Mutant: any open ticket may be worked on. *)
IsHeadAnywhere(t) == Open(t)

IsHead(t) == Open(t) /\ \A u \in Ticket : u < t => ~Open(u)

(* isEndpointConnected(): HELLO of a newer connection closes the socket of *)
(* the bound one, so that the two generations then differ.                 *)
Connected == dbConnected /\ bound # 0 /\ bound = dbGeneration

(* pump() is a microtask: a running ticket whose pause was lifted is taken *)
(* up by a worker before the broker's event loop handles anything else.    *)
(* (A queued head may be taken up at any time: it may have just arrived.)  *)
Pumped == \A t \in Ticket : state[t] = "running" /\ pause[t] = "none" => waiting # Idle

Fault == faults < MaxFaults /\ faults' = faults + 1

-----------------------------------------------------------------------------
(* The broker's worker.  Each operator below is what follows an await, up  *)
(* to the next await or the worker's return.                               *)

Return == waiting' = Idle

PauseTicket(t, condition) ==
    /\ pause' = [pause EXCEPT ![t] = condition]
    /\ Return

Finish(t, outcome, why) ==
    /\ state' = [state EXCEPT ![t] = outcome]
    /\ basis' = [basis EXCEPT ![t] = why]
    /\ pause' = [pause EXCEPT ![t] = "none"]
    /\ Return

(* execute() of the gateway. *)
Ask(operation, t, try, attached) ==
    /\ waiting' = [operation |-> operation, ticket |-> t, try |-> try, generation |-> bound]
    /\ toExtension' =
          IF extGeneration # bound THEN toExtension
          ELSE toExtension \cup
                  {[generation |-> bound, operation |-> operation, ticket |-> t, try |-> try,
                    attachment |-> attached]}

(* executeCdp() once the tab is attached: an attempt that is still open is *)
(* reconciled, otherwise a new one is recorded and sent.  Neither the      *)
(* pause of the ticket nor a fence is looked at again.                     *)
Dispatch(t, attached) ==
    LET open == attempt[t] = "pending"
        try == IF open THEN tries[t] ELSE tries[t] + 1
    IN  /\ tries' = [tries EXCEPT ![t] = try]
        /\ attempt' = [attempt EXCEPT ![t] = "pending"]
        /\ IF Connected
           THEN /\ Ask(IF open THEN "reconcile" ELSE "send", t, try, attached)
                /\ UNCHANGED pause
           ELSE /\ PauseTicket(t, "extension_disconnected")
                /\ UNCHANGED toExtension

(* Mutant: the attempt is left open. *)
AskHumanAttemptOpen(t) ==
    /\ PauseTicket(t, "user_confirmation_required")
    /\ UNCHANGED <<state, basis, tries, attempt, toExtension>>

(* finishAttempt(missing) and pauseForHumanConfirmation(). *)
AskHuman(t) ==
    /\ attempt' = [attempt EXCEPT ![t] = "missing"]
    /\ PauseTicket(t, "user_confirmation_required")
    /\ UNCHANGED <<state, basis, tries, toExtension>>

(* finishAttempt(completed) and succeedTicket() or failTicket(). *)
Settle(t, ok) ==
    /\ attempt' = [attempt EXCEPT ![t] = "completed"]
    /\ Finish(t, IF ok THEN "succeeded" ELSE "failed",
                 IF ok THEN "raw_result" ELSE "debugger_error")
    /\ UNCHANGED <<tries, toExtension>>

(* The catch of runWorker(): a ticket somebody paused is left alone.       *)
WorkerThrows(t, why) ==
    /\ IF pause[t] # "none" THEN Return /\ UNCHANGED <<state, pause, basis>>
       ELSE IF ~Connected
       THEN PauseTicket(t, "extension_disconnected") /\ UNCHANGED <<state, basis>>
       ELSE Finish(t, "failed", why)
    /\ UNCHANGED <<tries, attempt, toExtension>>

(* Mutant: a command without an answer is taken for one that failed. *)
RejectedMeansFailed(t, operation) == WorkerThrows(t, "transport")

(* The operation is rejected: the extension answered with ERROR, or the    *)
(* gateway's timer ran out.                                                *)
Rejected(t, operation) ==
    IF operation = "attach" THEN WorkerThrows(t, "transport")
    ELSE IF Connected THEN AskHuman(t)
    ELSE /\ PauseTicket(t, "extension_disconnected")
         /\ UNCHANGED <<state, basis, tries, attempt, toExtension>>

(* Mutant: the locator's generation is not compared with the connection's. *)
StartWorkAnyLocator(t) ==
    /\ IsHead(t)
    /\ pause[t] = "none"
    /\ waiting = Idle
    /\ state' = [state EXCEPT ![t] = "running"]
    /\ IF ~Connected
       THEN /\ pause' = [pause EXCEPT ![t] = "extension_disconnected"]
            /\ UNCHANGED <<tries, attempt, waiting, toExtension>>
       ELSE IF dbAttachment = 0
            THEN Ask("attach", t, 0, 0) /\ UNCHANGED <<pause, tries, attempt>>
            ELSE Dispatch(t, dbAttachment)
    /\ UNCHANGED <<basis, endpoint, bound, greeting, reconciling, extension, toBroker, faults>>

(* pump() and runWorker() up to the first await. *)
StartWork(t) ==
    /\ IsHead(t)
    /\ pause[t] = "none"
    /\ waiting = Idle
    /\ \/ /\ ~Connected
          /\ state' = [state EXCEPT ![t] = "running"]
          /\ pause' = [pause EXCEPT ![t] = "extension_disconnected"]
          /\ UNCHANGED <<basis, tries, attempt, waiting, toExtension>>
       \/ /\ Connected
          /\ locator # dbGeneration     \* assertCurrentLocator()
          /\ WorkerThrows(t, "locator")
       \/ /\ Connected
          /\ locator = dbGeneration
          /\ IF dbAttachment = 0
             THEN Ask("attach", t, 0, 0) /\ UNCHANGED <<pause, tries, attempt>>
             ELSE Dispatch(t, dbAttachment)
          /\ state' = [state EXCEPT ![t] = "running"]
          /\ UNCHANGED basis
    /\ UNCHANGED <<endpoint, bound, greeting, reconciling, extension, toBroker, faults>>

(* attemptTimer(): 120 s without an answer, because the answer was lost or *)
(* Chrome is still busy with the command.                                  *)
OperationTimesOut ==
    /\ waiting # Idle
    /\ Fault \/ (extGeneration # waiting.generation /\ UNCHANGED faults)
    /\ Rejected(waiting.ticket, waiting.operation)
    /\ UNCHANGED <<endpoint, bound, greeting, reconciling, extension, toBroker>>

-----------------------------------------------------------------------------
(* What the gateway hands to the broker, in the order of the socket.       *)

(* A message counts only on the socket the registry holds; one sent before *)
(* the broker has read AUTH waits for it here, and where it does not wait  *)
(* the gateway closes the socket (SocketBreaks).                           *)
Receives(kind) ==
    /\ Pumped
    /\ toBroker # <<>>
    /\ Head(toBroker).generation = bound
    /\ Head(toBroker).kind = kind
    /\ toBroker' = Tail(toBroker)

DropStaleMessage ==
    /\ toBroker # <<>>
    /\ Head(toBroker).generation \notin {bound, greeting}
    /\ toBroker' = Tail(toBroker)
    /\ UNCHANGED <<tickets, endpoint, process, extension, toExtension, faults>>

(* handleOperationResult() and handleV2Error(), matched by attemptId.      *)
Answers(m) ==
    [operation |-> m.operation, ticket |-> m.ticket, try |-> m.try, generation |-> m.generation]
        = waiting

LateAnswer ==
    /\ Receives("answer")
    /\ ~Answers(Head(toBroker))
    /\ UNCHANGED <<tickets, endpoint, process, extension, toExtension, faults>>

ReceiveAnswer ==
    LET m == Head(toBroker) IN
    /\ Receives("answer")
    /\ Answers(m)
    /\ \/ /\ m.outcome = "refused"
          /\ Rejected(m.ticket, m.operation)
          /\ UNCHANGED dbAttachment
       \/ /\ m.operation = "attach" /\ m.outcome = "succeeded"
          /\ dbAttachment' = m.attachment
          /\ Dispatch(m.ticket, m.attachment)
          /\ UNCHANGED <<state, basis>>
       \/ /\ m.operation = "attach" /\ m.outcome = "failed"
          /\ WorkerThrows(m.ticket, "transport")
          /\ UNCHANGED dbAttachment
       \/ /\ m.operation # "attach" /\ m.outcome \in {"succeeded", "failed"}
          /\ Settle(m.ticket, m.outcome = "succeeded")
          /\ UNCHANGED dbAttachment
       \/ /\ m.outcome = "not_found"
          /\ AskHuman(m.ticket)
          /\ UNCHANGED dbAttachment
    /\ UNCHANGED <<dbGeneration, dbConnected, locator, bound, greeting, reconciling, extension, faults>>

PausedBy(condition) == [t \in Ticket |-> IF state[t] = "running" THEN condition ELSE pause[t]]

(* onInventory(): reconcileInventory() takes the snapshot only if it is of *)
(* the newest connection; the first one of a connection resumes the        *)
(* tickets the disconnection paused.                                       *)
ReceiveInventory ==
    LET current == dbConnected /\ Head(toBroker).generation = dbGeneration IN
    /\ Receives("inventory")
    /\ locator' = IF current THEN dbGeneration ELSE locator
    /\ dbAttachment' = IF current THEN Head(toBroker).attachment ELSE dbAttachment
    /\ reconciling' = FALSE
    /\ pause' = [t \in Ticket |->
                    IF reconciling /\ Open(t) /\ pause[t] = "extension_disconnected"
                    THEN "none" ELSE pause[t]]
    /\ UNCHANGED <<state, basis, tries, attempt, dbGeneration, dbConnected, bound, greeting,
                   waiting, extension, toExtension, faults>>

(* onDebuggerDetached(). *)
ReceiveDetach ==
    /\ Receives("detached")
    /\ dbAttachment' = 0
    /\ pause' = PausedBy("extension_disconnected")
    /\ UNCHANGED <<state, basis, tries, attempt, dbGeneration, dbConnected, locator, process,
                   extension, toExtension, faults>>

-----------------------------------------------------------------------------
(* Connections, as the gateway and the endpoint's rows see them.           *)

(* HELLO, answered with CHALLENGE. *)
Hello ==
    /\ Pumped
    /\ extGeneration = 0
    /\ dbGeneration < MaxGenerations
    /\ dbGeneration' = dbGeneration + 1
    /\ dbConnected' = TRUE
    /\ extGeneration' = dbGeneration + 1
    /\ greeting' = dbGeneration + 1
    /\ UNCHANGED <<tickets, locator, dbAttachment, bound, reconciling, waiting, attachment,
                   attachments, running, cache, executed, wire, faults>>

(* AUTH: bind() and onExtensionReady().  What awaits an answer on the      *)
(* socket that is replaced goes on waiting.                                *)
Authenticate ==
    /\ Pumped
    /\ greeting # 0
    /\ greeting = extGeneration
    /\ bound' = greeting
    /\ greeting' = 0
    /\ reconciling' = TRUE
    /\ UNCHANGED <<tickets, endpoint, waiting, extension, wire, faults>>

(* onSocketClose() of the bound socket: rejectEndpointAttempts() and       *)
(* closeEndpointConnection(), which does nothing to the tickets when a     *)
(* newer connection has replaced the row.                                  *)
BrokerSeesClose ==
    LET closes == dbConnected /\ dbGeneration = bound
        rejected == {t \in Ticket : /\ waiting.generation = bound
                                    /\ waiting.ticket = t
                                    /\ waiting.operation = "attach" => pause[t] = "none"}
    IN
    /\ Pumped
    /\ bound # 0
    /\ extGeneration # bound
    /\ bound' = 0
    /\ dbConnected' = (dbConnected /\ ~closes)
    /\ reconciling' = (reconciling \/ closes)
    /\ pause' = [t \in Ticket |->
                    IF t \in rejected \/ (closes /\ state[t] = "running")
                    THEN "extension_disconnected" ELSE pause[t]]
    /\ waiting' = IF waiting.generation = bound THEN Idle ELSE waiting
    /\ UNCHANGED <<state, basis, tries, attempt, dbGeneration, locator, dbAttachment, greeting,
                   extension, wire, faults>>

(* onSocketClose() of a socket that said HELLO and was never bound. *)
BrokerSeesUnauthenticatedClose ==
    LET closes == dbConnected /\ dbGeneration = greeting IN
    /\ Pumped
    /\ greeting # 0
    /\ extGeneration # greeting
    /\ greeting' = 0
    /\ dbConnected' = (dbConnected /\ ~closes)
    /\ reconciling' = (reconciling \/ closes)
    /\ pause' = IF closes THEN PausedBy("extension_disconnected") ELSE pause
    /\ UNCHANGED <<state, basis, tries, attempt, dbGeneration, locator, dbAttachment, bound,
                   waiting, extension, wire, faults>>

(* The transport fails: the extension forgets its generation at once, the  *)
(* broker notices later. *)
LoseSocket ==
    /\ extGeneration # 0
    /\ extGeneration' = 0
    /\ toExtension' = {}
    /\ UNCHANGED <<tickets, endpoint, process, attachment, attachments, running, cache, executed,
                   toBroker>>

SocketBreaks == LoseSocket /\ Fault

(* The extension notices that the broker gave its socket up. *)
SocketDies == LoseSocket /\ extGeneration \notin {bound, greeting} /\ UNCHANGED faults

(* The broker restarts; recover() runs before the gateway listens.  The    *)
(* connection's row keeps disconnected_at NULL.                            *)
BrokerRestarts ==
    /\ Fault
    /\ bound' = 0 /\ greeting' = 0 /\ reconciling' = FALSE /\ waiting' = Idle
    /\ toBroker' = <<>>
    /\ pause' = [t \in Ticket |-> IF state[t] = "running" /\ pause[t] = "none"
                                  THEN "extension_disconnected" ELSE pause[t]]
    /\ UNCHANGED <<state, basis, tries, attempt, endpoint, extension, toExtension>>

-----------------------------------------------------------------------------
(* The extension.                                                          *)

Tell(message) ==
    /\ Len(toBroker) < MaxQueue
    /\ toBroker' = Append(toBroker, message)

Notify(kind, attached) ==
    Tell([kind |-> kind, generation |-> extGeneration, attachment |-> attached])

Answer(m, outcome, attached) ==
    Tell([kind |-> "answer", generation |-> extGeneration, operation |-> m.operation,
          ticket |-> m.ticket, try |-> m.try, outcome |-> outcome, attachment |-> attached])

Takes(m, operation) ==
    /\ m \in toExtension
    /\ m.operation = operation
    /\ toExtension' = toExtension \ {m}

(* assertExpected(): the inventory changed under the message. *)
RefuseStale(m) ==
    /\ m \in toExtension
    /\ Fault
    /\ toExtension' = toExtension \ {m}
    /\ Answer(m, "refused", 0)
    /\ UNCHANGED <<tickets, endpoint, process, extension>>

(* attach(): a tab attached already is a conflict, since the broker names  *)
(* no generation; Chrome itself may refuse as well.                        *)
Attach(m) ==
    /\ Takes(m, "attach")
    /\ attachment = 0
    /\ attachment' = attachments + 1
    /\ attachments' = attachments + 1
    /\ Answer(m, "succeeded", attachments + 1)
    /\ UNCHANGED <<tickets, endpoint, process, extGeneration, running, cache, executed, faults>>

AttachFails(m) ==
    /\ Takes(m, "attach")
    /\ Answer(m, "failed", 0)
    /\ UNCHANGED <<tickets, endpoint, process, extension, faults>>

Outcome(c, ok) == [ticket |-> c.ticket, try |-> c.try, attachment |-> c.attachment, ok |-> ok]

(* remember(): a newer outcome of an attempt replaces the older one. *)
Remember(o) ==
    cache' = {e \in cache : e.ticket # o.ticket \/ e.try # o.try} \cup {o}

(* dispatchMutation() and CdpExecutor.execute() up to sendCommand(). *)
TakeCommand(m) ==
    /\ Takes(m, "send")
    /\ running' = running \cup
          {[ticket |-> m.ticket, try |-> m.try, attachment |-> m.attachment, stage |-> "sent"]}
    /\ UNCHANGED <<tickets, endpoint, process, extGeneration, attachment, attachments, cache,
                   executed, toBroker, faults>>

(* Mutant: a command whose attachment is gone counts as carried out. *)
RunCommandUnattached(c) ==
    /\ c \in running
    /\ c.stage = "sent"
    /\ executed' = IF attachment = c.attachment THEN executed \cup {<<c.ticket, c.try>>} ELSE executed
    /\ running' = (running \ {c}) \cup {[c EXCEPT !.stage = "ok"]}
    /\ UNCHANGED <<tickets, endpoint, process, extGeneration, attachment, attachments, cache, wire,
                   faults>>

(* Chrome carries the command out, unless its attachment is gone. *)
RunCommand(c) ==
    /\ c \in running
    /\ c.stage = "sent"
    /\ LET attached == attachment = c.attachment IN
       /\ executed' = IF attached THEN executed \cup {<<c.ticket, c.try>>} ELSE executed
       /\ running' = (running \ {c}) \cup
             {[c EXCEPT !.stage = IF attached /\ c.ticket \notin Oversize THEN "ok" ELSE "error"]}
    /\ UNCHANGED <<tickets, endpoint, process, extGeneration, attachment, attachments, cache, wire,
                   faults>>

(* The outcome is remembered and reported.  Without a connection building  *)
(* the report throws, and what is remembered then is that failure.         *)
ReportCommand(c) ==
    /\ c \in running
    /\ c.stage # "sent"
    /\ running' = running \ {c}
    /\ Remember(Outcome(c, c.stage = "ok" /\ extGeneration # 0))
    /\ IF extGeneration = 0 THEN UNCHANGED toBroker
       ELSE Answer([operation |-> "send", ticket |-> c.ticket, try |-> c.try],
                   IF c.stage = "ok" THEN "succeeded" ELSE "failed", 0)
    /\ UNCHANGED <<tickets, endpoint, process, extGeneration, attachment, attachments, executed,
                   toExtension, faults>>

(* RECONCILE_ATTEMPT: only the cache is asked, under the attachment        *)
(* generation the broker names.  A command still running is not in it, and *)
(* an outcome may have left it: the cache is bounded in entries, bytes and *)
(* age, and a restarted extension counts its tab generations anew.         *)
Reconcile(m) ==
    /\ Takes(m, "reconcile")
    /\ \E found \in SUBSET {e \in cache : e.ticket = m.ticket /\ e.try = m.try
                                              /\ e.attachment = m.attachment} :
          Answer(m, IF found = {} THEN "not_found"
                    ELSE IF \E e \in found : e.ok THEN "succeeded" ELSE "failed", 0)
    /\ UNCHANGED <<tickets, endpoint, process, extension, faults>>

(* Mutant: READY alone publishes nothing. *)
SendInventoryOnChange ==
    /\ extGeneration # 0
    /\ extGeneration = bound
    /\ ~\E i \in DOMAIN toBroker : toBroker[i].kind = "inventory"
    /\ attachment # dbAttachment
    /\ Notify("inventory", attachment)
    /\ UNCHANGED <<tickets, endpoint, process, extension, toExtension, faults>>

(* onReady() and scheduleInventoryPublish(). *)
SendInventory ==
    /\ extGeneration # 0
    /\ extGeneration = bound
    /\ ~\E i \in DOMAIN toBroker : toBroker[i].kind = "inventory"
    /\ reconciling \/ attachment # dbAttachment
    /\ Notify("inventory", attachment)
    /\ UNCHANGED <<tickets, endpoint, process, extension, toExtension, faults>>

(* onChromeDetach(): without a connection nobody is told. *)
ChromeDetaches ==
    /\ attachment # 0
    /\ Fault
    /\ attachment' = 0
    /\ IF extGeneration = 0 THEN UNCHANGED toBroker
       ELSE Notify("detached", attachment)
    /\ UNCHANGED <<tickets, endpoint, process, extGeneration, attachments, running, cache, executed,
                   toExtension>>

(* The service worker is stopped or reloaded: its memory and its debugger  *)
(* attachments are gone, chrome.storage stays.                             *)
ExtensionRestarts ==
    /\ Fault
    /\ extGeneration' = 0
    /\ attachment' = 0
    /\ attachments' = 0
    /\ running' = {}
    /\ toExtension' = {}
    /\ UNCHANGED <<tickets, endpoint, process, cache, executed, toBroker>>

-----------------------------------------------------------------------------
(* resolve_browser_request, decided and committed. *)
HumanConfirms(t) ==
    /\ Pumped
    /\ state[t] = "running"
    /\ pause[t] = "user_confirmation_required"
    /\ state' = [state EXCEPT ![t] = "succeeded"]
    /\ basis' = [basis EXCEPT ![t] = "human"]
    /\ pause' = [pause EXCEPT ![t] = "none"]
    /\ UNCHANGED <<tries, attempt, endpoint, process, extension, wire, faults>>

HumanRestarts(t) ==
    LET ended == {u \in Ticket : u >= t /\ Open(u)} IN
    /\ Pumped
    /\ state[t] = "running"
    /\ pause[t] = "user_confirmation_required"
    /\ state' = [u \in Ticket |-> IF u \in ended THEN "failed" ELSE state[u]]
    /\ basis' = [u \in Ticket |-> IF u \in ended THEN "human" ELSE basis[u]]
    /\ pause' = [u \in Ticket |-> IF u \in ended THEN "none" ELSE pause[u]]
    /\ UNCHANGED <<tries, attempt, endpoint, process, extension, wire, faults>>

BrokerStep ==
    \/ \E t \in Ticket : StartWork(t)
    \/ OperationTimesOut
    \/ DropStaleMessage
    \/ LateAnswer
    \/ ReceiveAnswer
    \/ ReceiveInventory
    \/ ReceiveDetach
    \/ Authenticate
    \/ BrokerSeesClose
    \/ BrokerSeesUnauthenticatedClose

ExtensionStep ==
    \/ Hello
    \/ \E m \in toExtension : Attach(m) \/ AttachFails(m) \/ TakeCommand(m) \/ Reconcile(m)
    \/ \E c \in running : RunCommand(c) \/ ReportCommand(c)
    \/ SendInventory
    \/ SocketDies

Next ==
    \/ BrokerStep
    \/ ExtensionStep
    \/ \E m \in toExtension : RefuseStale(m)
    \/ SocketBreaks
    \/ BrokerRestarts
    \/ ChromeDetaches
    \/ ExtensionRestarts
    \/ \E t \in Ticket : HumanConfirms(t) \/ HumanRestarts(t)

Spec == Init /\ [][Next]_vars

-----------------------------------------------------------------------------
TypeOK ==
    /\ state \in [Ticket -> {"queued", "running", "succeeded", "failed"}]
    /\ pause \in [Ticket -> {"none", "extension_disconnected", "user_confirmation_required"}]
    /\ basis \in [Ticket -> {"none", "raw_result", "debugger_error", "transport", "locator", "human"}]
    /\ tries \in [Ticket -> Nat]
    /\ attempt \in [Ticket -> {"none", "pending", "completed", "missing"}]
    /\ {dbGeneration, bound, greeting, locator, extGeneration} \subseteq 0..MaxGenerations
    /\ {dbAttachment, attachment, attachments, faults} \subseteq Nat
    /\ {dbConnected, reconciling} \subseteq BOOLEAN
    /\ waiting.operation \in {"none", "attach", "send", "reconcile"}
    /\ waiting.ticket \in Ticket \cup {0}
    /\ executed \subseteq Ticket \X Nat
    /\ \A c \in running : c.ticket \in Ticket /\ c.stage \in {"sent", "ok", "error"}
    /\ \A e \in cache : e.ticket \in Ticket /\ e.ok \in BOOLEAN
    /\ \A m \in toExtension : m.ticket \in Ticket /\ m.generation \in 1..MaxGenerations
    /\ \A i \in DOMAIN toBroker : toBroker[i].generation \in 1..MaxGenerations

(* "completion_basis: raw_result" is never said of a command Chrome did    *)
(* not carry out: not from a cached outcome of another try, another        *)
(* attachment or another connection, nor from an answer that came late.    *)
RawResultMeansEffect ==
    \A t \in Ticket : basis[t] = "raw_result" => <<t, tries[t]>> \in executed

(* A command takes effect only after every command ahead of it in the lane *)
(* has ended. *)
EffectsInLaneOrder ==
    \A t, u \in Ticket : t < u /\ (\E k \in 1..tries[u] : <<u, k>> \in executed) => ~Open(t)

(* Chrome does not start on the newest try of a command whose ticket has   *)
(* ended, unless it was the human who ended it.                            *)
NoEffectAfterTheEnd ==
    [][\A t \in Ticket :
          <<t, tries[t]>> \in executed' \ executed => Open(t) \/ basis[t] = "human"]_vars

(* Nothing reaches the extension over a connection whose inventory the     *)
(* broker has not reconciled: READY alone admits no work.                  *)
CommandsFollowInventory ==
    \A m \in toExtension : m.generation = extGeneration => locator >= m.generation

(* The human is asked only about a command that was sent and has no open   *)
(* attempt left: the answer cannot race a reconciliation.                  *)
HumanAskedInDoubt ==
    \A t \in Ticket :
        pause[t] = "user_confirmation_required" =>
            state[t] = "running" /\ tries[t] > 0 /\ attempt[t] = "missing" /\ waiting.ticket # t

-----------------------------------------------------------------------------
(* Progress: the broker's and the extension's event loops keep running,    *)
(* each side notices a socket that is gone, the extension's alarm          *)
(* reconnects it, and Chrome answers.                                      *)
Fairness ==
    /\ \A t \in Ticket : WF_vars(StartWork(t))
    /\ WF_vars(OperationTimesOut)
    /\ WF_vars(DropStaleMessage \/ LateAnswer \/ ReceiveAnswer \/ ReceiveInventory \/ ReceiveDetach)
    /\ WF_vars(Authenticate)
    /\ WF_vars(BrokerSeesClose \/ BrokerSeesUnauthenticatedClose)
    /\ WF_vars(Hello)
    /\ WF_vars(\E m \in toExtension : Attach(m) \/ AttachFails(m) \/ TakeCommand(m) \/ Reconcile(m))
    /\ WF_vars(\E c \in running : RunCommand(c) \/ ReportCommand(c))
    /\ WF_vars(SendInventory)
    /\ WF_vars(SocketDies)

FairSpec == Spec /\ Fairness

Ready == Connected /\ ~reconciling
Stranded(t) == Ready /\ pause[t] = "extension_disconnected"
AwaitsHuman(t) == pause[t] = "user_confirmation_required"

(* Across breaks, replacements and restarts no command is forgotten: once  *)
(* the faults are over it ends, or the lane waits for the human, or a      *)
(* debugger detach stranded a ticket.                                      *)
EveryCommandEnds ==
    \A t \in Ticket :
        Open(t) ~> (~Open(t) \/ \E u \in 1..t : AwaitsHuman(u) \/ Stranded(u))

-----------------------------------------------------------------------------
(* What the documentation says and the code does not keep.                 *)

(* System-Architecture.md, "Restart never licenses automatic replay of an  *)
(* ambiguous effect": Chrome carries each command out once at most.        *)
NoReplay ==
    \A t \in Ticket : \A j, k \in 1..tries[t] :
        <<t, j>> \in executed /\ <<t, k>> \in executed => j = k

(* System-Architecture.md, "Already-dispatched work is reconciled rather   *)
(* than inferred canceled": a command is not published as failed with a    *)
(* debugger error although Chrome carried it out.                          *)
ErrorMeansNoEffect ==
    \A t \in Ticket : basis[t] = "debugger_error" => \A k \in 1..tries[t] : <<t, k>> \notin executed

(* User-Experience-Definition.md: when the extension disconnects, "a       *)
(* queued or running request remains in that lifecycle state".             *)
ReconnectFailsNothing ==
    \A t \in Ticket : basis[t] # "locator"
=============================================================================

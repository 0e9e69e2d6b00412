----------------------------- MODULE BrokerCore -----------------------------
(***************************************************************************)
(* The relay-v1 broker (core/broker-core.ts with lease-manager.ts,         *)
(* routing-policy.ts, target-state-index.ts, command-state-machine.ts and  *)
(* the v1 tables of storage/sqlite/database.ts), and the registration of   *)
(* v1 and v2 sockets it shares with the gateway (extension-relay/).        *)
(*                                                                         *)
(* Every public call is synchronous but acquireSession(), which polls.     *)
(* Time is a choice: a lease, a deadline or a heartbeat may lapse at any   *)
(* moment.  Left out: scopes and capabilities, but for the refusals they   *)
(* cause (Dispatch), administrators acting through the bindings of others, *)
(* renamed targets, traces and audit.  A v1 extension is not in the        *)
(* repository; it is modelled from the protocol the gateway speaks.        *)
(***************************************************************************)
EXTENDS Integers, Sequences, FiniteSets

CONSTANTS
    Agent,           \* principals
    Target,          \* paired extensions
    Command,         \* commands, each dispatched at most once
    Writes,          \* those whose operation needs browser:write
    Repeatable,      \* those of class 'read' or 'idempotent-write'
    None,
    ErrorThreshold,  \* consecutive failures that make a target unresponsive
    MaxQueued,       \* maxQueuedPerTarget
    Unsteady,        \* bound: targets whose heartbeats may fail to arrive
    MaxEpoch,        \* bound: v1 handshakes of a target between two restarts
    MaxGeneration,   \* bound: v2 connections of a target
    MaxToken,        \* bound: leases of a target
    MaxRestarts      \* bound: ends of the broker process

ASSUME CoreAssumption ==
    /\ Writes \subseteq Command /\ Repeatable \subseteq Command /\ Unsteady \subseteq Target
    /\ None \notin Agent \cup Target
    /\ ErrorThreshold \in Nat \ {0}
    /\ MaxQueued \in Nat /\ MaxEpoch \in Nat /\ MaxGeneration \in Nat
    /\ MaxToken \in Nat /\ MaxRestarts \in Nat

VARIABLES
    bound,      \* agent_target_bindings: the active binding of an agent
    leaseOwner, \* the principal of the lease that is neither released nor expired
    token,      \* the highest fencing_token of a target
    waiter,     \* the target an acquireSession() still polls for
    late,       \* history: leases granted to a waiter without its binding
    alive,      \* targets whose row is not revoked
    failures,   \* consecutive_failures, as far as the threshold
    index,      \* TargetStateIndex.connections: an epoch, 0 for no entry
    stale,      \* targets whose index entry has outlived the heartbeat timeout
    counter,    \* ConnectionRegistry.counters
    generation, \* the v2 connection generation
    byTarget,   \* currentByTarget
    byEndpoint, \* currentByEndpoint
    challenged, \* v1 sockets between HELLO and AUTH
    open,       \* authenticated sockets
    closing,    \* sockets the gateway closed, their close event still to come
    quiet,      \* sockets without a message for the heartbeat timeout
    submitted,  \* the commands in the order of created_at
    state, principal, place, epoch,  \* the columns of a command
    overdue,    \* commands past their deadline
    held,       \* COMMANDs an extension has and has not begun
    running,    \* executions under way in an extension
    ran,        \* history: executions that had their effect
    wire,       \* what an extension sent on its socket and the gateway has not read
    restarts

agents   == <<bound, leaseOwner, token, waiter, late>>
health   == <<alive, failures>>
presence == <<index, stale>>
sockets  == <<counter, generation, byTarget, byEndpoint, challenged, open, closing, quiet>>
columns  == <<submitted, principal, place, overdue>>
journal  == <<state, epoch, held>>
browser  == <<running, ran>>
vars == <<agents, health, presence, sockets, columns, journal, browser, wire, restarts>>

InFlight == {"DELIVERED", "ACKED", "RUNNING"}
Terminal == {"SUCCEEDED", "FAILED", "REJECTED", "UNKNOWN_OUTCOME", "TIMED_OUT"}
State == {"none", "QUEUED"} \cup InFlight \cup Terminal

Socket == [target : Target, proto : {1, 2}, epoch : 1 .. MaxEpoch + MaxGeneration]

ASSUME NoSocketAssumption == None \notin Socket

Proto(registered) == IF registered = None THEN 0 ELSE registered.proto

Reply == [command : Command, kind : {"ACK", "ok", "failed"}]

-----------------------------------------------------------------------------
(* Facts and opinions: the snapshot of a target, evaluate(), deliver().    *)

Owns(a, t) == leaseOwner[t] = a

(* TargetStateIndex.snapshot(): its status. *)
Status(t) ==
    CASE index[t] = 0 \/ t \in stale -> "offline"
      [] failures[t] >= ErrorThreshold -> "error"
      [] leaseOwner[t] # None -> "busy"
      [] OTHER -> "available"

(* Mutant: reads are delivered past the lease of another. *)
DeliversReads(a, t, c) ==
    \/ Status(t) \in {"available", "busy"} /\ Owns(a, t)
    \/ Status(t) \in {"available", "busy"} /\ c \notin Writes

(* evaluate() says 'deliver'. *)
Delivers(a, t, c) ==
    \/ Status(t) \in {"available", "busy"} /\ Owns(a, t)
    \/ Status(t) = "available" /\ c \notin Writes

(* evaluate() says 'reject', of a request that may wait or not. *)
Rejects(a, t, c, waits, depth) ==
    \/ Status(t) = "error"
    \/ Status(t) = "offline" /\ ~waits
    \/ Status(t) = "available" /\ c \in Writes
    \/ Status(t) = "busy" /\ ~Owns(a, t) /\ (~waits \/ depth >= MaxQueued)

(* countQueuedForTarget(), hasInFlightForTarget(), ORDER BY created_at. *)
QueueDepth(t) == Cardinality({c \in Command : place[c] = t /\ state[c] = "QUEUED"})

(* Mutants: a command counts from its ACK, or from its place in the queue. *)
HasAcked(t, at, now) == \E c \in Command : at[c] = t /\ now[c] \in {"ACKED", "RUNNING"}
HasUnfinished(t, at, now) ==
    \E c \in Command : at[c] = t /\ now[c] \in InFlight \cup {"QUEUED"}

HasInFlight(t, at, now) == \E c \in Command : at[c] = t /\ now[c] \in InFlight

Before(c, d) ==
    \E i, j \in DOMAIN submitted : i < j /\ submitted[i] = c /\ submitted[j] = d

(* deliver() for each command of a set, in the order of created_at, with   *)
(* the facts of the next state and the commands in the states `now`.  A    *)
(* v1 socket takes one command of its target; a v2 socket makes send()     *)
(* throw, and the next command is tried.                                   *)
DeliverAll(commands, now, isOpen) ==
    LET due == {c \in commands :
                  /\ now[c] = "QUEUED" /\ c \notin overdue
                  /\ place'[c] \in alive' /\ Delivers(principal[c], place[c], c)'
                  /\ ~HasInFlight(place'[c], place', now)
                  /\ byTarget'[place'[c]] \in isOpen}
        sent == {c \in due : byTarget'[place'[c]].proto = 1
                             /\ ~ \E d \in due : Before(d, c)' /\ place'[d] = place'[c]}
        thrown == {c \in due : byTarget'[place'[c]].proto = 2}
    IN  /\ state' = [c \in Command |->
              CASE c \in sent -> "DELIVERED"
                [] c \in thrown -> IF c \in Repeatable THEN "FAILED" ELSE "UNKNOWN_OUTCOME"
                [] OTHER -> now[c]]
        /\ epoch' = [c \in Command |->
              IF c \in sent \cup thrown THEN byTarget'[place'[c]].epoch ELSE epoch[c]]
        /\ held' = [c \in Command |-> IF c \in sent THEN held[c] + 1 ELSE held[c]]

(* flushTargetQueue(). *)
Flush(t, now) == DeliverAll({c \in Command : place[c] = t}, now, open')

-----------------------------------------------------------------------------
(* Agents: bindings, leases and commands.                                  *)

Init ==
    /\ bound = [a \in Agent |-> None] /\ leaseOwner = [t \in Target |-> None]
    /\ token = [t \in Target |-> 0] /\ waiter = [a \in Agent |-> None] /\ late = {}
    /\ alive = Target /\ failures = [t \in Target |-> 0]
    /\ index = [t \in Target |-> 0] /\ stale = {}
    /\ counter = [t \in Target |-> 0] /\ generation = [t \in Target |-> 0]
    /\ byTarget = [t \in Target |-> None] /\ byEndpoint = [t \in Target |-> None]
    /\ challenged = {} /\ open = {} /\ closing = {} /\ quiet = {}
    /\ submitted = <<>> /\ state = [c \in Command |-> "none"]
    /\ principal = [c \in Command |-> None] /\ place = [c \in Command |-> None]
    /\ epoch = [c \in Command |-> 0] /\ overdue = {}
    /\ held = [c \in Command |-> 0] /\ running = [c \in Command |-> 0]
    /\ ran = [c \in Command |-> 0] /\ wire = [t \in Target |-> <<>>]
    /\ restarts = 0

(* createBinding(): one active binding per agent and per target. *)
Bindable(a, t) ==
    /\ t \in alive /\ bound[a] = None
    /\ \A b \in Agent : bound[b] # t

BindAgent(a, t) ==
    /\ Bindable(a, t)
    /\ bound' = [bound EXCEPT ![a] = t]
    /\ UNCHANGED <<leaseOwner, token, waiter, late, health, presence, sockets, columns,
                   journal, browser, wire, restarts>>

Released(t) ==
    /\ leaseOwner' = [leaseOwner EXCEPT ![t] = None]
    /\ late' = late \ {t}

(* unbindAgent(): the agent's lease of the target goes with its binding;   *)
(* its queued commands and its pending acquireSession() stay.              *)
UnbindAgent(a) ==
    /\ bound[a] # None
    /\ bound' = [bound EXCEPT ![a] = None]
    /\ IF Owns(a, bound[a]) THEN Released(bound[a]) ELSE UNCHANGED <<leaseOwner, late>>
    /\ UNCHANGED <<token, waiter, health, presence, sockets, columns, browser, wire, restarts>>
    /\ Flush(bound[a], state)

(* acquireLease(): a fencing token per lease. *)
Lease(a, t) ==
    /\ leaseOwner[t] = None /\ token[t] < MaxToken
    /\ leaseOwner' = [leaseOwner EXCEPT ![t] = a]
    /\ token' = [token EXCEPT ![t] = @ + 1]

(* acquireSession(): granted at once, or left to poll. *)
AcquireSession(a) ==
    /\ bound[a] # None
    /\ \/ Lease(a, bound[a]) /\ UNCHANGED waiter
       \/ /\ leaseOwner[bound[a]] # None /\ waiter[a] = None
          /\ waiter' = [waiter EXCEPT ![a] = bound[a]]
          /\ UNCHANGED <<leaseOwner, token>>
    /\ UNCHANGED <<bound, late, health, presence, sockets, columns, journal, browser,
                   wire, restarts>>

(* A later poll: the binding was resolved before the wait, and is not      *)
(* looked at again.                                                        *)
PollGrants(a) ==
    LET t == waiter[a] IN
    /\ t # None /\ Lease(a, t)
    /\ waiter' = [waiter EXCEPT ![a] = None]
    /\ late' = IF bound[a] = t THEN late ELSE late \cup {t}
    /\ UNCHANGED <<bound, health, presence, sockets, columns, journal, browser, wire, restarts>>

WaitEnds(a) ==
    /\ waiter[a] # None
    /\ waiter' = [waiter EXCEPT ![a] = None]
    /\ UNCHANGED <<bound, leaseOwner, token, late, health, presence, sockets, columns,
                   journal, browser, wire, restarts>>

(* releaseSession(). *)
ReleaseSession(a) ==
    /\ bound[a] # None /\ Owns(a, bound[a])
    /\ Released(bound[a])
    /\ UNCHANGED <<bound, token, waiter, health, presence, sockets, columns, browser,
                   wire, restarts>>
    /\ Flush(bound[a], state)

LeaseExpires(t) ==
    /\ leaseOwner[t] # None
    /\ Released(t)
    /\ UNCHANGED <<bound, token, waiter, health, presence, sockets, columns, journal,
                   browser, wire, restarts>>

CreateCommand(c, a, t) ==
    /\ submitted' = Append(submitted, c)
    /\ principal' = [principal EXCEPT ![c] = a] /\ place' = [place EXCEPT ![c] = t]

(* dispatch(): `permitted` is the verdict on scope and capability.  Only   *)
(* this command is delivered, whatever else is queued.  A session handle   *)
(* adds a check and a fencing token, which nothing compares afterwards.    *)
Dispatch(c, a, waits, permitted) ==
    LET t == bound[a]
        rejected == ~permitted \/ Rejects(a, t, c, waits, QueueDepth(t))
    IN  /\ state[c] = "none" /\ t # None
        /\ CreateCommand(c, a, t)
        /\ UNCHANGED <<agents, health, presence, sockets, overdue, browser, wire, restarts>>
        /\ DeliverAll({c}, [state EXCEPT ![c] = IF rejected THEN "REJECTED" ELSE "QUEUED"],
                      open)

DeadlinePasses(c) ==
    /\ state[c] \in {"QUEUED"} \cup InFlight /\ c \notin overdue
    /\ overdue' = overdue \cup {c}
    /\ UNCHANGED <<agents, health, presence, sockets, submitted, principal, place,
                   journal, browser, wire, restarts>>

-----------------------------------------------------------------------------
(* Sockets: handshake, registration, loss.                                 *)

ShutDown(s) ==
    /\ open' = open \ {s}
    /\ closing' = closing \cup ({s} \cap open)

(* HELLO of a paired v1 extension: nextEpoch(), CHALLENGE. *)
V1Hello(t) ==
    /\ t \in alive /\ counter[t] < MaxEpoch
    /\ counter' = [counter EXCEPT ![t] = @ + 1]
    /\ challenged' = challenged \cup {[target |-> t, proto |-> 1, epoch |-> counter[t] + 1]}
    /\ UNCHANGED <<agents, health, presence, generation, byTarget, byEndpoint, open, closing,
                   quiet, columns, journal, browser, wire, restarts>>

(* authenticateLegacySocket(): registry.bind() compares no epochs. *)
V1Bind(s) ==
    LET previous == byTarget[s.target] IN
    /\ byTarget' = [byTarget EXCEPT ![s.target] = s]
    /\ open' = (open \ {previous}) \cup {s}
    /\ closing' = closing \cup ({previous} \cap open)
    /\ quiet' = quiet \ {s}
    /\ index' = [index EXCEPT ![s.target] = s.epoch]
    /\ stale' = stale \ {s.target}
    /\ wire' = [wire EXCEPT ![s.target] = <<>>]
    /\ UNCHANGED <<agents, generation, byEndpoint, columns, browser, restarts>>

V1Auth(s) ==
    /\ s \in challenged /\ s.target \in alive
    /\ challenged' = challenged \ {s}
    /\ UNCHANGED <<health, counter>>
    /\ V1Bind(s)
    /\ Flush(s.target, state)

(* HELLO with a pairing code for the alias of a revoked target: the row    *)
(* is revived under its old target_id.                                     *)
Pair(t) ==
    LET s == [target |-> t, proto |-> 1, epoch |-> counter[t] + 1] IN
    /\ t \notin alive /\ counter[t] < MaxEpoch
    /\ alive' = alive \cup {t} /\ failures' = [failures EXCEPT ![t] = 0]
    /\ counter' = [counter EXCEPT ![t] = @ + 1]
    /\ UNCHANGED challenged
    /\ V1Bind(s)
    /\ Flush(t, state)

(* A v2 handshake (CdpExecution has its two messages).  Its number is the  *)
(* endpoint's stored generation, not the registry's counter, and the v1    *)
(* index is not told.                                                      *)
V2Connects(t) ==
    LET s == [target |-> t, proto |-> 2, epoch |-> generation[t] + 1]
        previous == IF byEndpoint[t] # None THEN byEndpoint[t] ELSE byTarget[t]
    IN  /\ t \in alive /\ generation[t] < MaxGeneration
        /\ generation' = [generation EXCEPT ![t] = @ + 1]
        /\ byTarget' = [byTarget EXCEPT ![t] = s]
        /\ byEndpoint' = [byEndpoint EXCEPT ![t] = s]
        /\ open' = (open \ {previous}) \cup {s}
        /\ closing' = closing \cup ({previous} \cap open)
        /\ wire' = [wire EXCEPT ![t] = <<>>]
        /\ UNCHANGED <<agents, health, presence, counter, challenged, quiet, columns,
                       journal, browser, restarts>>

(* Mutant: every close event looks where v1 sockets are registered. *)
UnregisterFromTargets(s) ==
    LET current == byTarget[s.target] IN
    IF current # None /\ current.epoch = s.epoch THEN {current} ELSE {}

(* ConnectionRegistry.remove() and removeEndpoint(): by target and number. *)
Unregister(s) ==
    LET current == IF s.proto = 1 THEN byTarget[s.target] ELSE byEndpoint[s.target] IN
    IF current # None /\ current.epoch = s.epoch THEN {current} ELSE {}

(* onSocketClose(). *)
SocketCloses(s) ==
    LET t == s.target
        gone == Unregister(s)
        forget(map) == [map EXCEPT ![t] = IF @ \in gone THEN None ELSE @]
        told == s.proto = 1 /\ gone # {} /\ index[t] = s.epoch
    IN  /\ s \in challenged \cup open \cup closing
        /\ told => t \in alive  \* or bumpStatusVersion() throws: CloseThrows
        /\ challenged' = challenged \ {s} /\ open' = open \ {s} /\ closing' = closing \ {s}
        /\ quiet' = quiet \ {s}
        /\ byTarget' = forget(byTarget) /\ byEndpoint' = forget(byEndpoint)
        /\ wire' = IF byTarget'[t] = byTarget[t] THEN wire ELSE [wire EXCEPT ![t] = <<>>]
        /\ index' = IF told THEN [index EXCEPT ![t] = 0] ELSE index
        /\ stale' = IF told THEN stale \ {t} ELSE stale
        /\ UNCHANGED <<agents, health, counter, generation, columns, journal, browser, restarts>>

(* Silence for the heartbeat timeout, of a socket and of an index entry    *)
(* (they are refreshed together while the socket is the registered one).   *)
Lapse(s) ==
    /\ s \in open \ quiet /\ byTarget[s.target] = s /\ s.target \in Unsteady
    /\ quiet' = quiet \cup {s}
    /\ stale' = IF s.proto = 1 /\ index[s.target] = s.epoch
                THEN stale \cup {s.target} ELSE stale
    /\ UNCHANGED <<agents, health, index, counter, generation, byTarget, byEndpoint, challenged,
                   open, closing, columns, journal, browser, wire, restarts>>

IndexLapses(t) ==
    /\ index[t] # 0 /\ t \notin stale
    /\ Proto(byTarget[t]) # 1
    /\ stale' = stale \cup {t}
    /\ UNCHANGED <<agents, health, index, sockets, columns, journal, browser, wire, restarts>>

(* HEARTBEAT on the registered socket, before or after it was closed. *)
Heartbeat(t) ==
    LET s == byTarget[t] IN
    /\ s # None /\ s \in quiet /\ s \in open \cup closing
    /\ quiet' = quiet \ {s}
    /\ stale' = IF s.proto = 1 /\ index[t] = s.epoch THEN stale \ {t} ELSE stale
    /\ UNCHANGED <<agents, health, index, counter, generation, byTarget, byEndpoint, challenged,
                   open, closing, columns, journal, browser, wire, restarts>>

(* Mutant: the lease outlives the revoked target. *)
RevokeRowOnly(t) ==
    /\ alive' = alive \ {t}
    /\ bound' = [a \in Agent |-> IF bound[a] = t THEN None ELSE bound[a]]
    /\ UNCHANGED <<leaseOwner, late>>

(* revokeTarget() of the store. *)
RevokeRow(t) ==
    /\ alive' = alive \ {t}
    /\ Released(t)
    /\ bound' = [a \in Agent |-> IF bound[a] = t THEN None ELSE bound[a]]

(* revokeTarget(): the socket is closed, leases and bindings end, queued   *)
(* and delivered commands stay as they are.                                *)
RevokeTarget(t) ==
    /\ t \in alive
    /\ RevokeRow(t)
    /\ ShutDown(byTarget[t])
    /\ UNCHANGED <<token, waiter, failures, presence, counter, generation, byTarget, byEndpoint,
                   challenged, quiet, columns, journal, browser, wire, restarts>>

-----------------------------------------------------------------------------
(* The extension (external), and what the gateway reads from it.           *)

Send(t, message) ==
    wire' = IF byTarget[t] \in open /\ Proto(byTarget[t]) = 1
            THEN [wire EXCEPT ![t] = Append(@, message)] ELSE wire

ExtensionBegins(c) ==
    /\ held[c] > 0
    /\ held' = [held EXCEPT ![c] = @ - 1] /\ running' = [running EXCEPT ![c] = @ + 1]
    /\ Send(place[c], [command |-> c, kind |-> "ACK"])
    /\ UNCHANGED <<agents, health, presence, sockets, columns, state, epoch, ran, restarts>>

ExtensionEnds(c, kind) ==
    /\ running[c] > 0
    /\ running' = [running EXCEPT ![c] = @ - 1] /\ ran' = [ran EXCEPT ![c] = @ + 1]
    /\ Send(place[c], [command |-> c, kind |-> kind])
    /\ UNCHANGED <<agents, health, presence, sockets, columns, journal, restarts>>

(* The service worker is ended with what it had begun, or the COMMAND was  *)
(* lost with its socket.                                                   *)
ExtensionForgets(t) ==
    /\ \E c \in Command : place[c] = t /\ held[c] + running[c] > 0
    /\ held' = [c \in Command |-> IF place[c] = t THEN 0 ELSE held[c]]
    /\ running' = [c \in Command |-> IF place[c] = t THEN 0 ELSE running[c]]
    /\ UNCHANGED <<agents, health, presence, sockets, columns, state, epoch, ran, wire, restarts>>

Read(t) == wire' = [wire EXCEPT ![t] = Tail(@)]

(* onExtensionAck(): DELIVERED to ACKED to RUNNING in one call. *)
ReceiveAck(t) ==
    LET c == Head(wire[t]).command IN
    /\ wire[t] # <<>> /\ Head(wire[t]).kind = "ACK"
    /\ state' = IF epoch[c] = byTarget[t].epoch /\ state[c] = "DELIVERED"
                THEN [state EXCEPT ![c] = "RUNNING"] ELSE state
    /\ Read(t)
    /\ UNCHANGED <<agents, health, presence, sockets, columns, epoch, held, browser, restarts>>

(* Mutant: every state but QUEUED takes an answer. *)
AllowedOnceDelivered(from, kind) == from # "QUEUED"

(* transitions of command-state-machine.ts into SUCCEEDED and FAILED. *)
Allowed(from, kind) ==
    \/ from \in {"ACKED", "RUNNING"}
    \/ from = "DELIVERED" /\ kind = "failed"

Answered(kind) == IF kind = "ok" THEN "SUCCEEDED" ELSE "FAILED"

(* updateTargetObservation(): failures in a row. *)
Observe(t, kind) ==
    failures' = [failures EXCEPT ![t] =
                    IF kind = "ok" THEN 0 ELSE IF @ < ErrorThreshold THEN @ + 1 ELSE @]

(* onExtensionResult(): ignored when final or of another epoch, an error   *)
(* when the transition is not allowed.                                     *)
ReceiveResult(t) ==
    LET c == Head(wire[t]).command
        kind == Head(wire[t]).kind
        counts == epoch[c] = byTarget[t].epoch /\ Allowed(state[c], kind)
    IN  /\ wire[t] # <<>> /\ kind # "ACK"
        /\ Read(t)
        /\ IF counts THEN Observe(t, kind) ELSE UNCHANGED failures
        /\ UNCHANGED <<agents, alive, presence, sockets, columns, browser, restarts>>
        /\ IF counts THEN Flush(t, [state EXCEPT ![c] = Answered(kind)]) ELSE UNCHANGED journal

-----------------------------------------------------------------------------
(* The timer, and the end of the process.                                  *)

(* sweep() and sweepHeartbeat().  listRecoverableCommands() returns no     *)
(* command past its deadline, so the branch that times one out is dead.    *)
Sweep ==
    /\ stale \subseteq alive  \* or bumpStatusVersion() throws: SweepThrows
    /\ index' = [t \in Target |-> IF t \in stale THEN 0 ELSE index[t]]
    /\ stale' = {}
    /\ LET silent == {byTarget[t] : t \in Target} \cap quiet \cap open IN
         /\ open' = open \ silent
         /\ closing' = closing \cup silent
    /\ UNCHANGED <<agents, health, counter, generation, byTarget, byEndpoint, challenged, quiet,
                   columns, browser, wire, restarts>>
    /\ DeliverAll(Command, state, open)

(* Mutant: recover() redelivers whatever was in flight. *)
RetriedOrQueued(c) == "QUEUED"

(* recover(): of a command in flight at the end of the process. *)
RetriedOrUnknown(c) == IF c \in Repeatable THEN "QUEUED" ELSE "UNKNOWN_OUTCOME"

(* The process ends and another starts: recover(), on an empty registry.   *)
Recovered ==
    /\ restarts < MaxRestarts
    /\ restarts' = restarts + 1
    /\ state' = [c \in Command |->
          IF state[c] \in InFlight /\ c \notin overdue THEN RetriedOrUnknown(c) ELSE state[c]]
    /\ waiter' = [a \in Agent |-> None]
    /\ index' = [t \in Target |-> 0] /\ stale' = {}
    /\ counter' = [t \in Target |-> 0]
    /\ byTarget' = [t \in Target |-> None] /\ byEndpoint' = [t \in Target |-> None]
    /\ challenged' = {} /\ open' = {} /\ closing' = {} /\ quiet' = {}
    /\ wire' = [t \in Target |-> <<>>]
    /\ UNCHANGED <<bound, leaseOwner, token, late, health, generation, columns, epoch, held,
                   browser>>

Restart == Recovered

(* A close event or the timer finds an index entry of a revoked target:    *)
(* bumpStatusVersion() throws out of the callback.                         *)
CloseThrows(s) ==
    /\ s \in open \cup closing /\ s.proto = 1 /\ s.target \notin alive
    /\ Unregister(s) # {} /\ index[s.target] = s.epoch
    /\ Recovered

SweepThrows == stale \ alive # {} /\ Recovered

Next ==
    \/ \E a \in Agent, t \in Target : BindAgent(a, t)
    \/ \E a \in Agent : UnbindAgent(a) \/ AcquireSession(a) \/ PollGrants(a) \/ WaitEnds(a)
                        \/ ReleaseSession(a)
    \/ \E c \in Command, a \in Agent, waits, permitted \in BOOLEAN :
          Dispatch(c, a, waits, permitted)
    \/ \E c \in Command : DeadlinePasses(c) \/ ExtensionBegins(c)
                          \/ ExtensionEnds(c, "ok") \/ ExtensionEnds(c, "failed")
    \/ \E t \in Target : LeaseExpires(t) \/ V1Hello(t) \/ Pair(t) \/ V2Connects(t)
                         \/ IndexLapses(t) \/ Heartbeat(t) \/ RevokeTarget(t)
                         \/ ExtensionForgets(t) \/ ReceiveAck(t) \/ ReceiveResult(t)
    \/ \E s \in challenged : V1Auth(s)
    \/ \E s \in challenged \cup open \cup closing : SocketCloses(s)
    \/ \E s \in open : Lapse(s)
    \/ \E s \in open \cup closing : CloseThrows(s)
    \/ Sweep \/ Restart \/ SweepThrows

(* The sweep timer runs while the process does; an extension works through *)
(* its commands, and the gateway reads what its sockets bring.             *)
Fairness ==
    /\ WF_vars(Sweep)
    /\ \A c \in Command : WF_vars(ExtensionBegins(c))
                          /\ WF_vars(ExtensionEnds(c, "ok") \/ ExtensionEnds(c, "failed"))
    /\ \A t \in Target : WF_vars(ReceiveAck(t) \/ ReceiveResult(t))

Spec == Init /\ [][Next]_vars /\ Fairness

-----------------------------------------------------------------------------
(* Type correctness: the columns and maps of the broker hold the values    *)
(* their types allow.                                                      *)
TypeOK ==
    /\ bound \in [Agent -> Target \cup {None}] /\ waiter \in [Agent -> Target \cup {None}]
    /\ leaseOwner \in [Target -> Agent \cup {None}] /\ token \in [Target -> Nat]
    /\ late \subseteq Target /\ alive \subseteq Target /\ stale \subseteq Target
    /\ failures \in [Target -> 0 .. ErrorThreshold] /\ index \in [Target -> Nat]
    /\ counter \in [Target -> Nat] /\ generation \in [Target -> Nat]
    /\ byTarget \in [Target -> Socket \cup {None}] /\ byEndpoint \in [Target -> Socket \cup {None}]
    /\ challenged \subseteq Socket /\ open \subseteq Socket
    /\ closing \subseteq Socket /\ quiet \subseteq Socket
    /\ submitted \in Seq(Command) /\ overdue \subseteq Command
    /\ state \in [Command -> State] /\ epoch \in [Command -> Nat]
    /\ principal \in [Command -> Agent \cup {None}] /\ place \in [Command -> Target \cup {None}]
    /\ held \in [Command -> Nat] /\ running \in [Command -> Nat] /\ ran \in [Command -> Nat]
    /\ wire \in [Target -> Seq(Reply)] /\ restarts \in Nat

(* A target has at most one command DELIVERED, ACKED or RUNNING, whichever *)
(* of dispatch, results, connections, releases and sweeps delivers.        *)
OneInFlight ==
    \A c, d \in Command :
        state[c] \in InFlight /\ state[d] \in InFlight /\ place[c] = place[d] => c = d

(* A non-idempotent command is handed to an extension at most once, over   *)
(* reconnections, restarts, lost and late answers.                         *)
NeverRepeated ==
    \A c \in Command \ Repeatable : held[c] + running[c] + ran[c] <= 1

(* A lease belongs to the agent its target is bound to, unless it was      *)
(* granted to a caller that waited in acquireSession() while its binding   *)
(* was revoked.                                                            *)
LeaseFollowsBinding ==
    \A t \in Target, a \in Agent : Owns(a, t) => bound[a] = t \/ t \in late

(* A final state stays: no late answer, sweep, redelivery or recovery      *)
(* rewrites what a caller may already have read.                           *)
FinalStaysFinal ==
    [][\A c \in Command : state[c] \in Terminal => state'[c] = state[c]]_vars

(* When a command reaches a socket, no other principal holds the target's  *)
(* lease, and a write is covered by a lease of its own principal.          *)
DeliveredUnderLease ==
    [][\A c \in Command : held'[c] > held[c] =>
          /\ leaseOwner'[place'[c]] \in {None, principal'[c]}
          /\ c \in Writes => leaseOwner'[place'[c]] = principal'[c]]_vars

(* A registered connection is unregistered by its own close event, by a    *)
(* newer connection or by the end of the process, or else by the close of  *)
(* a v1 socket that happens to bear the number of a v2 one.                *)
UnregisteredByItself ==
    [][\A t \in Target : byTarget[t] # None /\ byTarget'[t] = None =>
          \/ byTarget[t] \notin open' \cup closing'
          \/ byTarget[t].proto = 2
             /\ [byTarget[t] EXCEPT !.proto = 1] \in challenged \cup open \cup closing]_vars

(* What may keep a queued command: its deadline has passed, its target is  *)
(* offline, in error or leased to another, has a command in flight, or has *)
(* no open socket.                                                         *)
Obstructed(c) ==
    LET t == place[c] IN
    \/ c \in overdue \/ t \notin alive \/ ~Delivers(principal[c], t, c)
    \/ \E d \in Command : state[d] \in InFlight /\ place[d] = t
    \/ byTarget[t] \notin open

(* What may keep a command in flight: the connection it was delivered over *)
(* is gone, or its extension lost it.  Nothing ends such a command, even   *)
(* past its deadline, but a restart before that deadline.                  *)
Stranded(c) ==
    LET t == place[c] IN
    \/ byTarget[t] = None \/ byTarget[t] # [target |-> t, proto |-> 1, epoch |-> epoch[c]]
    \/ held[c] + running[c] = 0 /\ \A i \in DOMAIN wire[t] : wire[t][i].command # c

(* Every accepted command moves on to its end, unless what obstructs or    *)
(* strands it comes back for ever.                                         *)
WorkMoves ==
    \A c \in Command :
        []<>(/\ state[c] = "QUEUED" => Obstructed(c)
             /\ state[c] \in InFlight => Stranded(c))

(* What the plan of the relay promises with its TIMED_OUT edges: a command *)
(* past its deadline ends.  Not so: sweep() is given none of these commands. *)
OverdueEnds ==
    \A c \in Command : c \in overdue ~> state[c] \in Terminal

=============================================================================

---------------------------- MODULE EventStream ----------------------------
(***************************************************************************)
(* The CDP events of one workspace's tabs, from Chrome through the         *)
(* extension and the gateway into the streams of event-repository.ts, and  *)
(* the cursors that read them, while connections come and go, the          *)
(* workspace changes owners and tabs leave and enter its group.            *)
(*                                                                         *)
(* An event is its number among those Chrome raised for its tab.  How tabs *)
(* are attached is in CdpExecution.  Left out: method filters, which       *)
(* choose what a page shows and not where its cursor stands; the expiry of *)
(* cursors, which the broker never sets; the end of the workspace.         *)
(***************************************************************************)
EXTENDS Integers, Sequences

CONSTANTS
    Tab,
    Managed,        \* the tabs the workspace starts with
    Attached,       \* the tabs with a debugger, which raise events
    PageSize,
    MaxEvents,      \* bound: events Chrome raises for a tab
    MaxGeneration,  \* bound: connections of the endpoint
    MaxEpoch,       \* bound: owners of the workspace
    MaxMoves,       \* bound: tabs entering or leaving the group
    MaxWire         \* bound: messages waiting on a socket

ASSUME StreamAssumption ==
    /\ Managed \subseteq Tab /\ Managed # {} /\ Attached \subseteq Tab
    /\ PageSize \in Nat \ {0} /\ MaxEpoch \in Nat \ {0} /\ MaxGeneration \in Nat \ {0}
    /\ MaxEvents \in Nat /\ MaxMoves \in Nat /\ MaxWire \in Nat

VARIABLES
    ownerEpoch,    \* of the workspace
    lifecycle,     \* managed_tabs: "none" for a tab without a row
    streams,       \* event_streams with cdp_events and event_cursors, oldest first
    dbGeneration,  \* endpoint_connections: the newest,
    dbConnected,   \* and whether it has no disconnected_at
    greeting,      \* the generation of a socket between HELLO and AUTH
    bound,         \* the generation of the registry's socket
    pending,       \* pendingEndpointReconciliation has the endpoint
    extGeneration, \* connectionGeneration of the extension, 0 for null
    captured,      \* snapshots the extension took and has not sent
    grouped,       \* the tabs Chrome has in the workspace's group
    raised,        \* how many events Chrome has raised for a tab
    moves,
    wire,          \* what was sent on the socket of a generation, and not read
    skipped        \* history: tabs left out when streams were last replaced

rows    == <<ownerEpoch, lifecycle, streams>>
endpoint == <<dbGeneration, dbConnected, greeting, bound, pending>>
chrome  == <<grouped, moves>>
vars == <<rows, endpoint, extGeneration, captured, chrome, raised, wire, skipped>>

Generation == 1 .. MaxGeneration
Epoch == 1 .. MaxEpoch

Message ==
    [kind : {"event"}, tab : Tab, number : 1 .. MaxEvents]
        \cup [kind : {"inventory"}, live : SUBSET Tab]

(* A stream's epoch is the owner_epoch of its initial cursor, an event's   *)
(* epoch that of the cursor issued with it.  replaceStreamBaseline() ends  *)
(* the active stream as it creates the next, so that the last is active.   *)
NewStream(epoch) == [epoch |-> epoch, events |-> <<>>]

Init ==
    /\ ownerEpoch = 1
    /\ lifecycle = [t \in Tab |-> IF t \in Managed THEN "active" ELSE "none"]
    /\ streams = [t \in Tab |-> IF t \in Managed THEN <<NewStream(1)>> ELSE <<>>]
    /\ dbGeneration = 1 /\ dbConnected = TRUE
    /\ greeting = 0 /\ bound = 1 /\ pending = FALSE
    /\ extGeneration = 1 /\ captured = {} /\ grouped = Managed
    /\ raised = [t \in Tab |-> 0] /\ moves = 0
    /\ wire = [g \in Generation |-> <<>>] /\ skipped = {}

-----------------------------------------------------------------------------
(* event-repository.ts                                                     *)

ActiveStream(t) == streams[t][Len(streams[t])]

(* createStream() and replaceStreamBaseline() for a set of tabs. *)
StartStreams(tabs, epoch) ==
    streams' = [t \in Tab |->
        IF t \in tabs THEN Append(streams[t], NewStream(epoch)) ELSE streams[t]]

(* appendEvent(): the event, and a cursor behind it for the present owner. *)
AppendEvent(t, number, generation) ==
    LET event == [number |-> number, generation |-> generation, epoch |-> ownerEpoch] IN
    streams' = [streams EXCEPT ![t][Len(streams[t])].events = Append(@, event)]

(* The cursors issued for a tab: after the first `at` events of a stream. *)
Cursors(t) == {c \in (1 .. Len(streams[t])) \X (0 .. MaxEvents) :
                  c[2] <= Len(streams[t][c[1]].events)}

CursorEpoch(t, cursor) ==
    LET stream == streams[t][cursor[1]] IN
    IF cursor[2] = 0 THEN stream.epoch ELSE stream.events[cursor[2]].epoch

(* Mutant: a cursor is good whoever it was issued for. *)
AcceptedWhoever(t, cursor) == lifecycle[t] = "active"

(* readCdpEvents() takes the cursor of an active tab of the caller's own   *)
(* workspace; nothing asks whether its stream is the active one.           *)
Accepted(t, cursor) ==
    lifecycle[t] = "active" /\ CursorEpoch(t, cursor) = ownerEpoch

(* The events of the page; the next cursor is the last one's. *)
Page(t, cursor) ==
    LET events == streams[t][cursor[1]].events
        last == IF cursor[2] + PageSize < Len(events) THEN cursor[2] + PageSize ELSE Len(events)
    IN  SubSeq(events, cursor[2] + 1, last)

-----------------------------------------------------------------------------
(* The workspace's owner.                                                  *)

(* Mutant: the streams go on under the new owner. *)
TakeOverKeepingStreams ==
    /\ ownerEpoch < MaxEpoch
    /\ ownerEpoch' = ownerEpoch + 1
    /\ UNCHANGED <<lifecycle, streams, skipped, endpoint, extGeneration, captured, chrome,
                   raised, wire>>

(* executeTakeover(), one transaction. *)
TakeOver ==
    LET tabs == {t \in Tab : lifecycle[t] = "active"} IN
    /\ ownerEpoch < MaxEpoch
    /\ ownerEpoch' = ownerEpoch + 1
    /\ StartStreams(tabs, ownerEpoch + 1)
    /\ skipped' = (skipped \ tabs) \cup {t \in Tab : lifecycle[t] = "closed"}
    /\ UNCHANGED <<lifecycle, endpoint, extGeneration, captured, chrome, raised, wire>>

-----------------------------------------------------------------------------
(* Connections.                                                            *)

(* openEndpointConnection(). *)
Hello ==
    /\ extGeneration = 0 /\ dbGeneration < MaxGeneration
    /\ dbGeneration' = dbGeneration + 1 /\ dbConnected' = TRUE
    /\ greeting' = dbGeneration + 1
    /\ UNCHANGED <<rows, bound, pending, extGeneration, captured, chrome, raised, wire, skipped>>

(* Mutant: READY does not ask for a reconciliation. *)
AuthenticateOnly ==
    /\ greeting # 0
    /\ bound' = greeting /\ greeting' = 0
    /\ extGeneration' = greeting
    /\ UNCHANGED <<rows, pending, dbGeneration, dbConnected, captured, chrome, raised, wire, skipped>>

(* AUTH, bind(), onExtensionReady() and READY. *)
Authenticate ==
    /\ greeting # 0
    /\ bound' = greeting /\ greeting' = 0
    /\ pending' = (pending \/ (dbConnected /\ dbGeneration = greeting))
    /\ extGeneration' = greeting
    /\ UNCHANGED <<rows, dbGeneration, dbConnected, captured, chrome, raised, wire, skipped>>

SocketBreaks ==
    /\ extGeneration # 0
    /\ extGeneration' = 0
    /\ UNCHANGED <<rows, endpoint, captured, chrome, raised, wire, skipped>>

(* closeEndpointConnection(): of the newest connection only. *)
CloseConnection(generation) ==
    LET closes == dbConnected /\ dbGeneration = generation IN
    /\ dbConnected' = (dbConnected /\ ~closes)
    /\ pending' = (pending \/ closes)

BrokerSeesClose ==
    /\ bound # 0 /\ extGeneration # bound
    /\ bound' = 0
    /\ CloseConnection(bound)
    /\ wire' = [wire EXCEPT ![bound] = <<>>]
    /\ UNCHANGED <<rows, dbGeneration, greeting, extGeneration, captured, chrome, raised, skipped>>

HandshakeFails ==
    /\ greeting # 0
    /\ greeting' = 0
    /\ CloseConnection(greeting)
    /\ UNCHANGED <<rows, dbGeneration, bound, extGeneration, captured, chrome, raised, wire, skipped>>

(* The rows survive, disconnected_at NULL included. *)
BrokerRestarts ==
    /\ bound # 0 \/ greeting # 0
    /\ bound' = 0 /\ greeting' = 0 /\ pending' = FALSE
    /\ wire' = [g \in Generation |-> <<>>]
    /\ UNCHANGED <<rows, dbGeneration, dbConnected, extGeneration, captured, chrome, raised, skipped>>

-----------------------------------------------------------------------------
(* Chrome and the extension.                                               *)

(* On a socket the broker has given up a message is lost. *)
Tell(message) ==
    IF extGeneration = bound
    THEN /\ Len(wire[bound]) < MaxWire
         /\ wire' = [wire EXCEPT ![bound] = Append(@, message)]
    ELSE UNCHANGED wire

(* CdpEventForwarder and its sink: an event that does not fit, or finds no *)
(* connection, is dropped. *)
Raise(t, fits) ==
    /\ raised[t] < MaxEvents
    /\ raised' = [raised EXCEPT ![t] = @ + 1]
    /\ IF fits /\ extGeneration # 0
       THEN Tell([kind |-> "event", tab |-> t, number |-> raised[t] + 1])
       ELSE UNCHANGED wire
    /\ UNCHANGED <<rows, endpoint, extGeneration, captured, chrome, skipped>>

(* The user, or Chrome. A group without tabs is gone for good. *)
MoveTab(t) ==
    /\ moves < MaxMoves /\ grouped # {}
    /\ moves' = moves + 1
    /\ grouped' = IF t \in grouped THEN grouped \ {t} ELSE grouped \cup {t}
    /\ UNCHANGED <<rows, endpoint, extGeneration, captured, raised, wire, skipped>>

(* BrowserInventory.snapshot(): what Chrome answered. *)
Capture ==
    /\ extGeneration # 0
    /\ captured' = captured \cup {grouped}
    /\ UNCHANGED <<rows, endpoint, extGeneration, chrome, raised, wire, skipped>>

(* toInventoryPayload() takes the generation of the time of sending, or    *)
(* throws for want of one. *)
SendInventory(live) ==
    /\ live \in captured
    /\ captured' = captured \ {live}
    /\ IF extGeneration # 0 THEN Tell([kind |-> "inventory", live |-> live]) ELSE UNCHANGED wire
    /\ UNCHANGED <<rows, endpoint, extGeneration, chrome, raised, skipped>>

-----------------------------------------------------------------------------
(* What the gateway hands to the broker.                                   *)

(* Mutant: any socket that was authenticated will do. *)
CurrentOnceBound(generation) == bound # 0 /\ generation <= bound

(* currentV2Connection(). *)
Current(generation) == bound # 0 /\ generation = bound

Receives(generation, kind) ==
    /\ Current(generation)
    /\ wire[generation] # <<>> /\ Head(wire[generation]).kind = kind
    /\ wire' = [wire EXCEPT ![generation] = Tail(@)]

(* onCdpEvent(). *)
ReceiveEvent(generation) ==
    LET m == Head(wire[generation]) IN
    /\ Receives(generation, "event")
    /\ IF lifecycle[m.tab] = "active" THEN AppendEvent(m.tab, m.number, generation)
       ELSE UNCHANGED streams
    /\ UNCHANGED <<ownerEpoch, lifecycle, endpoint, extGeneration, captured, chrome, raised, skipped>>

(* reconcileEventStream() of every tab the inventory has. *)
Replaced(live, reset) == {t \in live : streams[t] = <<>> \/ reset}

(* onInventory(), reconcileInventory(): nothing is done for a connection   *)
(* that is no longer the newest, nor without the workspace's group.        *)
ReceiveInventory(generation) ==
    LET live == Head(wire[generation]).live
        current == dbConnected /\ dbGeneration = generation
        known == {t \in Tab : lifecycle[t] # "none"}
    IN  /\ Receives(generation, "inventory")
        /\ pending' = FALSE
        /\ IF current /\ live # {}
           THEN /\ lifecycle' = [t \in Tab |-> CASE t \in live -> "active"
                                                 [] t \in known \ live -> "closed"
                                                 [] OTHER -> "none"]
                /\ StartStreams(Replaced(live, pending), ownerEpoch)
           ELSE UNCHANGED <<lifecycle, streams>>
        /\ skipped' = IF current /\ pending THEN known \ live ELSE skipped
        /\ UNCHANGED <<ownerEpoch, dbGeneration, dbConnected, greeting, bound, extGeneration,
                       captured, chrome, raised>>

Next ==
    \/ TakeOver
    \/ Hello \/ Authenticate \/ SocketBreaks
    \/ BrokerSeesClose \/ HandshakeFails \/ BrokerRestarts
    \/ \E t \in Attached, fits \in BOOLEAN : Raise(t, fits)
    \/ \E t \in Tab : MoveTab(t)
    \/ Capture
    \/ \E live \in captured : SendInventory(live)
    \/ \E g \in Generation : ReceiveEvent(g) \/ ReceiveInventory(g)

Spec == Init /\ [][Next]_vars

-----------------------------------------------------------------------------
(* Properties.                                                             *)

Stream == [epoch : Epoch,
           events : Seq([number : 1 .. MaxEvents, generation : Generation, epoch : Epoch])]

(* Every column keeps its type, and every tab with a row has a stream:     *)
(* activeStream() never throws for want of one.                            *)
TypeOK ==
    /\ ownerEpoch \in Epoch
    /\ lifecycle \in [Tab -> {"none", "active", "closed"}]
    /\ streams \in [Tab -> Seq(Stream)]
    /\ \A t \in Tab : streams[t] = <<>> <=> lifecycle[t] = "none"
    /\ dbGeneration \in Generation /\ dbConnected \in BOOLEAN
    /\ greeting \in Generation \cup {0} /\ bound \in Generation \cup {0} /\ pending \in BOOLEAN
    /\ extGeneration \in Generation \cup {0}
    /\ captured \subseteq SUBSET Tab /\ grouped \subseteq Tab
    /\ raised \in [Tab -> 0 .. MaxEvents] /\ moves \in 0 .. MaxMoves
    /\ wire \in [Generation -> Seq(Message)]
    /\ skipped \subseteq Tab

(* The events of a tab are kept in the order Chrome raised them and none   *)
(* twice, over all its streams: nothing that was on the wire of an earlier *)
(* connection is stored after an event of a newer one.                     *)
StreamsInOrder ==
    \A t \in Tab : \A i, j \in DOMAIN streams[t] :
        \A a \in DOMAIN streams[t][i].events, b \in DOMAIN streams[t][j].events :
            i < j \/ (i = j /\ a < b)
                => streams[t][i].events[a].number < streams[t][j].events[b].number

(* A read that is accepted returns events of the present ownership only,   *)
(* over streams that outlived a takeover, and so it always finds the next  *)
(* cursor: readEvents() never throws EVENT_CURSOR_MISSING.                 *)
ReadsStayInEpoch ==
    \A t \in Tab : \A c \in Cursors(t) :
        Accepted(t, c) => \A i \in DOMAIN Page(t, c) : Page(t, c)[i].epoch = ownerEpoch

(* The initial cursor of an active tab's fact is one its owner can read    *)
(* with, over takeovers and inventories, unless the tab was outside the    *)
(* group when the streams were last replaced.                              *)
FactsAreReadable ==
    \A t \in Tab : lifecycle[t] = "active" /\ t \notin skipped
        => Accepted(t, <<Len(streams[t]), 0>>)

(* Once the first inventory of a connection is in, the active stream of a  *)
(* tab holds nothing from before that connection, whatever was in flight   *)
(* over the outage, with the same exception.                               *)
FreshAfterOutage ==
    bound # 0 /\ bound = dbGeneration /\ ~pending =>
        \A t \in Tab : lifecycle[t] = "active" /\ t \notin skipped =>
            \A i \in DOMAIN ActiveStream(t).events : ActiveStream(t).events[i].generation = bound

(* "A broker or extension outage invalidates the previous event stream"    *)
(* (Product-Definition.md): no stream goes on over two connections.  Not   *)
(* so between READY and the first inventory, nor for a tab that was out of *)
(* the group when the connection's first inventory was taken.              *)
OneConnectionPerStream ==
    \A t \in Tab : \A i \in DOMAIN streams[t] :
        LET events == streams[t][i].events IN
        \A a, b \in DOMAIN events : events[a].generation = events[b].generation

=============================================================================

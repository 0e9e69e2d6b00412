------------------------- MODULE EventStreamProofs -------------------------
(***************************************************************************)
(* Proofs about EventStream, for any set of tabs and every bound.          *)
(*                                                                         *)
(* The properties need three things said beside them: how the socket that  *)
(* is registered, the one that greets and the newest connection's row go   *)
(* together (Connections); that epochs never fall along a stream           *)
(* (EpochsRise); and what of a tab may still be on the wire (WireAhead).   *)
(***************************************************************************)
EXTENDS EventStream, SequenceTheorems, TLAPS

(* Only the newest connection greets, on a socket nothing was sent on, and *)
(* the registered socket is its own only if its row is still open          *)
(* (openEndpointConnection(), bind(), closeEndpointConnection()).          *)
Connections ==
    /\ greeting # 0 => /\ greeting = dbGeneration /\ dbConnected /\ bound # dbGeneration
                       /\ wire[greeting] = <<>>
    /\ bound # 0 /\ bound = dbGeneration => dbConnected
    /\ bound <= dbGeneration /\ extGeneration <= dbGeneration
    /\ \A g \in Generation : g > dbGeneration => wire[g] = <<>>

(* Owner epochs never fall along a stream, nor pass the workspace's        *)
(* (createStream(), appendEvent()).                                        *)
EpochsRise ==
    \A t \in Tab : \A i \in 1 .. Len(streams[t]) :
        LET stream == streams[t][i] IN
        /\ stream.epoch <= ownerEpoch
        /\ \A a \in 1 .. Len(stream.events) :
              stream.epoch <= stream.events[a].epoch /\ stream.events[a].epoch <= ownerEpoch
        /\ \A a, b \in 1 .. Len(stream.events) :
              a < b => stream.events[a].epoch <= stream.events[b].epoch

(* A tab with a row that is not in skipped has a stream of the present     *)
(* owner, and once a connection's first inventory is in one with nothing   *)
(* from before that connection (replaceStreamBaseline()).                  *)
StreamsCurrent ==
    \A t \in Tab : lifecycle[t] # "none" /\ t \notin skipped =>
        /\ ActiveStream(t).epoch = ownerEpoch
        /\ bound # 0 /\ bound = dbGeneration /\ ~pending =>
              \A a \in 1 .. Len(ActiveStream(t).events) :
                  ActiveStream(t).events[a].generation = bound

(* Nothing stored of a tab is numbered above n. *)
Below(t, n) ==
    \A i \in 1 .. Len(streams[t]) : \A a \in 1 .. Len(streams[t][i].events) :
        streams[t][i].events[a].number <= n

(* The events a queue carries of a tab are in order, after everything      *)
(* stored, and have been raised.                                           *)
Ahead(queue) ==
    \A k \in 1 .. Len(queue) : queue[k].kind = "event" =>
        /\ queue[k].number <= raised[queue[k].tab]
        /\ Below(queue[k].tab, queue[k].number - 1)
        /\ \A j \in 1 .. k - 1 : queue[j].kind = "event" /\ queue[j].tab = queue[k].tab
                                  => queue[j].number < queue[k].number

(* So it is of the registered socket (Tell(), currentV2Connection()).      *)
WireAhead ==
    /\ \A t \in Tab : Below(t, raised[t])
    /\ bound # 0 => Ahead(wire[bound])

IInv == TypeOK /\ Connections /\ EpochsRise /\ StreamsCurrent /\ WireAhead /\ StreamsInOrder

-----------------------------------------------------------------------------
(* The constants' types, and the sets built from them.                     *)
LEMMA Sets ==
    /\ MaxGeneration \in Nat \ {0} /\ MaxEpoch \in Nat \ {0} /\ MaxEvents \in Nat
    /\ MaxMoves \in Nat /\ MaxWire \in Nat /\ PageSize \in Nat \ {0}
    /\ Generation = 1 .. MaxGeneration /\ Epoch = 1 .. MaxEpoch
    /\ Managed \subseteq Tab /\ Attached \subseteq Tab
  BY StreamAssumption DEF Generation, Epoch

(* Epochs and generations are integers.                                   *)
LEMMA Integral == Epoch \subseteq Int /\ Generation \subseteq Int
  BY Sets

(* New streams come behind those a tab has (createStream()).               *)
LEMMA Started ==
    ASSUME TypeOK, NEW tabs \in SUBSET Tab, NEW epoch \in Epoch, StartStreams(tabs, epoch)
    PROVE  /\ streams' \in [Tab -> Seq(Stream)]
           /\ \A t \in Tab :
                 /\ t \notin tabs => streams'[t] = streams[t]
                 /\ t \in tabs =>
                       /\ Len(streams'[t]) = Len(streams[t]) + 1
                       /\ streams'[t][Len(streams[t]) + 1] = NewStream(epoch)
                       /\ \A i \in 1 .. Len(streams[t]) : streams'[t][i] = streams[t][i]
  <1>1. NewStream(epoch) \in Stream
    BY DEF NewStream, Stream
  <1>2. \A t \in Tab : streams[t] \in Seq(Stream)
    BY DEF TypeOK
  <1>3. ASSUME NEW t \in Tab
        PROVE  LET longer == Append(streams[t], NewStream(epoch)) IN
               /\ longer \in Seq(Stream) /\ Len(longer) = Len(streams[t]) + 1
               /\ longer[Len(streams[t]) + 1] = NewStream(epoch)
               /\ \A i \in 1 .. Len(streams[t]) : longer[i] = streams[t][i]
    BY <1>1, <1>2, AppendProperties
  <1> QED
    BY <1>2, <1>3 DEF StartStreams

(* An event comes behind those of the tab's last stream (appendEvent()).   *)
LEMMA Appended ==
    ASSUME TypeOK, NEW t \in Tab, NEW n \in 1 .. MaxEvents, NEW g \in Generation,
           streams[t] # <<>>, AppendEvent(t, n, g)
    PROVE  LET last == Len(streams[t])
               events == streams[t][last].events
               longer == streams'[t][last].events
           IN  /\ streams' \in [Tab -> Seq(Stream)]
               /\ last \in 1 .. Len(streams[t])
               /\ \A u \in Tab : Len(streams'[u]) = Len(streams[u])
               /\ \A u \in Tab : \A i \in 1 .. Len(streams[u]) :
                     /\ streams'[u][i].epoch = streams[u][i].epoch
                     /\ u # t \/ i # last => streams'[u][i] = streams[u][i]
               /\ Len(longer) = Len(events) + 1
               /\ longer[Len(events) + 1] = [number |-> n, generation |-> g, epoch |-> ownerEpoch]
               /\ \A a \in 1 .. Len(events) : longer[a] = events[a]
  <1> DEFINE Event == [number : 1 .. MaxEvents, generation : Generation, epoch : Epoch]
             event == [number |-> n, generation |-> g, epoch |-> ownerEpoch]
             last == Len(streams[t])
             events == streams[t][last].events
             stream == [streams[t][last] EXCEPT !.events = Append(@, event)]
             all == [streams[t] EXCEPT ![last] = stream]
  <1>1. streams[t] \in Seq(Stream) /\ last \in 1 .. Len(streams[t])
    BY EmptySeq DEF TypeOK
  <1>2. streams[t][last] \in Stream
    BY <1>1, ElementOfSeq
  <1>3. event \in Event /\ events \in Seq(Event)
    BY <1>2 DEF TypeOK, Stream
  <1>4. /\ Append(events, event) \in Seq(Event)
        /\ Len(Append(events, event)) = Len(events) + 1
        /\ Append(events, event)[Len(events) + 1] = event
        /\ \A a \in 1 .. Len(events) : Append(events, event)[a] = events[a]
    BY <1>3, AppendProperties
  <1> HIDE DEF event
  <1>5. /\ stream \in Stream /\ stream.epoch = streams[t][last].epoch
        /\ stream.events = Append(events, event)
    BY <1>2, <1>4 DEF Stream
  <1>6. streams' = [streams EXCEPT ![t] = all]
    BY DEF AppendEvent, event
  <1> HIDE DEF stream
  <1>7. /\ all \in Seq(Stream) /\ Len(all) = Len(streams[t])
        /\ \A i \in 1 .. Len(streams[t]) : all[i] = IF i = last THEN stream ELSE streams[t][i]
    BY <1>1, <1>5, ExceptSeq
  <1> HIDE DEF all
  <1>8. streams \in [Tab -> Seq(Stream)]
    BY DEF TypeOK
  <1>9. /\ streams' \in [Tab -> Seq(Stream)] /\ streams'[t] = all
        /\ \A u \in Tab : u # t => streams'[u] = streams[u]
    BY <1>6, <1>7, <1>8
  <1>10. /\ \A u \in Tab : Len(streams'[u]) = Len(streams[u])
         /\ \A u \in Tab : \A i \in 1 .. Len(streams[u]) :
               u # t \/ i # last => streams'[u][i] = streams[u][i]
         /\ streams'[t][last] = stream
    BY <1>1, <1>7, <1>9
  <1> QED
    BY <1>1, <1>4, <1>5, <1>9, <1>10 DEF event

(* A message taken off the registered socket (currentV2Connection()).      *)
LEMMA Received ==
    ASSUME TypeOK, NEW g \in Generation, NEW kind, Receives(g, kind)
    PROVE  /\ bound = g /\ wire[g][1] \in Message /\ Head(wire[g]) = wire[g][1]
           /\ wire[g][1].kind = kind /\ Len(wire[g]) \in Nat \ {0}
           /\ wire' \in [Generation -> Seq(Message)]
           /\ Len(wire'[g]) = Len(wire[g]) - 1
           /\ \A k \in 1 .. Len(wire'[g]) : wire'[g][k] = wire[g][k + 1]
           /\ \A h \in Generation : h # g => wire'[h] = wire[h]
  <1>1. wire \in [Generation -> Seq(Message)] /\ wire[g] \in Seq(Message) /\ wire[g] # <<>>
    BY DEF TypeOK, Receives
  <1>2. /\ Head(wire[g]) \in Message /\ Tail(wire[g]) \in Seq(Message)
        /\ Len(Tail(wire[g])) = Len(wire[g]) - 1
        /\ \A k \in 1 .. Len(Tail(wire[g])) : Tail(wire[g])[k] = wire[g][k + 1]
    BY <1>1, HeadTailProperties
  <1>3. Len(wire[g]) \in Nat \ {0}
    BY <1>1, EmptySeq
  <1>4. Head(wire[g]) = wire[g][1]
    BY <1>1
  <1> QED
    BY <1>1, <1>2, <1>3, <1>4 DEF Receives, Current

(* A message put on the registered socket, or lost (Tell()).               *)
LEMMA Told ==
    ASSUME TypeOK, NEW m \in Message, extGeneration # 0, Tell(m)
    PROVE  /\ wire' \in [Generation -> Seq(Message)]
           /\ \A h \in Generation : h # bound => wire'[h] = wire[h]
           /\ bound # 0 =>
                 \/ wire'[bound] = wire[bound]
                 \/ /\ extGeneration = bound /\ Len(wire'[bound]) = Len(wire[bound]) + 1
                    /\ wire'[bound][Len(wire[bound]) + 1] = m
                    /\ \A k \in 1 .. Len(wire[bound]) : wire'[bound][k] = wire[bound][k]
  <1>1. wire \in [Generation -> Seq(Message)]
    BY DEF TypeOK
  <1>2. CASE extGeneration # bound
    BY <1>1, <1>2 DEF Tell
  <1>3. CASE extGeneration = bound
    <2>1. bound \in Generation
      BY <1>3 DEF TypeOK
    <2>2. /\ Append(wire[bound], m) \in Seq(Message)
          /\ Len(Append(wire[bound], m)) = Len(wire[bound]) + 1
          /\ \A k \in 1 .. Len(wire[bound]) : Append(wire[bound], m)[k] = wire[bound][k]
          /\ Append(wire[bound], m)[Len(wire[bound]) + 1] = m
      BY <1>1, <2>1, AppendProperties
    <2> QED
      BY <1>1, <1>3, <2>1, <2>2 DEF Tell
  <1> QED
    BY <1>2, <1>3

(* The types of what the streams hold.                                     *)
LEMMA Elements ==
    ASSUME TypeOK, NEW t \in Tab
    PROVE  /\ Len(streams[t]) \in Nat /\ streams[t] \in Seq(Stream)
           /\ \A i \in 1 .. Len(streams[t]) :
                 /\ streams[t][i].epoch \in Epoch /\ Len(streams[t][i].events) \in Nat
                 /\ \A a \in 1 .. Len(streams[t][i].events) :
                       LET event == streams[t][i].events[a] IN
                       event.number \in Nat /\ event.generation \in Generation /\ event.epoch \in Epoch
  <1>1. streams[t] \in Seq(Stream)
    BY DEF TypeOK
  <1>2. \A i \in 1 .. Len(streams[t]) : streams[t][i] \in Stream
    BY <1>1, ElementOfSeq
  <1>3. ASSUME NEW stream \in Stream
        PROVE  /\ stream.epoch \in Epoch /\ Len(stream.events) \in Nat
               /\ \A a \in 1 .. Len(stream.events) :
                     LET event == stream.events[a] IN
                     event.number \in Nat /\ event.generation \in Generation /\ event.epoch \in Epoch
    <2>1. stream.epoch \in Epoch /\ stream.events \in
             Seq([number : 1 .. MaxEvents, generation : Generation, epoch : Epoch])
      BY DEF Stream
    <2>2. Len(stream.events) \in Nat /\ \A a \in 1 .. Len(stream.events) : stream.events[a] \in
             [number : 1 .. MaxEvents, generation : Generation, epoch : Epoch]
      BY <2>1, ElementOfSeq, LenProperties
    <2> QED
      BY <2>1, <2>2
  <1> QED
    BY <1>1, <1>2, <1>3, LenProperties

(* An event taken off the wire for an active tab (onCdpEvent()).           *)
LEMMA EventTaken ==
    ASSUME TypeOK, NEW g \in Generation, ReceiveEvent(g), lifecycle[wire[g][1].tab] = "active"
    PROVE  LET m == wire[g][1] IN
           /\ m.kind = "event" /\ m.tab \in Tab /\ m.number \in 1 .. MaxEvents
           /\ streams[m.tab] # <<>> /\ AppendEvent(m.tab, m.number, g)
           /\ UNCHANGED <<ownerEpoch, lifecycle, endpoint, raised, skipped>>
  <1>1. /\ wire[g][1] \in Message /\ wire[g][1].kind = "event"
        /\ Head(wire[g]) = wire[g][1]
    BY Received DEF ReceiveEvent
  <1>2. wire[g][1].tab \in Tab /\ wire[g][1].number \in 1 .. MaxEvents
    BY <1>1 DEF Message
  <1>3. streams[wire[g][1].tab] # <<>>
    BY <1>2 DEF TypeOK
  <1> QED
    BY <1>1, <1>2, <1>3 DEF ReceiveEvent

(* Every step keeps the types.                                             *)
LEMMA TypeStep ==
    ASSUME TypeOK, [Next]_vars
    PROVE  TypeOK'
  <1> USE Sets
  <1>1. CASE TakeOver
    <2> DEFINE tabs == {t \in Tab : lifecycle[t] = "active"}
    <2>1. ownerEpoch + 1 \in Epoch
      BY <1>1 DEF TypeOK, TakeOver
    <2>2. StartStreams(tabs, ownerEpoch + 1)
      BY <1>1 DEF TakeOver
    <2>3. /\ streams' \in [Tab -> Seq(Stream)]
          /\ \A t \in Tab : t \notin tabs => streams'[t] = streams[t]
          /\ \A t \in tabs : Len(streams'[t]) = Len(streams[t]) + 1
      BY <2>1, <2>2, Started
    <2>4. \A t \in tabs : streams'[t] # <<>>
      BY <2>3, EmptySeq DEF TypeOK
    <2>5. \A t \in Tab : streams'[t] = <<>> <=> lifecycle'[t] = "none"
      BY <1>1, <2>3, <2>4 DEF TypeOK, TakeOver
    <2> QED
      BY <1>1, <2>1, <2>3, <2>5 DEF TypeOK, TakeOver, endpoint, chrome
  <1>2. CASE Hello
    BY <1>2 DEF TypeOK, Hello, rows, chrome
  <1>12. CASE SocketBreaks
    BY <1>12 DEF TypeOK, SocketBreaks, rows, endpoint, chrome
  <1>3. CASE Authenticate
    BY <1>3 DEF TypeOK, Authenticate, rows, chrome
  <1>4. CASE BrokerSeesClose \/ HandshakeFails \/ BrokerRestarts
    <2>1. <<>> \in Seq(Message)
      BY EmptySeq
    <2>2. wire' \in [Generation -> Seq(Message)]
      BY <1>4, <2>1 DEF TypeOK, BrokerSeesClose, HandshakeFails, BrokerRestarts
    <2> QED
      BY <1>4, <2>2 DEF TypeOK, BrokerSeesClose, HandshakeFails, BrokerRestarts,
                        CloseConnection, rows, chrome
  <1>5. ASSUME NEW t \in Attached, NEW fits \in BOOLEAN, Raise(t, fits)
        PROVE  TypeOK'
    <2> DEFINE m == [kind |-> "event", tab |-> t, number |-> raised[t] + 1]
    <2>1. m \in Message /\ raised' \in [Tab -> 0 .. MaxEvents]
      BY <1>5 DEF TypeOK, Raise, Message
    <2>2. wire' \in [Generation -> Seq(Message)]
      BY <1>5, <2>1, Told DEF TypeOK, Raise
    <2> QED
      BY <1>5, <2>1, <2>2 DEF TypeOK, Raise, rows, endpoint, chrome
  <1>6. ASSUME NEW t \in Tab, MoveTab(t)
        PROVE  TypeOK'
    BY <1>6 DEF TypeOK, MoveTab, rows, endpoint
  <1>7. CASE Capture
    BY <1>7 DEF TypeOK, Capture, rows, endpoint, chrome
  <1>8. ASSUME NEW live \in captured, SendInventory(live)
        PROVE  TypeOK'
    <2>1. [kind |-> "inventory", live |-> live] \in Message
      BY DEF TypeOK, Message
    <2>2. wire' \in [Generation -> Seq(Message)]
      BY <1>8, <2>1, Told DEF TypeOK, SendInventory
    <2> QED
      BY <1>8, <2>2 DEF TypeOK, SendInventory, rows, endpoint, chrome
  <1>9. ASSUME NEW g \in Generation, ReceiveEvent(g)
        PROVE  TypeOK'
    <2> DEFINE m == wire[g][1]
    <2>1. m \in Message /\ m.kind = "event" /\ m = Head(wire[g])
          /\ wire' \in [Generation -> Seq(Message)]
      BY <1>9, Received DEF ReceiveEvent
    <2>2. m.tab \in Tab /\ m.number \in 1 .. MaxEvents
      BY <2>1 DEF Message
    <2>3. streams' \in [Tab -> Seq(Stream)]
          /\ \A t \in Tab : streams'[t] = <<>> <=> streams[t] = <<>>
      <3>1. CASE lifecycle[m.tab] = "active"
        <4>1. streams[m.tab] # <<>> /\ AppendEvent(m.tab, m.number, g)
          BY <1>9, <2>1, <2>2, <3>1 DEF TypeOK, ReceiveEvent
        <4>2. streams' \in [Tab -> Seq(Stream)]
              /\ \A t \in Tab : Len(streams'[t]) = Len(streams[t])
          BY <2>2, <4>1, Appended
        <4> QED
          BY <4>2, EmptySeq DEF TypeOK
      <3>2. CASE lifecycle[m.tab] # "active"
        BY <1>9, <2>1, <3>2 DEF TypeOK, ReceiveEvent
      <3> QED
        BY <3>1, <3>2
    <2> QED
      BY <1>9, <2>1, <2>3 DEF TypeOK, ReceiveEvent, endpoint, chrome
  <1>10. ASSUME NEW g \in Generation, ReceiveInventory(g)
         PROVE  TypeOK'
    <2> DEFINE live == wire[g][1].live
               known == {t \in Tab : lifecycle[t] # "none"}
               current == dbConnected /\ dbGeneration = g
    <2>1. wire[g][1] \in Message /\ wire[g][1].kind = "inventory" /\ live = Head(wire[g]).live
          /\ wire' \in [Generation -> Seq(Message)]
      BY <1>10, Received DEF ReceiveInventory
    <2>2. live \in SUBSET Tab
      BY <2>1 DEF Message
    <2>3. /\ streams' \in [Tab -> Seq(Stream)]
          /\ lifecycle' \in [Tab -> {"none", "active", "closed"}]
          /\ \A t \in Tab : streams'[t] = <<>> <=> lifecycle'[t] = "none"
      <3>1. CASE current /\ live # {}
        <4> DEFINE fresh == Replaced(live, pending)
        <4>1. StartStreams(fresh, ownerEpoch) /\ ownerEpoch \in Epoch /\ fresh \in SUBSET Tab
          BY <1>10, <2>1, <2>2, <3>1 DEF TypeOK, ReceiveInventory, Replaced
        <4>2. /\ streams' \in [Tab -> Seq(Stream)]
              /\ \A t \in Tab : t \notin fresh => streams'[t] = streams[t]
              /\ \A t \in fresh : Len(streams'[t]) = Len(streams[t]) + 1
          BY <4>1, Started
        <4>3. \A t \in fresh : streams'[t] # <<>>
          BY <4>1, <4>2, EmptySeq DEF TypeOK
        <4>4. lifecycle' = [t \in Tab |-> CASE t \in live -> "active"
                                            [] t \in known \ live -> "closed"
                                            [] OTHER -> "none"]
          BY <1>10, <2>1, <3>1 DEF ReceiveInventory
        <4>5. lifecycle' \in [Tab -> {"none", "active", "closed"}]
              /\ \A t \in Tab : lifecycle'[t] = "none" <=> t \notin live /\ t \notin known
          BY <4>4
        <4>6. \A t \in Tab : t \in live /\ t \notin fresh => streams[t] # <<>>
          BY DEF Replaced
        <4>7. \A t \in Tab : t \in fresh => t \in live
          BY DEF Replaced
        <4>8. \A t \in Tab : streams[t] = <<>> <=> t \notin known
          BY DEF TypeOK
        <4> QED
          BY <4>2, <4>3, <4>5, <4>6, <4>7, <4>8
      <3>2. CASE ~(current /\ live # {})
        BY <1>10, <2>1, <3>2 DEF TypeOK, ReceiveInventory
      <3> QED
        BY <3>1, <3>2
    <2>4. skipped' \subseteq Tab /\ pending' = FALSE
      BY <1>10, <2>1 DEF TypeOK, ReceiveInventory
    <2> QED
      BY <1>10, <2>1, <2>3, <2>4 DEF TypeOK, ReceiveInventory, chrome
  <1>11. CASE UNCHANGED vars
    BY <1>11 DEF TypeOK, vars, rows, endpoint, chrome
  <1> QED
    BY <1>1, <1>2, <1>3, <1>4, <1>5, <1>6, <1>7, <1>8, <1>9, <1>10, <1>11, <1>12
       DEF Next

(* A step of the registered socket alone leaves the connections in step.   *)
LEMMA ConnectionsKept ==
    ASSUME TypeOK, Connections, UNCHANGED <<dbGeneration, dbConnected, greeting, bound, extGeneration>>,
           \A h \in Generation : h # bound => wire'[h] = wire[h]
    PROVE  Connections'
  <1>1. /\ dbGeneration \in Int /\ bound \in Int /\ bound <= dbGeneration
        /\ greeting # 0 => greeting \in Generation /\ greeting # bound
    BY Sets DEF TypeOK, Connections
  <1>2. greeting' # 0 => wire'[greeting'] = <<>>
    BY <1>1 DEF Connections
  <1>3. \A g \in Generation : g > dbGeneration => g # bound
    BY <1>1, Integral
  <1>4. \A g \in Generation : g > dbGeneration' => wire'[g] = <<>>
    BY <1>3 DEF Connections
  <1> QED
    BY <1>2, <1>4 DEF Connections

(* Sockets and rows of connections stay in step.                           *)
LEMMA ConnectionsStep ==
    ASSUME TypeOK, Connections, [Next]_vars
    PROVE  Connections'
  <1> USE Sets
  <1>1. CASE TakeOver
    BY <1>1 DEF Connections, TakeOver, endpoint
  <1>2. CASE Hello
    <2>1. dbGeneration' = dbGeneration + 1 /\ greeting' = dbGeneration' /\ dbConnected' = TRUE
          /\ dbGeneration' \in Generation /\ dbGeneration \in Generation
          /\ UNCHANGED <<wire, bound, extGeneration>>
      BY <1>2 DEF TypeOK, Hello
    <2> QED
      BY <2>1 DEF TypeOK, Connections
  <1>3. CASE Authenticate
    BY <1>3 DEF TypeOK, Connections, Authenticate
  <1>4. CASE SocketBreaks
    BY <1>4 DEF TypeOK, Connections, SocketBreaks, endpoint
  <1>5. CASE BrokerSeesClose
    BY <1>5 DEF TypeOK, Connections, BrokerSeesClose, CloseConnection
  <1>6. CASE HandshakeFails
    BY <1>6 DEF TypeOK, Connections, HandshakeFails, CloseConnection
  <1>7. CASE BrokerRestarts
    BY <1>7 DEF TypeOK, Connections, BrokerRestarts
  <1>8. ASSUME NEW t \in Attached, NEW fits \in BOOLEAN, Raise(t, fits)
        PROVE  Connections'
    <2>1. [kind |-> "event", tab |-> t, number |-> raised[t] + 1] \in Message
      BY <1>8 DEF TypeOK, Raise, Message
    <2>2. \A h \in Generation : h # bound => wire'[h] = wire[h]
      BY <1>8, <2>1, Told DEF Raise
    <2> QED
      BY <1>8, <2>2, ConnectionsKept DEF Raise, endpoint
  <1>9. CASE \E t \in Tab : MoveTab(t)
    BY <1>9 DEF Connections, MoveTab, endpoint
  <1>10. CASE Capture
    BY <1>10 DEF Connections, Capture, endpoint
  <1>11. ASSUME NEW live \in captured, SendInventory(live)
         PROVE  Connections'
    <2>1. [kind |-> "inventory", live |-> live] \in Message
      BY DEF TypeOK, Message
    <2>2. \A h \in Generation : h # bound => wire'[h] = wire[h]
      BY <1>11, <2>1, Told DEF SendInventory
    <2> QED
      BY <1>11, <2>2, ConnectionsKept DEF SendInventory, endpoint
  <1>12. ASSUME NEW g \in Generation, ReceiveEvent(g)
         PROVE  Connections'
    <2>1. bound = g /\ \A h \in Generation : h # g => wire'[h] = wire[h]
      BY <1>12, Received DEF ReceiveEvent
    <2>2. UNCHANGED <<dbGeneration, dbConnected, greeting, bound, extGeneration>>
      BY <1>12 DEF ReceiveEvent, endpoint
    <2> QED
      BY <2>1, <2>2, ConnectionsKept
  <1>13. ASSUME NEW g \in Generation, ReceiveInventory(g)
         PROVE  Connections'
    <2>1. bound = g /\ \A h \in Generation : h # g => wire'[h] = wire[h]
      BY <1>13, Received DEF ReceiveInventory
    <2>2. UNCHANGED <<dbGeneration, dbConnected, greeting, bound, extGeneration>>
      BY <1>13 DEF ReceiveInventory
    <2> QED
      BY <2>1, <2>2, ConnectionsKept
  <1>14. CASE UNCHANGED vars
    BY <1>14 DEF Connections, vars, endpoint
  <1> QED
    BY <1>1, <1>2, <1>3, <1>4, <1>5, <1>6, <1>7, <1>8, <1>9, <1>10, <1>11, <1>12, <1>13, <1>14
       DEF Next

(* What a step may do to the streams: nothing, start some for the present  *)
(* owner, or append the first event of the registered socket.              *)
LEMMA StreamSteps ==
    ASSUME TypeOK, [Next]_vars
    PROVE  \/ UNCHANGED <<streams, ownerEpoch>>
           \/ \E tabs \in SUBSET Tab :
                 /\ StartStreams(tabs, ownerEpoch')
                 /\ ownerEpoch' >= ownerEpoch
           \/ \E g \in Generation : ReceiveEvent(g) /\ lifecycle[wire[g][1].tab] = "active"
  <1>1. CASE TakeOver
    <2>1. StartStreams({t \in Tab : lifecycle[t] = "active"}, ownerEpoch')
      BY <1>1 DEF TakeOver
    <2>2. ownerEpoch' >= ownerEpoch
      BY <1>1, Sets DEF TypeOK, TakeOver
    <2> QED
      BY <2>1, <2>2
  <1>2. CASE \/ Hello \/ Authenticate \/ SocketBreaks \/ BrokerSeesClose \/ HandshakeFails
             \/ BrokerRestarts \/ Capture
             \/ \E t \in Attached, fits \in BOOLEAN : Raise(t, fits)
             \/ \E t \in Tab : MoveTab(t)
             \/ \E live \in captured : SendInventory(live)
             \/ UNCHANGED vars
    BY <1>2 DEF Hello, Authenticate, SocketBreaks, BrokerSeesClose, HandshakeFails, BrokerRestarts,
                Capture, Raise, MoveTab, SendInventory, vars, rows
  <1>3. ASSUME NEW g \in Generation, ReceiveEvent(g)
        PROVE  UNCHANGED <<streams, ownerEpoch>> \/ lifecycle[wire[g][1].tab] = "active"
    <2>1. Head(wire[g]) = wire[g][1]
      BY <1>3, Received DEF ReceiveEvent
    <2> QED
      BY <1>3, <2>1 DEF ReceiveEvent
  <1>4. ASSUME NEW g \in Generation, ReceiveInventory(g)
        PROVE  \/ UNCHANGED <<streams, ownerEpoch>>
               \/ \E tabs \in SUBSET Tab :
                     StartStreams(tabs, ownerEpoch') /\ ownerEpoch' >= ownerEpoch
    <2>1. Head(wire[g]) \in Message /\ Head(wire[g]).kind = "inventory"
      BY <1>4, Received DEF ReceiveInventory
    <2>2. Replaced(Head(wire[g]).live, pending) \in SUBSET Tab
      BY <2>1 DEF Message, Replaced
    <2>3. ownerEpoch' = ownerEpoch /\ ownerEpoch \in Int
      BY <1>4, Sets DEF TypeOK, ReceiveInventory
    <2> QED
      BY <1>4, <2>2, <2>3 DEF ReceiveInventory
  <1> QED
    BY <1>1, <1>2, <1>3, <1>4 DEF Next

(* Epochs never fall along a stream.                                       *)
LEMMA EpochsStep ==
    ASSUME TypeOK, EpochsRise, [Next]_vars
    PROVE  EpochsRise'
  <1> USE Sets
  <1>0. TypeOK'
    BY TypeStep
  <1>1. CASE UNCHANGED <<streams, ownerEpoch>>
    BY <1>1 DEF EpochsRise
  <1>2. ASSUME NEW tabs \in SUBSET Tab, StartStreams(tabs, ownerEpoch'), ownerEpoch' >= ownerEpoch
        PROVE  EpochsRise'
    <2>1. ownerEpoch' \in Epoch
      BY <1>0 DEF TypeOK
    <2> SUFFICES ASSUME NEW t \in Tab, NEW i \in 1 .. Len(streams'[t])
                 PROVE  LET stream == streams'[t][i] IN
                        /\ stream.epoch <= ownerEpoch'
                        /\ \A a \in 1 .. Len(stream.events) :
                              /\ stream.epoch <= stream.events[a].epoch
                              /\ stream.events[a].epoch <= ownerEpoch'
                        /\ \A a, b \in 1 .. Len(stream.events) :
                              a < b => stream.events[a].epoch <= stream.events[b].epoch
      BY DEF EpochsRise
    <2>2. \/ i \in 1 .. Len(streams[t]) /\ streams'[t][i] = streams[t][i]
          \/ streams'[t][i] = NewStream(ownerEpoch')
      <3>1. CASE t \in tabs
        <4>1. /\ Len(streams'[t]) = Len(streams[t]) + 1
              /\ streams'[t][Len(streams[t]) + 1] = NewStream(ownerEpoch')
              /\ \A k \in 1 .. Len(streams[t]) : streams'[t][k] = streams[t][k]
          BY <1>2, <2>1, <3>1, Started
        <4>2. Len(streams[t]) \in Nat
          BY Elements
        <4>3. i \in 1 .. Len(streams[t]) \/ i = Len(streams[t]) + 1
          BY <4>1, <4>2
        <4> QED
          BY <4>1, <4>3
      <3>2. CASE t \notin tabs
        BY <1>2, <2>1, <3>2, Started
      <3> QED
        BY <3>1, <3>2
    <2>3. CASE streams'[t][i] = NewStream(ownerEpoch')
      BY <2>1, <2>3, EmptySeq DEF NewStream
    <2>4. CASE i \in 1 .. Len(streams[t]) /\ streams'[t][i] = streams[t][i]
      <3>1. ownerEpoch \in Int /\ ownerEpoch' \in Int /\ streams[t][i].epoch \in Int
            /\ \A a \in 1 .. Len(streams[t][i].events) : streams[t][i].events[a].epoch \in Int
        BY <1>0, <2>1, <2>4, Elements, Integral DEF TypeOK
      <3>2. streams[t][i].epoch <= ownerEpoch /\ ownerEpoch <= ownerEpoch'
            /\ \A a \in 1 .. Len(streams[t][i].events) :
                  streams[t][i].events[a].epoch <= ownerEpoch
        BY <1>2, <2>4 DEF EpochsRise
      <3>3. \A e \in Int : e <= ownerEpoch => e <= ownerEpoch'
        BY <3>1, <3>2
      <3>4. streams[t][i].epoch <= ownerEpoch'
        BY <3>1, <3>2, <3>3
      <3>5. \A a \in 1 .. Len(streams[t][i].events) :
                  streams[t][i].events[a].epoch <= ownerEpoch'
        BY <3>1, <3>2, <3>3
      <3> QED
        BY <2>4, <3>4, <3>5 DEF EpochsRise
    <2> QED
      BY <2>2, <2>3, <2>4
  <1>3. ASSUME NEW g \in Generation, ReceiveEvent(g), lifecycle[wire[g][1].tab] = "active"
        PROVE  EpochsRise'
    <2> DEFINE m == wire[g][1]
               t == m.tab
               last == Len(streams[t])
               events == streams[t][last].events
    <2>1. t \in Tab /\ m.number \in 1 .. MaxEvents /\ ownerEpoch' = ownerEpoch
          /\ streams[t] # <<>> /\ AppendEvent(t, m.number, g)
      BY <1>3, EventTaken
    <2> HIDE DEF t, m
    <2>4. /\ last \in 1 .. Len(streams[t])
          /\ \A u \in Tab : Len(streams'[u]) = Len(streams[u])
          /\ \A u \in Tab : \A i \in 1 .. Len(streams[u]) :
                /\ streams'[u][i].epoch = streams[u][i].epoch
                /\ u # t \/ i # last => streams'[u][i] = streams[u][i]
          /\ Len(streams'[t][last].events) = Len(events) + 1
          /\ streams'[t][last].events[Len(events) + 1] =
                [number |-> m.number, generation |-> g, epoch |-> ownerEpoch]
          /\ \A a \in 1 .. Len(events) : streams'[t][last].events[a] = events[a]
      BY <2>1, Appended
    <2>5. ownerEpoch \in Int /\ \A u \in Tab : \A i \in 1 .. Len(streams[u]) :
             /\ streams[u][i].epoch \in Int /\ Len(streams[u][i].events) \in Nat
             /\ \A a \in 1 .. Len(streams[u][i].events) : streams[u][i].events[a].epoch \in Int
      BY Elements, Integral DEF TypeOK
    <2> SUFFICES ASSUME NEW u \in Tab, NEW i \in 1 .. Len(streams[u])
                 PROVE  LET stream == streams'[u][i] IN
                        /\ stream.epoch <= ownerEpoch
                        /\ \A a \in 1 .. Len(stream.events) :
                              /\ stream.epoch <= stream.events[a].epoch
                              /\ stream.events[a].epoch <= ownerEpoch
                        /\ \A a, b \in 1 .. Len(stream.events) :
                              a < b => stream.events[a].epoch <= stream.events[b].epoch
      BY <2>1, <2>4 DEF EpochsRise
    <2>6. CASE u # t \/ i # last
      BY <2>4, <2>6 DEF EpochsRise
    <2>7. CASE u = t /\ i = last
      <3> DEFINE longer == streams'[t][last].events
      <3>1. longer[Len(events) + 1].epoch = ownerEpoch
        BY <2>4
      <3>2. /\ streams[t][last].epoch <= ownerEpoch
            /\ \A a \in 1 .. Len(events) :
                  streams[t][last].epoch <= events[a].epoch /\ events[a].epoch <= ownerEpoch
            /\ \A a, b \in 1 .. Len(events) : a < b => events[a].epoch <= events[b].epoch
        BY <2>1, <2>4 DEF EpochsRise
      <3>3. Len(events) \in Nat /\ \A a \in 1 .. Len(longer) :
               (a \in 1 .. Len(events) /\ longer[a] = events[a]) \/ a = Len(events) + 1
        <4>1. Len(events) \in Nat
          BY <2>1, <2>4, <2>5
        <4>2. Len(longer) = Len(events) + 1 /\ \A a \in 1 .. Len(events) : longer[a] = events[a]
          BY <2>4
        <4> HIDE DEF longer, events
        <4> QED
          BY <4>1, <4>2
      <3>4. streams'[t][last].epoch = streams[t][last].epoch
        BY <2>1, <2>4
      <3> HIDE DEF longer, events
      <3>5. \A a \in 1 .. Len(longer) :
               streams[t][last].epoch <= longer[a].epoch /\ longer[a].epoch <= ownerEpoch
        BY <2>5, <3>1, <3>2, <3>3
      <3>6. \A a, b \in 1 .. Len(longer) : a < b => longer[a].epoch <= longer[b].epoch
        <4> SUFFICES ASSUME NEW a \in 1 .. Len(longer), NEW b \in 1 .. Len(longer), a < b
                     PROVE  longer[a].epoch <= longer[b].epoch
          OBVIOUS
        <4>1. a \in 1 .. Len(events)
          BY <2>4, <3>3 DEF longer, events
        <4> QED
          BY <3>1, <3>2, <3>3, <4>1
      <3> QED
        BY <2>7, <3>2, <3>4, <3>5, <3>6 DEF longer
    <2> QED
      BY <2>6, <2>7
  <1> QED
    BY <1>1, <1>2, <1>3, StreamSteps

(* The active stream of a tab with a row is its last.                      *)
LEMMA LastStream ==
    ASSUME TypeOK, NEW t \in Tab, lifecycle[t] # "none"
    PROVE  Len(streams[t]) \in 1 .. Len(streams[t]) /\ Len(streams[t]) \in Nat
  <1>1. streams[t] # <<>> /\ streams[t] \in Seq(Stream)
    BY DEF TypeOK
  <1> QED
    BY <1>1, EmptySeq, LenProperties

(* Streams that are begun are the active ones, and empty.                  *)
LEMMA BegunStream ==
    ASSUME TypeOK, NEW tabs \in SUBSET Tab, NEW epoch \in Epoch, StartStreams(tabs, epoch),
           NEW t \in tabs
    PROVE  ActiveStream(t)' = NewStream(epoch) /\ Len(NewStream(epoch).events) = 0
  <1>1. /\ Len(streams'[t]) = Len(streams[t]) + 1
        /\ streams'[t][Len(streams[t]) + 1] = NewStream(epoch)
    BY Started
  <1>2. Len(NewStream(epoch).events) = 0
    BY DEF NewStream
  <1> QED
    BY <1>1, <1>2 DEF ActiveStream

(* What the first inventory of a connection finds in the streams stays.    *)
LEMMA CurrentStep ==
    ASSUME TypeOK, Connections, StreamsCurrent, [Next]_vars
    PROVE  StreamsCurrent'
  <1> USE Sets
  <1> DEFINE settled == bound # 0 /\ bound = dbGeneration /\ ~pending
             Good(t) == /\ ActiveStream(t).epoch = ownerEpoch
                        /\ settled => \A a \in 1 .. Len(ActiveStream(t).events) :
                              ActiveStream(t).events[a].generation = bound
  <1>0. ASSUME \A t \in Tab : lifecycle'[t] # "none" /\ t \notin skipped' => Good(t)'
        PROVE  StreamsCurrent'
    BY <1>0 DEF StreamsCurrent
  <1>1. ASSUME UNCHANGED <<ownerEpoch, lifecycle, streams, skipped>>,
               settled' => settled /\ bound' = bound
        PROVE  StreamsCurrent'
    <2>1. \A t \in Tab : ActiveStream(t)' = ActiveStream(t)
      BY <1>1 DEF ActiveStream
    <2> QED
      BY <1>1, <2>1 DEF StreamsCurrent
  <1>2. CASE TakeOver
    <2> DEFINE tabs == {t \in Tab : lifecycle[t] = "active"}
    <2>1. StartStreams(tabs, ownerEpoch') /\ ownerEpoch' \in Epoch /\ tabs \in SUBSET Tab
      BY <1>2 DEF TypeOK, TakeOver
    <2>2. ASSUME NEW t \in Tab, lifecycle'[t] # "none", t \notin skipped'
          PROVE  t \in tabs
      BY <1>2, <2>2 DEF TypeOK, TakeOver
    <2>3. ASSUME NEW t \in tabs
          PROVE  Good(t)'
      <3>1. ActiveStream(t)' = NewStream(ownerEpoch') /\ Len(NewStream(ownerEpoch').events) = 0
        BY <2>1, BegunStream
      <3> QED
        BY <3>1 DEF NewStream
    <2> HIDE DEF Good, tabs
    <2> QED
      BY <1>0, <2>2, <2>3
  <1>3. CASE Hello
    <2>1. ~settled'
      BY <1>3 DEF TypeOK, Connections, Hello
    <2> QED
      BY <1>1, <1>3, <2>1 DEF Hello, rows
  <1>4. CASE Authenticate
    <2>1. ~settled'
      BY <1>4 DEF TypeOK, Connections, Authenticate
    <2> QED
      BY <1>1, <1>4, <2>1 DEF Authenticate, rows
  <1>5. CASE SocketBreaks
    BY <1>1, <1>5 DEF SocketBreaks, rows, endpoint
  <1>6. CASE BrokerSeesClose
    BY <1>1, <1>6 DEF BrokerSeesClose, rows
  <1>7. CASE HandshakeFails
    BY <1>1, <1>7 DEF HandshakeFails, CloseConnection, rows
  <1>8. CASE BrokerRestarts
    BY <1>1, <1>8 DEF BrokerRestarts, rows
  <1>9. CASE \E t \in Attached, fits \in BOOLEAN : Raise(t, fits)
    BY <1>1, <1>9 DEF Raise, rows, endpoint
  <1>10. CASE \E t \in Tab : MoveTab(t)
    BY <1>1, <1>10 DEF MoveTab, rows, endpoint
  <1>11. CASE Capture
    BY <1>1, <1>11 DEF Capture, rows, endpoint
  <1>12. CASE \E live \in captured : SendInventory(live)
    BY <1>1, <1>12 DEF SendInventory, rows, endpoint
  <1>13. ASSUME NEW g \in Generation, ReceiveEvent(g)
         PROVE  StreamsCurrent'
    <2>1. bound = g /\ Head(wire[g]) = wire[g][1]
      BY <1>13, Received DEF ReceiveEvent
    <2>2. CASE lifecycle[wire[g][1].tab] # "active"
      BY <1>1, <1>13, <2>1, <2>2 DEF ReceiveEvent, endpoint
    <2>3. CASE lifecycle[wire[g][1].tab] = "active"
      <3> DEFINE t == wire[g][1].tab
                 n == wire[g][1].number
                 last == Len(streams[t])
                 events == streams[t][last].events
                 longer == streams'[t][last].events
      <3>1. /\ t \in Tab /\ n \in 1 .. MaxEvents /\ streams[t] # <<>> /\ AppendEvent(t, n, g)
            /\ UNCHANGED <<ownerEpoch, lifecycle, endpoint, skipped>>
        BY <1>13, <2>3, EventTaken
      <3> HIDE DEF t, n
      <3>2. /\ last \in 1 .. Len(streams[t])
            /\ \A u \in Tab : Len(streams'[u]) = Len(streams[u])
            /\ \A u \in Tab : \A i \in 1 .. Len(streams[u]) :
                  /\ streams'[u][i].epoch = streams[u][i].epoch
                  /\ u # t \/ i # last => streams'[u][i] = streams[u][i]
            /\ Len(longer) = Len(events) + 1
            /\ longer[Len(events) + 1] = [number |-> n, generation |-> g, epoch |-> ownerEpoch]
            /\ \A a \in 1 .. Len(events) : longer[a] = events[a]
        BY <3>1, Appended
      <3>3. ASSUME NEW u \in Tab, lifecycle'[u] # "none", u \notin skipped'
            PROVE  Good(u)'
        <4>1. lifecycle[u] # "none" /\ u \notin skipped /\ (settled' <=> settled) /\ bound' = bound
          BY <3>1, <3>3 DEF endpoint
        <4>2. Good(u)
          BY <4>1 DEF StreamsCurrent
        <4>3. Len(streams[u]) \in 1 .. Len(streams[u]) /\ Len(streams'[u]) = Len(streams[u])
          BY <3>2, <4>1, LastStream
        <4>4. ActiveStream(u)' = streams'[u][Len(streams[u])]
          BY <4>3 DEF ActiveStream
        <4>5. ActiveStream(u)'.epoch = ownerEpoch'
          BY <3>1, <3>2, <4>2, <4>3, <4>4 DEF ActiveStream
        <4>6. CASE u # t
          BY <3>2, <4>1, <4>2, <4>3, <4>4, <4>5, <4>6 DEF ActiveStream
        <4>7. CASE u = t
          <5>1. Len(events) \in Nat
            BY <3>1, <3>2, Elements
          <5>2. settled => \A a \in 1 .. Len(events) : events[a].generation = bound
            BY <4>2, <4>7 DEF ActiveStream
          <5>3. longer[Len(events) + 1].generation = bound
            BY <2>1, <3>2
          <5> HIDE DEF events, longer, Good, settled
          <5>4. settled => \A a \in 1 .. Len(longer) : longer[a].generation = bound
            BY <3>2, <5>1, <5>2, <5>3
          <5>5. ActiveStream(u)'.events = longer
            BY <4>4, <4>7 DEF longer
          <5>6. settled' => \A a \in 1 .. Len(ActiveStream(u)'.events) :
                               ActiveStream(u)'.events[a].generation = bound'
            BY <4>1, <5>4, <5>5
          <5> QED
            BY <4>5, <5>6 DEF Good
        <4> QED
          BY <4>6, <4>7
      <3> HIDE DEF Good
      <3> QED
        BY <1>0, <3>3
    <2> QED
      BY <2>2, <2>3
  <1>14. ASSUME NEW g \in Generation, ReceiveInventory(g)
         PROVE  StreamsCurrent'
    <2> DEFINE live == wire[g][1].live
               known == {t \in Tab : lifecycle[t] # "none"}
               current == dbConnected /\ dbGeneration = g
               fresh == Replaced(live, pending)
    <2>1. /\ bound = g /\ wire[g][1] \in Message /\ wire[g][1].kind = "inventory"
          /\ live = Head(wire[g]).live
      BY <1>14, Received DEF ReceiveInventory
    <2>2. live \in SUBSET Tab
      BY <2>1 DEF Message
    <2>3. /\ pending' = FALSE
          /\ UNCHANGED <<ownerEpoch, dbGeneration, dbConnected, bound>>
          /\ skipped' = IF current /\ pending THEN known \ live ELSE skipped
      BY <1>14, <2>1 DEF ReceiveInventory
    <2>4. CASE ~current
      <3>1. ~settled'
        BY <2>1, <2>3, <2>4 DEF Connections
      <3> QED
        BY <1>1, <1>14, <2>1, <2>3, <2>4, <3>1 DEF ReceiveInventory
    <2>5. CASE current /\ live = {}
      <3>1. UNCHANGED <<lifecycle, streams>>
        BY <1>14, <2>1, <2>5 DEF ReceiveInventory
      <3>2. CASE pending
        BY <1>0, <2>3, <2>5, <3>1, <3>2
      <3>3. CASE ~pending
        BY <1>1, <2>3, <3>1, <3>3
      <3> QED
        BY <3>2, <3>3
    <2>6. CASE current /\ live # {}
      <3>1. StartStreams(fresh, ownerEpoch) /\ ownerEpoch \in Epoch /\ fresh \in SUBSET Tab
        BY <1>14, <2>1, <2>2, <2>6 DEF TypeOK, ReceiveInventory, Replaced
      <3>2. lifecycle' = [t \in Tab |-> CASE t \in live -> "active"
                                          [] t \in known \ live -> "closed"
                                          [] OTHER -> "none"]
        BY <1>14, <2>1, <2>6 DEF ReceiveInventory
      <3>3. ASSUME NEW t \in Tab, lifecycle'[t] # "none", t \notin skipped'
            PROVE  Good(t)'
        <4>1. CASE t \in fresh
          <5>1. ActiveStream(t)' = NewStream(ownerEpoch) /\ Len(NewStream(ownerEpoch).events) = 0
            BY <3>1, <4>1, BegunStream
          <5> QED
            BY <2>3, <5>1 DEF NewStream
        <4>2. CASE t \notin fresh
          <5>1. streams'[t] = streams[t]
            BY <3>1, <4>2, Started
          <5>2. t \in known
            BY <3>2, <3>3, <4>2 DEF TypeOK, Replaced
          <5>3. ~pending
            BY <2>3, <2>6, <3>3, <4>2, <5>2 DEF Replaced
          <5>4. Good(t)
            BY <2>3, <3>3, <5>2, <5>3 DEF StreamsCurrent
          <5>5. ActiveStream(t)' = ActiveStream(t)
            BY <5>1 DEF ActiveStream
          <5> QED
            BY <2>3, <5>3, <5>4, <5>5
        <4> QED
          BY <4>1, <4>2
      <3> HIDE DEF Good
      <3> QED
        BY <1>0, <3>3
    <2> QED
      BY <2>4, <2>5, <2>6
  <1>15. CASE UNCHANGED vars
    BY <1>1, <1>15 DEF vars, rows, endpoint
  <1> QED
    BY <1>2, <1>3, <1>4, <1>5, <1>6, <1>7, <1>8, <1>9, <1>10, <1>11, <1>12, <1>13, <1>14, <1>15
       DEF Next

(* The domains of what the streams are made of.                            *)
LEMMA Domains ==
    ASSUME NEW all \in [Tab -> Seq(Stream)], NEW t \in Tab
    PROVE  /\ DOMAIN all[t] = 1 .. Len(all[t])
           /\ \A i \in 1 .. Len(all[t]) : DOMAIN all[t][i].events = 1 .. Len(all[t][i].events)
  <1>1. all[t] \in Seq(Stream)
    OBVIOUS
  <1>2. ASSUME NEW i \in 1 .. Len(all[t])
        PROVE  DOMAIN all[t][i].events = 1 .. Len(all[t][i].events)
    <2>1. all[t][i] \in Stream
      BY <1>1, ElementOfSeq
    <2>2. all[t][i].events \in
             Seq([number : 1 .. MaxEvents, generation : Generation, epoch : Epoch])
      BY <2>1 DEF Stream
    <2> QED
      BY <2>2, LenProperties
  <1> QED
    BY <1>1, <1>2, LenProperties

(* Streams that are begun hold nothing new.                                *)
LEMMA BegunBelow ==
    ASSUME TypeOK, NEW tabs \in SUBSET Tab, NEW epoch \in Epoch, StartStreams(tabs, epoch),
           NEW t \in Tab
    PROVE  \A i \in 1 .. Len(streams'[t]) :
              \/ Len(streams'[t][i].events) = 0
              \/ i \in 1 .. Len(streams[t]) /\ streams'[t][i] = streams[t][i]
  <1>1. CASE t \in tabs
    <2>1. /\ Len(streams'[t]) = Len(streams[t]) + 1
          /\ streams'[t][Len(streams[t]) + 1] = NewStream(epoch)
          /\ \A i \in 1 .. Len(streams[t]) : streams'[t][i] = streams[t][i]
      BY <1>1, Started
    <2>2. Len(NewStream(epoch).events) = 0
      BY DEF NewStream
    <2>3. Len(streams[t]) \in Nat
      BY Elements
    <2> QED
      BY <2>1, <2>2, <2>3
  <1>2. CASE t \notin tabs
    BY <1>2, Started
  <1> QED
    BY <1>1, <1>2

(* A stored number stays the last but for the event taken off the wire.    *)
LEMMA BelowStep ==
    ASSUME TypeOK, [Next]_vars, NEW t \in Tab, NEW n \in Int, Below(t, n),
           \A g \in Generation : ReceiveEvent(g) /\ wire[g][1].tab = t
                                   /\ lifecycle[wire[g][1].tab] = "active"
                                => wire[g][1].number <= n
    PROVE  Below(t, n)'
  <1>1. CASE UNCHANGED <<streams, ownerEpoch>>
    BY <1>1 DEF Below
  <1>2. ASSUME NEW tabs \in SUBSET Tab, StartStreams(tabs, ownerEpoch')
        PROVE  Below(t, n)'
    <2>1. ownerEpoch' \in Epoch
      BY TypeStep DEF TypeOK
    <2>2. \A i \in 1 .. Len(streams'[t]) :
              \/ Len(streams'[t][i].events) = 0
              \/ i \in 1 .. Len(streams[t]) /\ streams'[t][i] = streams[t][i]
      BY <1>2, <2>1, BegunBelow
    <2>3. ASSUME NEW i \in 1 .. Len(streams'[t]), NEW a \in 1 .. Len(streams'[t][i].events)
          PROVE  streams'[t][i].events[a].number <= n
      <3>1. i \in 1 .. Len(streams[t]) /\ streams'[t][i] = streams[t][i]
        BY <2>2, <2>3
      <3> QED
        BY <2>3, <3>1 DEF Below
    <2> QED
      BY <2>3 DEF Below
  <1>3. ASSUME NEW g \in Generation, ReceiveEvent(g), lifecycle[wire[g][1].tab] = "active"
        PROVE  Below(t, n)'
    <2> DEFINE u == wire[g][1].tab
               k == wire[g][1].number
               last == Len(streams[u])
               events == streams[u][last].events
               longer == streams'[u][last].events
    <2>1. u \in Tab /\ k \in 1 .. MaxEvents /\ streams[u] # <<>> /\ AppendEvent(u, k, g)
      BY <1>3, EventTaken
    <2>2. u = t => k <= n
      BY <1>3
    <2> HIDE DEF u, k
    <2>3. /\ last \in 1 .. Len(streams[u])
          /\ Len(streams'[t]) = Len(streams[t])
          /\ \A i \in 1 .. Len(streams[t]) : t # u \/ i # last => streams'[t][i] = streams[t][i]
          /\ Len(longer) = Len(events) + 1
          /\ longer[Len(events) + 1] = [number |-> k, generation |-> g, epoch |-> ownerEpoch]
          /\ \A a \in 1 .. Len(events) : longer[a] = events[a]
      BY <2>1, Appended
    <2>4. Len(events) \in Nat
      BY <2>1, <2>3, Elements
    <2>5. u = t => \A a \in 1 .. Len(events) : events[a].number <= n
      BY <2>3 DEF Below
    <2>6. longer[Len(events) + 1].number = k
      BY <2>3
    <2> HIDE DEF events, longer
    <2>7. u = t => \A a \in 1 .. Len(longer) : longer[a].number <= n
      BY <2>2, <2>3, <2>4, <2>5, <2>6
    <2>8. ASSUME NEW i \in 1 .. Len(streams'[t]), NEW a \in 1 .. Len(streams'[t][i].events)
          PROVE  streams'[t][i].events[a].number <= n
      <3>1. CASE t # u \/ i # last
        BY <2>3, <2>8, <3>1 DEF Below
      <3>2. CASE t = u /\ i = last
        BY <2>7, <2>8, <3>2 DEF longer
      <3> QED
        BY <3>1, <3>2
    <2> QED
      BY <2>8 DEF Below
  <1> QED
    BY <1>1, <1>2, <1>3, StreamSteps

(* What the registered socket carries stays ahead of what is stored.       *)
LEMMA WireStep ==
    ASSUME TypeOK, Connections, WireAhead, [Next]_vars
    PROVE  WireAhead'
  <1> USE Sets
  <1>0. /\ TypeOK' /\ raised \in [Tab -> 0 .. MaxEvents] /\ raised' \in [Tab -> 0 .. MaxEvents]
        /\ wire \in [Generation -> Seq(Message)]
    BY TypeStep DEF TypeOK
  <1>1. \A t \in Tab : Below(t, raised[t])
    BY DEF WireAhead
  <1>2. \A g \in Generation, k \in Int : k \in 1 .. Len(wire[g]) /\ wire[g][k].kind = "event"
           => wire[g][k].tab \in Tab /\ wire[g][k].number \in 1 .. MaxEvents
    <2>1. \A g \in Generation : \A k \in 1 .. Len(wire[g]) : wire[g][k] \in Message
      BY <1>0, ElementOfSeq
    <2> QED
      BY <2>1 DEF Message
  <1>3. \A t \in Tab : raised'[t] >= raised[t]
    <2>1. CASE \E t \in Attached, fits \in BOOLEAN : Raise(t, fits)
      BY <1>0, <2>1 DEF Raise
    <2>2. CASE ~ \E t \in Attached, fits \in BOOLEAN : Raise(t, fits)
      <3>1. raised' = raised
        BY <2>2 DEF Next, TakeOver, Hello, Authenticate, SocketBreaks, BrokerSeesClose,
                    HandshakeFails, BrokerRestarts, Capture, MoveTab, SendInventory, ReceiveEvent,
                    ReceiveInventory, vars
      <3> QED
        BY <1>0, <3>1
    <2> QED
      BY <2>1, <2>2
  <1>4. ASSUME NEW g \in Generation, ReceiveEvent(g)
        PROVE  /\ bound = g /\ 1 \in 1 .. Len(wire[g]) /\ wire[g][1].kind = "event"
               /\ wire[g][1].number <= raised[wire[g][1].tab]
               /\ \A k \in 1 .. Len(wire[g]) :
                     k > 1 /\ wire[g][k].kind = "event" /\ wire[g][k].tab = wire[g][1].tab
                        => wire[g][1].number <= wire[g][k].number - 1
    <2>1. /\ bound = g /\ Len(wire[g]) \in Nat \ {0} /\ wire[g][1].kind = "event"
      BY <1>4, Received DEF ReceiveEvent
    <2>2. Ahead(wire[g])
      BY <2>1 DEF WireAhead
    <2>3. ASSUME NEW k \in 1 .. Len(wire[g]),
                 k > 1, wire[g][k].kind = "event", wire[g][k].tab = wire[g][1].tab
          PROVE  wire[g][1].number <= wire[g][k].number - 1
      <3>1. wire[g][1].number < wire[g][k].number
        BY <2>1, <2>2, <2>3 DEF Ahead
      <3>2. wire[g][1].number \in Int /\ wire[g][k].number \in Int
        BY <1>2, <2>1, <2>3
      <3> QED
        BY <3>1, <3>2
    <2>4. 1 \in 1 .. Len(wire[g])
      BY <2>1
    <2>5. wire[g][1].number <= raised[wire[g][1].tab]
      BY <2>1, <2>2, <2>4 DEF Ahead
    <2> QED
      BY <2>1, <2>3, <2>4, <2>5
  <1>5. ASSUME NEW t \in Tab
        PROVE  Below(t, raised[t])'
    <2>1. Below(t, raised'[t])
      <3>1. Below(t, raised[t])
        BY <1>1
      <3>2. \A i \in 1 .. Len(streams[t]) : \A a \in 1 .. Len(streams[t][i].events) :
               streams[t][i].events[a].number \in Int
        BY Elements
      <3>3. \A e \in Int : e <= raised[t] => e <= raised'[t]
        <4>1. raised[t] \in Int /\ raised'[t] \in Int /\ raised[t] <= raised'[t]
          BY <1>0, <1>3
        <4> QED
          BY <4>1
      <3> QED
        BY <3>1, <3>2, <3>3 DEF Below
    <2>2. \A g \in Generation : ReceiveEvent(g) /\ wire[g][1].tab = t
                                /\ lifecycle[wire[g][1].tab] = "active"
                             => wire[g][1].number <= raised'[t]
      <3>1. ASSUME NEW g \in Generation, ReceiveEvent(g), wire[g][1].tab = t
            PROVE  wire[g][1].number <= raised'[t]
        <4>1. wire[g][1].number <= raised[t] /\ wire[g][1].number \in Int
          BY <1>2, <1>4, <3>1
        <4>2. raised[t] \in Int /\ raised'[t] \in Int /\ raised[t] <= raised'[t]
          BY <1>0, <1>3
        <4> QED
          BY <4>1, <4>2
      <3> QED
        BY <3>1
    <2>3. \A n \in Int : n = raised'[t] => Below(t, n)'
      <3> SUFFICES ASSUME NEW n \in Int, n = raised'[t]
                   PROVE  Below(t, n)'
        OBVIOUS
      <3>1. Below(t, n)
        BY <2>1 DEF Below
      <3>2. \A g \in Generation : ReceiveEvent(g) /\ wire[g][1].tab = t
                                /\ lifecycle[wire[g][1].tab] = "active"
                             => wire[g][1].number <= n
        BY <2>2
      <3> QED
        BY <3>1, <3>2, BelowStep
    <2>4. raised'[t] \in Int
      BY <1>0
    <2> QED
      BY <2>3, <2>4 DEF Below
  <1> DEFINE Fit(queue, k) ==
                 /\ queue[k].number <= raised'[queue[k].tab]
                 /\ \A t \in Tab, n \in Int :
                       t = queue[k].tab /\ n = queue[k].number - 1 => Below(t, n)'
                 /\ \A j \in 1 .. k - 1 : queue[j].kind = "event" /\ queue[j].tab = queue[k].tab
                       => queue[j].number < queue[k].number
  <1>6. ASSUME bound' = bound, bound # 0, NEW s \in {0, 1}, NEW k \in Nat,
               k + s \in 1 .. Len(wire[bound]), wire[bound][k + s].kind = "event",
               \A g \in Generation : ReceiveEvent(g) => s = 1 /\ k > 0,
               Len(wire'[bound]) \in Nat,
               \A j \in 1 .. k : wire'[bound][j] = wire[bound][j + s], k > 0
        PROVE  Fit(wire'[bound'], k)
    <2> DEFINE m == wire[bound][k + s]
    <2>1. bound \in Generation /\ m.tab \in Tab /\ m.number \in 1 .. MaxEvents
      <3>1. bound \in Generation
        BY <1>6 DEF TypeOK
      <3>2. k + s \in Int
        BY <1>6
      <3>3. k + s \in 1 .. Len(wire[bound]) /\ wire[bound][k + s].kind = "event"
        BY <1>6
      <3> QED
        BY <1>2, <3>1, <3>2, <3>3
    <2>2. Ahead(wire[bound])
      BY <1>6 DEF WireAhead
    <2>3. /\ m.number <= raised[m.tab] /\ Below(m.tab, m.number - 1)
          /\ \A j \in 1 .. k + s - 1 : wire[bound][j].kind = "event" /\ wire[bound][j].tab = m.tab
                => wire[bound][j].number < m.number
      <3>1. k + s \in 1 .. Len(wire[bound]) /\ wire[bound][k + s].kind = "event"
        BY <1>6
      <3>2. \A i \in 1 .. Len(wire[bound]) : wire[bound][i].kind = "event" =>
              /\ wire[bound][i].number <= raised[wire[bound][i].tab]
              /\ Below(wire[bound][i].tab, wire[bound][i].number - 1)
              /\ \A j \in 1 .. i - 1 :
                    wire[bound][j].kind = "event" /\ wire[bound][j].tab = wire[bound][i].tab
                        => wire[bound][j].number < wire[bound][i].number
        BY <2>2 DEF Ahead
      <3> QED
        BY <3>1, <3>2
    <2>4. \A g \in Generation : ReceiveEvent(g) /\ wire[g][1].tab = m.tab
                                /\ lifecycle[wire[g][1].tab] = "active"
                             => wire[g][1].number <= m.number - 1
      <3> SUFFICES ASSUME NEW g \in Generation, ReceiveEvent(g), wire[g][1].tab = m.tab
                   PROVE  wire[g][1].number <= m.number - 1
        OBVIOUS
      <3>1. bound = g /\ s = 1 /\ k > 0 /\ k + s > 1
        BY <1>4, <1>6
      <3> QED
        BY <1>4, <1>6, <3>1
    <2>5. m.number <= raised'[m.tab]
      <3>1. raised[m.tab] \in Int /\ raised'[m.tab] \in Int /\ raised[m.tab] <= raised'[m.tab]
        BY <1>0, <1>3, <2>1
      <3> QED
        BY <2>1, <2>3, <3>1
    <2>6. \A t \in Tab, n \in Int : t = m.tab /\ n = m.number - 1 => Below(t, n)'
      <3> SUFFICES ASSUME NEW t \in Tab, NEW n \in Int, t = m.tab, n = m.number - 1
                   PROVE  Below(t, n)'
        OBVIOUS
      <3>1. Below(t, n)
        BY <2>3
      <3>2. \A g \in Generation : ReceiveEvent(g) /\ wire[g][1].tab = t
                                /\ lifecycle[wire[g][1].tab] = "active"
                             => wire[g][1].number <= n
        BY <2>4
      <3> QED
        BY ONLY TypeOK, [Next]_vars, t \in Tab, n \in Int, <3>1, <3>2, BelowStep
    <2>7. \A j \in 1 .. k - 1 : /\ j + s \in 1 .. k + s - 1
                                /\ wire'[bound'][j] = wire[bound][j + s]
      BY <1>6
    <2>8. wire'[bound'][k] = m
      BY <1>6
    <2> QED
      BY <2>3, <2>5, <2>6, <2>7, <2>8
  <1>7. ASSUME \A k \in 1 .. Len(wire'[bound']) : wire'[bound'][k].kind = "event"
                  => Fit(wire'[bound'], k), bound' # 0
        PROVE  WireAhead'
    <2>1. bound' \in Generation
      BY <1>0, <1>7 DEF TypeOK
    <2>2. \A k \in 1 .. Len(wire'[bound']) : wire'[bound'][k] \in Message
      BY <1>0, <2>1, ElementOfSeq DEF TypeOK
    <2>3. ASSUME NEW k \in 1 .. Len(wire'[bound']), wire'[bound'][k].kind = "event"
          PROVE  Below(wire[bound][k].tab, wire[bound][k].number - 1)'
      <3>1. wire'[bound'][k].tab \in Tab /\ wire'[bound'][k].number - 1 \in Int
        BY <2>2, <2>3 DEF Message
      <3> QED
        BY <1>7, <2>3, <3>1 DEF Below
    <2>4. Ahead(wire[bound])'
      BY <1>7, <2>3 DEF Ahead
    <2> QED
      BY <1>5, <2>4 DEF WireAhead
  <1>8. CASE bound' = 0
    BY <1>5, <1>8 DEF WireAhead
  <1>9. ASSUME bound' = bound, wire'[bound] = wire[bound], bound # 0
        PROVE  WireAhead'
    <2>1. bound \in Generation /\ Len(wire[bound]) \in Nat
      BY <1>0, <1>9 DEF TypeOK
    <2>3. \A g \in Generation : ~ReceiveEvent(g)
      <3> SUFFICES ASSUME NEW g \in Generation, ReceiveEvent(g)
                   PROVE  FALSE
        OBVIOUS
      <3>1. bound = g /\ Len(wire'[g]) = Len(wire[g]) - 1
        BY Received DEF ReceiveEvent
      <3> QED
        BY <1>9, <2>1, <3>1
    <2>2. ASSUME NEW k \in 1 .. Len(wire[bound]), wire[bound][k].kind = "event"
          PROVE  Fit(wire'[bound'], k)
      <3>1. k \in Nat /\ k + 0 = k /\ k > 0 /\ \A j \in 1 .. k : j + 0 = j
        BY <2>1
      <3> HIDE DEF Fit
      <3> QED
        BY <1>6, <1>9, <2>1, <2>2, <2>3, <3>1
    <2> HIDE DEF Fit
    <2> QED
      BY <1>7, <1>9, <2>2
  <1>10. ASSUME NEW g \in Generation, ReceiveEvent(g) \/ ReceiveInventory(g)
         PROVE  WireAhead'
    <2>1. /\ bound = g /\ Len(wire'[g]) = Len(wire[g]) - 1 /\ Len(wire[g]) \in Nat \ {0}
          /\ \A k \in 1 .. Len(wire'[g]) : wire'[g][k] = wire[g][k + 1]
      BY <1>10, Received DEF ReceiveEvent, ReceiveInventory
    <2>2. bound' = bound /\ bound # 0
      BY <1>10, <2>1 DEF ReceiveEvent, ReceiveInventory, endpoint, Generation
    <2>3. ASSUME NEW k \in 1 .. Len(wire'[g]), wire'[g][k].kind = "event"
          PROVE  Fit(wire'[bound'], k)
      <3>1. k \in Nat /\ k > 0 /\ k + 1 \in 1 .. Len(wire[bound])
            /\ wire[bound][k + 1].kind = "event" /\ 1 \in {0, 1}
            /\ Len(wire'[bound]) \in Nat /\ \A j \in 1 .. k : wire'[bound][j] = wire[bound][j + 1]
        <4>1. k \in Nat /\ k > 0 /\ k + 1 \in 1 .. Len(wire[g]) /\ Len(wire'[g]) \in Nat
              /\ \A j \in 1 .. k : j \in 1 .. Len(wire'[g])
          BY <2>1, <2>3
        <4>2. wire'[g][k] = wire[g][k + 1] /\ \A j \in 1 .. k : wire'[g][j] = wire[g][j + 1]
          BY <2>1, <2>3, <4>1
        <4> QED
          BY <2>1, <2>3, <4>1, <4>2
      <3> HIDE DEF Fit
      <3> QED
        BY <1>6, <2>1, <2>2, <3>1
    <2> HIDE DEF Fit
    <2> QED
      BY <1>7, <2>1, <2>2, <2>3
  <1>11. ASSUME NEW m \in Message, extGeneration # 0, Tell(m), UNCHANGED <<bound, streams>>, bound # 0,
                m.kind = "event" => m.number = raised[m.tab] + 1 /\ raised'[m.tab] = m.number
         PROVE  WireAhead'
    <2> DEFINE size == Len(wire[bound])
    <2>1. bound \in Generation /\ size \in Nat
      BY <1>0, <1>11 DEF TypeOK
    <2>2. CASE wire'[bound] = wire[bound]
      BY <1>9, <1>11, <2>2
    <2>3. CASE wire'[bound] # wire[bound]
      <3>1. /\ Len(wire'[bound]) = size + 1 /\ wire'[bound][size + 1] = m
            /\ \A k \in 1 .. size : wire'[bound][k] = wire[bound][k]
        BY <1>11, <2>3, Told
      <3>2. \A g \in Generation : ~ReceiveEvent(g)
        <4> SUFFICES ASSUME NEW g \in Generation, ReceiveEvent(g)
                     PROVE  FALSE
          OBVIOUS
        <4>1. bound = g /\ Len(wire'[g]) = Len(wire[g]) - 1
          BY Received DEF ReceiveEvent
        <4> QED
          BY <2>1, <3>1, <4>1
      <3>3. ASSUME NEW k \in 1 .. size, wire[bound][k].kind = "event"
            PROVE  Fit(wire'[bound'], k)
        <4>1. k \in Nat /\ k + 0 = k /\ k > 0 /\ \A j \in 1 .. k : j + 0 = j /\ j \in 1 .. size
          BY <2>1
        <4>2. 0 \in {0, 1} /\ Len(wire'[bound]) \in Nat
          BY <2>1, <3>1
        <4> HIDE DEF Fit
        <4> QED
          BY <1>6, <1>11, <3>1, <3>2, <3>3, <4>1, <4>2
      <3>4. ASSUME m.kind = "event"
            PROVE  Fit(wire'[bound'], size + 1)
        <4>1. m.tab \in Tab /\ m.number \in 1 .. MaxEvents /\ raised[m.tab] = m.number - 1
              /\ raised'[m.tab] = m.number
          <5>1. m.tab \in Tab /\ m.number \in 1 .. MaxEvents
            BY <3>4 DEF Message
          <5>2. raised[m.tab] \in Int
            BY <1>0, <5>1
          <5> QED
            BY <1>11, <3>4, <5>1, <5>2
        <4>2. ASSUME NEW t \in Tab, NEW n \in Int, t = m.tab, n = m.number - 1
              PROVE  Below(t, n)'
          BY <1>1, <1>11, <4>1, <4>2 DEF Below
        <4>3. \A j \in 1 .. size : wire[bound][j].kind = "event" /\ wire[bound][j].tab = m.tab
                                   => wire[bound][j].number < m.number
          <5> SUFFICES ASSUME NEW j \in 1 .. size, wire[bound][j].kind = "event",
                              wire[bound][j].tab = m.tab
                       PROVE  wire[bound][j].number < m.number
            OBVIOUS
          <5>1. wire[bound][j].number <= raised[m.tab]
            BY <1>11 DEF WireAhead, Ahead
          <5>2. wire[bound][j].number \in Int
            BY <1>2, <2>1
          <5> QED
            BY <4>1, <5>1, <5>2
        <4>4. \A j \in 1 .. size + 1 - 1 : j \in 1 .. size
          BY <2>1
        <4>5. wire'[bound'][size + 1] = m /\ \A j \in 1 .. size : wire'[bound'][j] = wire[bound][j]
          BY <1>11, <3>1
        <4>6. m.number <= raised'[m.tab]
          BY <4>1
        <4>7. wire'[bound'][size + 1].number <= raised'[wire'[bound'][size + 1].tab]
          BY <4>5, <4>6
        <4>8. \A t \in Tab, n \in Int : t = wire'[bound'][size + 1].tab
                                      /\ n = wire'[bound'][size + 1].number - 1 => Below(t, n)'
          BY <4>2, <4>5
        <4>9. \A j \in 1 .. size + 1 - 1 :
                 wire'[bound'][j].kind = "event" /\ wire'[bound'][j].tab = wire'[bound'][size + 1].tab
                    => wire'[bound'][j].number < wire'[bound'][size + 1].number
          BY <4>3, <4>4, <4>5
        <4> QED
          BY <4>7, <4>8, <4>9
      <3>5. \A k \in 1 .. Len(wire'[bound']) : k \in 1 .. size \/ k = size + 1
        BY <1>11, <2>1, <3>1
      <3>6. ASSUME NEW k \in 1 .. Len(wire'[bound']), wire'[bound'][k].kind = "event"
            PROVE  Fit(wire'[bound'], k)
        <4>1. CASE k \in 1 .. size
          <5>1. wire[bound][k].kind = "event"
            BY <1>11, <3>1, <3>6, <4>1
          <5> HIDE DEF Fit
          <5> QED
            BY <3>3, <4>1, <5>1
        <4>2. CASE k = size + 1
          <5>1. m.kind = "event"
            BY <1>11, <3>1, <3>6, <4>2
          <5> HIDE DEF Fit
          <5> QED
            BY <3>4, <4>2, <5>1
        <4> QED
          BY <3>5, <4>1, <4>2
      <3> HIDE DEF Fit
      <3> QED
        BY <1>7, <1>11, <3>6
    <2> QED
      BY <2>2, <2>3
  <1>12. ASSUME NEW t \in Attached, NEW fits \in BOOLEAN, Raise(t, fits), bound # 0
         PROVE  WireAhead'
    <2> DEFINE m == [kind |-> "event", tab |-> t, number |-> raised[t] + 1]
    <2>1. m \in Message /\ raised'[t] = raised[t] + 1 /\ UNCHANGED <<bound, streams>>
          /\ m.number = raised[m.tab] + 1 /\ raised'[m.tab] = m.number
      BY <1>0, <1>12 DEF Raise, Message, rows, endpoint
    <2>2. CASE fits /\ extGeneration # 0
      <3>1. Tell(m)
        BY <1>12, <2>2 DEF Raise
      <3> HIDE DEF m
      <3> QED
        BY <1>11, <1>12, <2>1, <2>2, <3>1
    <2>3. CASE ~(fits /\ extGeneration # 0)
      BY <1>9, <1>12, <2>1, <2>3 DEF Raise
    <2> QED
      BY <2>2, <2>3
  <1>13. ASSUME NEW live \in captured, SendInventory(live), bound # 0
         PROVE  WireAhead'
    <2> DEFINE m == [kind |-> "inventory", live |-> live]
    <2>1. m \in Message /\ m.kind # "event" /\ UNCHANGED <<bound, streams>>
      BY <1>13 DEF TypeOK, SendInventory, Message, rows, endpoint
    <2>2. CASE extGeneration # 0
      <3>1. Tell(m)
        BY <1>13, <2>2 DEF SendInventory
      <3> HIDE DEF m
      <3> QED
        BY <1>11, <1>13, <2>1, <2>2, <3>1
    <2>3. CASE extGeneration = 0
      BY <1>9, <1>13, <2>1, <2>3 DEF SendInventory
    <2> QED
      BY <2>2, <2>3
  <1>14. CASE Authenticate
    <2>1. bound' # 0 /\ wire'[bound'] = <<>>
      BY <1>14 DEF Authenticate, Connections, TypeOK
    <2>2. \A k \in 1 .. Len(wire'[bound']) : FALSE
      BY <2>1
    <2> HIDE DEF Fit
    <2> QED
      BY <1>7, <2>1, <2>2
  <1>15. CASE bound' = bound /\ wire' = wire
    BY <1>8, <1>9, <1>15
  <1>16. CASE TakeOver \/ Hello \/ SocketBreaks \/ HandshakeFails \/ Capture \/ UNCHANGED vars
    BY <1>15, <1>16 DEF TakeOver, Hello, SocketBreaks, HandshakeFails, Capture, vars, endpoint
  <1>17. CASE \E t \in Tab : MoveTab(t)
    BY <1>15, <1>17 DEF MoveTab, endpoint
  <1>18. CASE BrokerSeesClose \/ BrokerRestarts
    BY <1>8, <1>18 DEF BrokerSeesClose, BrokerRestarts
  <1>19. CASE bound = 0 /\ bound' = bound
    BY <1>8, <1>19
  <1>20. ASSUME NEW t \in Attached, NEW fits \in BOOLEAN, Raise(t, fits)
         PROVE  WireAhead'
    BY <1>12, <1>19, <1>20 DEF Raise, endpoint
  <1>21. ASSUME NEW live \in captured, SendInventory(live)
         PROVE  WireAhead'
    BY <1>13, <1>19, <1>21 DEF SendInventory, endpoint
  <1> QED
    BY <1>10, <1>14, <1>16, <1>17, <1>18, <1>20, <1>21 DEF Next

(* A step keeps the order of what is stored of a tab.                      *)
LEMMA OrderStep ==
    ASSUME TypeOK, WireAhead, StreamsInOrder, [Next]_vars
    PROVE  StreamsInOrder'
  <1> USE Sets
  <1>0. TypeOK'
    BY TypeStep
  <1>1. \A t \in Tab : \A i, j \in 1 .. Len(streams[t]) :
           \A a \in 1 .. Len(streams[t][i].events), b \in 1 .. Len(streams[t][j].events) :
              i < j \/ (i = j /\ a < b)
                 => streams[t][i].events[a].number < streams[t][j].events[b].number
    <2>1. streams \in [Tab -> Seq(Stream)]
      BY DEF TypeOK
    <2> QED
      BY <2>1, Domains DEF StreamsInOrder
  <1> SUFFICES ASSUME NEW t \in Tab, NEW i \in 1 .. Len(streams'[t]), NEW j \in 1 .. Len(streams'[t]),
                      NEW a \in 1 .. Len(streams'[t][i].events),
                      NEW b \in 1 .. Len(streams'[t][j].events), i < j \/ (i = j /\ a < b)
               PROVE  streams'[t][i].events[a].number < streams'[t][j].events[b].number
    <2>1. streams' \in [Tab -> Seq(Stream)]
      BY <1>0 DEF TypeOK
    <2> QED
      BY <2>1, Domains DEF StreamsInOrder
  <1>2. CASE UNCHANGED <<streams, ownerEpoch>>
    BY <1>1, <1>2
  <1>3. ASSUME NEW tabs \in SUBSET Tab, StartStreams(tabs, ownerEpoch')
        PROVE  streams'[t][i].events[a].number < streams'[t][j].events[b].number
    <2>1. ownerEpoch' \in Epoch
      BY <1>0 DEF TypeOK
    <2>2. \A k \in 1 .. Len(streams'[t]) :
              \/ Len(streams'[t][k].events) = 0
              \/ k \in 1 .. Len(streams[t]) /\ streams'[t][k] = streams[t][k]
      BY <1>3, <2>1, BegunBelow
    <2>3. /\ i \in 1 .. Len(streams[t]) /\ streams'[t][i] = streams[t][i]
          /\ j \in 1 .. Len(streams[t]) /\ streams'[t][j] = streams[t][j]
      BY <2>2
    <2> QED
      BY <1>1, <2>3
  <1>4. ASSUME NEW g \in Generation, ReceiveEvent(g), lifecycle[wire[g][1].tab] = "active"
        PROVE  streams'[t][i].events[a].number < streams'[t][j].events[b].number
    <2> DEFINE u == wire[g][1].tab
               n == wire[g][1].number
               last == Len(streams[u])
               events == streams[u][last].events
               longer == streams'[u][last].events
    <2>0. ASSUME NEW v \in Tab
          PROVE  /\ Len(streams[v]) \in Nat
                 /\ \A k \in 1 .. Len(streams[v]) :
                       /\ Len(streams[v][k].events) \in Nat
                       /\ \A c \in 1 .. Len(streams[v][k].events) :
                             streams[v][k].events[c].number \in Nat
      BY Elements
    <2>1. u \in Tab /\ n \in 1 .. MaxEvents /\ streams[u] # <<>> /\ AppendEvent(u, n, g)
      BY <1>4, EventTaken
    <2>2. \A k \in 1 .. Len(streams[u]) : \A c \in 1 .. Len(streams[u][k].events) :
             streams[u][k].events[c].number < n
      <3>1. bound = g /\ 1 \in 1 .. Len(wire[g]) /\ wire[g][1].kind = "event"
        BY <1>4, Received DEF ReceiveEvent
      <3>2. Below(u, n - 1)
        BY <3>1 DEF WireAhead, Ahead
      <3> HIDE DEF u, n
      <3>3. \A k \in 1 .. Len(streams[u]) : \A c \in 1 .. Len(streams[u][k].events) :
               streams[u][k].events[c].number \in Nat
        BY <2>0, <2>1
      <3>4. \A e \in Nat : e <= n - 1 => e < n
        BY <2>1
      <3> QED
        BY <3>2, <3>3, <3>4 DEF Below
    <2> HIDE DEF u, n
    <2>3. /\ last \in 1 .. Len(streams[u])
          /\ Len(streams'[t]) = Len(streams[t])
          /\ \A k \in 1 .. Len(streams[t]) : t # u \/ k # last => streams'[t][k] = streams[t][k]
          /\ Len(longer) = Len(events) + 1
          /\ longer[Len(events) + 1] = [number |-> n, generation |-> g, epoch |-> ownerEpoch]
          /\ \A c \in 1 .. Len(events) : longer[c] = events[c]
      BY <2>1, Appended
    <2>4. Len(events) \in Nat /\ longer[Len(events) + 1].number = n
      <3>1. Len(events) \in Nat
        BY <2>0, <2>1, <2>3
      <3>2. longer[Len(events) + 1].number = n
        <4> HIDE DEF events, longer
        <4> QED
          BY <2>3
      <3> QED
        BY <3>1, <3>2
    <2>5. CASE t # u \/ (i # last /\ j # last)
      BY <1>1, <2>3, <2>5
    <2>6. CASE t = u /\ i = last
      <3>1. j = last /\ a < b
        <4>1. last \in Nat /\ i = last /\ j \in 1 .. last
          BY <2>0, <2>1, <2>3, <2>6
        <4> HIDE DEF last
        <4> QED
          BY <4>1
      <3>2. a \in 1 .. Len(longer) /\ b \in 1 .. Len(longer)
        BY <2>6, <3>1
      <3>3. a \in 1 .. Len(events) /\ (b \in 1 .. Len(events) \/ b = Len(events) + 1)
        <4>1. Len(longer) = Len(events) + 1 /\ Len(events) \in Nat
          BY <2>3, <2>4
        <4> HIDE DEF events, longer
        <4>2. \A c \in 1 .. Len(longer) :
                 c \in Nat /\ (c \in 1 .. Len(events) \/ c = Len(events) + 1)
          BY <4>1
        <4>3. a # Len(events) + 1
          BY <3>1, <3>2, <4>1
        <4> QED
          BY <3>2, <4>2, <4>3
      <3>4. longer[a].number < longer[b].number
        <4>1. CASE b = Len(events) + 1
          BY <2>2, <2>3, <2>4, <3>3, <4>1
        <4>2. CASE b \in 1 .. Len(events)
          <5>1. events[a].number < events[b].number
            BY <1>1, <2>1, <2>3, <3>1, <3>3, <4>2
          <5> QED
            BY <2>3, <3>3, <4>2, <5>1
        <4> QED
          BY <3>3, <4>1, <4>2
      <3> QED
        BY <2>6, <3>1, <3>4
    <2>7. CASE t = u /\ i # last /\ j = last
      <3>1. i \in 1 .. Len(streams[u]) /\ streams'[t][i] = streams[u][i] /\ i < last
        BY <2>3, <2>7
      <3>2. a \in 1 .. Len(streams[u][i].events) /\ b \in 1 .. Len(longer)
        BY <2>7, <3>1
      <3>3. b \in 1 .. Len(events) \/ b = Len(events) + 1
        <4>1. Len(longer) = Len(events) + 1 /\ Len(events) \in Nat
          BY <2>3, <2>4
        <4> HIDE DEF events, longer
        <4> QED
          BY <3>2, <4>1
      <3>4. streams[u][i].events[a].number < longer[b].number
        <4>1. CASE b = Len(events) + 1
          BY <2>2, <2>4, <3>1, <3>2, <4>1
        <4>2. CASE b \in 1 .. Len(events)
          <5>1. streams[u][i].events[a].number < events[b].number
            BY <1>1, <2>1, <2>3, <3>1, <3>2, <4>2
          <5> QED
            BY <2>3, <4>2, <5>1
        <4> QED
          BY <3>3, <4>1, <4>2
      <3> QED
        BY <2>7, <3>1, <3>4
    <2> QED
      BY <2>5, <2>6, <2>7
  <1> QED
    BY <1>2, <1>3, <1>4, StreamSteps

-----------------------------------------------------------------------------
(* IInv is inductive.                                                      *)

(* It holds of the rows the workspace starts with.                         *)
LEMMA Initially == Init => IInv
  <1> SUFFICES ASSUME Init
               PROVE  IInv
    OBVIOUS
  <1> USE Sets
  <1> DEFINE first == <<NewStream(1)>>
  <1>1. NewStream(1) \in Stream /\ Len(NewStream(1).events) = 0 /\ NewStream(1).epoch = 1
    BY EmptySeq DEF NewStream, Stream
  <1>2. first \in Seq(Stream) /\ Len(first) = 1 /\ first[1] = NewStream(1) /\ first # <<>>
    BY <1>1
  <1> HIDE DEF first
  <1>3. /\ streams = [t \in Tab |-> IF t \in Managed THEN first ELSE <<>>]
        /\ lifecycle = [t \in Tab |-> IF t \in Managed THEN "active" ELSE "none"]
    BY DEF Init, first
  <1>4. /\ <<>> \in Seq(Stream) /\ <<>> \in Seq(Message)
        /\ Len(<<>>) = 0
    BY EmptySeq
  <1>5. streams \in [Tab -> Seq(Stream)] /\ wire \in [Generation -> Seq(Message)]
    BY <1>2, <1>3, <1>4 DEF Init
  <1>6. TypeOK
    <2>1. /\ lifecycle \in [Tab -> {"none", "active", "closed"}]
          /\ \A t \in Tab : streams[t] = <<>> <=> lifecycle[t] = "none"
      BY <1>2, <1>3
    <2>2. /\ raised \in [Tab -> 0 .. MaxEvents] /\ moves \in 0 .. MaxMoves
          /\ captured \subseteq SUBSET Tab /\ grouped \subseteq Tab /\ skipped \subseteq Tab
      BY DEF Init
    <2>3. /\ ownerEpoch \in Epoch /\ dbGeneration \in Generation /\ bound \in Generation \cup {0}
          /\ dbConnected \in BOOLEAN /\ greeting \in Generation \cup {0} /\ pending \in BOOLEAN
          /\ extGeneration \in Generation \cup {0}
      <3>1. 1 \in Epoch /\ 1 \in Generation
        BY Sets
      <3> QED
        BY <3>1 DEF Init
    <2> QED
      BY <1>5, <2>1, <2>2, <2>3 DEF TypeOK
  <1>7. ASSUME NEW t \in Tab, NEW i \in 1 .. Len(streams[t])
        PROVE  streams[t][i] = NewStream(1)
    <2>1. CASE t \in Managed
      <3>1. streams[t] = first
        BY <1>3, <2>1
      <3>2. i = 1
        <4>1. Len(streams[t]) = 1
          BY <1>2, <3>1
        <4> QED
          BY <4>1
      <3> QED
        BY <1>2, <3>1, <3>2
    <2>2. CASE t \notin Managed
      BY <1>3, <1>4, <2>2
    <2> QED
      BY <2>1, <2>2
  <1>8. Connections
    BY DEF Init, Connections
  <1>9. EpochsRise
    BY <1>1, <1>7 DEF Init, EpochsRise
  <1>10. StreamsCurrent
    <2>1. \A t \in Managed : ActiveStream(t) = NewStream(1)
      BY <1>2, <1>3 DEF ActiveStream
    <2> QED
      BY <1>1, <1>3, <2>1 DEF Init, StreamsCurrent
  <1>11. WireAhead
    <2>1. \A t \in Tab : \A n \in Int : Below(t, n)
      BY <1>1, <1>7 DEF Below
    <2>2. wire[bound] = <<>> /\ \A t \in Tab : raised[t] \in Int
      BY DEF Init, Generation
    <2> QED
      BY <1>4, <2>1, <2>2 DEF WireAhead, Ahead, Below
  <1>12. StreamsInOrder
    BY <1>1, <1>5, <1>7, Domains DEF StreamsInOrder
  <1> QED
    BY <1>6, <1>8, <1>9, <1>10, <1>11, <1>12 DEF IInv

(* Every step keeps it.                                                    *)
LEMMA Inductive == IInv /\ [Next]_vars => IInv'
  BY TypeStep, ConnectionsStep, EpochsStep, CurrentStep, WireStep, OrderStep DEF IInv

(* It holds of every behaviour.                                            *)
LEMMA Invariant == Spec => []IInv
  BY Initially, Inductive, PTL DEF Spec

-----------------------------------------------------------------------------
(* The theorems.                                                           *)

(* Every column keeps its type and a tab with a row has a stream.          *)
THEOREM TypeCorrect == Spec => []TypeOK
  <1>1. IInv => TypeOK
    BY DEF IInv
  <1> QED
    BY <1>1, Invariant, PTL

(* The events of a tab stay in the order Chrome raised them, over every    *)
(* outage, takeover and restart (appendEvent(), currentV2Connection()).    *)
THEOREM EventsInOrder == Spec => []StreamsInOrder
  <1>1. IInv => StreamsInOrder
    BY DEF IInv
  <1> QED
    BY <1>1, Invariant, PTL

(* An accepted read returns events of the present ownership only           *)
(* (readCdpEvents(), readEvents()).                                        *)
THEOREM ReadsInEpoch == Spec => []ReadsStayInEpoch
  <1>1. IInv => ReadsStayInEpoch
    <2> SUFFICES ASSUME IInv, NEW t \in Tab, NEW c \in Cursors(t), Accepted(t, c),
                        NEW i \in DOMAIN Page(t, c)
                 PROVE  Page(t, c)[i].epoch = ownerEpoch
      BY DEF ReadsStayInEpoch
    <2> DEFINE s == c[1]
               at == c[2]
               events == streams[t][s].events
               stop == IF at + PageSize < Len(events) THEN at + PageSize ELSE Len(events)
    <2>0. TypeOK /\ EpochsRise
      BY DEF IInv
    <2>1. /\ s \in 1 .. Len(streams[t]) /\ at \in 0 .. MaxEvents /\ at <= Len(events)
      BY DEF Cursors
    <2>2. Len(events) \in Nat /\ events \in Seq([number : 1 .. MaxEvents, generation : Generation,
                                                 epoch : Epoch])
      <3>1. streams[t] \in Seq(Stream)
        BY <2>0 DEF TypeOK
      <3>2. streams[t][s] \in Stream
        BY <2>1, <3>1, ElementOfSeq
      <3> QED
        BY <3>2, LenProperties DEF Stream
    <2>3. stop \in Nat /\ at <= stop /\ stop <= Len(events)
      <3>1. at \in Nat /\ PageSize \in Nat /\ at <= Len(events) /\ Len(events) \in Nat
        BY <2>1, <2>2, Sets
      <3> HIDE DEF at, events
      <3> QED
        BY <3>1
    <2>4. Page(t, c) = SubSeq(events, at + 1, stop)
      BY DEF Page
    <2> HIDE DEF s, at, events, stop
    <2>5. /\ DOMAIN Page(t, c) = 1 .. stop - at
          /\ \A k \in 1 .. stop - at : Page(t, c)[k] = events[at + k]
      BY <2>1, <2>2, <2>3, <2>4
    <2>6. i \in 1 .. stop - at /\ at + i \in 1 .. Len(events)
      BY <2>1, <2>2, <2>3, <2>5
    <2>7. ownerEpoch \in Int /\ \A k \in 1 .. Len(events) : events[k].epoch \in Int
      BY <2>0, <2>1, Elements, Integral DEF TypeOK, events
    <2>8. ownerEpoch <= events[at + i].epoch
      <3>1. CASE at = 0
        <4>1. streams[t][s].epoch = ownerEpoch
          BY <3>1 DEF Accepted, CursorEpoch, s, at
        <4>2. streams[t][s].epoch <= streams[t][s].events[at + i].epoch
          BY <2>0, <2>1, <2>6 DEF EpochsRise, events
        <4> QED
          BY <4>1, <4>2 DEF events
      <3>2. CASE at # 0
        <4>1. events[at].epoch = ownerEpoch
          BY <3>2 DEF Accepted, CursorEpoch, s, at, events
        <4>2. at \in 1 .. Len(events) /\ at < at + i
          BY <2>1, <2>2, <2>6, <3>2
        <4>3. events[at].epoch <= events[at + i].epoch
          BY <2>0, <2>1, <2>6, <4>2 DEF EpochsRise, events
        <4> QED
          BY <4>1, <4>3
      <3> QED
        BY <3>1, <3>2
    <2>9. events[at + i].epoch <= ownerEpoch
      BY <2>0, <2>1, <2>6 DEF EpochsRise, events
    <2> QED
      BY <2>5, <2>6, <2>7, <2>8, <2>9
  <1> QED
    BY <1>1, Invariant, PTL

(* The cursor in an active tab's fact is good for its owner, but for tabs  *)
(* that were out of the group (replaceStreamBaseline(), tabFact()).        *)
THEOREM FactsReadable == Spec => []FactsAreReadable
  <1>1. IInv => FactsAreReadable
    BY DEF IInv, FactsAreReadable, StreamsCurrent, Accepted, CursorEpoch, ActiveStream
  <1> QED
    BY <1>1, Invariant, PTL

(* After a connection's first inventory the active streams hold nothing    *)
(* from before it (onExtensionReady(), reconcileEventStream()).            *)
THEOREM Fresh == Spec => []FreshAfterOutage
  <1>1. IInv => FreshAfterOutage
    <2> SUFFICES ASSUME IInv, bound # 0, bound = dbGeneration, ~pending, NEW t \in Tab,
                        lifecycle[t] = "active", t \notin skipped
                 PROVE  \A i \in DOMAIN ActiveStream(t).events :
                           ActiveStream(t).events[i].generation = bound
      BY DEF FreshAfterOutage
    <2>1. TypeOK /\ StreamsCurrent
      BY DEF IInv
    <2>2. \A a \in 1 .. Len(ActiveStream(t).events) : ActiveStream(t).events[a].generation = bound
      BY <2>1 DEF StreamsCurrent
    <2>3. ActiveStream(t) \in Stream
      BY <2>1, LastStream, ElementOfSeq DEF TypeOK, ActiveStream
    <2>4. DOMAIN ActiveStream(t).events = 1 .. Len(ActiveStream(t).events)
      BY <2>3, LenProperties DEF Stream
    <2> QED
      BY <2>2, <2>4
  <1> QED
    BY <1>1, Invariant, PTL

=============================================================================

-------------------------- MODULE BrokerCoreProofs --------------------------
(***************************************************************************)
(* Proofs about BrokerCore, for any sets of agents, targets and commands   *)
(* and every bound.                                                        *)
(*                                                                         *)
(* Every step is looked at in two parts: what it makes of the commands     *)
(* itself, and what it then delivers of them (Turn and Deliver).  Beyond   *)
(* the properties the inductive invariant says what the columns of a       *)
(* command tell about each other (Submission), that a command which may    *)
(* not be repeated leaves the queue for good (QueuedIsUntouched), and that *)
(* the registry's entries are of their own target (Registered).            *)
(***************************************************************************)
EXTENDS BrokerCore, TLAPS

(* A submitted command has a target, a principal and a place in the order  *)
(* of created_at, and an extension has only submitted ones (dispatch()).   *)
Submission ==
    \A c \in Command :
        IF state[c] = "none" THEN held[c] = 0 /\ running[c] = 0 /\ ran[c] = 0
        ELSE place[c] \in Target /\ \E i \in 1 .. Len(submitted) : submitted[i] = c

(* A queued command that must not be repeated was never handed over        *)
(* (recover() queues those of the repeatable classes only).                *)
QueuedIsUntouched ==
    \A c \in Command \ Repeatable :
        state[c] = "QUEUED" => held[c] = 0 /\ running[c] = 0 /\ ran[c] = 0

(* currentByTarget and currentByEndpoint hold sockets of their own key,    *)
(* the second v2 sockets only.                                             *)
Registered ==
    \A t \in Target :
        /\ byTarget[t] # None => byTarget[t].target = t
        /\ byEndpoint[t] # None => byEndpoint[t].target = t /\ byEndpoint[t].proto = 2

IInv ==
    /\ TypeOK /\ Submission /\ QueuedIsUntouched /\ Registered
    /\ OneInFlight /\ NeverRepeated /\ LeaseFollowsBinding

-----------------------------------------------------------------------------
(* What the executions and copies of a command amount to.                  *)
Handed(c) == held[c] + running[c] + ran[c]

(* What a step makes of the commands before it delivers: it submits one,   *)
(* moves one in flight on, ends one, or queues one that may be repeated.   *)
Turn(now) ==
    \A c \in Command :
        \/ now[c] = state[c] /\ place'[c] = place[c]
        \/ state[c] = "none" /\ now[c] \in {"QUEUED", "REJECTED"} /\ place'[c] \in Target
        \/ /\ state[c] \in InFlight /\ place'[c] = place[c]
           /\ \/ now[c] \in {"RUNNING"} \cup Terminal
              \/ now[c] = "QUEUED" /\ c \in Repeatable

(* After the step no other principal holds the lease of a command's        *)
(* target, and its own does if it writes (evaluate()).                     *)
Covered(c) ==
    /\ leaseOwner'[place'[c]] \in {None, principal'[c]}
    /\ c \in Writes => leaseOwner'[place'[c]] = principal'[c]

(* What it delivers of them, to targets with nothing in flight.            *)
Deliver(now) ==
    \A c \in Command :
        \/ state'[c] = now[c] /\ Handed(c)' <= Handed(c) /\ held'[c] <= held[c]
        \/ /\ now[c] = "QUEUED" /\ state'[c] \in {"DELIVERED", "FAILED", "UNKNOWN_OUTCOME"}
           /\ Handed(c)' <= Handed(c) + 1
           /\ held'[c] > held[c] => Covered(c)
           /\ state'[c] = "DELIVERED" =>
                 \A d \in Command : place'[d] = place'[c] =>
                     /\ now[d] \notin InFlight
                     /\ state'[d] = "DELIVERED" => d = c

(* Two members of a sequence are in one order or the other.                *)
LEMMA Ordered ==
    ASSUME NEW list \in Seq(Command), NEW c \in Command, NEW d \in Command, c # d,
           \E i \in 1 .. Len(list) : list[i] = c,
           \E i \in 1 .. Len(list) : list[i] = d
    PROVE  \/ \E i, j \in DOMAIN list : i < j /\ list[i] = c /\ list[j] = d
           \/ \E i, j \in DOMAIN list : i < j /\ list[i] = d /\ list[j] = c
  <1>1. PICK i \in 1 .. Len(list) : list[i] = c
    OBVIOUS
  <1>2. PICK j \in 1 .. Len(list) : list[j] = d
    OBVIOUS
  <1>3. DOMAIN list = 1 .. Len(list) /\ Len(list) \in Nat
    OBVIOUS
  <1>4. i < j \/ j < i
    BY <1>1, <1>2, <1>3
  <1>5. i \in DOMAIN list /\ j \in DOMAIN list
    BY <1>3
  <1>6. CASE i < j
    BY <1>1, <1>2, <1>5, <1>6, Zenon
  <1>7. CASE j < i
    BY <1>1, <1>2, <1>5, <1>7, Zenon
  <1> QED
    BY <1>4, <1>6, <1>7

(* What DeliverAll() does to each command of the next state's columns.     *)
LEMMA Deliveries ==
    ASSUME TypeOK, NEW commands, NEW now \in [Command -> State], NEW isOpen \in SUBSET Socket,
           DeliverAll(commands, now, isOpen), alive' \subseteq Target
    PROVE  /\ state' \in [Command -> State] /\ epoch' \in [Command -> Nat]
           /\ held' \in [Command -> Nat]
           /\ \A c \in Command :
                 \/ state'[c] = now[c] /\ held'[c] = held[c]
                 \/ /\ now[c] = "QUEUED" /\ place'[c] \in Target
                    /\ \/ state'[c] \in {"FAILED", "UNKNOWN_OUTCOME"} /\ held'[c] = held[c]
                       \/ /\ state'[c] = "DELIVERED" /\ held'[c] = held[c] + 1
                          /\ Delivers(principal[c], place[c], c)'
                          /\ ~HasInFlight(place'[c], place', now)
                          /\ \A d \in Command : now[d] = "QUEUED" /\ state'[d] = "DELIVERED"
                                                /\ place'[d] = place'[c] => ~ Before(d, c)'
  <1> DEFINE due == {c \in commands :
                  /\ now[c] = "QUEUED" /\ c \notin overdue
                  /\ place'[c] \in alive' /\ Delivers(principal[c], place[c], c)'
                  /\ ~HasInFlight(place'[c], place', now)
                  /\ byTarget'[place'[c]] \in isOpen}
             sent == {c \in due : byTarget'[place'[c]].proto = 1
                             /\ ~ \E d \in due : Before(d, c)' /\ place'[d] = place'[c]}
             thrown == {c \in due : byTarget'[place'[c]].proto = 2}
  <1>1. /\ state' = [c \in Command |->
              CASE c \in sent -> "DELIVERED"
                [] c \in thrown -> IF c \in Repeatable THEN "FAILED" ELSE "UNKNOWN_OUTCOME"
                [] OTHER -> now[c]]
        /\ epoch' = [c \in Command |->
              IF c \in sent \cup thrown THEN byTarget'[place'[c]].epoch ELSE epoch[c]]
        /\ held' = [c \in Command |-> IF c \in sent THEN held[c] + 1 ELSE held[c]]
    BY DEF DeliverAll
  <1>2. \A c \in sent \cup thrown : c \in due
    OBVIOUS
  <1>3. \A c \in due : byTarget'[place'[c]] \in Socket /\ place'[c] \in Target
    OBVIOUS
  <1>4. \A s \in Socket : s.epoch \in Nat
    BY CoreAssumption DEF Socket
  <1>5. \A c \in sent : c \notin thrown
    OBVIOUS
  <1>6. epoch' \in [Command -> Nat]
    <2> HIDE DEF due, sent, thrown
    <2> QED
      BY <1>1, <1>2, <1>3, <1>4 DEF TypeOK
  <1>7. held' \in [Command -> Nat] /\ state' \in [Command -> State]
    <2> HIDE DEF due, sent, thrown
    <2> QED
      BY <1>1 DEF TypeOK, State, InFlight, Terminal
  <1>8. ASSUME NEW c \in Command, c \notin sent, c \notin thrown
        PROVE  state'[c] = now[c] /\ held'[c] = held[c]
    <2> HIDE DEF due, sent, thrown
    <2> QED
      BY <1>1, <1>8
  <1>9. ASSUME NEW c \in Command, c \in thrown
        PROVE  now[c] = "QUEUED" /\ place'[c] \in Target
               /\ state'[c] \in {"FAILED", "UNKNOWN_OUTCOME"} /\ held'[c] = held[c]
    <2>1. now[c] = "QUEUED" /\ c \notin sent /\ c \in due
      BY <1>9
    <2> HIDE DEF due, sent, thrown
    <2> QED
      BY <1>1, <1>3, <1>9, <2>1
  <1>10. ASSUME NEW c \in Command, c \in sent
         PROVE  /\ now[c] = "QUEUED" /\ place'[c] \in Target
                /\ state'[c] = "DELIVERED" /\ held'[c] = held[c] + 1
                /\ Delivers(principal[c], place[c], c)'
                /\ ~HasInFlight(place'[c], place', now)
                /\ \A d \in Command : now[d] = "QUEUED" /\ state'[d] = "DELIVERED"
                                      /\ place'[d] = place'[c] => ~ Before(d, c)'
    <2>1. /\ now[c] = "QUEUED" /\ Delivers(principal[c], place[c], c)' /\ c \in due
          /\ ~HasInFlight(place'[c], place', now)
          /\ \A d \in due : place'[d] = place'[c] => ~ Before(d, c)'
      BY <1>10
    <2>2. c \notin thrown
      BY <1>5, <1>10
    <2>3. \A d \in Command : now[d] = "QUEUED" /\ state'[d] = "DELIVERED" => d \in due
      <3>1. \A d \in Command : now[d] = "QUEUED" /\ d \notin sent => state'[d] # "DELIVERED"
        <4> HIDE DEF due, sent, thrown
        <4> QED
          BY <1>1
      <3> QED
        BY <3>1, <1>2
    <2> HIDE DEF due, sent, thrown
    <2> QED
      BY <1>1, <1>3, <1>10, <2>1, <2>2, <2>3
  <1> HIDE DEF due, sent, thrown
  <1> QED
    BY <1>6, <1>7, <1>8, <1>9, <1>10

-----------------------------------------------------------------------------
(* The types of the variables, by the tuples they are in.                  *)
AgentsOK ==
    /\ bound \in [Agent -> Target \cup {None}] /\ waiter \in [Agent -> Target \cup {None}]
    /\ leaseOwner \in [Target -> Agent \cup {None}] /\ token \in [Target -> Nat]
    /\ late \subseteq Target
HealthOK == alive \subseteq Target /\ failures \in [Target -> 0 .. ErrorThreshold]
PresenceOK == index \in [Target -> Nat] /\ stale \subseteq Target
SocketsOK ==
    /\ counter \in [Target -> Nat] /\ generation \in [Target -> Nat]
    /\ byTarget \in [Target -> Socket \cup {None}] /\ byEndpoint \in [Target -> Socket \cup {None}]
    /\ challenged \subseteq Socket /\ open \subseteq Socket
    /\ closing \subseteq Socket /\ quiet \subseteq Socket
ColumnsOK ==
    /\ submitted \in Seq(Command) /\ overdue \subseteq Command
    /\ principal \in [Command -> Agent \cup {None}] /\ place \in [Command -> Target \cup {None}]
JournalOK ==
    /\ state \in [Command -> State] /\ epoch \in [Command -> Nat] /\ held \in [Command -> Nat]
BrowserOK == running \in [Command -> Nat] /\ ran \in [Command -> Nat]
WireOK == wire \in [Target -> Seq(Reply)]

(* TypeOK is all of them, and a tuple that does not change keeps its own.  *)
LEMMA Types ==
    TypeOK <=> /\ AgentsOK /\ HealthOK /\ PresenceOK /\ SocketsOK /\ ColumnsOK /\ JournalOK
               /\ BrowserOK /\ WireOK /\ restarts \in Nat
  BY Zenon DEF TypeOK, AgentsOK, HealthOK, PresenceOK, SocketsOK, ColumnsOK, JournalOK,
         BrowserOK, WireOK

LEMMA TypesNext ==
    /\ AgentsOK' /\ HealthOK' /\ PresenceOK' /\ SocketsOK' /\ ColumnsOK' /\ JournalOK'
    /\ BrowserOK' /\ WireOK' /\ restarts' \in Nat
    => TypeOK'
  BY Zenon DEF TypeOK, AgentsOK, HealthOK, PresenceOK, SocketsOK, ColumnsOK, JournalOK,
         BrowserOK, WireOK

LEMMA Kept ==
    ASSUME TypeOK
    PROVE  /\ UNCHANGED agents => AgentsOK'
           /\ UNCHANGED health => HealthOK'
           /\ UNCHANGED presence => PresenceOK'
           /\ UNCHANGED sockets => SocketsOK'
           /\ UNCHANGED columns => ColumnsOK'
           /\ UNCHANGED journal => JournalOK'
           /\ UNCHANGED browser => BrowserOK'
           /\ UNCHANGED wire => WireOK'
           /\ UNCHANGED restarts => restarts' \in Nat
  <1>1. /\ AgentsOK /\ HealthOK /\ PresenceOK /\ SocketsOK /\ ColumnsOK /\ JournalOK
        /\ BrowserOK /\ WireOK /\ restarts \in Nat
    BY Types
  <1>2. UNCHANGED agents => AgentsOK'
    BY <1>1 DEF agents, AgentsOK
  <1>3. UNCHANGED health => HealthOK'
    BY <1>1 DEF health, HealthOK
  <1>4. UNCHANGED presence => PresenceOK'
    BY <1>1 DEF presence, PresenceOK
  <1>5. UNCHANGED sockets => SocketsOK'
    BY <1>1 DEF sockets, SocketsOK
  <1>6. UNCHANGED columns => ColumnsOK'
    BY <1>1 DEF columns, ColumnsOK, journal
  <1>7. UNCHANGED journal => JournalOK'
    BY <1>1 DEF journal, JournalOK
  <1>8. UNCHANGED browser => BrowserOK'
    BY <1>1 DEF browser, BrowserOK
  <1>9. UNCHANGED wire => WireOK'
    BY <1>1 DEF WireOK
  <1> QED
    BY <1>1, <1>2, <1>3, <1>4, <1>5, <1>6, <1>7, <1>8, <1>9

(* A step that ends in a delivery.                                         *)
LEMMA Delivering ==
    ASSUME TypeOK, NEW commands, NEW now \in [Command -> State], NEW isOpen \in SUBSET Socket,
           DeliverAll(commands, now, isOpen), alive' \subseteq Target,
           submitted' \in Seq(Command), UNCHANGED <<running, ran>>,
           \A c \in Command : now[c] = "QUEUED" => \E i \in 1 .. Len(submitted') : submitted'[i] = c
    PROVE  JournalOK' /\ Deliver(now)
  <1>1. /\ state' \in [Command -> State] /\ epoch' \in [Command -> Nat]
        /\ held' \in [Command -> Nat]
    BY Deliveries
  <1>2. \A c \in Command :
                 \/ state'[c] = now[c] /\ held'[c] = held[c]
                 \/ /\ now[c] = "QUEUED" /\ place'[c] \in Target
                    /\ \/ state'[c] \in {"FAILED", "UNKNOWN_OUTCOME"} /\ held'[c] = held[c]
                       \/ /\ state'[c] = "DELIVERED" /\ held'[c] = held[c] + 1
                          /\ Delivers(principal[c], place[c], c)'
                          /\ ~HasInFlight(place'[c], place', now)
                          /\ \A d \in Command : now[d] = "QUEUED" /\ state'[d] = "DELIVERED"
                                                /\ place'[d] = place'[c] => ~ Before(d, c)'
    BY Deliveries
  <1>3. \A c \in Command : held[c] \in Nat /\ running[c] \in Nat /\ ran[c] \in Nat
    BY DEF TypeOK
  <1>4. \A c \in Command : \/ state'[c] = now[c] /\ Handed(c)' <= Handed(c)
                           \/ now[c] = "QUEUED" /\ Handed(c)' <= Handed(c) + 1
                              /\ state'[c] \in {"DELIVERED", "FAILED", "UNKNOWN_OUTCOME"}
    <2>1. SUFFICES ASSUME NEW c \in Command
                   PROVE  \/ state'[c] = now[c] /\ Handed(c)' <= Handed(c)
                          \/ now[c] = "QUEUED" /\ Handed(c)' <= Handed(c) + 1
                             /\ state'[c] \in {"DELIVERED", "FAILED", "UNKNOWN_OUTCOME"}
      OBVIOUS
    <2>2. \/ state'[c] = now[c] /\ held'[c] = held[c]
          \/ now[c] = "QUEUED" /\ state'[c] \in {"DELIVERED", "FAILED", "UNKNOWN_OUTCOME"}
             /\ (held'[c] = held[c] \/ held'[c] = held[c] + 1)
      BY <1>2
    <2>3. held[c] \in Nat /\ running[c] \in Nat /\ ran[c] \in Nat
      BY <1>3
    <2>4. held'[c] = held[c] => Handed(c)' <= Handed(c) /\ Handed(c)' <= Handed(c) + 1
      BY <2>3 DEF Handed
    <2>5. held'[c] = held[c] + 1 => Handed(c)' <= Handed(c) + 1
      BY <2>3 DEF Handed
    <2> QED
      BY <2>2, <2>4, <2>5
  <1>5. ASSUME NEW c \in Command, now[c] = "QUEUED", state'[c] = "DELIVERED",
               NEW d \in Command, place'[d] = place'[c]
        PROVE  now[d] \notin InFlight /\ (state'[d] = "DELIVERED" => d = c)
    <2>1. ~HasInFlight(place'[c], place', now)
      BY <1>2, <1>5
    <2>2. now[d] \notin InFlight
      BY <2>1, <1>5 DEF HasInFlight
    <2>3. ASSUME state'[d] = "DELIVERED", d # c
          PROVE  FALSE
      <3>1. now[d] = "QUEUED"
        BY <1>4, <2>2, <2>3 DEF InFlight
      <3>2. ~Before(d, c)' /\ ~Before(c, d)'
        BY <1>2, <1>5, <2>3, <3>1
      <3>3. \/ \E i, j \in DOMAIN submitted' : i < j /\ submitted'[i] = c /\ submitted'[j] = d
            \/ \E i, j \in DOMAIN submitted' : i < j /\ submitted'[i] = d /\ submitted'[j] = c
        BY <1>5, <2>3, <3>1, Ordered
      <3> QED
        BY <3>2, <3>3 DEF Before
    <2> QED
      BY <2>2, <2>3
  <1>6. \A c \in Command : state'[c] = now[c] => held'[c] <= held[c]
    BY <1>2, <1>3
  <1>7. ASSUME NEW c \in Command, held'[c] > held[c]
        PROVE  Covered(c)
    <2>1. Delivers(principal[c], place[c], c)'
      BY <1>2, <1>3, <1>7
    <2> QED
      BY <2>1 DEF Delivers, Covered, Owns, Status
  <1>8. Deliver(now)
    <2>1. SUFFICES ASSUME NEW c \in Command, state'[c] # now[c] \/ ~(Handed(c)' <= Handed(c))
                   PROVE  /\ now[c] = "QUEUED"
                          /\ state'[c] \in {"DELIVERED", "FAILED", "UNKNOWN_OUTCOME"}
                          /\ Handed(c)' <= Handed(c) + 1
                          /\ held'[c] > held[c] => Covered(c)
                          /\ state'[c] = "DELIVERED" =>
                                \A d \in Command : place'[d] = place'[c] =>
                                    /\ now[d] \notin InFlight
                                    /\ state'[d] = "DELIVERED" => d = c
      BY <1>6 DEF Deliver
    <2>2. /\ now[c] = "QUEUED" /\ Handed(c)' <= Handed(c) + 1
          /\ state'[c] \in {"DELIVERED", "FAILED", "UNKNOWN_OUTCOME"}
      BY <1>4, <2>1
    <2>3. held'[c] > held[c] => Covered(c)
      BY <1>7
    <2>4. state'[c] = "DELIVERED" =>
             \A d \in Command : place'[d] = place'[c] =>
                 /\ now[d] \notin InFlight
                 /\ state'[d] = "DELIVERED" => d = c
      BY <1>5, <2>2
    <2> QED
      BY <2>2, <2>3, <2>4
  <1> QED
    BY <1>1, <1>8 DEF JournalOK

-----------------------------------------------------------------------------
(* Whatever the step makes of the commands was submitted.                  *)
Listed(now) ==
    \A c \in Command : now[c] # "none" =>
        \E i \in 1 .. Len(submitted') : submitted'[i] = c

(* A step is a turn and a delivery.                                        *)
Turned ==
    /\ JournalOK'
    /\ \E now \in [Command -> State] : Turn(now) /\ Deliver(now) /\ Listed(now)

(* A step that leaves the commands alone.                                  *)
LEMMA Resting ==
    ASSUME TypeOK, Submission, UNCHANGED <<submitted, place, state, epoch, held, running, ran>>
    PROVE  Turned
  <1>1. JournalOK' /\ state \in [Command -> State]
    BY DEF TypeOK, JournalOK
  <1>2. Turn(state)
    BY DEF Turn
  <1>3. \A c \in Command : Handed(c)' <= Handed(c)
    <2>1. \A c \in Command : Handed(c) \in Int /\ Handed(c)' = Handed(c)
      BY DEF Handed, TypeOK
    <2> QED
      BY <2>1
  <1>4. Deliver(state)
    BY <1>3 DEF Deliver, TypeOK
  <1>5. Listed(state)
    BY DEF Listed, Submission
  <1> QED
    BY <1>1, <1>2, <1>4, <1>5 DEF Turned

(* A step that flushes the queue of a target.                              *)
LEMMA Flushing ==
    ASSUME TypeOK, Submission, UNCHANGED columns, UNCHANGED browser, NEW t,
           NEW now \in [Command -> State], Flush(t, now), open' \subseteq Socket,
           alive' \subseteq Target,
           \A c \in Command : now[c] = state[c] \/ (state[c] \in InFlight /\ now[c] \in Terminal)
    PROVE  Turned
  <1>1. UNCHANGED <<submitted, place, running, ran>> /\ submitted' \in Seq(Command)
    BY DEF columns, browser, TypeOK
  <1>2. Turn(now)
    BY <1>1 DEF Turn, Terminal
  <1>3. Listed(now)
    BY <1>1 DEF Listed, Submission, InFlight
  <1>4. \A c \in Command : now[c] = "QUEUED" => \E i \in 1 .. Len(submitted') : submitted'[i] = c
    BY <1>3 DEF Listed
  <1>5. DeliverAll({c \in Command : place[c] = t}, now, open')
    BY DEF Flush
  <1>6. JournalOK' /\ Deliver(now)
    <2>1. open' \in SUBSET Socket
      OBVIOUS
    <2> QED
      BY <1>1, <1>4, <1>5, <2>1, Delivering
  <1> QED
    BY <1>2, <1>3, <1>6 DEF Turned

(* A step in which an extension, but no delivery, changes the commands.    *)
LEMMA Working ==
    ASSUME TypeOK, Submission, UNCHANGED <<submitted, place>>, JournalOK',
           \A c \in Command : Handed(c)' <= Handed(c) /\ held'[c] <= held[c], Turn(state'),
           \A c \in Command : state'[c] # "none" => state[c] # "none"
    PROVE  Turned
  <1>1. state' \in [Command -> State]
    BY DEF JournalOK
  <1>2. Deliver(state')
    BY DEF Deliver
  <1>3. Listed(state')
    BY DEF Listed, Submission
  <1> QED
    BY <1>1, <1>2, <1>3 DEF Turned

(* What every action does to the commands.                                 *)
LEMMA Commands ==
    ASSUME TypeOK, Submission, [Next]_vars
    PROVE  Turned
  <1>0. /\ state \in [Command -> State] /\ alive \subseteq Target /\ open \subseteq Socket
        /\ submitted \in Seq(Command) /\ state = [c \in Command |-> state[c]]
        /\ \A c \in Command : held[c] \in Nat /\ running[c] \in Nat /\ ran[c] \in Nat
    BY DEF TypeOK
  <1>1. ASSUME NEW a \in Agent, NEW t \in Target, BindAgent(a, t)
        PROVE  Turned
    BY <1>1, Resting DEF BindAgent, columns, journal, browser
  <1>2. ASSUME NEW a \in Agent, UnbindAgent(a)
        PROVE  Turned
    BY <1>0, <1>2, Flushing DEF UnbindAgent, health, sockets
  <1>3. ASSUME NEW a \in Agent, AcquireSession(a) \/ PollGrants(a) \/ WaitEnds(a)
        PROVE  Turned
    BY <1>3, Resting DEF AcquireSession, PollGrants, WaitEnds, columns, journal, browser
  <1>4. ASSUME NEW a \in Agent, ReleaseSession(a)
        PROVE  Turned
    BY <1>0, <1>4, Flushing DEF ReleaseSession, health, sockets
  <1>5. ASSUME NEW c \in Command, NEW a \in Agent, NEW waits \in BOOLEAN, NEW permitted \in BOOLEAN,
               Dispatch(c, a, waits, permitted)
        PROVE  Turned
    <2> DEFINE verdict == IF ~permitted \/ Rejects(a, bound[a], c, waits, QueueDepth(bound[a]))
                          THEN "REJECTED" ELSE "QUEUED"
               now == [state EXCEPT ![c] = verdict]
    <2>1. /\ state[c] = "none" /\ bound[a] \in Target /\ CreateCommand(c, a, bound[a])
          /\ UNCHANGED <<alive, running, ran>>
          /\ DeliverAll({c}, now, open)
      BY <1>5 DEF Dispatch, health, browser, TypeOK
    <2>2. verdict \in {"REJECTED", "QUEUED"}
      OBVIOUS
    <2> HIDE DEF verdict
    <2>3. now \in [Command -> State]
      BY <1>0, <2>2 DEF State, Terminal
    <2>4. now[c] = verdict /\ \A d \in Command \ {c} : now[d] = state[d]
      BY <1>0
    <2> HIDE DEF now
    <2>5. /\ submitted' = Append(submitted, c) /\ submitted' \in Seq(Command)
          /\ place'[c] = bound[a] /\ \A d \in Command \ {c} : place'[d] = place[d]
      BY <1>0, <2>1 DEF CreateCommand, TypeOK
    <2>6. Turn(now)
      BY <2>1, <2>2, <2>4, <2>5 DEF Turn
    <2>7. Listed(now)
      <3>1. /\ Len(submitted') = Len(submitted) + 1 /\ Len(submitted) \in Nat
            /\ submitted'[Len(submitted) + 1] = c
            /\ \A i \in 1 .. Len(submitted) : submitted'[i] = submitted[i]
        BY <1>0, <2>5
      <3>2. \A d \in Command \ {c} : now[d] # "none" =>
               \E i \in 1 .. Len(submitted) : submitted[i] = d
        BY <2>4 DEF Submission
      <3>3. 1 .. Len(submitted) \subseteq 1 .. Len(submitted')
            /\ Len(submitted) + 1 \in 1 .. Len(submitted')
        BY <3>1
      <3> QED
        BY <3>1, <3>2, <3>3 DEF Listed
    <2>8. \A d \in Command : now[d] = "QUEUED" => \E i \in 1 .. Len(submitted') : submitted'[i] = d
      BY <2>7 DEF Listed
    <2>9. JournalOK' /\ Deliver(now)
      <3>1. alive' \subseteq Target /\ open \in SUBSET Socket /\ UNCHANGED <<running, ran>>
        BY <1>0, <2>1
      <3> QED
        BY <2>1, <2>3, <2>5, <2>8, <3>1, Delivering
    <2> QED
      BY <2>3, <2>6, <2>7, <2>9 DEF Turned
  <1>6. ASSUME NEW c \in Command, DeadlinePasses(c)
        PROVE  Turned
    BY <1>6, Resting DEF DeadlinePasses, journal, browser
  <1>7. ASSUME NEW c \in Command, ExtensionBegins(c)
        PROVE  Turned
    <2>1. /\ held[c] > 0 /\ UNCHANGED <<submitted, place, state, epoch, ran>>
          /\ held' = [held EXCEPT ![c] = @ - 1] /\ running' = [running EXCEPT ![c] = @ + 1]
      BY <1>7 DEF ExtensionBegins, columns
    <2>2. JournalOK'
      BY <2>1 DEF TypeOK, JournalOK
    <2>3. \A d \in Command : Handed(d)' <= Handed(d) /\ held'[d] <= held[d]
      BY <1>0, <2>1 DEF Handed, TypeOK
    <2>4. Turn(state')
      BY <2>1 DEF Turn
    <2>5. \A d \in Command : state'[d] # "none" => state[d] # "none"
      BY <2>1
    <2> QED
      BY <2>1, <2>2, <2>3, <2>4, <2>5, Working
  <1>8. ASSUME NEW c \in Command, NEW kind, ExtensionEnds(c, kind)
        PROVE  Turned
    <2>1. /\ running[c] > 0 /\ UNCHANGED <<submitted, place, state, epoch, held>>
          /\ running' = [running EXCEPT ![c] = @ - 1] /\ ran' = [ran EXCEPT ![c] = @ + 1]
      BY <1>8 DEF ExtensionEnds, columns, journal
    <2>2. JournalOK'
      BY <2>1 DEF TypeOK, JournalOK
    <2>3. \A d \in Command : Handed(d)' <= Handed(d) /\ held'[d] <= held[d]
      BY <1>0, <2>1 DEF Handed, TypeOK
    <2>4. Turn(state')
      BY <2>1 DEF Turn
    <2>5. \A d \in Command : state'[d] # "none" => state[d] # "none"
      BY <2>1
    <2> QED
      BY <2>1, <2>2, <2>3, <2>4, <2>5, Working
  <1>9. ASSUME NEW t \in Target, ExtensionForgets(t)
        PROVE  Turned
    <2>1. /\ UNCHANGED <<submitted, place, state, epoch, ran>>
          /\ held' = [c \in Command |-> IF place[c] = t THEN 0 ELSE held[c]]
          /\ running' = [c \in Command |-> IF place[c] = t THEN 0 ELSE running[c]]
      BY <1>9 DEF ExtensionForgets, columns
    <2>2. JournalOK'
      BY <1>0, <2>1 DEF TypeOK, JournalOK
    <2>3. \A d \in Command : Handed(d)' <= Handed(d) /\ held'[d] <= held[d]
      BY <1>0, <2>1 DEF Handed
    <2>4. Turn(state')
      BY <2>1 DEF Turn
    <2>5. \A d \in Command : state'[d] # "none" => state[d] # "none"
      BY <2>1
    <2> QED
      BY <2>1, <2>2, <2>3, <2>4, <2>5, Working
  <1>10. ASSUME NEW t \in Target, ReceiveAck(t)
         PROVE  Turned
    <2>1. UNCHANGED <<submitted, place, epoch, held, running, ran>>
      BY <1>10 DEF ReceiveAck, columns, browser
    <2>2. /\ state' \in [Command -> State]
          /\ \A d \in Command : \/ state'[d] = state[d]
                                \/ state[d] = "DELIVERED" /\ state'[d] = "RUNNING"
      BY <1>0, <1>10 DEF ReceiveAck, State, InFlight
    <2>3. JournalOK'
      BY <2>1, <2>2 DEF TypeOK, JournalOK
    <2>4. \A d \in Command : Handed(d)' <= Handed(d) /\ held'[d] <= held[d]
      BY <1>0, <2>1 DEF Handed
    <2>5. Turn(state')
      BY <2>1, <2>2 DEF Turn, InFlight
    <2>6. \A d \in Command : state'[d] # "none" => state[d] # "none"
      BY <2>2 DEF InFlight
    <2> QED
      BY <2>1, <2>3, <2>4, <2>5, <2>6, Working
  <1>11. ASSUME NEW t \in Target, ReceiveResult(t)
         PROVE  Turned
    <2> DEFINE c == Head(wire[t]).command
               kind == Head(wire[t]).kind
               counts == epoch[c] = byTarget[t].epoch /\ Allowed(state[c], kind)
               now == [state EXCEPT ![c] = Answered(kind)]
    <2>1. UNCHANGED columns /\ UNCHANGED browser /\ alive' = alive /\ open' = open
          /\ IF counts THEN Flush(t, now) ELSE UNCHANGED journal
      BY <1>11 DEF ReceiveResult, sockets
    <2>2. CASE ~counts
      BY <2>1, <2>2, Resting DEF columns, journal, browser
    <2>3. CASE counts
      <3>1. state[c] \in InFlight
        BY <2>3 DEF Allowed, InFlight
      <3>2. Answered(kind) \in Terminal
        BY DEF Answered, Terminal
      <3>3. Flush(t, now)
        BY <2>1, <2>3
      <3> HIDE DEF c, kind
      <3>4. now \in [Command -> State]
        BY <1>0, <3>2 DEF State
      <3>5. \A d \in Command : now[d] = state[d] \/ (state[d] \in InFlight /\ now[d] \in Terminal)
        BY <1>0, <3>1, <3>2
      <3> HIDE DEF now
      <3> QED
        BY <1>0, <2>1, <3>3, <3>4, <3>5, Flushing
    <2> QED
      BY <2>2, <2>3
  <1>12. ASSUME NEW s \in challenged, V1Auth(s)
         PROVE  Turned
    <2>1. s \in Socket /\ open' \subseteq Socket
      BY <1>0, <1>12 DEF V1Auth, V1Bind, TypeOK
    <2> QED
      BY <1>0, <1>12, <2>1, Flushing DEF V1Auth, V1Bind, health
  <1>13. ASSUME NEW t \in Target, Pair(t)
         PROVE  Turned
    <2>1. [target |-> t, proto |-> 1, epoch |-> counter[t] + 1] \in Socket
      BY <1>13, CoreAssumption DEF Pair, TypeOK, Socket
    <2>2. open' \subseteq Socket /\ alive' \subseteq Target
      BY <1>0, <1>13, <2>1 DEF Pair, V1Bind
    <2> QED
      BY <1>0, <1>13, <2>2, Flushing DEF Pair, V1Bind
  <1>14. ASSUME NEW t \in Target, LeaseExpires(t) \/ V1Hello(t) \/ V2Connects(t) \/ IndexLapses(t)
                                  \/ Heartbeat(t) \/ RevokeTarget(t)
         PROVE  Turned
    BY <1>14, Resting DEF LeaseExpires, V1Hello, V2Connects, IndexLapses, Heartbeat, RevokeTarget,
       columns, journal, browser
  <1>15. ASSUME NEW s, SocketCloses(s) \/ Lapse(s)
         PROVE  Turned
    BY <1>15, Resting DEF SocketCloses, Lapse, columns, journal, browser
  <1>16. CASE Sweep
    <2>1. DeliverAll(Command, state, open) /\ UNCHANGED <<submitted, place, running, ran, alive>>
      BY <1>16 DEF Sweep, columns, browser, health
    <2>2. Turn(state)
      BY <2>1 DEF Turn
    <2>3. Listed(state)
      BY <2>1 DEF Listed, Submission
    <2>4. \A d \in Command : state[d] = "QUEUED" => \E i \in 1 .. Len(submitted') : submitted'[i] = d
      BY <2>3 DEF Listed
    <2>5. JournalOK' /\ Deliver(state)
      BY <1>0, <2>1, <2>4, Delivering
    <2> QED
      BY <1>0, <2>2, <2>3, <2>5 DEF Turned
  <1>17. CASE Recovered
    <2>1. /\ UNCHANGED <<submitted, place, epoch, held, running, ran>>
          /\ state' = [c \in Command |-> IF state[c] \in InFlight /\ c \notin overdue
                                         THEN RetriedOrUnknown(c) ELSE state[c]]
      BY <1>17 DEF Recovered, columns, browser
    <2>2. \A d \in Command : /\ state'[d] \in State
                             /\ \/ state'[d] = state[d]
                                \/ state[d] \in InFlight /\ state'[d] = "UNKNOWN_OUTCOME"
                                \/ state[d] \in InFlight /\ state'[d] = "QUEUED" /\ d \in Repeatable
      BY <1>0, <2>1 DEF RetriedOrUnknown, State, Terminal
    <2>3. JournalOK'
      BY <2>1, <2>2 DEF TypeOK, JournalOK
    <2>4. \A d \in Command : Handed(d)' <= Handed(d) /\ held'[d] <= held[d]
      BY <1>0, <2>1 DEF Handed
    <2>5. Turn(state')
      BY <2>1, <2>2 DEF Turn, Terminal
    <2>6. \A d \in Command : state'[d] # "none" => state[d] # "none"
      BY <2>2 DEF InFlight
    <2> QED
      BY <2>1, <2>3, <2>4, <2>5, <2>6, Working
  <1>18. CASE UNCHANGED vars
    BY <1>18, Resting DEF vars, columns, journal, browser
  <1> QED
    BY <1>1, <1>2, <1>3, <1>4, <1>5, <1>6, <1>7, <1>8, <1>9, <1>10, <1>11, <1>12, <1>13, <1>14,
       <1>15, <1>16, <1>17, <1>18 DEF Next, Restart, SweepThrows, CloseThrows

-----------------------------------------------------------------------------
(* The types of sockets, bounds and replies.                               *)
LEMMA SocketTypes ==
    /\ \A t \in Target, p \in {1, 2}, n \in 1 .. MaxEpoch + MaxGeneration :
          [target |-> t, proto |-> p, epoch |-> n] \in Socket
    /\ \A s \in Socket : s.target \in Target /\ s.proto \in {1, 2} /\ s.epoch \in Nat
    /\ MaxEpoch \in Nat /\ MaxGeneration \in Nat /\ ErrorThreshold \in Nat \ {0}
  BY CoreAssumption DEF Socket

(* A socket becomes the registered one of its target.                      *)
LEMMA Binds ==
    ASSUME TypeOK, NEW s \in Socket, V1Bind(s)
    PROVE  /\ byTarget' \in [Target -> Socket \cup {None}] /\ open' \subseteq Socket
           /\ closing' \subseteq Socket /\ quiet' \subseteq Socket /\ PresenceOK' /\ WireOK'
           /\ AgentsOK' /\ BrowserOK' /\ ColumnsOK' /\ restarts' \in Nat
           /\ UNCHANGED <<generation, byEndpoint>>
  <1>1. AgentsOK' /\ BrowserOK' /\ ColumnsOK' /\ restarts' \in Nat /\ UNCHANGED <<generation, byEndpoint>>
    BY Kept DEF V1Bind
  <1>2. byTarget' \in [Target -> Socket \cup {None}] /\ open' \subseteq Socket
        /\ closing' \subseteq Socket /\ quiet' \subseteq Socket
    BY SocketTypes DEF V1Bind, TypeOK
  <1>3. PresenceOK'
    BY SocketTypes DEF V1Bind, TypeOK, PresenceOK
  <1>4. WireOK'
    BY SocketTypes DEF V1Bind, TypeOK, WireOK
  <1> QED
    BY <1>1, <1>2, <1>3, <1>4

(* Every variable keeps its type.                                          *)
LEMMA TypeStep ==
    ASSUME TypeOK, Submission, [Next]_vars
    PROVE  TypeOK'
  <1>0. JournalOK'
    BY Commands DEF Turned
  <1>1. ASSUME NEW a \in Agent, NEW t \in Target, BindAgent(a, t)
        PROVE  TypeOK'
    <2>1. AgentsOK'
      BY <1>1 DEF BindAgent, TypeOK, AgentsOK
    <2> QED
      BY <1>0, Kept, TypesNext, <1>1, <2>1 DEF BindAgent
  <1>2. ASSUME NEW a \in Agent, UnbindAgent(a)
        PROVE  TypeOK'
    <2>1. AgentsOK'
      BY <1>2 DEF UnbindAgent, Released, TypeOK, AgentsOK
    <2> QED
      BY <1>0, Kept, TypesNext, <1>2, <2>1 DEF UnbindAgent
  <1>3. ASSUME NEW a \in Agent, AcquireSession(a) \/ PollGrants(a) \/ WaitEnds(a)
        PROVE  TypeOK'
    <2>1. AgentsOK'
      <3>1. ASSUME NEW t \in Target, Lease(a, t)
            PROVE  leaseOwner' \in [Target -> Agent \cup {None}] /\ token' \in [Target -> Nat]
        BY <3>1 DEF Lease, TypeOK
      <3>2. CASE AcquireSession(a)
        BY <3>1, <3>2 DEF AcquireSession, TypeOK, AgentsOK
      <3>3. CASE PollGrants(a)
        BY <3>1, <3>3 DEF PollGrants, TypeOK, AgentsOK
      <3>4. CASE WaitEnds(a)
        BY <3>4 DEF WaitEnds, TypeOK, AgentsOK
      <3> QED
        BY <1>3, <3>2, <3>3, <3>4
    <2> QED
      BY <1>0, Kept, TypesNext, <1>3, <2>1 DEF AcquireSession, PollGrants, WaitEnds
  <1>4. ASSUME NEW a \in Agent, ReleaseSession(a)
        PROVE  TypeOK'
    <2>1. AgentsOK'
      BY <1>4 DEF ReleaseSession, Released, TypeOK, AgentsOK
    <2> QED
      BY <1>0, Kept, TypesNext, <1>4, <2>1 DEF ReleaseSession
  <1>5. ASSUME NEW c \in Command, NEW a \in Agent, NEW waits \in BOOLEAN, NEW permitted \in BOOLEAN,
               Dispatch(c, a, waits, permitted)
        PROVE  TypeOK'
    <2>1. bound[a] \in Target /\ CreateCommand(c, a, bound[a]) /\ overdue' = overdue
      BY <1>5 DEF Dispatch, TypeOK
    <2>2. ColumnsOK'
      BY <2>1 DEF CreateCommand, TypeOK, ColumnsOK
    <2> QED
      BY <1>0, Kept, TypesNext, <1>5, <2>2 DEF Dispatch
  <1>6. ASSUME NEW c \in Command, DeadlinePasses(c)
        PROVE  TypeOK'
    <2>1. ColumnsOK'
      BY <1>6 DEF DeadlinePasses, TypeOK, ColumnsOK
    <2> QED
      BY <1>0, Kept, TypesNext, <1>6, <2>1 DEF DeadlinePasses
  <1>7. ASSUME NEW c \in Command, NEW kind \in {"ok", "failed"},
               ExtensionBegins(c) \/ ExtensionEnds(c, kind)
        PROVE  TypeOK'
    <2>1. BrowserOK'
      <3>1. CASE ExtensionBegins(c)
        BY <3>1 DEF ExtensionBegins, TypeOK, BrowserOK
      <3>2. CASE ExtensionEnds(c, kind)
        BY <3>2 DEF ExtensionEnds, TypeOK, BrowserOK
      <3> QED
        BY <1>7, <3>1, <3>2
    <2>2. ASSUME NEW m \in Reply, Send(place[c], m)
          PROVE  WireOK'
      <3>1. wire \in [Target -> Seq(Reply)]
            /\ (wire' = wire \/ wire' = [wire EXCEPT ![place[c]] = Append(@, m)])
        BY <2>2 DEF Send, TypeOK
      <3>2. \A t \in Target : Append(wire[t], m) \in Seq(Reply)
        BY <2>2, <3>1
      <3> QED
        BY <3>1, <3>2 DEF WireOK
    <2>3. [command |-> c, kind |-> "ACK"] \in Reply /\ [command |-> c, kind |-> kind] \in Reply
      BY DEF Reply
    <2>4. WireOK'
      BY <1>7, <2>2, <2>3 DEF ExtensionBegins, ExtensionEnds
    <2> QED
      BY <1>0, Kept, TypesNext, <1>7, <2>1, <2>4 DEF ExtensionBegins, ExtensionEnds
  <1>8. ASSUME NEW t \in Target, ExtensionForgets(t)
        PROVE  TypeOK'
    <2>1. BrowserOK'
      BY <1>8 DEF ExtensionForgets, TypeOK, BrowserOK
    <2> QED
      BY <1>0, Kept, TypesNext, <1>8, <2>1 DEF ExtensionForgets
  <1>9. ASSUME NEW t \in Target, ReceiveAck(t) \/ ReceiveResult(t)
        PROVE  TypeOK'
    <2>1. WireOK'
      <3>1. wire' = [wire EXCEPT ![t] = Tail(@)] /\ wire[t] # <<>> /\ wire \in [Target -> Seq(Reply)]
        BY <1>9 DEF ReceiveAck, ReceiveResult, Read, TypeOK
      <3>2. wire[t] \in Seq(Reply)
        BY <3>1
      <3>3. Tail(wire[t]) \in Seq(Reply)
        BY <3>1, <3>2
      <3> QED
        BY <3>1, <3>3 DEF WireOK
    <2>2. HealthOK'
      <3>1. CASE UNCHANGED health
        BY <3>1, Kept
      <3>2. ASSUME NEW kind, Observe(t, kind), alive' = alive
            PROVE  HealthOK'
        BY <3>2, SocketTypes DEF Observe, TypeOK, HealthOK
      <3> QED
        BY <1>9, <3>1, <3>2 DEF ReceiveAck, ReceiveResult, health
    <2> QED
      BY <1>0, Kept, TypesNext, <1>9, <2>1, <2>2 DEF ReceiveAck, ReceiveResult
  <1>10. ASSUME NEW s \in challenged, V1Auth(s)
         PROVE  TypeOK'
    <2>1. s \in Socket /\ V1Bind(s) /\ UNCHANGED health /\ UNCHANGED counter
          /\ challenged' = challenged \ {s}
      BY <1>10 DEF V1Auth, TypeOK
    <2>2. SocketsOK'
      BY <2>1, Binds DEF TypeOK, SocketsOK
    <2> QED
      BY <1>0, Kept, TypesNext, <2>1, <2>2, Binds
  <1>11. ASSUME NEW t \in Target, Pair(t)
         PROVE  TypeOK'
    <2> DEFINE s == [target |-> t, proto |-> 1, epoch |-> counter[t] + 1]
    <2>1. s \in Socket
      <3>1. counter[t] \in Nat /\ counter[t] < MaxEpoch
        BY <1>11 DEF Pair, TypeOK
      <3>2. counter[t] + 1 \in 1 .. MaxEpoch + MaxGeneration
        BY <3>1, SocketTypes
      <3> QED
        BY <3>2, SocketTypes
    <2>2. V1Bind(s) /\ counter' \in [Target -> Nat] /\ UNCHANGED challenged
      BY <1>11 DEF Pair, TypeOK
    <2> HIDE DEF s
    <2>3. SocketsOK'
      BY <2>1, <2>2, Binds DEF TypeOK, SocketsOK
    <2>4. HealthOK'
      BY <1>11, SocketTypes DEF Pair, TypeOK, HealthOK
    <2> QED
      BY <1>0, Kept, TypesNext, <2>1, <2>2, <2>3, <2>4, Binds
  <1>12. ASSUME NEW t \in Target, V2Connects(t)
         PROVE  TypeOK'
    <2>1. [target |-> t, proto |-> 2, epoch |-> generation[t] + 1] \in Socket
      <3>1. generation[t] \in Nat /\ generation[t] < MaxGeneration
        BY <1>12 DEF V2Connects, TypeOK
      <3>2. generation[t] + 1 \in 1 .. MaxEpoch + MaxGeneration
        BY <3>1, SocketTypes
      <3> QED
        BY <3>2, SocketTypes
    <2>2. SocketsOK'
      BY <1>12, <2>1 DEF V2Connects, TypeOK, SocketsOK
    <2>3. WireOK'
      BY <1>12 DEF V2Connects, TypeOK, WireOK
    <2> QED
      BY <1>0, Kept, TypesNext, <1>12, <2>2, <2>3 DEF V2Connects
  <1>13. ASSUME NEW t \in Target, V1Hello(t)
         PROVE  TypeOK'
    <2>1. [target |-> t, proto |-> 1, epoch |-> counter[t] + 1] \in Socket
      <3>1. counter[t] \in Nat /\ counter[t] < MaxEpoch
        BY <1>13 DEF V1Hello, TypeOK
      <3>2. counter[t] + 1 \in 1 .. MaxEpoch + MaxGeneration
        BY <3>1, SocketTypes
      <3> QED
        BY <3>2, SocketTypes
    <2>2. SocketsOK'
      BY <1>13, <2>1 DEF V1Hello, TypeOK, SocketsOK
    <2> QED
      BY <1>0, Kept, TypesNext, <1>13, <2>2 DEF V1Hello
  <1>14. ASSUME NEW t \in Target, LeaseExpires(t)
         PROVE  TypeOK'
    <2>1. AgentsOK'
      BY <1>14 DEF LeaseExpires, Released, TypeOK, AgentsOK
    <2> QED
      BY <1>0, Kept, TypesNext, <1>14, <2>1 DEF LeaseExpires
  <1>15. ASSUME NEW t \in Target, IndexLapses(t) \/ Heartbeat(t)
         PROVE  TypeOK'
    <2>1. PresenceOK' /\ SocketsOK'
      BY <1>15 DEF IndexLapses, Heartbeat, sockets, TypeOK, PresenceOK, SocketsOK
    <2> QED
      BY <1>0, Kept, TypesNext, <1>15, <2>1 DEF IndexLapses, Heartbeat
  <1>16. ASSUME NEW t \in Target, RevokeTarget(t)
         PROVE  TypeOK'
    <2>1. AgentsOK'
      BY <1>16 DEF RevokeTarget, RevokeRow, Released, TypeOK, AgentsOK
    <2>2. HealthOK'
      BY <1>16 DEF RevokeTarget, RevokeRow, TypeOK, HealthOK
    <2>3. SocketsOK'
      BY <1>16 DEF RevokeTarget, ShutDown, TypeOK, SocketsOK
    <2> QED
      BY <1>0, Kept, TypesNext, <1>16, <2>1, <2>2, <2>3 DEF RevokeTarget
  <1>17. ASSUME NEW s \in challenged \cup open \cup closing, SocketCloses(s)
         PROVE  TypeOK'
    <2>1. /\ challenged' = challenged \ {s} /\ open' = open \ {s} /\ closing' = closing \ {s}
          /\ quiet' = quiet \ {s} /\ UNCHANGED <<counter, generation>>
          /\ byTarget' = [byTarget EXCEPT ![s.target] = IF @ \in Unregister(s) THEN None ELSE @]
          /\ byEndpoint' = [byEndpoint EXCEPT ![s.target] = IF @ \in Unregister(s) THEN None ELSE @]
      BY <1>17 DEF SocketCloses
    <2>2. SocketsOK'
      BY <2>1 DEF TypeOK, SocketsOK
    <2>3. PresenceOK'
      BY <1>17 DEF SocketCloses, TypeOK, PresenceOK
    <2>4. WireOK'
      BY <1>17 DEF SocketCloses, TypeOK, WireOK
    <2> QED
      BY <1>0, Kept, TypesNext, <1>17, <2>2, <2>3, <2>4 DEF SocketCloses
  <1>18. ASSUME NEW s \in open, Lapse(s)
         PROVE  TypeOK'
    <2>1. s \in Socket
      BY DEF TypeOK
    <2>2. SocketsOK' /\ PresenceOK'
      BY <1>18, <2>1, SocketTypes DEF Lapse, TypeOK, SocketsOK, PresenceOK
    <2> QED
      BY <1>0, Kept, TypesNext, <1>18, <2>2 DEF Lapse
  <1>19. CASE Sweep
    <2>1. SocketsOK' /\ PresenceOK'
      BY <1>19 DEF Sweep, TypeOK, SocketsOK, PresenceOK
    <2> QED
      BY <1>0, Kept, TypesNext, <1>19, <2>1 DEF Sweep
  <1>20. CASE Recovered
    <2>1. SocketsOK' /\ PresenceOK' /\ WireOK'
      BY <1>20 DEF Recovered, TypeOK, SocketsOK, PresenceOK, WireOK
    <2>2. AgentsOK' /\ ColumnsOK' /\ restarts' \in Nat
      BY <1>20 DEF Recovered, TypeOK, AgentsOK, ColumnsOK, columns
    <2> QED
      BY <1>0, Kept, TypesNext, <1>20, <2>1, <2>2 DEF Recovered
  <1>21. CASE UNCHANGED vars
    BY <1>0, <1>21, Kept, TypesNext DEF vars
  <1> QED
    BY <1>1, <1>2, <1>3, <1>4, <1>5, <1>6, <1>7, <1>8, <1>9, <1>10, <1>11, <1>12, <1>13, <1>14,
       <1>15, <1>16, <1>17, <1>18, <1>19, <1>20, <1>21 DEF Next, Restart, SweepThrows, CloseThrows

-----------------------------------------------------------------------------
(* A sum of natural numbers is one, and 0 when they all are.               *)
LEMMA Sums ==
    ASSUME NEW m \in Nat, NEW n \in Nat, NEW o \in Nat
    PROVE  m + n + o \in Nat /\ (m + n + o = 0 <=> m = 0 /\ n = 0 /\ o = 0)
  OBVIOUS

(* The counts of a command's copies and executions are natural numbers.    *)
LEMMA Counts ==
    ASSUME TypeOK, NEW c \in Command
    PROVE  /\ held[c] \in Nat /\ running[c] \in Nat /\ ran[c] \in Nat /\ Handed(c) \in Nat
           /\ Handed(c) = 0 <=> held[c] = 0 /\ running[c] = 0 /\ ran[c] = 0
  <1>1. held[c] \in Nat /\ running[c] \in Nat /\ ran[c] \in Nat
    BY DEF TypeOK
  <1> QED
    BY <1>1, Sums DEF Handed

LEMMA CountsNext ==
    ASSUME TypeOK', NEW c \in Command
    PROVE  /\ held'[c] \in Nat /\ running'[c] \in Nat /\ ran'[c] \in Nat /\ Handed(c)' \in Nat
           /\ Handed(c)' = 0 <=> held'[c] = 0 /\ running'[c] = 0 /\ ran'[c] = 0
           /\ Handed(c)' = held'[c] + running'[c] + ran'[c]
  <1>1. held'[c] \in Nat /\ running'[c] \in Nat /\ ran'[c] \in Nat
    BY DEF TypeOK
  <1> QED
    BY <1>1, Sums DEF Handed

(* The columns of the commands go on fitting each other, at most one of a  *)
(* target is in flight, and none is handed over again that must not be.    *)
LEMMA CommandsStep ==
    ASSUME TypeOK, Submission, QueuedIsUntouched, OneInFlight, NeverRepeated, [Next]_vars
    PROVE  Submission' /\ QueuedIsUntouched' /\ OneInFlight' /\ NeverRepeated'
  <1>0. TypeOK'
    BY TypeStep
  <1>1. PICK now \in [Command -> State] : Turn(now) /\ Deliver(now) /\ Listed(now)
    BY Commands DEF Turned
  <1>2. \A c \in Command : \/ state'[c] = now[c] /\ Handed(c)' <= Handed(c)
                           \/ /\ now[c] = "QUEUED" /\ Handed(c)' <= Handed(c) + 1
                              /\ state'[c] \in {"DELIVERED", "FAILED", "UNKNOWN_OUTCOME"}
    BY <1>1 DEF Deliver
  <1>3. ASSUME NEW c \in Command, state'[c] = "none"
        PROVE  held'[c] = 0 /\ running'[c] = 0 /\ ran'[c] = 0
    <2>1. now[c] = "none" /\ Handed(c)' <= Handed(c)
      BY <1>2, <1>3
    <2>2. state[c] = "none"
      BY <1>1, <2>1 DEF Turn, Terminal
    <2>3. Handed(c) = 0
      BY <2>2, Counts DEF Submission
    <2> QED
      BY <1>0, <2>1, <2>3, CountsNext
  <1>4. ASSUME NEW c \in Command, state'[c] # "none"
        PROVE  place'[c] \in Target /\ \E i \in 1 .. Len(submitted') : submitted'[i] = c
    <2>1. now[c] # "none"
      BY <1>2, <1>4
    <2>2. place'[c] \in Target
      BY <1>1, <2>1 DEF Turn, Submission, InFlight
    <2> QED
      BY <1>1, <2>1, <2>2 DEF Listed
  <1>5. Submission'
    BY <1>3, <1>4 DEF Submission
  <1>6. ASSUME NEW c \in Command \ Repeatable, now[c] = "QUEUED"
        PROVE  Handed(c) = 0
    <2>1. state[c] = "QUEUED" \/ state[c] = "none"
      BY <1>1, <1>6 DEF Turn, Terminal
    <2> QED
      BY <2>1, Counts DEF Submission, QueuedIsUntouched
  <1>7. QueuedIsUntouched'
    <2>1. SUFFICES ASSUME NEW c \in Command \ Repeatable, state'[c] = "QUEUED"
                   PROVE  held'[c] = 0 /\ running'[c] = 0 /\ ran'[c] = 0
      BY DEF QueuedIsUntouched
    <2>2. now[c] = "QUEUED" /\ Handed(c)' <= Handed(c)
      BY <1>2, <2>1
    <2>3. Handed(c) = 0
      BY <1>6, <2>2
    <2> QED
      BY <1>0, <2>2, <2>3, CountsNext
  <1>8. NeverRepeated'
    <2>1. SUFFICES ASSUME NEW c \in Command \ Repeatable
                   PROVE  Handed(c)' <= 1
      BY <1>0, CountsNext DEF NeverRepeated
    <2>2. Handed(c) <= 1 /\ Handed(c) \in Nat /\ Handed(c)' \in Nat
      BY <1>0, Counts, CountsNext DEF NeverRepeated, Handed
    <2>3. CASE Handed(c)' <= Handed(c)
      BY <2>2, <2>3
    <2>4. CASE now[c] = "QUEUED" /\ Handed(c)' <= Handed(c) + 1
      <3>1. Handed(c) = 0
        BY <1>6, <2>4
      <3> QED
        BY <2>2, <2>4, <3>1
    <2> QED
      BY <1>2, <2>3, <2>4
  <1>9. OneInFlight'
    <2>1. SUFFICES ASSUME NEW c \in Command, NEW d \in Command, state'[c] \in InFlight,
                          state'[d] \in InFlight, place'[c] = place'[d]
                   PROVE  c = d
      BY DEF OneInFlight
    <2>2. \A e \in Command : state'[e] \in InFlight =>
             \/ state'[e] = now[e] /\ state[e] \in InFlight /\ place'[e] = place[e]
             \/ /\ state'[e] = "DELIVERED"
                /\ \A b \in Command : place'[b] = place'[e] =>
                      /\ now[b] \notin InFlight
                      /\ state'[b] = "DELIVERED" => b = e
      <3>1. SUFFICES ASSUME NEW e \in Command, state'[e] \in InFlight
                     PROVE  \/ state'[e] = now[e] /\ state[e] \in InFlight /\ place'[e] = place[e]
                            \/ /\ state'[e] = "DELIVERED"
                               /\ \A b \in Command : place'[b] = place'[e] =>
                                     /\ now[b] \notin InFlight
                                     /\ state'[b] = "DELIVERED" => b = e
        OBVIOUS
      <3>2. CASE state'[e] = now[e]
        BY <1>1, <3>1, <3>2 DEF Turn, InFlight, Terminal
      <3>3. CASE state'[e] # now[e]
        BY <1>1, <3>1, <3>3 DEF Deliver, InFlight
      <3> QED
        BY <3>2, <3>3
    <2>3. CASE state'[c] = now[c] /\ state[c] \in InFlight /\ place'[c] = place[c]
      <3>1. state'[d] = now[d] /\ state[d] \in InFlight /\ place'[d] = place[d]
        BY <2>1, <2>2, <2>3
      <3> QED
        BY <2>1, <2>3, <3>1 DEF OneInFlight
    <2>4. CASE state'[c] = "DELIVERED" /\ \A b \in Command : place'[b] = place'[c] =>
                      /\ now[b] \notin InFlight
                      /\ state'[b] = "DELIVERED" => b = c
      <3>1. now[d] \notin InFlight
        BY <2>1, <2>4
      <3>2. state'[d] = "DELIVERED"
        BY <1>2, <2>1, <3>1 DEF InFlight
      <3> QED
        BY <2>1, <2>4, <3>2
    <2> QED
      BY <2>1, <2>2, <2>3, <2>4
  <1> QED
    BY <1>5, <1>7, <1>8, <1>9

(* The registry's entries stay those of their own key.                     *)
LEMMA RegisteredStep ==
    ASSUME TypeOK, Registered, [Next]_vars
    PROVE  Registered'
  <1>1. CASE UNCHANGED <<byTarget, byEndpoint>>
    BY <1>1 DEF Registered
  <1>2. ASSUME NEW s, s.target \in Target, V1Bind(s)
        PROVE  Registered'
    BY <1>2 DEF V1Bind, Registered, TypeOK
  <1>3. ASSUME NEW s \in challenged, V1Auth(s)
        PROVE  Registered'
    <2>1. s.target \in Target
      BY SocketTypes DEF TypeOK
    <2> QED
      BY <1>2, <1>3, <2>1 DEF V1Auth
  <1>4. ASSUME NEW t \in Target, Pair(t)
        PROVE  Registered'
    BY <1>2, <1>4 DEF Pair
  <1>5. ASSUME NEW t \in Target, V2Connects(t)
        PROVE  Registered'
    BY <1>5 DEF V2Connects, Registered, TypeOK
  <1>6. ASSUME NEW s, SocketCloses(s)
        PROVE  Registered'
    <2>1. \A t \in Target : (byTarget'[t] = byTarget[t] \/ byTarget'[t] = None)
                            /\ (byEndpoint'[t] = byEndpoint[t] \/ byEndpoint'[t] = None)
      BY <1>6 DEF SocketCloses, TypeOK
    <2> QED
      BY <2>1 DEF Registered
  <1>7. CASE Recovered
    BY <1>7 DEF Recovered, Registered
  <1> QED
    BY <1>1, <1>3, <1>4, <1>5, <1>6, <1>7
       DEF Next, BindAgent, UnbindAgent, AcquireSession, PollGrants, WaitEnds, ReleaseSession,
           Dispatch, DeadlinePasses, ExtensionBegins, ExtensionEnds, LeaseExpires, V1Hello,
           IndexLapses, Heartbeat, RevokeTarget, ExtensionForgets, ReceiveAck, ReceiveResult,
           Lapse, CloseThrows, Sweep, Restart, SweepThrows, vars, sockets

(* A lease stays with its binding, but for one granted to a waiter.        *)
LEMMA LeaseStep ==
    ASSUME TypeOK, LeaseFollowsBinding, [Next]_vars
    PROVE  LeaseFollowsBinding'
  <1>0. /\ bound \in [Agent -> Target \cup {None}] /\ leaseOwner \in [Target -> Agent \cup {None}]
        /\ None \notin Agent /\ None \notin Target
    BY CoreAssumption DEF TypeOK
  <1>1. CASE UNCHANGED <<bound, leaseOwner, late>>
    BY <1>1 DEF LeaseFollowsBinding, Owns
  <1>2. ASSUME NEW a \in Agent, NEW t \in Target, BindAgent(a, t)
        PROVE  LeaseFollowsBinding'
    BY <1>0, <1>2 DEF BindAgent, Bindable, LeaseFollowsBinding, Owns
  <1>3. ASSUME NEW a \in Agent, UnbindAgent(a)
        PROVE  LeaseFollowsBinding'
    BY <1>0, <1>3 DEF UnbindAgent, Released, LeaseFollowsBinding, Owns
  <1>4. ASSUME NEW a \in Agent, AcquireSession(a)
        PROVE  LeaseFollowsBinding'
    BY <1>0, <1>4 DEF AcquireSession, Lease, LeaseFollowsBinding, Owns
  <1>5. ASSUME NEW a \in Agent, PollGrants(a)
        PROVE  LeaseFollowsBinding'
    BY <1>0, <1>5 DEF PollGrants, Lease, LeaseFollowsBinding, Owns
  <1>6. ASSUME NEW t, Released(t), UNCHANGED bound
        PROVE  LeaseFollowsBinding'
    BY <1>0, <1>6 DEF Released, LeaseFollowsBinding, Owns
  <1>7. ASSUME NEW t \in Target, RevokeTarget(t)
        PROVE  LeaseFollowsBinding'
    BY <1>0, <1>7 DEF RevokeTarget, RevokeRow, Released, LeaseFollowsBinding, Owns
  <1>8. ASSUME NEW s, V1Bind(s)
        PROVE  LeaseFollowsBinding'
    BY <1>1, <1>8 DEF V1Bind, agents
  <1> QED
    BY <1>1, <1>2, <1>3, <1>4, <1>5, <1>6, <1>7, <1>8
       DEF Next, WaitEnds, ReleaseSession, Dispatch, DeadlinePasses, ExtensionBegins,
           ExtensionEnds, LeaseExpires, V1Hello, V1Auth, Pair, V2Connects, SocketCloses,
           IndexLapses, Heartbeat, ExtensionForgets, ReceiveAck, ReceiveResult,
           Lapse, CloseThrows, Sweep, Recovered, Restart, SweepThrows, vars, agents

-----------------------------------------------------------------------------
(* The invariant holds from the start and over every step.                 *)
THEOREM Inductive == Spec => []IInv
  <1>1. Init => IInv
    <2> SUFFICES ASSUME Init
                 PROVE  IInv
      OBVIOUS
    <2>1. TypeOK
      BY CoreAssumption DEF Init, TypeOK, State
    <2>2. Submission /\ QueuedIsUntouched /\ Registered
      BY DEF Init, Submission, QueuedIsUntouched, Registered
    <2>3. OneInFlight /\ NeverRepeated
      BY DEF Init, OneInFlight, NeverRepeated, InFlight
    <2>4. LeaseFollowsBinding
      BY CoreAssumption DEF Init, LeaseFollowsBinding, Owns
    <2> QED
      BY <2>1, <2>2, <2>3, <2>4 DEF IInv
  <1>2. IInv /\ [Next]_vars => IInv'
    BY TypeStep, CommandsStep, RegisteredStep, LeaseStep DEF IInv
  <1> QED
    BY <1>1, <1>2, PTL DEF Spec

(* The columns and maps of the broker keep their types.                    *)
THEOREM CoreTypes == Spec => []TypeOK
  <1>1. IInv => TypeOK
    BY DEF IInv
  <1> QED
    BY <1>1, Inductive, PTL

(* A target has at most one command in flight, whichever of dispatch,      *)
(* results, connections, releases and sweeps delivers (deliver()).         *)
THEOREM OneCommandInFlight == Spec => []OneInFlight
  <1>1. IInv => OneInFlight
    BY DEF IInv
  <1> QED
    BY <1>1, Inductive, PTL

(* A non-idempotent command is handed to an extension at most once, over   *)
(* reconnections, restarts, lost and late answers (recover(), deliver()).  *)
THEOREM NothingRepeated == Spec => []NeverRepeated
  <1>1. IInv => NeverRepeated
    BY DEF IInv
  <1> QED
    BY <1>1, Inductive, PTL

(* A lease is of the agent its target is bound to, or was granted to a     *)
(* waiter whose binding had gone (acquireSession()).                       *)
THEOREM LeasesFollowBindings == Spec => []LeaseFollowsBinding
  <1>1. IInv => LeaseFollowsBinding
    BY DEF IInv
  <1> QED
    BY <1>1, Inductive, PTL

(* No step rewrites a final state (onExtensionResult(), recover()).        *)
THEOREM FinalStatesStay == Spec => FinalStaysFinal
  <1>1. IInv /\ [Next]_vars => [\A c \in Command : state[c] \in Terminal => state'[c] = state[c]]_vars
    <2>1. SUFFICES ASSUME IInv, [Next]_vars, NEW c \in Command, state[c] \in Terminal
                   PROVE  state'[c] = state[c]
      OBVIOUS
    <2>2. PICK now \in [Command -> State] : Turn(now) /\ Deliver(now)
      BY <2>1, Commands DEF Turned, IInv
    <2>3. now[c] = state[c]
      BY <2>1, <2>2 DEF Turn, Terminal, InFlight
    <2> QED
      BY <2>1, <2>2, <2>3 DEF Deliver, Terminal
  <1> QED
    BY <1>1, Inductive, PTL DEF Spec, FinalStaysFinal

(* What reaches a socket is under a lease of its principal, or, if it only *)
(* reads, under none (evaluate(), deliver()).                              *)
THEOREM DeliveriesAreCovered == Spec => DeliveredUnderLease
  <1>1. IInv /\ [Next]_vars =>
           [\A c \in Command : held'[c] > held[c] =>
                /\ leaseOwner'[place'[c]] \in {None, principal'[c]}
                /\ c \in Writes => leaseOwner'[place'[c]] = principal'[c]]_vars
    <2>1. SUFFICES ASSUME IInv, [Next]_vars, NEW c \in Command, held'[c] > held[c]
                   PROVE  Covered(c)
      BY DEF Covered
    <2>2. PICK now \in [Command -> State] : Turn(now) /\ Deliver(now)
      BY <2>1, Commands DEF Turned, IInv
    <2>3. held[c] \in Nat /\ held'[c] \in Nat
      BY <2>1, Commands DEF IInv, TypeOK, Turned, JournalOK
    <2>4. ~(held'[c] <= held[c])
      BY <2>1, <2>3
    <2> QED
      BY <2>1, <2>2, <2>4 DEF Deliver
  <1> QED
    BY <1>1, Inductive, PTL DEF Spec, DeliveredUnderLease

(* Only its own close, a newer connection, the end of the process or a v1  *)
(* socket of the same number takes a connection out of the registry        *)
(* (remove(), removeEndpoint(), onSocketClose()).                          *)
THEOREM ConnectionsStay == Spec => UnregisteredByItself
  <1> DEFINE Its(t) == \/ byTarget[t] \notin open' \cup closing'
                       \/ byTarget[t].proto = 2
                          /\ [byTarget[t] EXCEPT !.proto = 1] \in challenged \cup open \cup closing
  <1>1. ASSUME IInv, [Next]_vars, NEW t \in Target, byTarget[t] # None, byTarget'[t] = None
        PROVE  Its(t)
    <2>0. TypeOK /\ Registered /\ byTarget[t] \in Socket /\ byTarget[t].target = t
      BY <1>1 DEF IInv, TypeOK, Registered
    <2>1. CASE byTarget' = byTarget
      BY <1>1, <2>1
    <2>2. ASSUME NEW s \in Socket, byTarget' = [byTarget EXCEPT ![s.target] = s]
          PROVE  Its(t)
      BY <1>1, <2>0, <2>2, NoSocketAssumption DEF TypeOK
    <2>3. ASSUME NEW s \in challenged, V1Auth(s)
          PROVE  Its(t)
      <3>1. s \in Socket
        BY <2>0 DEF TypeOK
      <3> QED
        BY <2>2, <2>3, <3>1 DEF V1Auth, V1Bind
    <2>4. ASSUME NEW u \in Target, Pair(u)
          PROVE  Its(t)
      <3> DEFINE s == [target |-> u, proto |-> 1, epoch |-> counter[u] + 1]
      <3>1. counter[u] \in Nat /\ counter[u] < MaxEpoch
        BY <2>0, <2>4 DEF Pair, TypeOK
      <3>2. counter[u] + 1 \in 1 .. MaxEpoch + MaxGeneration
        BY <3>1, SocketTypes
      <3>3. s \in Socket
        BY <3>2, SocketTypes
      <3>4. byTarget' = [byTarget EXCEPT ![s.target] = s]
        BY <2>4 DEF Pair, V1Bind
      <3> HIDE DEF s
      <3> QED
        BY <2>2, <3>3, <3>4
    <2>5. ASSUME NEW u \in Target, V2Connects(u)
          PROVE  Its(t)
      <3> DEFINE s == [target |-> u, proto |-> 2, epoch |-> generation[u] + 1]
      <3>1. generation[u] \in Nat /\ generation[u] < MaxGeneration
        BY <2>0, <2>5 DEF V2Connects, TypeOK
      <3>2. generation[u] + 1 \in 1 .. MaxEpoch + MaxGeneration
        BY <3>1, SocketTypes
      <3>3. s \in Socket
        BY <3>2, SocketTypes
      <3>4. byTarget' = [byTarget EXCEPT ![s.target] = s]
        BY <2>5 DEF V2Connects
      <3> HIDE DEF s
      <3> QED
        BY <2>2, <3>3, <3>4
    <2>6. ASSUME NEW s \in challenged \cup open \cup closing, SocketCloses(s)
          PROVE  Its(t)
      <3>1. s \in Socket /\ s.target \in Target /\ s.proto \in {1, 2}
        BY <2>0, SocketTypes DEF TypeOK
      <3>2. byTarget' = [byTarget EXCEPT ![s.target] = IF @ \in Unregister(s) THEN None ELSE @]
            /\ open' = open \ {s} /\ closing' = closing \ {s}
        BY <2>6 DEF SocketCloses
      <3>3. s.target = t /\ byTarget[t] \in Unregister(s)
        BY <1>1, <2>0, <3>1, <3>2 DEF TypeOK
      <3>4. byTarget[t].epoch = s.epoch
            /\ (s.proto = 2 => byTarget[t] = byEndpoint[t] /\ byEndpoint[t] # None)
        BY <3>3 DEF Unregister
      <3>5. CASE byTarget[t].proto = s.proto
        <4>1. byTarget[t] = s
          BY <2>0, <3>1, <3>3, <3>4, <3>5 DEF Socket
        <4> QED
          BY <3>2, <4>1
      <3>6. CASE byTarget[t].proto # s.proto
        <4>1. s.proto = 1
          BY <1>1, <2>0, <3>1, <3>4, <3>6 DEF Registered
        <4>2. byTarget[t].proto = 2
          BY <2>0, <3>6, <4>1, SocketTypes
        <4>3. s = [byTarget[t] EXCEPT !.proto = 1]
          BY <2>0, <3>1, <3>3, <3>4, <4>1 DEF Socket
        <4> QED
          BY <2>6, <4>2, <4>3
      <3> QED
        BY <3>5, <3>6
    <2>7. CASE Recovered
      BY <2>7 DEF Recovered
    <2> QED
      BY <1>1, <2>1, <2>3, <2>4, <2>5, <2>6, <2>7
         DEF Next, BindAgent, UnbindAgent, AcquireSession, PollGrants, WaitEnds, ReleaseSession,
             Dispatch, DeadlinePasses, ExtensionBegins, ExtensionEnds, LeaseExpires, V1Hello,
             IndexLapses, Heartbeat, RevokeTarget, ExtensionForgets, ReceiveAck, ReceiveResult,
             Lapse, CloseThrows, Sweep, Restart, SweepThrows, vars, sockets
  <1>2. IInv /\ [Next]_vars => [\A t \in Target : byTarget[t] # None /\ byTarget'[t] = None => Its(t)]_vars
    BY <1>1
  <1> QED
    BY <1>2, Inductive, PTL DEF Spec, UnregisteredByItself

=============================================================================

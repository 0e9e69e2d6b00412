--------------------------- MODULE CdpEffectProofs ---------------------------
(***************************************************************************)
(* That Chrome does not start on a command whose ticket ended, unless the  *)
(* human ended it (NoEffectAfterTheEnd of CdpExecution).  A ticket ends by *)
(* a result, by a locator of an earlier connection, or by an attach that   *)
(* came to nothing.  A result leaves nothing of its try to be carried out  *)
(* (Once, Reported); a stale locator ends only what was never sent         *)
(* (Unsent); and when the broker asks for an attachment, whatever is still *)
(* on its way to Chrome names one that is gone (Attached).  The last rests *)
(* on the order of the socket: what the broker reads of a tab's            *)
(* attachment, it reads in the order in which the extension saw it change  *)
(* (Views, Known).                                                         *)
(***************************************************************************)
EXTENDS CdpExecutionProofs

(* Commands that are not reported: sent, or taken by the extension.        *)
Sent == {m \in toExtension : m.operation = "send"}
Same(x, y) == x.ticket = y.ticket /\ x.try = y.try

(* Messages that tell of the outcome of a try.                             *)
Reports(m) == m.kind = "answer" /\ m.operation # "attach" /\ m.outcome \in {"succeeded", "failed"}

(* Messages that tell of the tab's attachment, and what they tell.         *)
Shows(m) ==
    \/ m.kind \in {"inventory", "detached"}
    \/ m.kind = "answer" /\ m.operation = "attach" /\ m.outcome = "succeeded"
View(m) == IF m.kind = "detached" THEN 0 ELSE m.attachment

(* A try is sent once.                                                     *)
Once ==
    /\ \A m, n \in Sent : Same(m, n) => m = n
    /\ \A c, d \in running : Same(c, d) => c = d
    /\ \A m \in Sent : \A c \in running : ~Same(m, c)
    /\ \A x \in Sent \cup running : x.try > 0 /\ x.try <= tries[x.ticket]

(* A try with an outcome is not on its way to Chrome.                      *)
Reported ==
    /\ \A e \in cache :
           e.try <= tries[e.ticket] /\ \A x \in Sent \cup running : ~Same(x, e)
    /\ \A i \in 1 .. Len(toBroker) :
           Reports(toBroker[i]) =>
               /\ toBroker[i].try <= tries[toBroker[i].ticket]
               /\ \A x \in Sent \cup running : ~Same(x, toBroker[i])

(* What ended a ticket; only an unsent one ends by its locator.            *)
Unsent ==
    /\ \A t \in Ticket :
           /\ state[t] = "queued" => tries[t] = 0
           /\ state[t] = "running" => IsHead(t)
           /\ ~Open(t) => basis[t] # "none"
           /\ basis[t] = "locator" => tries[t] = 0
    /\ (\E t \in Ticket : state[t] = "running" /\ pause[t] = "none") /\ waiting = Idle /\ Connected
           => locator = dbGeneration

(* A newer connection is greeted before it is bound, and is inventoried    *)
(* only after.                                                             *)
Greeted ==
    /\ bound <= dbGeneration /\ extGeneration <= dbGeneration
    /\ greeting # 0 => greeting = dbGeneration /\ bound < greeting /\ locator < greeting
    /\ \A i \in 1 .. Len(toBroker) : toBroker[i].generation <= dbGeneration

(* What the extension's connection shows of the attachment, it shows in    *)
(* order: an attachment followed by another view is gone.                  *)
Views ==
  /\ attachment <= attachments
  /\ \A i \in 1 .. Len(toBroker) :
        Shows(toBroker[i]) /\ toBroker[i].kind = "answer" => View(toBroker[i]) # 0
  /\ \A i \in 1 .. Len(toBroker) :
        Shows(toBroker[i]) /\ toBroker[i].generation = extGeneration =>
            /\ View(toBroker[i]) <= attachments
            /\ View(toBroker[i]) # 0 =>
                   \A j \in 1 .. Len(toBroker) :
                       /\ i < j /\ Shows(toBroker[j]) /\ toBroker[j].generation = extGeneration
                       /\ View(toBroker[j]) # View(toBroker[i])
                       => attachment # View(toBroker[i])

(* The same of the attachment the broker knows from this connection.       *)
Known ==
    extGeneration # 0 /\ bound = extGeneration /\ locator = extGeneration /\ dbAttachment # 0 =>
        /\ dbAttachment <= attachments
        /\ \A i \in 1 .. Len(toBroker) :
               /\ Shows(toBroker[i]) /\ toBroker[i].generation = extGeneration
               /\ View(toBroker[i]) # dbAttachment
               => attachment # dbAttachment

(* The attachment a command names is gone for good once the broker knows   *)
(* or will read of another, once it asks for one, and once its ticket      *)
(* ended for want of one.                                                  *)
Attached ==
    \A x \in Sent \cup running :
        /\ x.attachment # 0 /\ x.attachment <= attachments
        /\ attachment = x.attachment =>
               /\ dbAttachment = x.attachment
               /\ \A i \in 1 .. Len(toBroker) :
                      /\ Shows(toBroker[i])
                      /\ toBroker[i].generation \in {bound, extGeneration}
                      => View(toBroker[i]) = x.attachment
               /\ waiting.operation # "attach"
               /\ basis[x.ticket] # "transport"
        /\ basis[x.ticket] \in {"raw_result", "debugger_error"} => x.try # tries[x.ticket]

EInv == Once /\ Reported /\ Unsent /\ Greeted /\ Views /\ Known /\ Attached

-----------------------------------------------------------------------------
(* A command the worker sends: the next try of the open head of the lane,  *)
(* over a connection that was inventoried, naming the attachment the       *)
(* broker knows.                                                           *)
New(x) ==
    /\ x \in Request /\ x.operation = "send" /\ Open(x.ticket)
    /\ x.try = tries[x.ticket] + 1 /\ x.try = tries'[x.ticket]
    /\ x.attachment = dbAttachment' /\ x.attachment # 0
    /\ waiting'.operation = "send" /\ UNCHANGED basis
    /\ bound = extGeneration /\ locator = extGeneration /\ extGeneration # 0

(* What the worker sends and awaits.                                       *)
Sending ==
    /\ \/ Sent' = Sent
       \/ \E x : Sent' = Sent \cup {x} /\ New(x)
    /\ waiting'.operation = "attach" => dbAttachment' = 0
    /\ \A t \in Ticket : tries[t] <= tries'[t]

(* How the worker ends a ticket.                                           *)
Ending ==
    \A t \in Ticket :
        \/ basis'[t] = basis[t]
        \/ basis'[t] = "transport" /\ waiting.operation = "attach"
        \/ basis'[t] = "locator" /\ tries'[t] = 0
        \/ /\ basis'[t] \in {"raw_result", "debugger_error"} /\ tries'[t] = tries[t]
           /\ 1 \in 1 .. Len(toBroker) /\ Reports(toBroker[1])
           /\ toBroker[1].ticket = t /\ toBroker[1].try = tries[t]

LEMMA Dispatching ==
  ASSUME IInv, NEW t \in Ticket, NEW attached \in Nat, attached # 0, Dispatch(t, attached),
         dbAttachment' = attached, Open(t), UNCHANGED basis,
         bound = locator \/ bound # dbGeneration
  PROVE  Sending /\ Ending
  <1> DEFINE open == attempt[t] = "pending"
             try == IF open THEN tries[t] ELSE tries[t] + 1
  <1>1. tries \in [Ticket -> Nat] /\ toExtension \subseteq Request /\ bound \in 0 .. MaxGenerations
    BY DEF IInv, Types, RowTypes, RecordTypes, EndpointTypes
  <1>2. tries' = [tries EXCEPT ![t] = try]
    BY DEF Dispatch
  <1>3. try \in Nat /\ tries[t] <= try
    BY <1>1
  <1>4. \A u \in Ticket : tries[u] <= tries'[u]
    BY <1>1, <1>2, <1>3
  <1>5. Ending
    BY DEF Ending
  <1>6. CASE ~Connected
    <2>1. toExtension' = toExtension /\ waiting' = Idle
      BY <1>6 DEF Dispatch, PauseTicket, Return
    <2>2. Sent' = Sent /\ waiting'.operation # "attach"
      BY <2>1 DEF Sent, Idle
    <2> QED
      BY <1>4, <1>5, <2>2 DEF Sending
  <1>7. CASE Connected /\ open
    <2>1. Ask("reconcile", t, try, attached)
      BY <1>7 DEF Dispatch
    <2>2. waiting'.operation = "reconcile"
      BY <2>1 DEF Ask
    <2>3. Sent' = Sent
      BY <2>1 DEF Ask, Sent
    <2> QED
      BY <1>4, <1>5, <2>2, <2>3 DEF Sending
  <1>8. CASE Connected /\ ~open
    <2> DEFINE x == [generation |-> bound, operation |-> "send", ticket |-> t, try |-> try,
                     attachment |-> attached]
    <2>1. Ask("send", t, try, attached)
      BY <1>8 DEF Dispatch
    <2>2. waiting'.operation = "send"
      BY <2>1 DEF Ask
    <2>3. CASE extGeneration # bound
      <3>1. Sent' = Sent
        BY <2>1, <2>3 DEF Ask, Sent
      <3> QED
        BY <1>4, <1>5, <2>2, <3>1 DEF Sending
    <2>4. CASE extGeneration = bound
      <3>1. toExtension' = toExtension \cup {x}
        BY <2>1, <2>4 DEF Ask
      <3>2. x.operation = "send" /\ x.ticket = t /\ x.try = try /\ x.attachment = attached
        OBVIOUS
      <3>3. bound # 0 /\ bound = dbGeneration /\ bound \in Generation
        BY <1>1, <1>8 DEF Connected, Generation
      <3>4. x \in Request
        BY <1>3, <3>3 DEF Request, Operation
      <3> HIDE DEF x
      <3>5. New(x)
        BY <1>1, <1>2, <1>3, <1>8, <2>2, <2>4, <3>2, <3>3, <3>4 DEF New
      <3>6. Sent' = Sent \cup {x}
        BY <3>1, <3>2 DEF Sent
      <3> QED
        BY <1>4, <1>5, <2>2, <3>5, <3>6 DEF Sending
    <2> QED
      BY <2>3, <2>4
  <1> QED
    BY <1>6, <1>7, <1>8

(* The worker returns without having sent.                                 *)
LEMMA Resting ==
  ASSUME IInv, UNCHANGED <<tries, toExtension>>, waiting' = Idle
  PROVE  Sending
  <1>1. tries \in [Ticket -> Nat]
    BY DEF IInv, Types, RowTypes
  <1>2. Sent' = Sent /\ waiting'.operation # "attach"
    BY DEF Sent, Idle
  <1> QED
    BY <1>1, <1>2 DEF Sending

LEMMA Throwing ==
  ASSUME IInv, NEW t \in Ticket, NEW why, WorkerThrows(t, why),
         \/ why = "transport" /\ waiting.operation = "attach"
         \/ why = "locator" /\ tries[t] = 0
  PROVE  Sending /\ Ending
  <1>1. UNCHANGED <<tries, toExtension>> /\ waiting' = Idle
    BY DEF WorkerThrows, PauseTicket, Finish, Return
  <1>2. basis' = basis \/ basis' = [basis EXCEPT ![t] = why]
    BY DEF WorkerThrows, PauseTicket, Finish
  <1>3. Ending
    BY <1>1, <1>2 DEF Ending, IInv, Types, RowTypes
  <1> QED
    BY <1>1, <1>3, Resting

LEMMA Asking ==
  ASSUME IInv, NEW t, AskHuman(t)
  PROVE  Sending /\ Ending
  <1>1. UNCHANGED <<tries, toExtension, basis>> /\ waiting' = Idle
    BY DEF AskHuman, PauseTicket, Return
  <1> QED
    BY <1>1, Resting DEF Ending

LEMMA Rejecting ==
  ASSUME IInv, waiting # Idle, Rejected(waiting.ticket, waiting.operation)
  PROVE  Sending /\ Ending
  <1>1. waiting.ticket \in Ticket
    BY DEF IInv, Types, RecordTypes, Asked
  <1>2. CASE waiting.operation = "attach"
    BY <1>1, <1>2, Throwing DEF Rejected
  <1>3. CASE waiting.operation # "attach" /\ Connected
    BY <1>3, Asking DEF Rejected
  <1>4. CASE waiting.operation # "attach" /\ ~Connected
    <2>1. UNCHANGED <<tries, toExtension, basis>> /\ waiting' = Idle
      BY <1>4 DEF Rejected, PauseTicket, Return
    <2> QED
      BY <2>1, Resting DEF Ending
  <1> QED
    BY <1>2, <1>3, <1>4

-----------------------------------------------------------------------------
(* What the broker's worker makes of the rest.                             *)
Broker ==
    /\ Sending /\ Ending
    /\ UNCHANGED <<dbGeneration, dbConnected, locator, bound, greeting, reconciling, extension>>
    /\ \/ UNCHANGED <<dbAttachment, toBroker>>
       \/ /\ toBroker # <<>> /\ toBroker' = Tail(toBroker) /\ toBroker[1].generation = bound
          /\ \/ dbAttachment' = dbAttachment
             \/ Shows(toBroker[1]) /\ dbAttachment' = View(toBroker[1])

LEMMA Starting ==
  ASSUME IInv, EInv, NEW t \in Ticket, StartWork(t)
  PROVE  Broker
  <1>1. IsHead(t) /\ pause[t] = "none" /\ waiting = Idle /\ Open(t)
    BY Heads DEF StartWork
  <1>2. UNCHANGED <<endpoint, bound, greeting, reconciling, extension, toBroker>>
    BY DEF StartWork
  <1>3. tries \in [Ticket -> Nat] /\ dbAttachment \in Nat /\ waiting.operation # "attach"
    BY <1>1 DEF IInv, Types, RowTypes, EndpointTypes, Idle
  <1>4. CASE ~Connected /\ UNCHANGED <<basis, tries, attempt, waiting, toExtension>>
    <2>1. Sending
      BY <1>1, <1>4, Resting
    <2> QED
      BY <1>2, <1>4, <2>1 DEF Ending, Broker, endpoint
  <1>5. CASE Connected /\ locator # dbGeneration /\ WorkerThrows(t, "locator")
    <2>1. tries[t] = 0
      BY <1>1, <1>5 DEF EInv, Unsent, Open
    <2>2. Sending /\ Ending
      BY <1>5, <2>1, Throwing
    <2> QED
      BY <1>2, <2>2 DEF Broker, endpoint
  <1>6. CASE /\ Connected /\ locator = dbGeneration
             /\ IF dbAttachment = 0
                THEN Ask("attach", t, 0, 0) /\ UNCHANGED <<pause, tries, attempt>>
                ELSE Dispatch(t, dbAttachment)
             /\ UNCHANGED basis
    <2>1. CASE dbAttachment = 0
      <3>1. Sent' = Sent
        BY <1>6, <2>1 DEF Ask, Sent
      <3>2. Sending
        BY <1>2, <1>3, <1>6, <2>1, <3>1 DEF Sending, endpoint
      <3> QED
        BY <1>2, <1>6, <3>2 DEF Ending, Broker, endpoint
    <2>2. CASE dbAttachment # 0
      <3>1. bound = locator
        BY <1>6 DEF Connected
      <3>2. dbAttachment' = dbAttachment
        BY <1>2 DEF endpoint
      <3>3. Sending /\ Ending
        BY <1>1, <1>3, <1>6, <2>2, <3>1, <3>2, Dispatching
      <3> QED
        BY <1>2, <3>3 DEF Broker, endpoint
    <2> QED
      BY <2>1, <2>2
  <1> QED
    BY <1>4, <1>5, <1>6 DEF StartWork

LEMMA TimingOut ==
  ASSUME IInv, OperationTimesOut
  PROVE  Broker
  <1>1. waiting # Idle /\ Rejected(waiting.ticket, waiting.operation)
    BY DEF OperationTimesOut
  <1>2. Sending /\ Ending
    BY <1>1, Rejecting
  <1> QED
    BY <1>2 DEF OperationTimesOut, Broker, endpoint

LEMMA Answering ==
  ASSUME IInv, EInv, ReceiveAnswer
  PROVE  Broker
  <1> DEFINE m == toBroker[1]
  <1>1. /\ Head(toBroker) = m /\ m \in Answered /\ 1 \in 1 .. Len(toBroker)
        /\ m.kind = "answer" /\ m.generation = bound
        /\ toBroker # <<>> /\ toBroker' = Tail(toBroker)
    BY Arrives DEF ReceiveAnswer, Receives, Message, Noticed
  <1>2. /\ waiting.operation = m.operation /\ waiting.ticket = m.ticket /\ waiting.try = m.try
        /\ waiting.generation = bound /\ waiting # Idle
    BY <1>1 DEF ReceiveAnswer, Answers, Answered, Ticket, Idle
  <1>3. m.ticket \in Ticket /\ m.attachment \in Nat
    BY <1>1 DEF Answered
  <1>4. /\ IsHead(m.ticket) /\ Open(m.ticket) /\ bound <= locator /\ locator <= dbGeneration
        /\ m.operation # "attach" => m.try = tries[m.ticket]
    BY <1>2, <1>3, Heads DEF IInv, Waits, Generations
  <1>5. /\ UNCHANGED <<dbGeneration, dbConnected, locator, bound, greeting, reconciling, extension>>
    BY DEF ReceiveAnswer
  <1>6. m.outcome = "not_found" => m.operation = "reconcile"
    BY <1>1 DEF IInv, Truthful
  <1>7. \/ /\ Rejected(m.ticket, m.operation) /\ UNCHANGED dbAttachment
        \/ /\ m.operation = "attach" /\ m.outcome = "succeeded"
           /\ dbAttachment' = m.attachment
           /\ Dispatch(m.ticket, m.attachment)
           /\ UNCHANGED basis
        \/ /\ m.operation = "attach"
           /\ WorkerThrows(m.ticket, "transport")
           /\ UNCHANGED dbAttachment
        \/ /\ m.operation # "attach" /\ m.outcome \in {"succeeded", "failed"}
           /\ Settle(m.ticket, m.outcome = "succeeded")
           /\ UNCHANGED dbAttachment
        \/ AskHuman(m.ticket) /\ UNCHANGED dbAttachment
    BY <1>1 DEF ReceiveAnswer
  <1> HIDE DEF m
  <1>8. CASE Rejected(m.ticket, m.operation) /\ UNCHANGED dbAttachment
    <2>1. Sending /\ Ending
      BY <1>2, <1>8, Rejecting
    <2> QED
      BY <1>1, <1>5, <1>8, <2>1 DEF Broker, m
  <1>9. CASE /\ m.operation = "attach" /\ m.outcome = "succeeded"
             /\ dbAttachment' = m.attachment
             /\ Dispatch(m.ticket, m.attachment)
             /\ UNCHANGED basis
    <2>1. Shows(m) /\ View(m) = m.attachment
      BY <1>1, <1>9 DEF Shows, View
    <2>2. bound = locator \/ bound # dbGeneration
      BY <1>4 DEF IInv, Types, EndpointTypes, Generation
    <2>3. m.attachment # 0
      BY <1>1, <2>1 DEF EInv, Views, m
    <2>4. Sending /\ Ending
      BY <1>3, <1>4, <1>9, <2>2, <2>3, Dispatching
    <2> QED
      BY <1>1, <1>5, <1>9, <2>1, <2>4 DEF Broker, m
  <1>10. CASE /\ m.operation = "attach"
              /\ WorkerThrows(m.ticket, "transport")
              /\ UNCHANGED dbAttachment
    <2>1. Sending /\ Ending
      BY <1>2, <1>3, <1>10, Throwing
    <2> QED
      BY <1>1, <1>5, <1>10, <2>1 DEF Broker, m
  <1>11. CASE /\ m.operation # "attach" /\ m.outcome \in {"succeeded", "failed"}
              /\ Settle(m.ticket, m.outcome = "succeeded")
              /\ UNCHANGED dbAttachment
    <2>1. UNCHANGED <<tries, toExtension>> /\ waiting' = Idle
      BY <1>11 DEF Settle, Finish, Return
    <2>2. Sending
      BY <2>1, Resting
    <2>3. Reports(m)
      BY <1>1, <1>11 DEF Reports
    <2>4. \E why \in {"raw_result", "debugger_error"} : basis' = [basis EXCEPT ![m.ticket] = why]
      BY <1>11 DEF Settle, Finish
    <2>5. basis \in [Ticket -> Basis]
      BY DEF IInv, Types, RowTypes
    <2>6. m.try = tries[m.ticket]
      BY <1>4, <1>11
    <2>7. Ending
      BY <1>1, <1>3, <2>1, <2>3, <2>4, <2>5, <2>6 DEF Ending, m
    <2> QED
      BY <1>1, <1>5, <1>11, <2>2, <2>7 DEF Broker, m
  <1>12. CASE AskHuman(m.ticket) /\ UNCHANGED dbAttachment
    <2>1. Sending /\ Ending
      BY <1>12, Asking
    <2> QED
      BY <1>1, <1>5, <1>12, <2>1 DEF Broker, m
  <1> QED
    BY <1>7, <1>8, <1>9, <1>10, <1>11, <1>12

-----------------------------------------------------------------------------
(* The queue to the broker loses its head, or all, or gets a message that  *)
(* shows what holds: the attachment there is, or the outcome of a try that *)
(* is not on its way to Chrome.                                            *)
Dropped ==
    \E d \in {0, 1} : \A i \in 1 .. Len(toBroker') :
        i + d \in 1 .. Len(toBroker) /\ toBroker'[i] = toBroker[i + d]

Told(m) ==
    \A i \in 1 .. Len(toBroker') :
        \/ i \in 1 .. Len(toBroker) /\ toBroker'[i] = toBroker[i]
        \/ i = Len(toBroker) + 1 /\ toBroker'[i] = m

Fresh(m) ==
    /\ m \in Message /\ m.generation = extGeneration /\ extGeneration # 0
    /\ UNCHANGED extGeneration
    /\ Shows(m) => View(m) = attachment' /\ (m.kind = "answer" => View(m) # 0)
    /\ Reports(m) => m.try <= tries'[m.ticket] /\ \A x \in Sent' \cup running' : ~Same(x, m)

(* An attachment that is gone does not come back while its extension runs. *)
Ages ==
    /\ attachment' <= attachments' /\ attachments <= attachments'
    /\ \A a \in Nat \ {0} : a <= attachments /\ attachment' = a => attachment = a

LEMMA Lengths ==
  ASSUME IInv, Len(toBroker') \in Nat
  PROVE  /\ UNCHANGED toBroker \/ toBroker' = <<>> => Dropped
         /\ toBroker # <<>> /\ toBroker' = Tail(toBroker) => Dropped
         /\ \A m : toBroker' = Append(toBroker, m) => Told(m)
  <1>1. toBroker \in Seq(Message) /\ Len(toBroker) \in Nat
    BY DEF IInv, Types, RecordTypes
  <1>2. UNCHANGED toBroker => Dropped
    <2> SUFFICES ASSUME UNCHANGED toBroker
                 PROVE  \A i \in 1 .. Len(toBroker') :
                            i + 0 \in 1 .. Len(toBroker) /\ toBroker'[i] = toBroker[i + 0]
      BY DEF Dropped
    <2> QED
      BY <1>1
  <1>3. toBroker' = <<>> => Dropped
    BY DEF Dropped
  <1>4. toBroker # <<>> /\ toBroker' = Tail(toBroker) => Dropped
    <2> SUFFICES ASSUME toBroker # <<>>, toBroker' = Tail(toBroker)
                 PROVE  \A i \in 1 .. Len(toBroker') :
                            i + 1 \in 1 .. Len(toBroker) /\ toBroker'[i] = toBroker[i + 1]
      BY DEF Dropped
    <2>1. Len(toBroker') = Len(toBroker) - 1
      BY <1>1
    <2>2. \A i \in 1 .. Len(toBroker') : toBroker'[i] = toBroker[i + 1]
      BY <1>1
    <2> QED
      BY <1>1, <2>1, <2>2
  <1>5. ASSUME NEW m, toBroker' = Append(toBroker, m)
        PROVE  Told(m)
    BY <1>1, <1>5 DEF Told
  <1> QED
    BY <1>2, <1>3, <1>4, <1>5

(* Nothing changes of the attachments.                                     *)
LEMMA Unaged ==
  ASSUME IInv, EInv, UNCHANGED <<attachment, attachments>>
  PROVE  Ages
  BY DEF EInv, Views, Ages, IInv, Types, EndpointTypes

Flow ==
    /\ Ages
    /\ Dropped \/ \E m : Told(m) /\ Fresh(m)

(* What reads, drops or leaves the messages.                               *)
LEMMA Reading ==
  ASSUME IInv, EInv, Len(toBroker') \in Nat, UNCHANGED <<attachment, attachments>>,
         \/ toBroker # <<>> /\ toBroker' = Tail(toBroker)
         \/ toBroker' \in {toBroker, <<>>}
  PROVE  Flow
  BY Lengths, Unaged DEF Flow

LEMMA Noticing ==
  ASSUME IInv, EInv, Len(toBroker') \in Nat, Ages, extGeneration # 0, UNCHANGED extGeneration,
         NEW kind \in {"inventory", "detached"}, Notify(kind, attachment),
         kind = "inventory" => attachment' = attachment,
         kind = "detached" => attachment' = 0
  PROVE  Flow
  <1> DEFINE m == [kind |-> kind, generation |-> extGeneration, attachment |-> attachment]
  <1>1. extGeneration \in Generation /\ attachment \in Nat
    BY DEF IInv, Types, EndpointTypes, Generation
  <1>2. m \in Message /\ m.generation = extGeneration /\ m.kind = kind /\ m.attachment = attachment
    BY <1>1 DEF Message, Noticed
  <1>3. toBroker' = Append(toBroker, m)
    BY DEF Notify, Tell
  <1> HIDE DEF m
  <1>4. Fresh(m)
    BY <1>2 DEF Fresh, Shows, View, Reports
  <1>5. Told(m)
    BY <1>3, Lengths
  <1> QED
    BY <1>4, <1>5 DEF Flow

LEMMA Telling ==
  ASSUME IInv, EInv, Len(toBroker') \in Nat, Ages, extGeneration # 0, UNCHANGED extGeneration,
         NEW n, n.operation \in Operation, n.ticket \in Ticket, n.try \in Nat,
         NEW outcome \in {"refused", "succeeded", "failed", "not_found"}, NEW attached \in Nat,
         Answer(n, outcome, attached),
         n.operation = "attach" /\ outcome = "succeeded" => attached = attachment' /\ attached # 0,
         n.operation # "attach" /\ outcome \in {"succeeded", "failed"} =>
             n.try <= tries'[n.ticket] /\ \A x \in Sent' \cup running' : ~Same(x, n)
  PROVE  Flow
  <1> DEFINE m == [kind |-> "answer", generation |-> extGeneration, operation |-> n.operation,
                   ticket |-> n.ticket, try |-> n.try, outcome |-> outcome, attachment |-> attached]
  <1>1. extGeneration \in Generation
    BY DEF IInv, Types, EndpointTypes, Generation
  <1>2. /\ m \in Message /\ m.generation = extGeneration /\ m.kind = "answer"
        /\ m.operation = n.operation /\ m.ticket = n.ticket /\ m.try = n.try
        /\ m.outcome = outcome /\ m.attachment = attached
    BY <1>1 DEF Message, Answered
  <1>3. toBroker' = Append(toBroker, m)
    BY DEF Answer, Tell
  <1> HIDE DEF m
  <1>4. Shows(m) => View(m) = attachment' /\ (m.kind = "answer" => View(m) # 0)
    BY <1>2 DEF Shows, View
  <1>5. Reports(m) => m.try <= tries'[m.ticket] /\ \A x \in Sent' \cup running' : ~Same(x, m)
    BY <1>2 DEF Reports, Same
  <1>6. Fresh(m)
    BY <1>2, <1>4, <1>5 DEF Fresh
  <1>7. Told(m)
    BY <1>3, Lengths
  <1> QED
    BY <1>6, <1>7 DEF Flow

(* What a step that is not the worker's makes of the commands on their way *)
(* to Chrome: it loses some, or one goes on.                               *)
Carries ==
    \/ Sent' \subseteq Sent /\ running' \subseteq running
    \/ \E m \in Sent, c \in Command :
           /\ Sent' = Sent \ {m} /\ running' = running \cup {c}
           /\ Same(c, m) /\ c.attachment = m.attachment
    \/ \E c \in running, d \in Command :
           /\ Sent' = Sent /\ running' = (running \ {c}) \cup {d}
           /\ Same(d, c) /\ d.attachment = c.attachment

(* A remembered outcome is of a command that is not under way any more.    *)
Remembers ==
    \A e \in cache' :
        \/ e \in cache
        \/ e.try <= tries[e.ticket] /\ \A x \in Sent' \cup running' : ~Same(x, e)

LEMMA Fewer ==
  ASSUME toExtension' \subseteq toExtension, running' \subseteq running
  PROVE  Carries
  BY DEF Carries, Sent

LEMMA Handling ==
  ASSUME IInv, EInv, UNCHANGED tries, Len(toBroker') \in Nat, NEW m \in toExtension,
         Attach(m) \/ AttachFails(m) \/ TakeCommand(m) \/ Reconcile(m) \/ RefuseStale(m)
  PROVE  Flow /\ Carries /\ Remembers
  <1>1. /\ m \in Request /\ m.operation \in Operation /\ m.ticket \in Ticket /\ m.try \in Nat
        /\ m.attachment \in Nat /\ extGeneration # 0
    BY DEF IInv, Types, RecordTypes, Request, Generations
  <1>2. attachment \in Nat /\ attachments \in Nat /\ attachment <= attachments
    BY DEF IInv, Types, EndpointTypes, EInv, Views
  <1>3. CASE Attach(m)
    <2>1. /\ attachment = 0 /\ attachment' = attachments + 1 /\ attachments' = attachments + 1
          /\ UNCHANGED <<extGeneration, running, cache>>
          /\ m.operation = "attach" /\ Answer(m, "succeeded", attachments + 1)
          /\ toExtension' \subseteq toExtension
      BY <1>3 DEF Attach, Takes
    <2>2. Ages
      BY <1>2, <2>1 DEF Ages
    <2>3. attachments + 1 \in Nat /\ attachments + 1 # 0
      BY <1>2
    <2>4. Flow
      BY <1>1, <2>1, <2>2, <2>3, Telling
    <2> QED
      BY <2>1, <2>4, Fewer DEF Remembers
  <1>4. CASE AttachFails(m) \/ RefuseStale(m)
    <2>1. /\ UNCHANGED <<extGeneration, running, cache, attachment, attachments>>
          /\ toExtension' \subseteq toExtension
          /\ \E outcome \in {"failed", "refused"} :
                 Answer(m, outcome, 0) /\ (outcome = "failed" => m.operation = "attach")
      BY <1>4 DEF AttachFails, RefuseStale, Takes, extension
    <2>2. PICK outcome \in {"failed", "refused"} :
                 Answer(m, outcome, 0) /\ (outcome = "failed" => m.operation = "attach")
      BY <2>1
    <2>3. Ages
      BY <2>1, Unaged
    <2>4. Flow
      BY <1>1, <2>1, <2>2, <2>3, Telling
    <2> QED
      BY <2>1, <2>4, Fewer DEF Remembers
  <1>5. CASE TakeCommand(m)
    <2> DEFINE c == [ticket |-> m.ticket, try |-> m.try, attachment |-> m.attachment, stage |-> "sent"]
    <2>1. /\ running' = running \cup {c} /\ UNCHANGED <<cache, toBroker, attachment, attachments>>
          /\ toExtension' = toExtension \ {m} /\ m.operation = "send"
      BY <1>5 DEF TakeCommand, Takes
    <2>2. c \in Command /\ Same(c, m) /\ c.attachment = m.attachment
      BY <1>1 DEF Command, Same
    <2> HIDE DEF c
    <2>3. m \in Sent /\ Sent' = Sent \ {m}
      BY <2>1 DEF Sent
    <2>4. Carries
      BY <2>1, <2>2, <2>3 DEF Carries
    <2>5. Flow
      BY <2>1, Reading
    <2> QED
      BY <2>1, <2>4, <2>5 DEF Remembers
  <1>6. CASE Reconcile(m)
    <2>1. /\ UNCHANGED <<extGeneration, running, cache, attachment, attachments>>
          /\ m.operation = "reconcile" /\ toExtension' \subseteq toExtension
      BY <1>6 DEF Reconcile, Takes, extension
    <2>2. PICK found \in SUBSET {e \in cache : e.ticket = m.ticket /\ e.try = m.try
                                                  /\ e.attachment = m.attachment} :
             Answer(m, IF found = {} THEN "not_found"
                       ELSE IF \E e \in found : e.ok THEN "succeeded" ELSE "failed", 0)
      BY <1>6 DEF Reconcile
    <2> DEFINE outcome == IF found = {} THEN "not_found"
                          ELSE IF \E e \in found : e.ok THEN "succeeded" ELSE "failed"
    <2>3. outcome \in {"refused", "succeeded", "failed", "not_found"}
          /\ (outcome \in {"succeeded", "failed"} =>
                  \E e \in cache : e.ticket = m.ticket /\ e.try = m.try)
      BY <2>2
    <2>4. Answer(m, outcome, 0)
      BY <2>2
    <2> HIDE DEF outcome
    <2>5. outcome \in {"succeeded", "failed"} =>
              m.try <= tries'[m.ticket] /\ \A x \in Sent' \cup running' : ~Same(x, m)
      <3> SUFFICES ASSUME outcome \in {"succeeded", "failed"}
                   PROVE  m.try <= tries'[m.ticket] /\ \A x \in Sent' \cup running' : ~Same(x, m)
        OBVIOUS
      <3>1. PICK e \in cache : e.ticket = m.ticket /\ e.try = m.try
        BY <2>3
      <3>2. e.try <= tries[e.ticket] /\ \A x \in Sent \cup running : ~Same(x, e)
        BY DEF EInv, Reported
      <3>3. Sent' \subseteq Sent /\ running' = running
        BY <2>1 DEF Sent
      <3> QED
        BY <3>1, <3>2, <3>3 DEF Same
    <2>6. Ages
      BY <2>1, Unaged
    <2>7. Flow
      BY <1>1, <2>1, <2>3, <2>4, <2>5, <2>6, Telling
    <2> QED
      BY <2>1, <2>7, Fewer DEF Remembers
  <1> QED
    BY <1>3, <1>4, <1>5, <1>6

LEMMA Running ==
  ASSUME IInv, EInv, UNCHANGED tries, Len(toBroker') \in Nat, NEW c \in running,
         RunCommand(c) \/ ReportCommand(c)
  PROVE  Flow /\ Carries /\ Remembers
  <1>1. /\ c \in Command /\ c.ticket \in Ticket /\ c.try \in Nat /\ c.attachment \in Nat
        /\ c.stage \in {"sent", "ok", "error"}
    BY DEF IInv, Types, RecordTypes, Command
  <1>2. CASE RunCommand(c)
    <2> DEFINE d == [c EXCEPT !.stage =
                        IF attachment = c.attachment /\ c.ticket \notin Oversize THEN "ok" ELSE "error"]
    <2>1. /\ running' = (running \ {c}) \cup {d}
          /\ UNCHANGED <<cache, toExtension, toBroker, attachment, attachments>>
      BY <1>2 DEF RunCommand, wire
    <2>2. d \in Command /\ Same(d, c) /\ d.attachment = c.attachment
      BY <1>1 DEF Command, Same
    <2> HIDE DEF d
    <2>3. Sent' = Sent
      BY <2>1 DEF Sent
    <2>4. Carries
      BY <2>1, <2>2, <2>3 DEF Carries
    <2>5. Flow
      BY <2>1, Reading
    <2> QED
      BY <2>1, <2>4, <2>5 DEF Remembers
  <1>3. CASE ReportCommand(c)
    <2> DEFINE o == Outcome(c, c.stage = "ok" /\ extGeneration # 0)
    <2>1. /\ running' = running \ {c} /\ cache' \subseteq cache \cup {o}
          /\ UNCHANGED <<extGeneration, toExtension, attachment, attachments>>
      BY <1>3 DEF ReportCommand, Remember
    <2>2. o.ticket = c.ticket /\ o.try = c.try
      BY DEF Outcome
    <2> HIDE DEF o
    <2>3. c.try <= tries[c.ticket] /\ \A x \in Sent' \cup running' : ~Same(x, c)
      BY <2>1 DEF EInv, Once, Sent
    <2>4. Remembers
      BY <2>1, <2>2, <2>3 DEF Remembers, Same
    <2>5. Carries
      BY <2>1, Fewer
    <2>6. CASE extGeneration = 0
      <3>1. toBroker' = toBroker
        BY <1>3, <2>6 DEF ReportCommand
      <3> QED
        BY <2>1, <2>4, <2>5, <3>1, Reading
    <2>7. CASE extGeneration # 0
      <3> DEFINE n == [operation |-> "send", ticket |-> c.ticket, try |-> c.try]
                 outcome == IF c.stage = "ok" THEN "succeeded" ELSE "failed"
      <3>1. Answer(n, outcome, 0)
        BY <1>3, <2>7 DEF ReportCommand
      <3>2. n.operation = "send" /\ n.ticket = c.ticket /\ n.try = c.try
        OBVIOUS
      <3>3. outcome \in {"refused", "succeeded", "failed", "not_found"}
        OBVIOUS
      <3> HIDE DEF n, outcome
      <3>4. n.operation \in Operation /\ n.ticket \in Ticket /\ n.try \in Nat
        BY <1>1, <3>2 DEF Operation
      <3>5. n.try <= tries'[n.ticket] /\ \A x \in Sent' \cup running' : ~Same(x, n)
        BY <2>3, <3>2 DEF Same
      <3>6. Ages
        BY <2>1, Unaged
      <3>7. Flow
        BY <2>1, <2>7, <3>1, <3>2, <3>3, <3>4, <3>5, <3>6, Telling
      <3> QED
        BY <2>4, <2>5, <3>7
    <2> QED
      BY <2>6, <2>7
  <1> QED
    BY <1>2, <1>3

-----------------------------------------------------------------------------
(* What a step that is not the worker's makes of the connections and of    *)
(* what the broker knows of the attachment: it reads a message that shows  *)
(* it, binds the connection that was greeted, or knows what it knew.       *)
Reads ==
    /\ toBroker # <<>> /\ toBroker' = Tail(toBroker)
    /\ toBroker[1].generation = bound /\ Shows(toBroker[1])
    /\ UNCHANGED <<bound, extGeneration>>
    /\ \/ UNCHANGED <<dbAttachment, locator>>
       \/ dbAttachment' = View(toBroker[1])

Knows ==
    /\ \/ extGeneration' \in {extGeneration, 0}
       \/ extGeneration' = dbGeneration + 1 /\ UNCHANGED <<toBroker, bound>>
    /\ \/ Reads
       \/ /\ UNCHANGED <<dbAttachment, locator>>
          /\ \/ bound' \in {bound, 0}
             \/ /\ greeting = extGeneration /\ extGeneration # 0
                /\ UNCHANGED extGeneration /\ bound' = extGeneration

Besides == Aside /\ Flow /\ Carries /\ Remembers /\ Knows

LEMMA Cases ==
  ASSUME IInv, EInv, [Next]_vars
  PROVE  Broker \/ ExtensionRestarts \/ Besides
  <1>1. Len(toBroker') \in Nat
    BY Preserved DEF IInv, Types, RecordTypes
  <1>2. ASSUME NEW t \in Ticket, StartWork(t)
        PROVE  Broker
    BY <1>2, Starting
  <1>3. CASE OperationTimesOut \/ ReceiveAnswer
    BY <1>3, TimingOut, Answering
  <1>4. CASE DropStaleMessage \/ LateAnswer
    <2>1. /\ UNCHANGED <<tickets, endpoint, process, extension, toExtension>>
          /\ toBroker # <<>> /\ toBroker' = Tail(toBroker)
      BY <1>4 DEF DropStaleMessage, LateAnswer, Receives
    <2>2. Flow
      BY <1>1, <2>1, Reading DEF extension
    <2>3. Carries /\ Remembers
      BY <2>1, Fewer DEF Remembers, extension
    <2>4. Knows
      BY <2>1 DEF Knows, endpoint, process, extension
    <2>5. Aside
      BY <2>1, Quiet DEF tickets, endpoint, process
    <2> QED
      BY <2>2, <2>3, <2>4, <2>5 DEF Besides
  <1>5. CASE ReceiveInventory \/ ReceiveDetach
    <2>1. /\ UNCHANGED <<extension, toExtension, bound>>
          /\ toBroker # <<>> /\ toBroker' = Tail(toBroker)
      BY <1>5 DEF ReceiveInventory, ReceiveDetach, Receives, process
    <2>2. /\ Head(toBroker) = toBroker[1] /\ toBroker[1].generation = bound
          /\ toBroker[1].kind = IF ReceiveInventory THEN "inventory" ELSE "detached"
      BY <1>5, Arrives DEF ReceiveInventory, ReceiveDetach
    <2>3. Shows(toBroker[1])
      BY <2>2 DEF Shows
    <2>4. UNCHANGED <<dbAttachment, locator>> \/ dbAttachment' = View(toBroker[1])
      <3>1. CASE ReceiveInventory
        BY <2>2, <3>1 DEF ReceiveInventory, View
      <3>2. CASE ReceiveDetach /\ ~ReceiveInventory
        BY <2>2, <3>2 DEF ReceiveDetach, View
      <3> QED
        BY <1>5, <3>1, <3>2
    <2>5. Knows
      BY <2>1, <2>2, <2>3, <2>4 DEF Knows, Reads, extension
    <2>6. Flow
      BY <1>1, <2>1, Reading DEF extension
    <2>7. Carries /\ Remembers
      BY <2>1, Fewer DEF Remembers, extension
    <2> QED
      BY <1>5, <2>5, <2>6, <2>7, InventoryPauses, DetachPauses DEF Besides
  <1>6. CASE \/ Authenticate \/ BrokerSeesClose \/ BrokerSeesUnauthenticatedClose \/ Hello
             \/ SocketDies \/ SocketBreaks \/ BrokerRestarts \/ UNCHANGED vars
    <2>1. /\ UNCHANGED <<attachment, attachments, running, cache, dbAttachment, locator>>
          /\ toBroker' \in {toBroker, <<>>} /\ toExtension' \subseteq toExtension
      BY <1>6 DEF Authenticate, BrokerSeesClose, BrokerSeesUnauthenticatedClose, Hello, SocketDies,
         SocketBreaks, LoseSocket, BrokerRestarts, vars, endpoint, process, extension, wire
    <2>2. Flow
      BY <1>1, <2>1, Reading
    <2>3. Carries /\ Remembers
      BY <2>1, Fewer DEF Remembers
    <2>4. \/ extGeneration' \in {extGeneration, 0}
          \/ extGeneration' = dbGeneration + 1 /\ UNCHANGED <<toBroker, bound>>
      BY <1>6 DEF Authenticate, BrokerSeesClose, BrokerSeesUnauthenticatedClose, Hello, SocketDies,
         SocketBreaks, LoseSocket, BrokerRestarts, vars, process, extension, wire
    <2>5. \/ bound' \in {bound, 0}
          \/ /\ greeting = extGeneration /\ extGeneration # 0
             /\ UNCHANGED extGeneration /\ bound' = extGeneration
      BY <1>6 DEF Authenticate, BrokerSeesClose, BrokerSeesUnauthenticatedClose, Hello, SocketDies,
         SocketBreaks, LoseSocket, BrokerRestarts, vars, process, extension
    <2>6. Knows
      BY <2>1, <2>4, <2>5 DEF Knows
    <2>7. Aside
      <3>1. CASE BrokerSeesClose \/ BrokerSeesUnauthenticatedClose \/ BrokerRestarts
        BY <3>1, CloseIsSeen, GreetingCloseIsSeen, RestartPauses
      <3>2. CASE Authenticate \/ Hello \/ SocketDies \/ SocketBreaks \/ UNCHANGED vars
        BY <3>2, Quiet DEF Authenticate, Hello, SocketDies, SocketBreaks, LoseSocket, tickets,
           endpoint, process, extension, wire, vars
      <3> QED
        BY <1>6, <3>1, <3>2
    <2> QED
      BY <2>2, <2>3, <2>6, <2>7 DEF Besides
  <1>7. CASE SendInventory \/ (ChromeDetaches /\ extGeneration # 0)
    <2>1. /\ UNCHANGED <<tickets, endpoint, process, running, cache, toExtension, extGeneration>>
          /\ extGeneration # 0
          /\ \/ Notify("inventory", attachment) /\ UNCHANGED <<attachment, attachments>>
             \/ Notify("detached", attachment) /\ attachment' = 0 /\ UNCHANGED attachments
      BY <1>7 DEF SendInventory, ChromeDetaches, extension
    <2>2. attachment \in Nat /\ attachments \in Nat /\ attachment <= attachments
      BY DEF IInv, Types, EndpointTypes, EInv, Views
    <2>3. Ages
      BY <2>1, <2>2 DEF Ages
    <2>4. Flow
      BY <1>1, <2>1, <2>3, Noticing
    <2>5. Carries /\ Remembers
      BY <2>1, Fewer DEF Remembers
    <2>6. Knows
      BY <2>1 DEF Knows, endpoint, process
    <2>7. Aside
      BY <2>1, Quiet DEF tickets, endpoint, process
    <2> QED
      BY <2>4, <2>5, <2>6, <2>7 DEF Besides
  <1>8. CASE ChromeDetaches /\ extGeneration = 0
    <2>1. /\ UNCHANGED <<tickets, endpoint, process, running, cache, wire, extGeneration>>
          /\ attachment' = 0 /\ UNCHANGED attachments
      BY <1>8 DEF ChromeDetaches, wire
    <2>2. attachment \in Nat /\ attachments \in Nat /\ attachment <= attachments
      BY DEF IInv, Types, EndpointTypes, EInv, Views
    <2>3. Ages
      BY <2>1, <2>2 DEF Ages
    <2>4. Flow
      BY <1>1, <2>1, <2>3, Lengths DEF Flow, wire
    <2>5. Carries /\ Remembers
      BY <2>1, Fewer DEF Remembers, wire
    <2>6. Knows
      BY <2>1 DEF Knows, endpoint, process
    <2>7. Aside
      BY <2>1, Quiet DEF tickets, endpoint, process, wire
    <2> QED
      BY <2>4, <2>5, <2>6, <2>7 DEF Besides
  <1>9. ASSUME NEW m \in toExtension,
               Attach(m) \/ AttachFails(m) \/ TakeCommand(m) \/ Reconcile(m) \/ RefuseStale(m)
        PROVE  Besides
    <2>1. UNCHANGED <<tickets, endpoint, process, extGeneration>> /\ toExtension' \subseteq toExtension
      BY <1>9 DEF Attach, AttachFails, TakeCommand, Reconcile, RefuseStale, Takes, extension
    <2>2. Aside
      BY <2>1, Quiet DEF tickets, endpoint, process
    <2>3. Knows
      BY <2>1 DEF Knows, endpoint, process
    <2>4. Flow /\ Carries /\ Remembers
      BY <1>1, <1>9, <2>1, Handling DEF tickets
    <2> QED
      BY <2>2, <2>3, <2>4 DEF Besides
  <1>10. ASSUME NEW c \in running, RunCommand(c) \/ ReportCommand(c)
         PROVE  Besides
    <2>1. UNCHANGED <<tickets, endpoint, process, extGeneration, toExtension>>
      BY <1>10 DEF RunCommand, ReportCommand, wire
    <2>2. Aside
      BY <2>1, Quiet DEF tickets, endpoint, process
    <2>3. Knows
      BY <2>1 DEF Knows, endpoint, process
    <2>4. Flow /\ Carries /\ Remembers
      BY <1>1, <1>10, <2>1, Running DEF tickets
    <2> QED
      BY <2>2, <2>3, <2>4 DEF Besides
  <1>11. ASSUME NEW t \in Ticket, HumanConfirms(t) \/ HumanRestarts(t)
         PROVE  Besides
    <2>1. UNCHANGED <<endpoint, process, extension, wire>>
      BY <1>11 DEF HumanConfirms, HumanRestarts
    <2>2. Flow
      BY <1>1, <2>1, Reading DEF extension, wire
    <2>3. Carries /\ Remembers
      BY <2>1, Fewer DEF Remembers, extension, wire
    <2>4. Knows
      BY <2>1 DEF Knows, endpoint, process, extension
    <2> QED
      BY <1>11, <2>2, <2>3, <2>4, HumanEnds DEF Besides
  <1> QED
    BY <1>2, <1>3, <1>4, <1>5, <1>6, <1>7, <1>8, <1>9, <1>10, <1>11 DEF Next, BrokerStep, ExtensionStep

-----------------------------------------------------------------------------
(* Each part of the invariant, over the three kinds of steps.              *)
LEMMA OnItsWay ==
  ASSUME IInv
  PROVE  /\ Sent \subseteq Request /\ running \subseteq Command
         /\ \A x \in Sent \cup running :
                x.ticket \in Ticket /\ x.try \in Nat /\ x.attachment \in Nat
         /\ tries \in [Ticket -> Nat]
         /\ \A i \in 1 .. Len(toBroker) : toBroker[i] \in Message
         /\ \A i \in 1 .. Len(toBroker) : toBroker[i].kind = "answer" => toBroker[i] \in Answered
         /\ \A e \in cache : e.ticket \in Ticket /\ e.try \in Nat
  <1>1. /\ toExtension \subseteq Request /\ running \subseteq Command /\ cache \subseteq Remembered
        /\ toBroker \in Seq(Message) /\ tries \in [Ticket -> Nat]
    BY DEF IInv, Types, RecordTypes, RowTypes
  <1>2. Sent \subseteq Request
    BY <1>1 DEF Sent
  <1>3. \A x \in Sent : x.ticket \in Ticket /\ x.try \in Nat /\ x.attachment \in Nat
    BY <1>2 DEF Request
  <1>4. \A x \in running : x.ticket \in Ticket /\ x.try \in Nat /\ x.attachment \in Nat
    BY <1>1 DEF Command
  <1>5. \A i \in 1 .. Len(toBroker) : toBroker[i] \in Message
    BY <1>1
  <1>6. \A m \in Message : m.kind = "answer" => m \in Answered
    BY DEF Message, Noticed
  <1>7. \A e \in cache : e.ticket \in Ticket /\ e.try \in Nat
    BY <1>1 DEF Remembered
  <1> QED
    BY <1>1, <1>2, <1>3, <1>4, <1>5, <1>6, <1>7

(* The extension restarts without what it was asked for.                   *)
LEMMA Restarted ==
  ASSUME IInv, ExtensionRestarts
  PROVE  /\ Sent' = {} /\ running' = {} /\ extGeneration' = 0
         /\ attachment' = 0 /\ attachments' = 0
         /\ UNCHANGED <<tickets, endpoint, process, cache, executed, toBroker>>
  BY DEF ExtensionRestarts, Sent

LEMMA OnceStep ==
  ASSUME IInv, IInv', EInv, Broker \/ ExtensionRestarts \/ Besides
  PROVE  Once'
  <1>1. /\ tries \in [Ticket -> Nat] /\ tries' \in [Ticket -> Nat]
        /\ \A x \in Sent \cup running : x.ticket \in Ticket /\ x.try \in Nat
    BY OnItsWay DEF IInv, Types, RowTypes
  <1>2. Once
    BY DEF EInv
  <1>3. CASE Broker
    <2>1. /\ running' = running /\ \A t \in Ticket : tries[t] <= tries'[t]
          /\ \/ Sent' = Sent
             \/ \E x : Sent' = Sent \cup {x} /\ New(x)
      BY <1>3 DEF Broker, Sending, extension
    <2>2. CASE Sent' = Sent
      BY <1>1, <1>2, <2>1, <2>2 DEF Once
    <2>3. ASSUME NEW x, Sent' = Sent \cup {x}, New(x)
          PROVE  Once'
      <3>1. /\ x.ticket \in Ticket /\ x.try = tries[x.ticket] + 1 /\ x.try = tries'[x.ticket]
        BY <2>3 DEF New, Request
      <3>2. \A y \in Sent \cup running : ~Same(x, y) /\ ~Same(y, x)
        BY <1>1, <1>2, <3>1 DEF Once, Same
      <3>3. \A y \in Sent \cup running : y.try > 0 /\ y.try <= tries'[y.ticket]
        BY <1>1, <1>2, <2>1 DEF Once
      <3>4. x.try > 0 /\ x.try <= tries'[x.ticket]
        BY <1>1, <3>1
      <3> QED
        BY <1>2, <2>1, <2>3, <3>2, <3>3, <3>4 DEF Once
    <2> QED
      BY <2>1, <2>2, <2>3
  <1>4. CASE ExtensionRestarts
    BY <1>4, Restarted DEF Once
  <1>5. CASE Besides
    <2>1. tries' = tries /\ Carries
      BY <1>5 DEF Besides, Aside, Elsewhere
    <2>2. CASE Sent' \subseteq Sent /\ running' \subseteq running
      BY <1>2, <2>1, <2>2 DEF Once
    <2>3. ASSUME NEW m \in Sent, NEW c \in Command, Sent' = Sent \ {m},
                 running' = running \cup {c}, Same(c, m)
          PROVE  Once'
      <3>1. \A n \in Sent' : ~Same(n, c) /\ ~Same(c, n)
        BY <1>2, <2>3 DEF Once, Same
      <3>2. \A d \in running : ~Same(c, d) /\ ~Same(d, c)
        BY <1>2, <2>3 DEF Once, Same
      <3>3. c.try > 0 /\ c.try <= tries[c.ticket]
        BY <1>2, <2>3 DEF Once, Same
      <3> QED
        BY <1>2, <2>1, <2>3, <3>1, <3>2, <3>3 DEF Once
    <2>4. ASSUME NEW c \in running, NEW d \in Command, Sent' = Sent,
                 running' = (running \ {c}) \cup {d}, Same(d, c)
          PROVE  Once'
      <3>1. \A n \in Sent : ~Same(n, d)
        BY <1>2, <2>4 DEF Once, Same
      <3>2. \A b \in running \ {c} : ~Same(d, b) /\ ~Same(b, d)
        BY <1>2, <2>4 DEF Once, Same
      <3>3. d.try > 0 /\ d.try <= tries[d.ticket]
        BY <1>2, <2>4 DEF Once, Same
      <3> QED
        BY <1>2, <2>1, <2>4, <3>1, <3>2, <3>3 DEF Once
    <2> QED
      BY <2>1, <2>2, <2>3, <2>4 DEF Carries
  <1> QED
    BY <1>3, <1>4, <1>5

(* A command on its way after a step was on its way before, or is new.     *)
LEMMA WasOnItsWay ==
  ASSUME IInv, EInv, Broker \/ ExtensionRestarts \/ Besides, NEW y \in Sent' \cup running'
  PROVE  \/ \E x \in Sent \cup running : Same(x, y) /\ x.attachment = y.attachment
         \/ Broker /\ New(y)
  <1>1. CASE Broker
    BY <1>1 DEF Broker, Sending, extension, Same
  <1>2. CASE ExtensionRestarts
    BY <1>2, Restarted
  <1>3. CASE Besides
    BY <1>3 DEF Besides, Carries, Same
  <1> QED
    BY <1>1, <1>2, <1>3

(* A message of the queue was in it before, or is told.                    *)
LEMMA WasThere ==
  ASSUME IInv, EInv, Broker \/ ExtensionRestarts \/ Besides, Len(toBroker') \in Nat,
         NEW i \in 1 .. Len(toBroker')
  PROVE  \/ \E j \in 1 .. Len(toBroker) : toBroker'[i] = toBroker[j]
         \/ Besides /\ Fresh(toBroker'[i])
  <1>1. CASE Broker
    <2>1. Dropped
      BY <1>1, Lengths DEF Broker
    <2> QED
      BY <2>1 DEF Dropped
  <1>2. CASE ExtensionRestarts
    BY <1>2, Restarted
  <1>3. CASE Besides
    BY <1>3 DEF Besides, Flow, Dropped, Told
  <1> QED
    BY <1>1, <1>2, <1>3

LEMMA ReportedStep ==
  ASSUME IInv, IInv', EInv, Broker \/ ExtensionRestarts \/ Besides
  PROVE  Reported'
  <1>1. /\ tries \in [Ticket -> Nat] /\ tries' \in [Ticket -> Nat] /\ Len(toBroker') \in Nat
        /\ \A t \in Ticket : tries[t] <= tries'[t]
    <2>1. tries \in [Ticket -> Nat] /\ tries' \in [Ticket -> Nat] /\ Len(toBroker') \in Nat
      BY DEF IInv, Types, RowTypes, RecordTypes
    <2>2. Broker => \A t \in Ticket : tries[t] <= tries'[t]
      BY DEF Broker, Sending
    <2>3. ~Broker => tries' = tries
      BY Restarted DEF Besides, Aside, Elsewhere, tickets
    <2> QED
      BY <2>1, <2>2, <2>3
  <1>2. ASSUME NEW e, e.ticket \in Ticket, e.try \in Nat, e.try <= tries[e.ticket],
               \A x \in Sent \cup running : ~Same(x, e)
        PROVE  e.try <= tries'[e.ticket] /\ \A y \in Sent' \cup running' : ~Same(y, e)
    <2>1. e.try <= tries'[e.ticket]
      BY <1>1, <1>2
    <2>2. ASSUME NEW y \in Sent' \cup running', Same(y, e)
          PROVE  FALSE
      <3>1. CASE \E x \in Sent \cup running : Same(x, y) /\ x.attachment = y.attachment
        BY <1>2, <2>2, <3>1 DEF Same
      <3>2. CASE New(y)
        BY <1>1, <1>2, <2>2, <3>2 DEF New, Same
      <3> QED
        BY <2>2, <3>1, <3>2, WasOnItsWay
    <2> QED
      BY <2>1, <2>2
  <1>3. ASSUME NEW e \in cache'
        PROVE  e.try <= tries'[e.ticket] /\ \A y \in Sent' \cup running' : ~Same(y, e)
    <2>1. CASE e \in cache
      <3>1. e.ticket \in Ticket /\ e.try \in Nat
        BY <2>1, OnItsWay
      <3> QED
        BY <1>2, <2>1, <3>1 DEF EInv, Reported
    <2>2. CASE Besides /\ e \notin cache
      BY <1>3, <2>2 DEF Besides, Remembers, Aside, Elsewhere
    <2> QED
      BY <1>3, <2>1, <2>2, Restarted DEF Broker, extension
  <1>4. ASSUME NEW i \in 1 .. Len(toBroker'), Reports(toBroker'[i])
        PROVE  /\ toBroker'[i].try <= tries'[toBroker'[i].ticket]
               /\ \A y \in Sent' \cup running' : ~Same(y, toBroker'[i])
    <2>1. CASE Fresh(toBroker'[i])
      BY <1>4, <2>1 DEF Fresh
    <2>2. CASE \E j \in 1 .. Len(toBroker) : toBroker'[i] = toBroker[j]
      <3>1. PICK j \in 1 .. Len(toBroker) : toBroker'[i] = toBroker[j]
        BY <2>2
      <3>2. toBroker[j].ticket \in Ticket /\ toBroker[j].try \in Nat
        BY <1>4, <3>1, OnItsWay DEF Reports, Answered
      <3> QED
        BY <1>2, <1>4, <3>1, <3>2 DEF EInv, Reported
    <2> QED
      BY <1>1, <2>1, <2>2, WasThere
  <1>5. (\A e \in cache :
           e.try <= tries[e.ticket] /\ \A x \in Sent \cup running : ~Same(x, e))'
    BY <1>3 DEF Same
  <1>6. (\A i \in 1 .. Len(toBroker) :
           Reports(toBroker[i]) =>
               /\ toBroker[i].try <= tries[toBroker[i].ticket]
               /\ \A x \in Sent \cup running : ~Same(x, toBroker[i]))'
    <2> SUFFICES ASSUME NEW i \in 1 .. Len(toBroker'), Reports(toBroker[i])'
                 PROVE  /\ toBroker'[i].try <= tries'[toBroker'[i].ticket]
                        /\ \A x \in Sent' \cup running' : ~Same(x, toBroker[i])'
      OBVIOUS
    <2>1. Reports(toBroker'[i])
      BY DEF Reports
    <2> QED
      BY <1>4, <2>1 DEF Same
  <1> QED
    BY <1>5, <1>6 DEF Reported

(* What the pump leaves to a worker later is no work for a stale locator.  *)
LEMMA PumpStep ==
  ASSUME IInv, EInv, [Next]_vars, NEW u \in Ticket,
         state'[u] = "running", pause'[u] = "none", waiting' = Idle, Connected'
  PROVE  locator' = dbGeneration'
  <1>1. RowTypes /\ toBroker \in Seq(Message)
    BY DEF IInv, Types, RecordTypes
  <1>2. bound' # 0
    BY DEF Connected
  <1>3. ASSUME NEW t \in Ticket, WorkDone(t)
        PROVE  FALSE
    <2>1. IsHead(t) /\ Others(t) /\ Mine(t)
      BY <1>3 DEF WorkDone, Worked
    <2>2. u # t
      BY <2>1 DEF Mine
    <2>3. IsHead(u)
      BY <2>1, <2>2 DEF Others, EInv, Unsent
    <2> QED
      BY <2>1, <2>2, <2>3, Heads
  <1>4. CASE /\ UNCHANGED <<state, pause, waiting, bound, dbConnected, dbGeneration, locator>>
    BY <1>4 DEF EInv, Unsent, Connected
  <1>5. CASE Pumped /\ waiting' = waiting /\ state[u] = "running" /\ pause[u] = "none"
    BY <1>5 DEF Pumped
  <1>6. CASE ReceiveInventory
    <2>1. /\ dbConnected /\ bound = dbGeneration /\ UNCHANGED dbGeneration
          /\ Head(toBroker).generation = bound
      BY <1>6 DEF ReceiveInventory, Receives, Connected
    <2> QED
      BY <1>6, <2>1 DEF ReceiveInventory
  <1>7. CASE ReceiveDetach
    BY <1>7 DEF ReceiveDetach, PausedBy
  <1>8. CASE BrokerSeesClose \/ BrokerRestarts
    BY <1>2, <1>8 DEF BrokerSeesClose, BrokerRestarts
  <1>9. CASE Authenticate \/ Hello
    BY <1>5, <1>9 DEF Authenticate, Hello, tickets
  <1>10. CASE BrokerSeesUnauthenticatedClose
    <2>1. Pumped /\ waiting' = waiting /\ state' = state
          /\ pause' \in {PausedBy("extension_disconnected"), pause}
      BY <1>10 DEF BrokerSeesUnauthenticatedClose
    <2>2. pause' # PausedBy("extension_disconnected")
      BY <2>1 DEF PausedBy
    <2> QED
      BY <1>5, <2>1, <2>2
  <1>11. ASSUME NEW t \in Ticket, HumanConfirms(t) \/ HumanRestarts(t)
         PROVE  locator' = dbGeneration'
    <2>1. Pumped /\ waiting' = waiting
      BY <1>11 DEF HumanConfirms, HumanRestarts, process
    <2>2. CASE HumanConfirms(t)
      <3>1. u # t
        BY <1>1, <2>2 DEF HumanConfirms, RowTypes
      <3> QED
        BY <1>1, <1>5, <2>1, <2>2, <3>1 DEF HumanConfirms, RowTypes
    <2>3. CASE HumanRestarts(t)
      BY <1>1, <1>5, <2>1, <2>3 DEF HumanRestarts, RowTypes
    <2> QED
      BY <1>11, <2>2, <2>3
  <1>12. ASSUME NEW t \in Ticket, StartWork(t)
         PROVE  FALSE
    BY <1>3, <1>12, Begins
  <1>13. CASE OperationTimesOut \/ ReceiveAnswer
    <2>1. waiting # Idle
      <3>1. CASE OperationTimesOut
        BY <3>1 DEF OperationTimesOut
      <3>2. CASE ReceiveAnswer
        <4>1. Head(toBroker) \in Answered /\ waiting.ticket = Head(toBroker).ticket
          BY <3>2, Arrives DEF ReceiveAnswer, Answers, Message, Noticed
        <4> QED
          BY <4>1 DEF Answered, Idle, Ticket
      <3> QED
        BY <1>13, <3>1, <3>2
    <2>2. waiting.ticket \in Ticket
      BY <2>1 DEF IInv, Types, RecordTypes, Asked
    <2> QED
      BY <1>3, <1>13, <2>2, TimesOut, AnswerArrives
  <1>14. CASE DropStaleMessage \/ LateAnswer
    BY <1>4, <1>14 DEF DropStaleMessage, LateAnswer, tickets, endpoint, process
  <1>15. CASE SendInventory \/ SocketDies \/ SocketBreaks \/ ChromeDetaches \/ ExtensionRestarts
              \/ UNCHANGED vars
    BY <1>4, <1>15 DEF SendInventory, SocketDies, SocketBreaks, LoseSocket, ChromeDetaches,
       ExtensionRestarts, vars, tickets, endpoint, process
  <1>16. ASSUME NEW m \in toExtension,
                Attach(m) \/ AttachFails(m) \/ TakeCommand(m) \/ Reconcile(m) \/ RefuseStale(m)
         PROVE  locator' = dbGeneration'
    BY <1>4, <1>16 DEF Attach, AttachFails, TakeCommand, Reconcile, RefuseStale, tickets, endpoint,
       process
  <1>17. ASSUME NEW c \in running, RunCommand(c) \/ ReportCommand(c)
         PROVE  locator' = dbGeneration'
    BY <1>4, <1>17 DEF RunCommand, ReportCommand, tickets, endpoint, process
  <1> QED
    BY <1>6, <1>7, <1>8, <1>9, <1>10, <1>11, <1>12, <1>13, <1>14, <1>15, <1>16, <1>17
       DEF Next, BrokerStep, ExtensionStep

LEMMA UnsentStep ==
  ASSUME IInv, IInv', EInv, [Next]_vars
  PROVE  Unsent'
  <1>1. Unsent /\ Rows /\ RowTypes
    BY DEF EInv, IInv, Types
  <1>2. Aside \/ \E t \in Ticket : WorkDone(t)
    BY Steps
  <1>3. Broker \/ Aside
    <2>1. ExtensionRestarts => Aside
      BY Quiet DEF ExtensionRestarts, tickets, endpoint, process
    <2> QED
      BY <2>1, Cases DEF Besides
  <1>4. ASSUME NEW t \in Ticket, WorkDone(t)
        PROVE  /\ IsHead(t) /\ Others(t) /\ Mine(t)
               /\ \A u \in Ticket : u < t => ~Open(u)
    BY <1>4 DEF WorkDone, Worked, IsHead
  <1>5. ASSUME NEW u \in Ticket, state'[u] = "queued"
        PROVE  tries'[u] = 0
    <2>1. ASSUME NEW t \in Ticket, WorkDone(t)
          PROVE  tries'[u] = 0
      <3>1. u # t
        BY <1>4, <1>5, <2>1 DEF Mine
      <3> QED
        BY <1>1, <1>4, <1>5, <2>1, <3>1 DEF Others, Unsent
    <2>2. Aside => tries'[u] = 0
      BY <1>1, <1>5 DEF Aside, Elsewhere, Unsent
    <2> QED
      BY <1>2, <2>1, <2>2
  <1>6. ASSUME NEW u \in Ticket, state'[u] \notin {"queued", "running"}
        PROVE  basis'[u] # "none"
    <2>1. state'[u] \in {"succeeded", "failed"}
      BY <1>6 DEF IInv, Types, RowTypes, State
    <2>2. ASSUME NEW t \in Ticket, WorkDone(t)
          PROVE  basis'[u] # "none"
      <3>1. CASE u = t
        BY <1>4, <2>1, <2>2, <3>1 DEF Mine
      <3>2. CASE u # t
        BY <1>1, <1>4, <1>6, <2>2, <3>2 DEF Others, Unsent, Open
      <3> QED
        BY <3>1, <3>2
    <2>3. Aside => basis'[u] # "none"
      BY <1>1, <1>6 DEF Aside, Elsewhere, Unsent, Open
    <2> QED
      BY <1>2, <2>2, <2>3
  <1>7. ASSUME NEW u \in Ticket, basis'[u] = "locator"
        PROVE  tries'[u] = 0
    <2>1. CASE basis[u] = "locator"
      <3>1. ~Open(u) /\ tries[u] = 0
        BY <1>1, <2>1 DEF Rows, Unsent
      <3>2. ASSUME NEW t \in Ticket, WorkDone(t)
            PROVE  tries'[u] = tries[u]
        <4>1. u # t
          BY <1>4, <3>1, <3>2, Heads
        <4> QED
          BY <1>4, <3>2, <4>1 DEF Others
      <3>3. Aside => tries'[u] = tries[u]
        BY DEF Aside, Elsewhere
      <3> QED
        BY <1>2, <3>1, <3>2, <3>3
    <2>2. CASE basis[u] # "locator"
      <3>1. ~Aside
        BY <1>7, <2>2 DEF Aside, Elsewhere
      <3>2. Ending
        BY <1>3, <3>1 DEF Broker
      <3> QED
        BY <1>7, <2>2, <3>2 DEF Ending
    <2> QED
      BY <2>1, <2>2
  <1>8. ASSUME NEW u \in Ticket, state'[u] = "running"
        PROVE  IsHead(u)'
    <2>1. ASSUME NEW t \in Ticket, WorkDone(t), NEW v \in Ticket, v < u
          PROVE  state'[v] \notin {"queued", "running"}
      <3>1. IsHead(u) \/ u = t
        BY <1>1, <1>4, <1>8, <2>1 DEF Others, Unsent
      <3>2. u = t
        BY <1>4, <2>1, <3>1, Heads
      <3> QED
        BY <1>4, <2>1, <3>2, CdpAssumption DEF Others, Open, Ticket
    <2>2. ASSUME Aside, NEW v \in Ticket, v < u
          PROVE  state'[v] \notin {"queued", "running"}
      <3>1. state[u] = "running"
        BY <1>8, <2>2 DEF Aside, Elsewhere
      <3>2. ~Open(v)
        BY <1>1, <2>2, <3>1 DEF Unsent, IsHead
      <3> QED
        BY <2>2, <3>2 DEF Aside, Elsewhere, Open
    <2> QED
      BY <1>2, <1>8, <2>1, <2>2 DEF IsHead, Open
  <1> QED
    <2>1. \A t \in Ticket :
             /\ state'[t] = "queued" => tries'[t] = 0
             /\ state'[t] = "running" => IsHead(t)'
             /\ state'[t] \notin {"queued", "running"} => basis'[t] # "none"
             /\ basis'[t] = "locator" => tries'[t] = 0
      BY <1>5, <1>6, <1>7, <1>8
    <2>2. \A t \in Ticket :
             state'[t] = "running" /\ pause'[t] = "none" /\ waiting' = Idle /\ Connected'
             => locator' = dbGeneration'
      BY PumpStep
    <2> QED
      BY <2>1, <2>2 DEF Unsent, Open, IsHead, Connected

LEMMA GreetedStep ==
  ASSUME IInv, IInv', EInv, [Next]_vars
  PROVE  Greeted'
  <1>1. EndpointTypes /\ locator <= dbGeneration /\ Greeted /\ EndpointTypes'
    BY DEF IInv, Types, Generations, EInv
  <1> DEFINE Bounds ==
               /\ dbGeneration <= dbGeneration'
               /\ bound' <= dbGeneration' /\ extGeneration' <= dbGeneration'
               /\ greeting' # 0 =>
                      greeting' = dbGeneration' /\ bound' < greeting' /\ locator' < greeting'
  <1>2. Bounds
    <2>1. CASE /\ UNCHANGED <<dbGeneration, locator>> /\ bound' \in {bound, 0}
               /\ greeting' \in {greeting, 0} /\ extGeneration' \in {extGeneration, 0}
      BY <1>1, <2>1 DEF Greeted, EndpointTypes, Generation
    <2>2. CASE Hello
      BY <1>1, <2>2 DEF Hello, Greeted, EndpointTypes, Generation
    <2>3. CASE Authenticate
      BY <1>1, <2>3 DEF Authenticate, Greeted, EndpointTypes, Generation, endpoint, extension
    <2>4. CASE ReceiveInventory
      <3>1. /\ UNCHANGED <<dbGeneration, bound, greeting, extGeneration>>
            /\ Head(toBroker).generation = bound
            /\ locator' = locator \/ bound = dbGeneration
        BY <2>4 DEF ReceiveInventory, Receives, extension
      <3>2. CASE locator' = locator
        BY <2>1, <3>1, <3>2
      <3>3. CASE bound = dbGeneration
        BY <1>1, <3>1, <3>3 DEF Greeted, EndpointTypes, Generation
      <3> QED
        BY <3>1, <3>2, <3>3
    <2>5. ASSUME NEW t \in Ticket, StartWork(t) \/ HumanConfirms(t) \/ HumanRestarts(t)
          PROVE  Bounds
      BY <2>1, <2>5 DEF StartWork, HumanConfirms, HumanRestarts, endpoint, process, extension
    <2>6. CASE OperationTimesOut \/ DropStaleMessage \/ LateAnswer \/ ReceiveAnswer \/ ReceiveDetach
      BY <2>1, <2>6 DEF OperationTimesOut, DropStaleMessage, LateAnswer, ReceiveAnswer,
         ReceiveDetach, endpoint, process, extension
    <2>7. CASE BrokerSeesClose \/ BrokerSeesUnauthenticatedClose \/ BrokerRestarts
      BY <2>1, <2>7 DEF BrokerSeesClose, BrokerSeesUnauthenticatedClose, BrokerRestarts, endpoint,
         extension
    <2>8. CASE \/ SendInventory \/ SocketDies \/ SocketBreaks \/ ChromeDetaches
               \/ ExtensionRestarts \/ UNCHANGED vars
      BY <2>1, <2>8 DEF SendInventory, SocketDies, SocketBreaks, LoseSocket, ChromeDetaches,
         ExtensionRestarts, vars, endpoint, process, extension
    <2>9. ASSUME NEW m \in toExtension,
                 Attach(m) \/ AttachFails(m) \/ TakeCommand(m) \/ Reconcile(m) \/ RefuseStale(m)
          PROVE  Bounds
      BY <2>1, <2>9 DEF Attach, AttachFails, TakeCommand, Reconcile, RefuseStale, endpoint, process,
         extension
    <2>10. ASSUME NEW c \in running, RunCommand(c) \/ ReportCommand(c)
           PROVE  Bounds
      BY <2>1, <2>10 DEF RunCommand, ReportCommand, endpoint, process
    <2> QED
      BY <2>2, <2>3, <2>4, <2>5, <2>6, <2>7, <2>8, <2>9, <2>10 DEF Next, BrokerStep, ExtensionStep
  <1>3. ASSUME NEW i \in 1 .. Len(toBroker')
        PROVE  toBroker'[i].generation <= dbGeneration'
    <2>1. Len(toBroker') \in Nat
      BY DEF IInv, Types, RecordTypes
    <2>2. toBroker'[i].generation <= dbGeneration
      <3>1. CASE Fresh(toBroker'[i])
        BY <1>1, <3>1 DEF Fresh, Greeted
      <3>2. CASE \E j \in 1 .. Len(toBroker) : toBroker'[i] = toBroker[j]
        BY <1>1, <3>2 DEF Greeted
      <3> QED
        BY <2>1, <3>1, <3>2, WasThere, Cases
    <2>3. toBroker'[i] \in Message
      BY DEF IInv, Types, RecordTypes
    <2>4. toBroker'[i].generation \in Nat
      BY <2>3 DEF Message, Answered, Noticed, Generation
    <2>5. dbGeneration \in Nat /\ dbGeneration' \in Nat /\ dbGeneration <= dbGeneration'
      BY <1>1, <1>2 DEF EndpointTypes, Generation
    <2> QED
      BY <2>2, <2>4, <2>5
  <1> QED
    BY <1>2, <1>3 DEF Greeted

(* A message in the queue is of a connection that was.                     *)
LEMMA Messages ==
  ASSUME IInv, NEW i \in 1 .. Len(toBroker)
  PROVE  /\ toBroker[i] \in Message /\ toBroker[i].generation \in Generation
         /\ toBroker[i].generation # 0
         /\ toBroker[i].attachment \in Nat /\ View(toBroker[i]) \in Nat
  <1>1. toBroker[i] \in Message
    BY DEF IInv, Types, RecordTypes
  <1>2. toBroker[i].generation \in Generation /\ toBroker[i].attachment \in Nat
    BY <1>1 DEF Message, Answered, Noticed
  <1> QED
    BY <1>1, <1>2 DEF Generation, View

LEMMA Numbers ==
  ASSUME IInv, IInv'
  PROVE  /\ Len(toBroker) \in Nat /\ Len(toBroker') \in Nat
         /\ dbGeneration \in Nat /\ dbGeneration' \in Nat
         /\ extGeneration \in Nat /\ extGeneration' \in Nat
         /\ bound \in Nat /\ bound' \in Nat
         /\ locator \in Nat /\ locator' \in Nat
         /\ greeting \in Nat
         /\ attachment \in Nat /\ attachment' \in Nat
         /\ attachments \in Nat /\ attachments' \in Nat
         /\ dbAttachment \in Nat /\ dbAttachment' \in Nat
  <1>1. EndpointTypes /\ EndpointTypes' /\ toBroker \in Seq(Message) /\ toBroker' \in Seq(Message)
    BY DEF IInv, Types, RecordTypes
  <1>2. Len(toBroker) \in Nat /\ Len(toBroker') \in Nat
    BY <1>1
  <1>3. dbGeneration \in Nat /\ dbGeneration' \in Nat
    BY <1>1 DEF EndpointTypes, Generation
  <1>4. extGeneration \in Nat /\ extGeneration' \in Nat /\ bound \in Nat /\ bound' \in Nat
        /\ locator \in Nat /\ locator' \in Nat /\ greeting \in Nat
    BY <1>1 DEF EndpointTypes
  <1>5. attachment \in Nat /\ attachment' \in Nat /\ attachments \in Nat /\ attachments' \in Nat
        /\ dbAttachment \in Nat /\ dbAttachment' \in Nat
    BY <1>1 DEF EndpointTypes
  <1> QED
    BY <1>2, <1>3, <1>4, <1>5

(* What the extension's connection carried after a step it carried before, *)
(* or was told by the step.                                                *)
LEMMA StillConnected ==
  ASSUME IInv, IInv', EInv, Broker \/ ExtensionRestarts \/ Besides,
         NEW i \in 1 .. Len(toBroker'), toBroker'[i].generation = extGeneration'
  PROVE  Flow /\ UNCHANGED extGeneration
  <1>1. Len(toBroker') \in Nat /\ extGeneration \in Nat /\ dbGeneration \in Nat
    BY Numbers
  <1>2. toBroker'[i] \in Message
    BY DEF IInv, Types, RecordTypes
  <1>3. extGeneration' # 0 /\ extGeneration' \in Nat
    BY <1>2 DEF Message, Answered, Noticed, Generation
  <1>4. CASE Broker
    <2>1. UNCHANGED <<extGeneration, attachment, attachments>>
      BY <1>4 DEF Broker, extension
    <2>2. toBroker' = toBroker \/ (toBroker # <<>> /\ toBroker' = Tail(toBroker))
      BY <1>4 DEF Broker
    <2> QED
      BY <1>1, <2>1, <2>2, Reading
  <1>5. CASE ExtensionRestarts
    BY <1>3, <1>5, Restarted
  <1>6. CASE Besides
    <2>1. CASE extGeneration' = dbGeneration + 1 /\ toBroker' = toBroker
      <3>1. toBroker'[i].generation <= dbGeneration
        BY <2>1 DEF EInv, Greeted
      <3> QED
        BY <1>1, <2>1, <3>1
    <2> QED
      BY <1>3, <1>6, <2>1 DEF Besides, Knows
  <1> QED
    BY <1>4, <1>5, <1>6

LEMMA ViewsStep ==
  ASSUME IInv, IInv', EInv, Broker \/ ExtensionRestarts \/ Besides
  PROVE  Views'
  <1>1. /\ Len(toBroker) \in Nat /\ Len(toBroker') \in Nat /\ attachments \in Nat /\ attachments' \in Nat
        /\ attachment' \in Nat /\ Views
    BY Numbers DEF EInv
  <1>2. attachment' <= attachments'
    <2>1. Broker => UNCHANGED <<attachment, attachments>>
      BY DEF Broker, extension
    <2> QED
      BY <1>1, <2>1, Restarted DEF Views, Besides, Flow, Ages
  <1>3. ASSUME NEW i \in 1 .. Len(toBroker'), Shows(toBroker'[i]), toBroker'[i].kind = "answer"
        PROVE  View(toBroker'[i]) # 0
    <2>1. CASE Fresh(toBroker'[i])
      BY <1>3, <2>1 DEF Fresh
    <2>2. CASE \E j \in 1 .. Len(toBroker) : toBroker'[i] = toBroker[j]
      BY <1>1, <1>3, <2>2 DEF Views
    <2> QED
      BY <1>1, <2>1, <2>2, WasThere
  <1>4. ASSUME NEW i \in 1 .. Len(toBroker'), Shows(toBroker'[i]),
               toBroker'[i].generation = extGeneration'
        PROVE  /\ View(toBroker'[i]) <= attachments'
               /\ View(toBroker'[i]) # 0 =>
                      \A j \in 1 .. Len(toBroker') :
                          /\ i < j /\ Shows(toBroker'[j])
                          /\ toBroker'[j].generation = extGeneration'
                          /\ View(toBroker'[j]) # View(toBroker'[i])
                          => attachment' # View(toBroker'[i])
    <2> DEFINE v == View(toBroker'[i])
    <2>1. Flow /\ extGeneration' = extGeneration
      BY <1>4, StillConnected
    <2>2. Ages
      BY <2>1 DEF Flow
    <2>3. \A k \in 1 .. Len(toBroker) : View(toBroker[k]) \in Nat
      BY Messages
    <2>4. ASSUME NEW k \in 1 .. Len(toBroker), toBroker'[i] = toBroker[k]
          PROVE  /\ v <= attachments'
                 /\ v # 0 => \A l \in 1 .. Len(toBroker) :
                        /\ k < l /\ Shows(toBroker[l]) /\ toBroker[l].generation = extGeneration
                        /\ View(toBroker[l]) # v
                        => attachment' # v
      <3>1. v \in Nat /\ v <= attachments
        BY <1>1, <1>4, <2>1, <2>3, <2>4 DEF Views
      <3>2. v <= attachments'
        BY <1>1, <2>2, <3>1 DEF Ages
      <3>3. v # 0 /\ attachment' = v => attachment = v
        BY <2>2, <3>1 DEF Ages
      <3>4. v # 0 => \A l \in 1 .. Len(toBroker) :
                        /\ k < l /\ Shows(toBroker[l]) /\ toBroker[l].generation = extGeneration
                        /\ View(toBroker[l]) # v
                        => attachment # v
        BY <1>1, <1>4, <2>1, <2>4 DEF Views
      <3> QED
        BY <3>2, <3>3, <3>4
    <2>5. CASE Dropped
      <3>1. PICK d \in {0, 1} : \A k \in 1 .. Len(toBroker') :
                i + d \in 1 .. Len(toBroker) /\ k + d \in 1 .. Len(toBroker)
                /\ toBroker'[k] = toBroker[k + d]
        BY <2>5 DEF Dropped
      <3>2. toBroker'[i] = toBroker[i + d] /\ i + d \in 1 .. Len(toBroker)
        BY <3>1
      <3>3. \A j \in 1 .. Len(toBroker') :
                /\ j + d \in 1 .. Len(toBroker) /\ toBroker'[j] = toBroker[j + d]
                /\ i < j => i + d < j + d
        BY <1>1, <3>1
      <3> HIDE DEF v
      <3>4. /\ v <= attachments'
            /\ v # 0 => \A l \in 1 .. Len(toBroker) :
                        /\ i + d < l /\ Shows(toBroker[l]) /\ toBroker[l].generation = extGeneration
                        /\ View(toBroker[l]) # v
                        => attachment' # v
        BY <2>4, <3>2
      <3>5. ASSUME v # 0, NEW j \in 1 .. Len(toBroker'), i < j, Shows(toBroker'[j]),
                   toBroker'[j].generation = extGeneration', View(toBroker'[j]) # v
            PROVE  attachment' # v
        <4>1. /\ j + d \in 1 .. Len(toBroker) /\ toBroker'[j] = toBroker[j + d]
              /\ i + d < j + d
          BY <3>3, <3>5
        <4>2. Shows(toBroker[j + d]) /\ toBroker[j + d].generation = extGeneration
              /\ View(toBroker[j + d]) # v
          BY <2>1, <3>5, <4>1
        <4> QED
          BY <3>4, <3>5, <4>1, <4>2
      <3> QED
        BY <3>4, <3>5 DEF v
    <2>6. ASSUME NEW m, Told(m), Fresh(m)
          PROVE  /\ v <= attachments'
                 /\ v # 0 => \A j \in 1 .. Len(toBroker') :
                        /\ i < j /\ Shows(toBroker'[j]) /\ toBroker'[j].generation = extGeneration'
                        /\ View(toBroker'[j]) # v
                        => attachment' # v
      <3>1. \A j \in 1 .. Len(toBroker') :
               \/ j \in 1 .. Len(toBroker) /\ toBroker'[j] = toBroker[j]
               \/ j = Len(toBroker) + 1 /\ toBroker'[j] = m
        BY <2>6 DEF Told
      <3>2. Shows(m) => View(m) = attachment'
        BY <2>6 DEF Fresh
      <3>3. CASE i = Len(toBroker) + 1
        <4>1. toBroker'[i] = m /\ v = attachment'
          BY <1>1, <1>4, <3>1, <3>2, <3>3
        <4>2. \A j \in 1 .. Len(toBroker') : ~(i < j)
          BY <1>1, <3>1, <3>3
        <4> HIDE DEF v
        <4>3. v <= attachments'
          BY <1>2, <4>1
        <4> QED
          BY <4>2, <4>3
      <3>4. CASE i \in 1 .. Len(toBroker)
        <4>1. toBroker'[i] = toBroker[i]
          BY <1>1, <3>1, <3>4
        <4> HIDE DEF v
        <4>2. /\ v <= attachments'
              /\ v # 0 => \A l \in 1 .. Len(toBroker) :
                        /\ i < l /\ Shows(toBroker[l]) /\ toBroker[l].generation = extGeneration
                        /\ View(toBroker[l]) # v
                        => attachment' # v
          BY <2>4, <3>4, <4>1
        <4>3. ASSUME v # 0, NEW j \in 1 .. Len(toBroker'), i < j, Shows(toBroker'[j]),
                     toBroker'[j].generation = extGeneration', View(toBroker'[j]) # v
              PROVE  attachment' # v
          <5>1. CASE toBroker'[j] = m
            BY <3>2, <4>3, <5>1
          <5>2. CASE j \in 1 .. Len(toBroker) /\ toBroker'[j] = toBroker[j]
            <6>1. Shows(toBroker[j]) /\ toBroker[j].generation = extGeneration
                  /\ View(toBroker[j]) # v
              BY <2>1, <4>3, <5>2
            <6> QED
              BY <4>2, <4>3, <5>2, <6>1
          <5> QED
            BY <3>1, <5>1, <5>2
        <4>4. v # 0 => \A j \in 1 .. Len(toBroker') :
                        /\ i < j /\ Shows(toBroker'[j]) /\ toBroker'[j].generation = extGeneration'
                        /\ View(toBroker'[j]) # v
                        => attachment' # v
          BY <4>3
        <4> QED
          BY <4>2, <4>4
      <3> QED
        BY <3>1, <3>3, <3>4
    <2> QED
      BY <2>1, <2>5, <2>6 DEF Flow
  <1> QED
    BY <1>2, <1>3, <1>4 DEF Views, Shows, View

LEMMA KnownStep ==
  ASSUME IInv, IInv', EInv, Broker \/ ExtensionRestarts \/ Besides
  PROVE  Known'
  <1>1. /\ Len(toBroker) \in Nat /\ Len(toBroker') \in Nat
        /\ \A i \in 1 .. Len(toBroker) : View(toBroker[i]) \in Nat
    BY Numbers, Messages
  <1>2. Known /\ Views /\ Greeted
    BY DEF EInv
  <1> SUFFICES ASSUME extGeneration' # 0, bound' = extGeneration', locator' = extGeneration',
                      dbAttachment' # 0
               PROVE  /\ dbAttachment' <= attachments'
                      /\ \A i \in 1 .. Len(toBroker') :
                             /\ Shows(toBroker'[i]) /\ toBroker'[i].generation = extGeneration'
                             /\ View(toBroker'[i]) # dbAttachment'
                             => attachment' # dbAttachment'
    BY DEF Known, Shows, View
  <1>3. \/ /\ UNCHANGED <<extGeneration, bound, locator, dbAttachment>>
        \/ /\ toBroker # <<>> /\ toBroker' = Tail(toBroker)
           /\ toBroker[1].generation = extGeneration /\ Shows(toBroker[1])
           /\ UNCHANGED extGeneration /\ dbAttachment' = View(toBroker[1])
    <2>1. CASE Broker
      BY <2>1 DEF Broker, extension
    <2>2. CASE Besides /\ extGeneration' = dbGeneration + 1 /\ bound' = bound
      BY <1>2, <2>2, Numbers DEF Greeted
    <2>3. CASE Besides /\ extGeneration' = extGeneration /\ Reads
      BY <2>3 DEF Reads
    <2>4. CASE /\ Besides /\ UNCHANGED <<extGeneration, dbAttachment, locator>>
               /\ greeting = extGeneration
      <3>1. locator < greeting /\ locator = greeting
        BY <1>2, <2>4 DEF Greeted
      <3> QED
        BY <3>1, Numbers
    <2>5. CASE /\ Besides /\ UNCHANGED <<extGeneration, dbAttachment, locator>>
               /\ bound' \in {bound, 0}
      BY <2>5
    <2>6. ExtensionRestarts => extGeneration' = 0
      BY Restarted
    <2>7. CASE Besides
      <3>1. extGeneration' = extGeneration \/ (extGeneration' = dbGeneration + 1 /\ bound' = bound)
        BY <2>7 DEF Besides, Knows
      <3>2. Reads \/ (UNCHANGED <<dbAttachment, locator>>
                       /\ (bound' \in {bound, 0} \/ greeting = extGeneration))
        BY <2>7 DEF Besides, Knows
      <3> QED
        BY <2>2, <2>3, <2>4, <2>5, <2>7, <3>1, <3>2
    <2> QED
      BY <2>1, <2>6, <2>7
  <1>4. Flow
    <2>1. Broker => UNCHANGED <<attachment, attachments>>
                    /\ (toBroker' = toBroker \/ (toBroker # <<>> /\ toBroker' = Tail(toBroker)))
      BY DEF Broker, extension
    <2>2. Broker => Flow
      BY <1>1, <2>1, Reading
    <2>3. ~ExtensionRestarts
      BY Restarted
    <2> QED
      BY <2>2, <2>3 DEF Besides
  <1>5. ASSUME NEW a \in Nat \ {0}, a <= attachments
        PROVE  a <= attachments' /\ (attachment' = a => attachment = a)
    BY <1>4, <1>5, Numbers DEF Flow, Ages
  <1>6. CASE UNCHANGED <<extGeneration, bound, locator, dbAttachment>>
    <2>1. /\ dbAttachment \in Nat \ {0} /\ dbAttachment <= attachments
          /\ \A i \in 1 .. Len(toBroker) :
                 /\ Shows(toBroker[i]) /\ toBroker[i].generation = extGeneration
                 /\ View(toBroker[i]) # dbAttachment
                 => attachment # dbAttachment
      BY <1>2, <1>6, Numbers DEF Known
    <2>2. ASSUME NEW i \in 1 .. Len(toBroker'), Shows(toBroker'[i]),
                 toBroker'[i].generation = extGeneration', View(toBroker'[i]) # dbAttachment'
          PROVE  attachment' # dbAttachment'
      <3>1. CASE \E j \in 1 .. Len(toBroker) : toBroker'[i] = toBroker[j]
        BY <1>5, <1>6, <2>1, <2>2, <3>1
      <3>2. CASE Fresh(toBroker'[i])
        BY <2>2, <3>2 DEF Fresh
      <3> QED
        BY <1>1, <3>1, <3>2, WasThere
    <2> QED
      BY <1>5, <1>6, <2>1, <2>2
  <1>7. CASE /\ toBroker # <<>> /\ toBroker' = Tail(toBroker)
             /\ toBroker[1].generation = extGeneration /\ Shows(toBroker[1])
             /\ UNCHANGED extGeneration /\ dbAttachment' = View(toBroker[1])
    <2>1. 1 \in 1 .. Len(toBroker) /\ Len(toBroker') = Len(toBroker) - 1
          /\ \A i \in 1 .. Len(toBroker') :
                 i + 1 \in 1 .. Len(toBroker) /\ 1 < i + 1 /\ toBroker'[i] = toBroker[i + 1]
      BY <1>7 DEF IInv, Types, RecordTypes
    <2>2. /\ dbAttachment' \in Nat \ {0} /\ dbAttachment' <= attachments
          /\ \A j \in 1 .. Len(toBroker) :
                 /\ 1 < j /\ Shows(toBroker[j]) /\ toBroker[j].generation = extGeneration
                 /\ View(toBroker[j]) # dbAttachment'
                 => attachment # dbAttachment'
      BY <1>2, <1>7, <2>1, Numbers DEF Views
    <2>3. ASSUME NEW i \in 1 .. Len(toBroker'), Shows(toBroker'[i]),
                 toBroker'[i].generation = extGeneration', View(toBroker'[i]) # dbAttachment'
          PROVE  attachment' # dbAttachment'
      <3>1. /\ i + 1 \in 1 .. Len(toBroker) /\ 1 < i + 1 /\ Shows(toBroker[i + 1])
            /\ toBroker[i + 1].generation = extGeneration /\ View(toBroker[i + 1]) # dbAttachment'
        BY <1>7, <2>1, <2>3
      <3> QED
        BY <1>5, <2>2, <3>1
    <2> QED
      BY <1>5, <2>2, <2>3
  <1> QED
    BY <1>3, <1>6, <1>7

(* An ended ticket is not tried again.                                     *)
LEMMA EndedIsNotTried ==
  ASSUME IInv, [Next]_vars, NEW t \in Ticket, ~Open(t)
  PROVE  tries'[t] = tries[t]
  <1>1. ASSUME NEW u \in Ticket, WorkDone(u)
        PROVE  tries'[t] = tries[t]
    <2>1. t # u
      BY <1>1, Heads DEF WorkDone, Worked
    <2> QED
      BY <1>1, <2>1 DEF WorkDone, Worked, Others
  <1>2. Aside => tries'[t] = tries[t]
    BY DEF Aside, Elsewhere
  <1> QED
    BY <1>1, <1>2, Steps

LEMMA AttachedStep ==
  ASSUME IInv, IInv', EInv, Known', [Next]_vars, Broker \/ ExtensionRestarts \/ Besides
  PROVE  Attached'
  <1> DEFINE Holds(y) ==
               /\ y.attachment # 0 /\ y.attachment <= attachments'
               /\ attachment' = y.attachment =>
                      /\ dbAttachment' = y.attachment
                      /\ \A i \in 1 .. Len(toBroker') :
                             /\ Shows(toBroker'[i])
                             /\ toBroker'[i].generation \in {bound', extGeneration'}
                             => View(toBroker'[i]) = y.attachment
                      /\ waiting'.operation # "attach"
                      /\ basis'[y.ticket] # "transport"
               /\ basis'[y.ticket] \in {"raw_result", "debugger_error"} =>
                      y.try # tries'[y.ticket]
  <1>1. Len(toBroker) \in Nat /\ Len(toBroker') \in Nat /\ Attached /\ Reported /\ Rows
    BY Numbers DEF EInv, IInv
  <1>2. ASSUME NEW x \in Sent \cup running, NEW y \in Sent' \cup running',
               Same(x, y), x.attachment = y.attachment
        PROVE  Holds(y)
    <2> DEFINE a == y.attachment
               t == y.ticket
    <2>1. /\ t \in Ticket /\ t = x.ticket /\ y.try = x.try /\ a = x.attachment /\ a \in Nat
          /\ tries[t] \in Nat
      BY <1>2, OnItsWay DEF Same
    <2>2. Broker \/ Besides
      BY <1>2, Restarted
    <2>3. Ages
      <3>1. Broker => UNCHANGED <<attachment, attachments>>
        BY DEF Broker, extension
      <3> QED
        BY <2>2, <3>1, Unaged DEF Besides, Flow
    <2>4. a # 0 /\ a <= attachments' /\ (attachment' = a => attachment = a)
      <3>1. a # 0 /\ a <= attachments
        BY <1>1, <1>2, <2>1 DEF Attached
      <3>2. a \in Nat
        BY <2>1
      <3> HIDE DEF a, t
      <3>3. attachments <= attachments' /\ (attachment' = a => attachment = a)
        BY <2>3, <3>1, <3>2 DEF Ages
      <3> QED
        BY <3>1, <3>2, <3>3, Numbers
    <2>5. attachment = a =>
              /\ dbAttachment = a
              /\ \A i \in 1 .. Len(toBroker) :
                     Shows(toBroker[i]) /\ toBroker[i].generation \in {bound, extGeneration}
                     => View(toBroker[i]) = a
              /\ waiting.operation # "attach"
              /\ basis[t] # "transport"
      BY <1>1, <1>2, <2>1 DEF Attached
    <2>6. basis[t] \in {"raw_result", "debugger_error"} => y.try # tries[t]
      BY <1>1, <1>2, <2>1 DEF Attached
    <2> HIDE DEF a, t
    <2>7. attachment' = a => dbAttachment' = a
      <3>1. \/ dbAttachment' = dbAttachment
            \/ /\ 1 \in 1 .. Len(toBroker) /\ toBroker[1].generation = bound /\ Shows(toBroker[1])
               /\ dbAttachment' = View(toBroker[1])
        BY <1>1, <2>2 DEF Broker, Besides, Knows, Reads, IInv, Types, RecordTypes
      <3> QED
        BY <2>4, <2>5, <3>1
    <2>8. ASSUME attachment' = a, NEW i \in 1 .. Len(toBroker'), Shows(toBroker'[i]),
                 toBroker'[i].generation \in {bound', extGeneration'}
          PROVE  View(toBroker'[i]) = a
      <3>1. CASE Fresh(toBroker'[i])
        BY <2>8, <3>1 DEF Fresh
      <3>2. CASE \E j \in 1 .. Len(toBroker) : toBroker'[i] = toBroker[j]
        <4>1. PICK j \in 1 .. Len(toBroker) : toBroker'[i] = toBroker[j]
          BY <3>2
        <4>2. toBroker[j].generation # 0 /\ toBroker[j].generation \in Generation
          BY Messages
        <4>3. toBroker[j].generation <= dbGeneration
          BY DEF EInv, Greeted
        <4>4. bound' \in {bound, 0, extGeneration} /\ extGeneration' \in {extGeneration, 0, dbGeneration + 1}
          BY <2>2 DEF Broker, Besides, Knows, Reads, extension
        <4>5. toBroker[j].generation # dbGeneration + 1
          <5>1. dbGeneration \in Nat
            BY Numbers
          <5>2. ~(dbGeneration + 1 <= dbGeneration)
            BY <5>1
          <5> QED
            BY <4>3, <5>2, Zenon
        <4>6. toBroker[j].generation \in {bound, extGeneration}
          BY <2>8, <4>1, <4>2, <4>4, <4>5
        <4> QED
          BY <2>4, <2>5, <2>8, <4>1, <4>6
      <3> QED
        BY <1>1, <3>1, <3>2, WasThere
    <2>9. ASSUME attachment' = a
          PROVE  waiting'.operation # "attach" /\ basis'[t] # "transport"
      <3>1. CASE Broker
        BY <2>1, <2>4, <2>5, <2>7, <2>9, <3>1 DEF Broker, Sending, Ending
      <3>2. CASE Besides
        <4>1. waiting' \in {waiting, Idle} /\ basis'[t] \in {basis[t], "human"}
          BY <2>1, <3>2 DEF Besides, Aside, Elsewhere
        <4> QED
          BY <2>4, <2>5, <2>9, <4>1 DEF Idle
      <3> QED
        BY <2>2, <3>1, <3>2
    <2>10. ASSUME basis'[t] \in {"raw_result", "debugger_error"}
           PROVE  y.try # tries'[t]
      <3>1. CASE basis'[t] = basis[t]
        <4>1. ~Open(t)
          BY <1>1, <2>1, <2>10, <3>1 DEF Rows
        <4> QED
          BY <2>1, <2>6, <2>10, <3>1, <4>1, EndedIsNotTried
      <3>2. CASE basis'[t] # basis[t]
        <4>1. Broker
          BY <2>1, <2>2, <2>10, <3>2 DEF Besides, Aside, Elsewhere
        <4>2. /\ tries'[t] = tries[t] /\ 1 \in 1 .. Len(toBroker) /\ Reports(toBroker[1])
              /\ toBroker[1].ticket = t /\ toBroker[1].try = tries[t]
          BY <2>1, <2>10, <3>2, <4>1 DEF Broker, Ending
        <4>3. ~Same(x, toBroker[1])
          BY <1>1, <1>2, <4>2 DEF Reported
        <4> QED
          BY <2>1, <4>2, <4>3 DEF Same
      <3> QED
        BY <3>1, <3>2
    <2> QED
      BY <2>4, <2>7, <2>8, <2>9, <2>10 DEF a, t
  <1>3. ASSUME NEW y, Broker, New(y)
        PROVE  Holds(y)
    <2>1. /\ y.ticket \in Ticket /\ Open(y.ticket) /\ y.attachment = dbAttachment'
          /\ y.attachment # 0 /\ waiting'.operation = "send" /\ basis' = basis
          /\ bound = extGeneration /\ locator = extGeneration /\ extGeneration # 0
      BY <1>3 DEF New, Request
    <2>2. UNCHANGED <<bound, locator, extGeneration>>
      BY <1>3 DEF Broker, extension
    <2>3. basis'[y.ticket] = "none"
      BY <1>1, <2>1 DEF Rows
    <2>4. /\ dbAttachment' <= attachments'
          /\ \A i \in 1 .. Len(toBroker') :
                 /\ Shows(toBroker'[i]) /\ toBroker'[i].generation = extGeneration'
                 /\ View(toBroker'[i]) # dbAttachment'
                 => attachment' # dbAttachment'
      BY <2>1, <2>2 DEF Known, Shows, View
    <2> QED
      BY <2>1, <2>2, <2>3, <2>4
  <1>4. ASSUME NEW y \in Sent' \cup running'
        PROVE  Holds(y)
    BY <1>2, <1>3, <1>4, WasOnItsWay
  <1> QED
    BY <1>4 DEF Attached, Shows, View

-----------------------------------------------------------------------------
LEMMA EffectsKept == IInv /\ IInv' /\ EInv /\ [Next]_vars => EInv'
  <1> SUFFICES ASSUME IInv, IInv', EInv, [Next]_vars
               PROVE  EInv'
    OBVIOUS
  <1>1. Broker \/ ExtensionRestarts \/ Besides
    BY Cases
  <1>2. Once' /\ Reported' /\ Views' /\ Known'
    BY <1>1, OnceStep, ReportedStep, ViewsStep, KnownStep
  <1>3. Unsent' /\ Greeted'
    BY UnsentStep, GreetedStep
  <1>4. Attached'
    BY <1>1, <1>2, AttachedStep
  <1> QED
    BY <1>2, <1>3, <1>4 DEF EInv

THEOREM EffectInductive == Spec => []EInv
  <1>1. Init => EInv
    <2> SUFFICES ASSUME Init
                 PROVE  EInv
      OBVIOUS
    <2>1. /\ toExtension = {} /\ running = {} /\ cache = {} /\ toBroker = <<>>
          /\ bound = 1 /\ greeting = 0 /\ extGeneration = 1 /\ dbGeneration = 1 /\ locator = 1
          /\ attachment = 0 /\ attachments = 0 /\ dbAttachment = 0
      BY DEF Init
    <2>2. Sent = {} /\ 1 .. Len(toBroker) = {}
      BY <2>1 DEF Sent
    <2>3. Once /\ Reported
      BY <2>1, <2>2 DEF Once, Reported
    <2>4. Unsent
      BY DEF Init, Unsent, Open
    <2>5. Greeted
      BY <2>1, <2>2 DEF Greeted
    <2>6. Views
      BY <2>1, <2>2 DEF Views
    <2>7. Known
      BY <2>1 DEF Known
    <2>8. Attached
      BY <2>1, <2>2 DEF Attached
    <2> QED
      BY <2>3, <2>4, <2>5, <2>6, <2>7, <2>8 DEF EInv
  <1>2. IInv /\ IInv' /\ EInv /\ [Next]_vars => EInv'
    BY EffectsKept
  <1> QED
    BY <1>1, <1>2, Inductive, PTL DEF Spec

(* Chrome's work on a command is what executed grows by.                   *)
LEMMA OnlyChromeExecutes ==
  ASSUME [Next]_vars
  PROVE  executed' = executed \/ \E c \in running : RunCommand(c)
  <1>1. ASSUME NEW t \in Ticket, StartWork(t) \/ HumanConfirms(t) \/ HumanRestarts(t)
        PROVE  executed' = executed
    BY <1>1 DEF StartWork, HumanConfirms, HumanRestarts, extension
  <1>2. CASE \/ OperationTimesOut \/ DropStaleMessage \/ LateAnswer \/ ReceiveAnswer
             \/ ReceiveInventory \/ ReceiveDetach
    BY <1>2 DEF OperationTimesOut, DropStaleMessage, LateAnswer, ReceiveAnswer, ReceiveInventory,
       ReceiveDetach, extension
  <1>3. CASE \/ Authenticate \/ BrokerSeesClose \/ BrokerSeesUnauthenticatedClose \/ BrokerRestarts
             \/ UNCHANGED vars
    BY <1>3 DEF Authenticate, BrokerSeesClose, BrokerSeesUnauthenticatedClose, BrokerRestarts, vars,
       extension
  <1>4. CASE Hello \/ SendInventory \/ SocketDies \/ SocketBreaks \/ ChromeDetaches \/ ExtensionRestarts
    BY <1>4 DEF Hello, SendInventory, SocketDies, SocketBreaks, LoseSocket, ChromeDetaches,
       ExtensionRestarts, extension
  <1>5. ASSUME NEW m \in toExtension,
               Attach(m) \/ AttachFails(m) \/ TakeCommand(m) \/ Reconcile(m) \/ RefuseStale(m)
        PROVE  executed' = executed
    BY <1>5 DEF Attach, AttachFails, TakeCommand, Reconcile, RefuseStale, extension
  <1>6. ASSUME NEW c \in running, ReportCommand(c)
        PROVE  executed' = executed
    BY <1>6 DEF ReportCommand
  <1> QED
    BY <1>1, <1>2, <1>3, <1>4, <1>5, <1>6 DEF Next, BrokerStep, ExtensionStep

(* Chrome does not start on the newest try of a command whose ticket has   *)
(* ended, unless the human ended it: not when the ticket ended by a result *)
(* (reconcileCdpAttempt), by a locator of an earlier connection            *)
(* (assertCurrentLocator), or by an attach that failed (executeCdp).       *)
THEOREM NothingAfterTheEnd == Spec => NoEffectAfterTheEnd
  <1> DEFINE Stops == \A t \in Ticket :
                <<t, tries[t]>> \in executed' \ executed => Open(t) \/ basis[t] = "human"
  <1>1. IInv /\ EInv /\ [Next]_vars => [Stops]_vars
    <2> SUFFICES ASSUME IInv, EInv, [Next]_vars, NEW t \in Ticket,
                        <<t, tries[t]>> \in executed' \ executed, ~Open(t)
                 PROVE  basis[t] = "human"
      OBVIOUS
    <2>1. PICK c \in running : RunCommand(c)
      BY OnlyChromeExecutes
    <2>2. attachment = c.attachment /\ <<t, tries[t]>> = <<c.ticket, c.try>>
      BY <2>1 DEF RunCommand
    <2>3. c.ticket = t /\ c.try = tries[t]
      BY <2>2
    <2>4. basis[t] \in Basis
      BY DEF IInv, Types, RowTypes
    <2>5. basis[t] # "none"
      BY DEF EInv, Unsent
    <2>6. basis[t] \notin {"raw_result", "debugger_error"}
      BY <2>3 DEF EInv, Attached
    <2>7. basis[t] # "transport"
      BY <2>2, <2>3 DEF EInv, Attached
    <2>8. basis[t] # "locator"
      BY <2>3 DEF EInv, Once, Unsent
    <2> QED
      BY <2>4, <2>5, <2>6, <2>7, <2>8 DEF Basis
  <1> QED
    BY <1>1, Inductive, EffectInductive, PTL DEF Spec, NoEffectAfterTheEnd
=============================================================================

-------------------------- MODULE CdpExecutionProofs --------------------------
(***************************************************************************)
(* Proofs about CdpExecution, for any number of tickets, connections,      *)
(* faults and messages on their way.                                       *)
(*                                                                         *)
(* Steps fall into two kinds.  The worker's (StartWork, OperationTimesOut, *)
(* ReceiveAnswer) change the columns of one ticket, the open head of the   *)
(* lane (Worked); all others leave the attempts alone and end at most      *)
(* tickets no operation is under way for (Elsewhere).  Beyond the          *)
(* properties the inductive invariant says what an operation the worker    *)
(* awaits tells about its ticket (Waits), what the columns of a ticket     *)
(* tell about each other (Rows), that connections are learned of in order  *)
(* (Generations), and that success is never remembered or reported of an   *)
(* attempt Chrome did not carry out (Truthful).                            *)
(***************************************************************************)
EXTENDS CdpExecution, TLAPS

Generation == 1 .. MaxGenerations
Request == [generation : Generation, operation : Operation, ticket : Ticket, try : Nat,
            attachment : Nat]
Asked == [operation : Operation, ticket : Ticket, try : Nat, generation : Generation]
Command == [ticket : Ticket, try : Nat, attachment : Nat, stage : {"sent", "ok", "error"}]
Remembered == [ticket : Ticket, try : Nat, attachment : Nat, ok : BOOLEAN]
Answered == [kind : {"answer"}, generation : Generation, operation : Operation, ticket : Ticket,
             try : Nat, outcome : {"refused", "succeeded", "failed", "not_found"},
             attachment : Nat]
Noticed == [kind : {"inventory", "detached"}, generation : Generation, attachment : Nat]
Message == Answered \cup Noticed

State == {"queued", "running", "succeeded", "failed"}
Pause == {"none", "extension_disconnected", "user_confirmation_required"}
Basis == {"none", "raw_result", "debugger_error", "transport", "locator", "human"}
Attempt == {"none", "pending", "completed", "missing"}

RowTypes ==
    /\ state \in [Ticket -> State]
    /\ pause \in [Ticket -> Pause]
    /\ basis \in [Ticket -> Basis]
    /\ tries \in [Ticket -> Nat]
    /\ attempt \in [Ticket -> Attempt]

EndpointTypes ==
    /\ dbGeneration \in Generation
    /\ bound \in 0 .. MaxGenerations
    /\ greeting \in 0 .. MaxGenerations
    /\ locator \in 0 .. MaxGenerations
    /\ extGeneration \in 0 .. MaxGenerations
    /\ dbAttachment \in Nat /\ attachment \in Nat /\ attachments \in Nat /\ faults \in Nat
    /\ dbConnected \in BOOLEAN /\ reconciling \in BOOLEAN

RecordTypes ==
    /\ waiting \in Asked \cup {Idle}
    /\ running \subseteq Command
    /\ cache \subseteq Remembered
    /\ executed \subseteq Ticket \X Nat
    /\ toExtension \subseteq Request
    /\ toBroker \in Seq(Message)

Types == RowTypes /\ EndpointTypes /\ RecordTypes

(* The operation under way is of the head of the lane, which runs and of   *)
(* which the human was not asked; what is awaited is an answer about its   *)
(* newest try, over a connection whose inventory came.                     *)
Waits ==
    waiting # Idle =>
        /\ IsHead(waiting.ticket)
        /\ state[waiting.ticket] = "running"
        /\ pause[waiting.ticket] # "user_confirmation_required"
        /\ waiting.generation <= locator
        /\ waiting.operation # "attach" =>
               waiting.try = tries[waiting.ticket] /\ waiting.try > 0

(* Only an ended ticket has a basis, only one that was sent an open        *)
(* attempt; a ticket is tried when everything ahead of it has ended.       *)
Rows ==
    \A t \in Ticket :
        /\ basis[t] # "none" => ~Open(t)
        /\ attempt[t] = "pending" => tries[t] > 0
        /\ pause[t] = "user_confirmation_required" =>
               state[t] = "running" /\ tries[t] > 0 /\ attempt[t] = "missing"
        /\ tries[t] > 0 => \A u \in Ticket : u < t => ~Open(u)

(* The locator is of a connection there was, and nothing is under way over *)
(* one that is newer; without a connection nothing is.                     *)
Generations ==
    /\ locator <= dbGeneration
    /\ \A m \in toExtension : m.generation <= locator
    /\ extGeneration = 0 => toExtension = {}

(* Success is said only of what Chrome carried out, and "not found" only   *)
(* in a reconciliation.                                                    *)
Truthful ==
    /\ \A c \in running : c.stage = "ok" => <<c.ticket, c.try>> \in executed
    /\ \A e \in cache : e.ok => <<e.ticket, e.try>> \in executed
    /\ \A i \in 1 .. Len(toBroker) :
           toBroker[i].kind = "answer" =>
               /\ toBroker[i].operation # "attach" /\ toBroker[i].outcome = "succeeded" =>
                      <<toBroker[i].ticket, toBroker[i].try>> \in executed
               /\ toBroker[i].outcome = "not_found" => toBroker[i].operation = "reconcile"

IInv == Types /\ Waits /\ Rows /\ Generations /\ Truthful /\ RawResultMeansEffect

-----------------------------------------------------------------------------
(* What a step of the worker makes of its ticket t.                        *)
Others(t) ==
    \A u \in Ticket \ {t} :
        /\ state'[u] = state[u] /\ pause'[u] = pause[u] /\ basis'[u] = basis[u]
        /\ tries'[u] = tries[u] /\ attempt'[u] = attempt[u]

Mine(t) ==
    /\ state'[t] # "queued"
    /\ basis'[t] # "none" <=> state'[t] \in {"succeeded", "failed"}
    /\ basis'[t] = "raw_result" => <<t, tries'[t]>> \in executed'
    /\ attempt'[t] = "pending" => tries'[t] > 0
    /\ pause'[t] = "user_confirmation_required" =>
           /\ state'[t] = "running" /\ tries'[t] > 0 /\ attempt'[t] = "missing"
           /\ waiting' = Idle
    /\ state'[t] = "running" /\ waiting' = Idle => pause'[t] # "none"

Awaits(t) ==
    waiting' # Idle =>
        /\ waiting'.ticket = t
        /\ state'[t] = "running"
        /\ waiting'.generation <= locator'
        /\ waiting'.operation # "attach" => waiting'.try = tries'[t] /\ waiting'.try > 0

Worked(t) == IsHead(t) /\ Others(t) /\ Mine(t) /\ Awaits(t)

(* What any other step makes of the tickets.                               *)
Elsewhere ==
    /\ UNCHANGED <<tries, attempt>>
    /\ waiting' \in {waiting, Idle}
    /\ locator <= locator'
    /\ \A t \in Ticket :
           \/ /\ state'[t] = state[t] /\ basis'[t] = basis[t]
              /\ pause'[t] \in {pause[t], "none", "extension_disconnected"}
           \/ /\ Open(t) /\ (waiting # Idle => waiting.ticket # t)
              /\ state'[t] \in {"succeeded", "failed"} /\ basis'[t] = "human"
              /\ pause'[t] = "none"

-----------------------------------------------------------------------------
(* A lane has one head, and no operation is Idle.                          *)
LEMMA Heads ==
    /\ \A t, u \in Ticket : IsHead(t) /\ IsHead(u) => t = u
    /\ \A t \in Ticket : IsHead(t) => Open(t)
    /\ Idle \notin Asked
  <1>1. \A t, u \in Ticket : IsHead(t) /\ IsHead(u) => t = u
    BY CdpAssumption DEF IsHead, Ticket
  <1>2. \A t \in Ticket : IsHead(t) => Open(t)
    BY DEF IsHead
  <1>3. Idle \notin Asked
    BY DEF Idle, Asked, Ticket
  <1> QED
    BY <1>1, <1>2, <1>3

(* Where the worker stands when it goes on with its ticket t.              *)
AtWork(t) ==
    /\ Types /\ Rows /\ Generations
    /\ t \in Ticket /\ IsHead(t)
    /\ pause[t] # "user_confirmation_required"
    /\ UNCHANGED <<locator, executed, extGeneration>>

(* What it has done when it awaits the next answer or returns.             *)
Sends ==
    /\ waiting' \in Asked \cup {Idle}
    /\ toExtension' \subseteq Request
    /\ \A m \in toExtension' : m.generation <= locator'
    /\ extGeneration' = 0 => toExtension' = {}

WorkDone(t) == Worked(t) /\ RowTypes' /\ Sends

(* execute() of the gateway sends over the bound connection.               *)
LEMMA Asks ==
  ASSUME NEW operation \in Operation, NEW t, NEW try \in Nat, NEW attached \in Nat,
         AtWork(t), Connected, bound <= locator, Ask(operation, t, try, attached)
  PROVE  /\ Sends
         /\ waiting' = [operation |-> operation, ticket |-> t, try |-> try, generation |-> bound]
  <1>1. bound \in Generation /\ t \in Ticket
    BY DEF AtWork, Types, EndpointTypes, Connected, Generation
  <1>2. waiting' = [operation |-> operation, ticket |-> t, try |-> try, generation |-> bound]
    BY DEF Ask
  <1>3. waiting' \in Asked
    BY <1>1, <1>2 DEF Asked
  <1> DEFINE sent == [generation |-> bound, operation |-> operation, ticket |-> t, try |-> try,
                      attachment |-> attached]
  <1>4. sent \in Request /\ sent.generation = bound
    BY <1>1 DEF Request
  <1>5. toExtension' \subseteq toExtension \cup {sent}
    BY DEF Ask
  <1>6. toExtension \subseteq Request /\ (\A m \in toExtension : m.generation <= locator)
    BY DEF AtWork, Types, RecordTypes, Generations
  <1> HIDE DEF sent
  <1>7. locator' = locator /\ (extGeneration' = 0 => toExtension' = {})
    BY <1>1 DEF AtWork, Ask, Generations, Generation
  <1>8. toExtension' \subseteq Request /\ (\A m \in toExtension' : m.generation <= locator')
    BY <1>4, <1>5, <1>6, <1>7
  <1> QED
    BY <1>2, <1>3, <1>7, <1>8 DEF Sends

(* A worker that returns without sending.                                  *)
LEMMA Returns ==
  ASSUME NEW t, AtWork(t), waiting' = Idle, UNCHANGED toExtension
  PROVE  Sends
  BY DEF AtWork, Sends, Types, RecordTypes, Generations

(* executeCdp() records the try it waits for, or reconciles the open one.  *)
LEMMA Dispatches ==
  ASSUME NEW t, NEW attached \in Nat, AtWork(t), bound <= locator, Dispatch(t, attached),
         state' \in [Ticket -> State], state'[t] = "running",
         \A u \in Ticket \ {t} : state'[u] = state[u],
         UNCHANGED basis
  PROVE  WorkDone(t)
  <1> DEFINE open == attempt[t] = "pending"
             try == IF open THEN tries[t] ELSE tries[t] + 1
  <1>1. t \in Ticket /\ Open(t) /\ tries[t] \in Nat /\ pause[t] \in Pause
    BY Heads DEF AtWork, Types, RowTypes
  <1>2. try \in Nat /\ try > 0
    BY <1>1 DEF AtWork, Rows
  <1>3. tries' = [tries EXCEPT ![t] = try] /\ attempt' = [attempt EXCEPT ![t] = "pending"]
    BY DEF Dispatch
  <1>4. basis[t] = "none"
    BY <1>1 DEF AtWork, Rows
  <1> HIDE DEF try
  <1>5. RowTypes /\ IsHead(t)
    BY DEF AtWork, Types
  <1>6. CASE Connected
    <2>1. PICK operation \in Operation : Ask(operation, t, try, attached)
      BY <1>6 DEF Dispatch, Operation, try
    <2>2. Sends /\ waiting' = [operation |-> operation, ticket |-> t, try |-> try, generation |-> bound]
      BY <1>2, <1>6, <2>1, Asks
    <2>3. UNCHANGED pause
      BY <1>6 DEF Dispatch
    <2>4. RowTypes'
      BY <1>1, <1>2, <1>3, <1>5, <2>3 DEF RowTypes, Attempt
    <2>5. Others(t)
      BY <1>3, <1>5, <2>3 DEF Others, RowTypes
    <2>6. Mine(t)
      <3>1. waiting' # Idle
        BY <1>1, <2>2 DEF Idle, Ticket
      <3> QED
        BY <1>1, <1>2, <1>3, <1>4, <1>5, <2>3, <3>1 DEF Mine, RowTypes, AtWork
    <2>7. Awaits(t)
      BY <1>1, <1>2, <1>3, <1>5, <2>2 DEF Awaits, RowTypes, AtWork
    <2> QED
      BY <1>5, <2>2, <2>4, <2>5, <2>6, <2>7 DEF WorkDone, Worked
  <1>7. CASE ~Connected
    <2>1. pause' = [pause EXCEPT ![t] = "extension_disconnected"] /\ waiting' = Idle
          /\ UNCHANGED toExtension
      BY <1>7 DEF Dispatch, PauseTicket, Return
    <2>2. Sends
      BY <2>1, Returns
    <2>3. RowTypes'
      BY <1>1, <1>2, <1>3, <1>5, <2>1 DEF RowTypes, Attempt, Pause
    <2>4. Others(t)
      BY <1>3, <1>5, <2>1 DEF Others, RowTypes
    <2>5. Mine(t)
      BY <1>1, <1>2, <1>3, <1>4, <1>5, <2>1 DEF Mine, RowTypes
    <2>6. Awaits(t)
      BY <2>1 DEF Awaits
    <2> QED
      BY <1>5, <2>2, <2>3, <2>4, <2>5, <2>6 DEF WorkDone, Worked
  <1> QED
    BY <1>6, <1>7

(* The catch of runWorker() ends the ticket, pauses it or leaves it alone. *)
LEMMA Throws ==
  ASSUME NEW t, NEW why \in {"transport", "locator"}, AtWork(t), WorkerThrows(t, why),
         state[t] = "running" \/ (pause[t] = "none" /\ Connected)
  PROVE  WorkDone(t)
  <1>1. t \in Ticket /\ Open(t) /\ RowTypes /\ IsHead(t)
    BY Heads DEF AtWork, Types
  <1>2. basis[t] = "none" /\ (attempt[t] = "pending" => tries[t] > 0)
        /\ pause[t] # "user_confirmation_required"
    BY <1>1 DEF AtWork, Rows
  <1>3. waiting' = Idle /\ UNCHANGED <<tries, attempt, toExtension>>
    BY DEF WorkerThrows, PauseTicket, Finish, Return
  <1>4. Sends
    BY <1>3, Returns
  <1>5. \/ UNCHANGED <<state, pause, basis>> /\ state[t] = "running" /\ pause[t] # "none"
        \/ /\ UNCHANGED <<state, basis>> /\ state[t] = "running"
           /\ pause' = [pause EXCEPT ![t] = "extension_disconnected"]
        \/ /\ state' = [state EXCEPT ![t] = "failed"] /\ basis' = [basis EXCEPT ![t] = why]
           /\ pause' = [pause EXCEPT ![t] = "none"]
    BY DEF WorkerThrows, PauseTicket, Finish
  <1>6. RowTypes'
    BY <1>1, <1>3, <1>5 DEF RowTypes, State, Pause, Basis
  <1>7. Others(t)
    BY <1>1, <1>3, <1>5 DEF Others, RowTypes
  <1>8. Mine(t)
    BY <1>1, <1>2, <1>3, <1>5 DEF Mine, RowTypes
  <1>9. Awaits(t)
    BY <1>3 DEF Awaits
  <1> QED
    BY <1>1, <1>4, <1>6, <1>7, <1>8, <1>9 DEF WorkDone, Worked

(* The human is asked about a try that was sent.                           *)
LEMMA HumanIsAsked ==
  ASSUME NEW t, AtWork(t), AskHuman(t), state[t] = "running", tries[t] > 0
  PROVE  WorkDone(t)
  <1>1. t \in Ticket /\ Open(t) /\ RowTypes /\ IsHead(t)
    BY Heads DEF AtWork, Types
  <1>2. basis[t] = "none"
    BY <1>1 DEF AtWork, Rows
  <1>3. /\ waiting' = Idle /\ UNCHANGED <<state, basis, tries, toExtension>>
        /\ attempt' = [attempt EXCEPT ![t] = "missing"]
        /\ pause' = [pause EXCEPT ![t] = "user_confirmation_required"]
    BY DEF AskHuman, PauseTicket, Return
  <1>4. Sends
    BY <1>3, Returns
  <1>5. RowTypes'
    BY <1>1, <1>3 DEF RowTypes, Pause, Attempt
  <1>6. Others(t)
    BY <1>1, <1>3 DEF Others, RowTypes
  <1>7. Mine(t)
    BY <1>1, <1>2, <1>3 DEF Mine, RowTypes
  <1>8. Awaits(t)
    BY <1>3 DEF Awaits
  <1> QED
    BY <1>1, <1>4, <1>5, <1>6, <1>7, <1>8 DEF WorkDone, Worked

(* A result ends the ticket; success is of a try Chrome carried out.       *)
LEMMA Settles ==
  ASSUME NEW t, NEW ok \in BOOLEAN, AtWork(t), Settle(t, ok), state[t] = "running",
         ok => <<t, tries[t]>> \in executed
  PROVE  WorkDone(t)
  <1>1. t \in Ticket /\ RowTypes /\ IsHead(t)
    BY DEF AtWork, Types
  <1> DEFINE outcome == IF ok THEN "succeeded" ELSE "failed"
             why == IF ok THEN "raw_result" ELSE "debugger_error"
  <1>2. /\ waiting' = Idle /\ UNCHANGED <<tries, toExtension>>
        /\ attempt' = [attempt EXCEPT ![t] = "completed"]
        /\ state' = [state EXCEPT ![t] = outcome] /\ basis' = [basis EXCEPT ![t] = why]
        /\ pause' = [pause EXCEPT ![t] = "none"]
    BY DEF Settle, Finish, Return
  <1>3. outcome \in {"succeeded", "failed"} /\ why \in {"raw_result", "debugger_error"}
        /\ (why = "raw_result" => ok)
    OBVIOUS
  <1> HIDE DEF outcome, why
  <1>4. Sends
    BY <1>2, Returns
  <1>5. RowTypes'
    BY <1>1, <1>2, <1>3 DEF RowTypes, State, Basis, Pause, Attempt
  <1>6. Others(t)
    BY <1>1, <1>2 DEF Others, RowTypes
  <1>7. executed' = executed
    BY DEF AtWork
  <1>8. Mine(t)
    BY <1>1, <1>2, <1>3, <1>7 DEF Mine, RowTypes
  <1>9. Awaits(t)
    BY <1>2 DEF Awaits
  <1> QED
    BY <1>1, <1>4, <1>5, <1>6, <1>8, <1>9 DEF WorkDone, Worked

(* An error or a timeout never ends a command that was sent.               *)
LEMMA Rejects ==
  ASSUME NEW t, NEW operation \in Operation, AtWork(t), Rejected(t, operation),
         state[t] = "running", operation # "attach" => tries[t] > 0
  PROVE  WorkDone(t)
  <1>1. CASE operation = "attach"
    <2>1. WorkerThrows(t, "transport")
      BY <1>1 DEF Rejected
    <2> QED
      BY <2>1, Throws
  <1>2. CASE operation # "attach" /\ Connected
    <2>1. AskHuman(t)
      BY <1>2 DEF Rejected
    <2> QED
      BY <1>2, <2>1, HumanIsAsked
  <1>3. CASE operation # "attach" /\ ~Connected
    <2>1. t \in Ticket /\ Open(t) /\ RowTypes /\ IsHead(t)
      BY Heads DEF AtWork, Types
    <2>2. basis[t] = "none" /\ (attempt[t] = "pending" => tries[t] > 0)
      BY <2>1 DEF AtWork, Rows
    <2>3. /\ waiting' = Idle /\ UNCHANGED <<state, basis, tries, attempt, toExtension>>
          /\ pause' = [pause EXCEPT ![t] = "extension_disconnected"]
      BY <1>3 DEF Rejected, PauseTicket, Return
    <2>4. Sends
      BY <2>3, Returns
    <2>5. RowTypes'
      BY <2>1, <2>3 DEF RowTypes, Pause
    <2>6. Others(t)
      BY <2>1, <2>3 DEF Others, RowTypes
    <2>7. Mine(t)
      BY <2>1, <2>2, <2>3 DEF Mine, RowTypes
    <2>8. Awaits(t)
      BY <2>3 DEF Awaits
    <2> QED
      BY <2>1, <2>4, <2>5, <2>6, <2>7, <2>8 DEF WorkDone, Worked
  <1> QED
    BY <1>1, <1>2, <1>3

(* The awaited operation is of the ticket the worker goes on with.         *)
LEMMA AwaitedIsAtWork ==
  ASSUME IInv, waiting # Idle, UNCHANGED <<locator, executed, extGeneration>>
  PROVE  /\ waiting \in Asked
         /\ AtWork(waiting.ticket)
         /\ state[waiting.ticket] = "running"
         /\ waiting.operation # "attach" =>
                waiting.try = tries[waiting.ticket] /\ tries[waiting.ticket] > 0
  <1>1. waiting \in Asked
    BY DEF IInv, Types, RecordTypes
  <1>2. waiting.ticket \in Ticket
    BY <1>1 DEF Asked
  <1> QED
    BY <1>1, <1>2 DEF IInv, AtWork, Waits

LEMMA Begins ==
  ASSUME IInv, NEW t \in Ticket, StartWork(t)
  PROVE  WorkDone(t)
  <1>1. AtWork(t)
    BY DEF IInv, AtWork, StartWork, endpoint, extension
  <1>2. IsHead(t) /\ pause[t] = "none" /\ RowTypes
    BY DEF StartWork, IInv, Types
  <1>3. basis[t] = "none" /\ (attempt[t] = "pending" => tries[t] > 0)
    BY <1>2, Heads DEF IInv, Rows
  <1>4. CASE /\ ~Connected
             /\ state' = [state EXCEPT ![t] = "running"]
             /\ pause' = [pause EXCEPT ![t] = "extension_disconnected"]
             /\ UNCHANGED <<basis, tries, attempt, waiting, toExtension>>
    <2>1. waiting' = Idle
      BY <1>4 DEF StartWork
    <2>2. Sends
      BY <1>1, <1>4, <2>1, Returns
    <2>3. RowTypes'
      BY <1>2, <1>4 DEF RowTypes, State, Pause
    <2>4. Others(t)
      BY <1>2, <1>4 DEF Others, RowTypes
    <2>5. Mine(t)
      BY <1>2, <1>3, <1>4 DEF Mine, RowTypes
    <2>6. Awaits(t)
      BY <2>1 DEF Awaits
    <2> QED
      BY <1>2, <2>2, <2>3, <2>4, <2>5, <2>6 DEF WorkDone, Worked
  <1>5. CASE Connected /\ WorkerThrows(t, "locator")
    BY <1>1, <1>2, <1>5, Throws
  <1>6. CASE /\ Connected /\ locator = dbGeneration
             /\ IF dbAttachment = 0
                THEN Ask("attach", t, 0, 0) /\ UNCHANGED <<pause, tries, attempt>>
                ELSE Dispatch(t, dbAttachment)
             /\ state' = [state EXCEPT ![t] = "running"]
             /\ UNCHANGED basis
    <2>1. bound <= locator /\ dbAttachment \in Nat
      BY <1>6 DEF Connected, IInv, Types, EndpointTypes
    <2>2. /\ state' \in [Ticket -> State] /\ state'[t] = "running"
          /\ \A u \in Ticket \ {t} : state'[u] = state[u]
      BY <1>2, <1>6 DEF RowTypes, State
    <2>3. CASE dbAttachment # 0
      BY <1>1, <1>6, <2>1, <2>2, <2>3, Dispatches
    <2>4. CASE dbAttachment = 0
      <3>1. Sends /\ waiting' = [operation |-> "attach", ticket |-> t, try |-> 0, generation |-> bound]
        BY <1>1, <1>6, <2>1, <2>4, Asks DEF Operation
      <3>2. UNCHANGED <<pause, tries, attempt, basis, locator>>
        BY <1>1, <1>6, <2>4 DEF AtWork
      <3>3. RowTypes'
        BY <1>2, <2>2, <3>2 DEF RowTypes
      <3>4. Others(t)
        BY <2>2, <3>2 DEF Others
      <3>5. Mine(t)
        <4>1. waiting' # Idle
          BY <3>1 DEF Idle, Ticket
        <4> QED
          BY <1>2, <1>3, <2>2, <3>2, <4>1 DEF Mine
      <3>6. Awaits(t)
        BY <2>1, <2>2, <3>1, <3>2 DEF Awaits
      <3> QED
        BY <1>2, <3>1, <3>3, <3>4, <3>5, <3>6 DEF WorkDone, Worked
    <2> QED
      BY <2>3, <2>4
  <1> QED
    BY <1>4, <1>5, <1>6 DEF StartWork

LEMMA TimesOut ==
  ASSUME IInv, OperationTimesOut
  PROVE  WorkDone(waiting.ticket)
  <1>1. waiting # Idle /\ Rejected(waiting.ticket, waiting.operation)
        /\ UNCHANGED <<locator, executed, extGeneration>>
    BY DEF OperationTimesOut, endpoint, extension
  <1>2. waiting.operation \in Operation
    BY <1>1, AwaitedIsAtWork DEF Asked
  <1> QED
    BY <1>1, <1>2, AwaitedIsAtWork, Rejects

(* The message at the head of the socket's queue.                          *)
LEMMA Arrives ==
  ASSUME IInv, NEW kind, Receives(kind)
  PROVE  /\ Head(toBroker) \in Message /\ Head(toBroker) = toBroker[1] /\ 1 \in 1 .. Len(toBroker)
         /\ Head(toBroker).kind = kind /\ Head(toBroker).generation = bound
         /\ toBroker' = Tail(toBroker)
  BY DEF IInv, Types, RecordTypes, Receives

LEMMA AnswerArrives ==
  ASSUME IInv, ReceiveAnswer
  PROVE  WorkDone(waiting.ticket)
  <1> DEFINE m == Head(toBroker)
  <1>1. /\ m \in Message /\ m = toBroker[1] /\ 1 \in 1 .. Len(toBroker)
        /\ m.kind = "answer" /\ m.generation = bound
    BY Arrives DEF ReceiveAnswer
  <1>2. m \in Answered
    BY <1>1 DEF Message, Noticed
  <1>3. /\ m.operation # "attach" /\ m.outcome = "succeeded" => <<m.ticket, m.try>> \in executed
        /\ m.outcome = "not_found" => m.operation = "reconcile"
    BY <1>1 DEF IInv, Truthful
  <1>4. waiting = [operation |-> m.operation, ticket |-> m.ticket, try |-> m.try,
                   generation |-> m.generation]
    BY DEF ReceiveAnswer, Answers
  <1>5. /\ waiting.operation = m.operation /\ waiting.ticket = m.ticket /\ waiting.try = m.try
        /\ waiting.generation = bound /\ waiting # Idle
    BY <1>1, <1>2, <1>4 DEF Answered, Ticket, Idle
  <1>6. UNCHANGED <<locator, executed, extGeneration>>
    BY DEF ReceiveAnswer, extension
  <1>7. /\ AtWork(m.ticket) /\ state[m.ticket] = "running"
        /\ m.operation # "attach" => m.try = tries[m.ticket] /\ tries[m.ticket] > 0
    BY <1>5, <1>6, AwaitedIsAtWork
  <1>8. bound <= locator
    BY <1>5 DEF IInv, Waits
  <1>9. m.operation \in Operation /\ m.attachment \in Nat /\ m.ticket \in Ticket
    BY <1>2 DEF Answered
  <1>10. \/ Rejected(m.ticket, m.operation)
         \/ /\ Dispatch(m.ticket, m.attachment) /\ UNCHANGED <<state, basis>>
         \/ WorkerThrows(m.ticket, "transport")
         \/ /\ m.operation # "attach" /\ m.outcome \in {"succeeded", "failed"}
            /\ Settle(m.ticket, m.outcome = "succeeded")
         \/ m.outcome = "not_found" /\ AskHuman(m.ticket)
    BY DEF ReceiveAnswer
  <1> HIDE DEF m
  <1>11. CASE Rejected(m.ticket, m.operation)
    BY <1>5, <1>7, <1>9, <1>11, Rejects
  <1>12. CASE Dispatch(m.ticket, m.attachment) /\ UNCHANGED <<state, basis>>
    <2>1. state' \in [Ticket -> State] /\ state'[m.ticket] = "running"
          /\ \A u \in Ticket \ {m.ticket} : state'[u] = state[u]
      BY <1>7, <1>12 DEF AtWork, Types, RowTypes
    <2> QED
      BY <1>5, <1>7, <1>8, <1>9, <1>12, <2>1, Dispatches
  <1>13. CASE WorkerThrows(m.ticket, "transport")
    BY <1>5, <1>7, <1>13, Throws
  <1>14. CASE /\ m.operation # "attach" /\ m.outcome \in {"succeeded", "failed"}
              /\ Settle(m.ticket, m.outcome = "succeeded")
    <2>1. (m.outcome = "succeeded") => <<m.ticket, tries[m.ticket]>> \in executed
      BY <1>3, <1>7, <1>14
    <2>2. (m.outcome = "succeeded") \in BOOLEAN
      OBVIOUS
    <2> QED
      BY <1>5, <1>7, <1>14, <2>1, <2>2, Settles
  <1>15. CASE m.outcome = "not_found" /\ AskHuman(m.ticket)
    <2>1. tries[m.ticket] > 0
      BY <1>3, <1>7, <1>15
    <2> QED
      BY <1>5, <1>7, <1>15, <2>1, HumanIsAsked
  <1> QED
    BY <1>10, <1>11, <1>12, <1>13, <1>14, <1>15

-----------------------------------------------------------------------------
(* A step that is not the worker's.                                        *)
Aside == Elsewhere /\ RowTypes' /\ toExtension' \subseteq toExtension

LEMMA Quiet ==
  ASSUME IInv, UNCHANGED <<state, pause, basis, tries, attempt, waiting, locator>>,
         toExtension' \subseteq toExtension
  PROVE  Aside
  <1>1. RowTypes /\ locator <= locator
    BY DEF IInv, Types, EndpointTypes
  <1>2. RowTypes'
    BY <1>1 DEF RowTypes
  <1>3. Elsewhere
    BY <1>1 DEF Elsewhere
  <1> QED
    BY <1>2, <1>3 DEF Aside

(* Pauses come and go with connections, inventories and detaches; none of  *)
(* these asks the human.                                                   *)
LEMMA Pauses ==
  ASSUME IInv, UNCHANGED <<state, basis, tries, attempt, toExtension>>,
         waiting' \in {waiting, Idle}, locator <= locator',
         pause' \in [Ticket -> Pause],
         \A t \in Ticket : pause'[t] \in {pause[t], "none", "extension_disconnected"}
  PROVE  Aside
  <1>1. RowTypes
    BY DEF IInv, Types
  <1>2. RowTypes'
    BY <1>1 DEF RowTypes
  <1>3. Elsewhere
    BY DEF Elsewhere
  <1> QED
    BY <1>2, <1>3 DEF Aside

LEMMA PausedByPauses ==
  ASSUME RowTypes
  PROVE  LET paused == PausedBy("extension_disconnected") IN
         /\ paused \in [Ticket -> Pause]
         /\ \A t \in Ticket : paused[t] \in {pause[t], "none", "extension_disconnected"}
  BY DEF PausedBy, RowTypes, Pause

LEMMA InventoryPauses ==
  ASSUME IInv, ReceiveInventory
  PROVE  Aside
  <1>1. RowTypes /\ locator \in Nat /\ dbGeneration \in Nat /\ locator <= dbGeneration
    BY DEF IInv, Types, EndpointTypes, Generations, Generation
  <1>2. locator' \in {locator, dbGeneration}
    BY DEF ReceiveInventory
  <1>3. locator <= locator'
    BY <1>1, <1>2
  <1>4. pause' = [t \in Ticket |->
                    IF reconciling /\ Open(t) /\ pause[t] = "extension_disconnected"
                    THEN "none" ELSE pause[t]]
    BY DEF ReceiveInventory
  <1>5. pause' \in [Ticket -> Pause]
        /\ \A t \in Ticket : pause'[t] \in {pause[t], "none", "extension_disconnected"}
    BY <1>1, <1>4 DEF RowTypes, Pause
  <1>6. UNCHANGED <<state, basis, tries, attempt, waiting, toExtension>>
    BY DEF ReceiveInventory
  <1> QED
    BY <1>3, <1>5, <1>6, Pauses

LEMMA CloseIsSeen ==
  ASSUME IInv, BrokerSeesClose
  PROVE  Aside
  <1>1. RowTypes /\ locator <= locator
    BY DEF IInv, Types, EndpointTypes
  <1>2. pause' \in [Ticket -> Pause]
        /\ \A t \in Ticket : pause'[t] \in {pause[t], "none", "extension_disconnected"}
    BY <1>1 DEF BrokerSeesClose, RowTypes, Pause
  <1>3. UNCHANGED <<state, basis, tries, attempt, toExtension, locator>> /\ waiting' \in {waiting, Idle}
    BY DEF BrokerSeesClose, wire
  <1> QED
    BY <1>1, <1>2, <1>3, Pauses

LEMMA DetachPauses ==
  ASSUME IInv, ReceiveDetach
  PROVE  Aside
  <1>1. RowTypes /\ locator <= locator
    BY DEF IInv, Types, EndpointTypes
  <1>2. UNCHANGED <<state, basis, tries, attempt, toExtension, locator, waiting>>
        /\ pause' = PausedBy("extension_disconnected")
    BY DEF ReceiveDetach, process
  <1> QED
    BY <1>1, <1>2, Pauses, PausedByPauses

LEMMA GreetingCloseIsSeen ==
  ASSUME IInv, BrokerSeesUnauthenticatedClose
  PROVE  Aside
  <1>1. RowTypes /\ locator <= locator
    BY DEF IInv, Types, EndpointTypes
  <1>2. UNCHANGED <<state, basis, tries, attempt, toExtension, locator, waiting>>
        /\ pause' \in {PausedBy("extension_disconnected"), pause}
    BY DEF BrokerSeesUnauthenticatedClose, wire
  <1>3. CASE pause' = PausedBy("extension_disconnected")
    BY <1>1, <1>2, <1>3, Pauses, PausedByPauses
  <1>4. CASE pause' = pause
    BY <1>1, <1>2, <1>4, Quiet
  <1> QED
    BY <1>2, <1>3, <1>4

LEMMA RestartPauses ==
  ASSUME IInv, BrokerRestarts
  PROVE  Aside
  <1>1. RowTypes /\ locator <= locator
    BY DEF IInv, Types, EndpointTypes
  <1>2. UNCHANGED <<state, basis, tries, attempt, toExtension, locator>> /\ waiting' = Idle
    BY DEF BrokerRestarts, endpoint
  <1>3. pause' \in [Ticket -> Pause]
        /\ \A t \in Ticket : pause'[t] \in {pause[t], "none", "extension_disconnected"}
    BY <1>1 DEF BrokerRestarts, RowTypes, Pause
  <1> QED
    BY <1>1, <1>2, <1>3, Pauses

(* The human ends tickets no operation is under way for: the one asked     *)
(* about waits for nothing, and an operation is of the head of the lane.   *)
LEMMA HumanEnds ==
  ASSUME IInv, NEW t \in Ticket, HumanConfirms(t) \/ HumanRestarts(t)
  PROVE  Aside
  <1>1. RowTypes /\ locator <= locator
    BY DEF IInv, Types, EndpointTypes
  <1>2. state[t] = "running" /\ pause[t] = "user_confirmation_required" /\ Open(t)
        /\ UNCHANGED <<tries, attempt, waiting, locator, toExtension>>
    BY DEF HumanConfirms, HumanRestarts, Open, process, endpoint, wire
  <1>3. ASSUME waiting # Idle
        PROVE  waiting.ticket \in Ticket /\ waiting.ticket < t
    <2>1. IsHead(waiting.ticket) /\ pause[waiting.ticket] # "user_confirmation_required"
          /\ waiting.ticket \in Ticket
      BY <1>3 DEF IInv, Waits, Types, RecordTypes, Asked
    <2>2. ~(t < waiting.ticket) /\ t # waiting.ticket
      BY <1>2, <2>1 DEF IsHead
    <2> QED
      BY <2>1, <2>2, CdpAssumption DEF Ticket
  <1>4. CASE HumanConfirms(t)
    <2>1. /\ state' = [state EXCEPT ![t] = "succeeded"] /\ basis' = [basis EXCEPT ![t] = "human"]
          /\ pause' = [pause EXCEPT ![t] = "none"]
      BY <1>4 DEF HumanConfirms
    <2>2. RowTypes'
      BY <1>1, <1>2, <2>1 DEF RowTypes, State, Basis, Pause
    <2>3. t # waiting.ticket \/ waiting = Idle
      BY <1>3, CdpAssumption DEF Ticket
    <2>4. Elsewhere
      BY <1>1, <1>2, <2>1, <2>3 DEF Elsewhere, RowTypes
    <2> QED
      BY <1>2, <2>2, <2>4 DEF Aside
  <1>5. CASE HumanRestarts(t)
    <2> DEFINE ended == {u \in Ticket : u >= t /\ Open(u)}
    <2>1. /\ state' = [u \in Ticket |-> IF u \in ended THEN "failed" ELSE state[u]]
          /\ basis' = [u \in Ticket |-> IF u \in ended THEN "human" ELSE basis[u]]
          /\ pause' = [u \in Ticket |-> IF u \in ended THEN "none" ELSE pause[u]]
      BY <1>5 DEF HumanRestarts
    <2>2. \A u \in ended : Open(u) /\ (waiting # Idle => waiting.ticket # u)
      BY <1>3, CdpAssumption DEF Ticket
    <2> HIDE DEF ended
    <2>3. RowTypes'
      BY <1>1, <1>2, <2>1 DEF RowTypes, State, Basis, Pause
    <2>4. Elsewhere
      BY <1>1, <1>2, <2>1, <2>2 DEF Elsewhere, RowTypes
    <2> QED
      BY <1>2, <2>3, <2>4 DEF Aside
  <1> QED
    BY <1>4, <1>5

(* Every step is the worker's or leaves the attempts alone.                *)
LEMMA Steps ==
  ASSUME IInv, [Next]_vars
  PROVE  Aside \/ \E t \in Ticket : WorkDone(t)
  <1>1. ASSUME NEW t \in Ticket, StartWork(t)
        PROVE  WorkDone(t)
    BY <1>1, Begins
  <1>2. OperationTimesOut \/ ReceiveAnswer => \E t \in Ticket : WorkDone(t)
    <2>1. WorkDone(waiting.ticket) => waiting.ticket \in Ticket \/ waiting = Idle
      BY DEF IInv, Types, RecordTypes, Asked
    <2>2. OperationTimesOut => waiting # Idle
      BY DEF OperationTimesOut
    <2>3. ReceiveAnswer => waiting # Idle
      <3> SUFFICES ASSUME ReceiveAnswer
                   PROVE  waiting # Idle
        OBVIOUS
      <3>1. Head(toBroker) \in Message /\ Head(toBroker).kind = "answer"
        BY Arrives DEF ReceiveAnswer
      <3>2. Head(toBroker).operation \in Operation
        BY <3>1 DEF Message, Noticed, Answered
      <3>3. waiting.operation = Head(toBroker).operation
        BY DEF ReceiveAnswer, Answers
      <3> QED
        BY <3>2, <3>3 DEF Idle, Operation
    <2> QED
      BY <2>1, <2>2, <2>3, TimesOut, AnswerArrives
  <1>3. CASE \/ DropStaleMessage \/ LateAnswer \/ Authenticate \/ Hello \/ SendInventory \/ SocketDies
             \/ SocketBreaks \/ ChromeDetaches \/ ExtensionRestarts \/ UNCHANGED vars
    BY <1>3, Quiet DEF DropStaleMessage, LateAnswer, Authenticate, Hello, SendInventory, SocketDies,
         SocketBreaks, LoseSocket, ChromeDetaches, ExtensionRestarts, tickets, endpoint, process,
         extension, wire, vars
  <1>4. ASSUME NEW m \in toExtension,
               Attach(m) \/ AttachFails(m) \/ TakeCommand(m) \/ Reconcile(m) \/ RefuseStale(m)
        PROVE  Aside
    BY <1>4, Quiet DEF Attach, AttachFails, TakeCommand, Reconcile, RefuseStale, Takes, tickets,
         endpoint, process, extension, wire
  <1>5. ASSUME NEW c \in running, RunCommand(c) \/ ReportCommand(c)
        PROVE  Aside
    BY <1>5, Quiet DEF RunCommand, ReportCommand, tickets, endpoint, process, wire
  <1> QED
    BY <1>1, <1>2, <1>3, <1>4, <1>5, InventoryPauses, CloseIsSeen, DetachPauses,
       GreetingCloseIsSeen, RestartPauses, HumanEnds DEF Next, BrokerStep, ExtensionStep

-----------------------------------------------------------------------------
(* The columns of the endpoint and what is counted.                        *)
LEMMA EndpointStep ==
  ASSUME IInv, [Next]_vars
  PROVE  EndpointTypes' /\ locator' <= dbGeneration'
  <1>1. EndpointTypes /\ locator <= dbGeneration /\ MaxGenerations \in Nat
    BY CdpAssumption DEF IInv, Types, Generations
  <1>2. ASSUME NEW t \in Ticket, StartWork(t) \/ HumanConfirms(t) \/ HumanRestarts(t)
        PROVE  EndpointTypes' /\ locator' <= dbGeneration'
    BY <1>1, <1>2 DEF StartWork, HumanConfirms, HumanRestarts, EndpointTypes, endpoint, process,
         extension
  <1>3. CASE OperationTimesOut \/ DropStaleMessage \/ LateAnswer \/ UNCHANGED vars
    BY <1>1, <1>3 DEF OperationTimesOut, DropStaleMessage, LateAnswer, Fault, EndpointTypes,
         endpoint, process, extension, vars
  <1>4. CASE ReceiveAnswer
    <2> DEFINE m == Head(toBroker)
    <2>1. m \in Message /\ m.kind = "answer"
      BY <1>4, Arrives DEF ReceiveAnswer
    <2>2. m.attachment \in Nat
      BY <2>1 DEF Message, Noticed, Answered
    <2>3. dbAttachment' \in {dbAttachment, m.attachment}
          /\ UNCHANGED <<dbGeneration, dbConnected, locator, bound, greeting, reconciling,
                         extGeneration, attachment, attachments, faults>>
      BY <1>4 DEF ReceiveAnswer, extension
    <2> QED
      BY <1>1, <2>2, <2>3 DEF EndpointTypes
  <1>5. CASE ReceiveInventory
    <2> DEFINE m == Head(toBroker)
    <2>1. m \in Message /\ m.kind = "inventory"
      BY <1>5, Arrives DEF ReceiveInventory
    <2>2. m.attachment \in Nat
      BY <2>1 DEF Message, Noticed, Answered
    <2>3. dbAttachment' \in {dbAttachment, m.attachment} /\ locator' \in {locator, dbGeneration}
          /\ reconciling' = FALSE
          /\ UNCHANGED <<dbGeneration, dbConnected, bound, greeting,
                         extGeneration, attachment, attachments, faults>>
      BY <1>5 DEF ReceiveInventory, extension
    <2> HIDE DEF m
    <2>4. locator' \in 0 .. MaxGenerations /\ locator' <= dbGeneration'
      BY <1>1, <2>3 DEF EndpointTypes, Generation
    <2> QED
      BY <1>1, <2>2, <2>3, <2>4 DEF EndpointTypes
  <1>6. CASE ReceiveDetach
    BY <1>1, <1>6 DEF ReceiveDetach, EndpointTypes, process, extension
  <1>7. CASE Authenticate
    BY <1>1, <1>7 DEF Authenticate, EndpointTypes, endpoint, extension
  <1>8. CASE BrokerSeesClose
    BY <1>1, <1>8 DEF BrokerSeesClose, EndpointTypes, extension
  <1>9. CASE BrokerSeesUnauthenticatedClose
    BY <1>1, <1>9 DEF BrokerSeesUnauthenticatedClose, EndpointTypes, extension
  <1>10. CASE Hello
    BY <1>1, <1>10 DEF Hello, EndpointTypes, Generation
  <1>11. CASE SocketDies \/ SocketBreaks
    BY <1>1, <1>11 DEF SocketDies, SocketBreaks, LoseSocket, Fault, EndpointTypes, endpoint, process
  <1>12. CASE BrokerRestarts \/ ExtensionRestarts \/ ChromeDetaches \/ SendInventory
    <2>1. UNCHANGED <<dbGeneration, dbConnected, locator, dbAttachment>>
      BY <1>12 DEF BrokerRestarts, ExtensionRestarts, ChromeDetaches, SendInventory, endpoint
    <2>2. bound' \in {bound, 0} /\ greeting' \in {greeting, 0} 
          /\ extGeneration' \in {extGeneration, 0} /\ attachment' \in {attachment, 0}
          /\ attachments' \in {attachments, 0} /\ faults' \in {faults, faults + 1}
      BY <1>12 DEF BrokerRestarts, ExtensionRestarts, ChromeDetaches, SendInventory, Fault, process,
           extension
    <2>3. reconciling' = reconciling \/ reconciling' = FALSE
      BY <1>12 DEF BrokerRestarts, ExtensionRestarts, ChromeDetaches, SendInventory, process
    <2>4. reconciling' \in BOOLEAN
      BY <1>1, <2>3 DEF EndpointTypes
    <2> QED
      BY <1>1, <2>1, <2>2, <2>4 DEF EndpointTypes
  <1>13. ASSUME NEW m \in toExtension,
                Attach(m) \/ AttachFails(m) \/ TakeCommand(m) \/ Reconcile(m) \/ RefuseStale(m)
         PROVE  EndpointTypes' /\ locator' <= dbGeneration'
    BY <1>1, <1>13 DEF Attach, AttachFails, TakeCommand, Reconcile, RefuseStale, Fault,
         EndpointTypes, endpoint, process, extension
  <1>14. ASSUME NEW c \in running, RunCommand(c) \/ ReportCommand(c)
         PROVE  EndpointTypes' /\ locator' <= dbGeneration'
    BY <1>1, <1>14 DEF RunCommand, ReportCommand, EndpointTypes, endpoint, process
  <1> QED
    BY <1>2, <1>3, <1>4, <1>5, <1>6, <1>7, <1>8, <1>9, <1>10, <1>11, <1>12, <1>13, <1>14
       DEF Next, BrokerStep, ExtensionStep

(* What the extension remembers and what is on its way to the broker.      *)
Memory ==
    /\ running \subseteq Command /\ cache \subseteq Remembered /\ executed \subseteq Ticket \X Nat
    /\ \A c \in running : c.stage = "ok" => <<c.ticket, c.try>> \in executed
    /\ \A e \in cache : e.ok => <<e.ticket, e.try>> \in executed

Honest(m, carried) ==
    m.kind = "answer" =>
        /\ m.operation # "attach" /\ m.outcome = "succeeded" => <<m.ticket, m.try>> \in carried
        /\ m.outcome = "not_found" => m.operation = "reconcile"

Wire ==
    /\ toBroker \in Seq(Message)
    /\ \A i \in 1 .. Len(toBroker) : Honest(toBroker[i], executed)

LEMMA MemoryAndWire == IInv => Memory /\ Wire
  BY DEF IInv, Types, RecordTypes, Truthful, Memory, Wire, Honest

LEMMA Drops ==
  ASSUME Wire, executed \subseteq executed',
         \/ toBroker # <<>> /\ toBroker' = Tail(toBroker)
         \/ toBroker' \in {toBroker, <<>>}
  PROVE  Wire'
  <1>1. \A m : Honest(m, executed) => Honest(m, executed')
    BY DEF Honest
  <1>2. CASE toBroker # <<>> /\ toBroker' = Tail(toBroker)
    <2>1. toBroker' \in Seq(Message) /\ Len(toBroker') = Len(toBroker) - 1
          /\ \A i \in 1 .. Len(toBroker') : toBroker'[i] = toBroker[i + 1]
      BY <1>2 DEF Wire
    <2>2. Len(toBroker) \in Nat
      BY DEF Wire
    <2>3. \A i \in 1 .. Len(toBroker') : i + 1 \in 1 .. Len(toBroker)
      BY <2>1, <2>2
    <2>4. \A i \in 1 .. Len(toBroker') : Honest(toBroker'[i], executed)
      BY <2>1, <2>3 DEF Wire
    <2> QED
      BY <1>1, <2>1, <2>4 DEF Wire
  <1>3. CASE toBroker' = toBroker
    BY <1>1, <1>3 DEF Wire
  <1>4. CASE toBroker' = <<>>
    <2>1. toBroker' \in Seq(Message) /\ Len(toBroker') = 0
      BY <1>4
    <2> QED
      BY <2>1 DEF Wire
  <1> QED
    BY <1>2, <1>3, <1>4

LEMMA Tells ==
  ASSUME Wire, executed \subseteq executed', NEW m \in Message, Honest(m, executed'), Tell(m)
  PROVE  Wire'
  <1>1. \A n : Honest(n, executed) => Honest(n, executed')
    BY DEF Honest
  <1>2. toBroker' = Append(toBroker, m)
    BY DEF Tell
  <1>3. toBroker' \in Seq(Message)
    BY <1>2 DEF Wire
  <1>4. \A i \in 1 .. Len(toBroker') : toBroker'[i] = m \/ Honest(toBroker'[i], executed)
    BY <1>2 DEF Wire
  <1> QED
    BY <1>1, <1>3, <1>4 DEF Wire

LEMMA AnswerIsHonest ==
  ASSUME IInv, executed \subseteq executed', extGeneration # 0,
         NEW m, m.operation \in Operation, m.ticket \in Ticket, m.try \in Nat,
         NEW outcome \in {"refused", "succeeded", "failed", "not_found"}, NEW attached \in Nat,
         Answer(m, outcome, attached),
         m.operation # "attach" /\ outcome = "succeeded" => <<m.ticket, m.try>> \in executed',
         outcome = "not_found" => m.operation = "reconcile"
  PROVE  Wire'
  <1> DEFINE told == [kind |-> "answer", generation |-> extGeneration, operation |-> m.operation,
                      ticket |-> m.ticket, try |-> m.try, outcome |-> outcome,
                      attachment |-> attached]
  <1>1. extGeneration \in Generation
    BY DEF IInv, Types, EndpointTypes, Generation
  <1>2. told \in Message
    BY <1>1 DEF Message, Answered
  <1>3. Honest(told, executed')
    BY DEF Honest
  <1>4. Tell(told)
    BY DEF Answer
  <1> HIDE DEF told
  <1> QED
    BY <1>2, <1>3, <1>4, MemoryAndWire, Tells

LEMMA NoticeIsHonest ==
  ASSUME IInv, executed' = executed, extGeneration # 0,
         NEW kind \in {"inventory", "detached"}, Notify(kind, attachment)
  PROVE  Wire'
  <1> DEFINE told == [kind |-> kind, generation |-> extGeneration, attachment |-> attachment]
  <1>1. extGeneration \in Generation /\ attachment \in Nat
    BY DEF IInv, Types, EndpointTypes, Generation
  <1>2. told \in Message
    BY <1>1 DEF Message, Noticed
  <1>3. Honest(told, executed')
    BY DEF Honest
  <1>4. Tell(told)
    BY DEF Notify
  <1> HIDE DEF told
  <1> QED
    BY <1>2, <1>3, <1>4, MemoryAndWire, Tells

(* Nothing the extension remembers changes.                                *)
LEMMA MemoryKept ==
  ASSUME IInv, UNCHANGED <<running, cache, executed>>
  PROVE  Memory' /\ executed \subseteq executed'
  BY MemoryAndWire DEF Memory

(* Messages handled by the extension, with its answers.                    *)
LEMMA Handles ==
  ASSUME IInv, NEW m \in toExtension,
         Attach(m) \/ AttachFails(m) \/ TakeCommand(m) \/ Reconcile(m) \/ RefuseStale(m)
  PROVE  Memory' /\ Wire'
  <1>1. /\ m \in Request /\ m.operation \in Operation /\ m.ticket \in Ticket /\ m.try \in Nat
        /\ m.attachment \in Nat /\ extGeneration # 0
    BY DEF IInv, Types, RecordTypes, Request, Generations
  <1>2. Memory /\ Wire
    BY MemoryAndWire
  <1>3. CASE Attach(m)
    <2>1. UNCHANGED <<running, cache, executed>>
          /\ m.operation = "attach" /\ Answer(m, "succeeded", attachments + 1)
      BY <1>3 DEF Attach, Takes
    <2>2. attachments + 1 \in Nat
      BY DEF IInv, Types, EndpointTypes
    <2>3. Memory' /\ executed \subseteq executed'
      BY <2>1, MemoryKept
    <2> QED
      BY <1>1, <2>1, <2>2, <2>3, AnswerIsHonest
  <1>4. CASE AttachFails(m) \/ RefuseStale(m)
    <2>1. UNCHANGED <<running, cache, executed>>
          /\ \E outcome \in {"failed", "refused"} : Answer(m, outcome, 0)
      BY <1>4 DEF AttachFails, RefuseStale, extension
    <2>2. Memory' /\ executed \subseteq executed'
      BY <2>1, MemoryKept
    <2>3. PICK outcome \in {"failed", "refused"} : Answer(m, outcome, 0)
      BY <2>1
    <2> QED
      BY <1>1, <2>2, <2>3, AnswerIsHonest
  <1>5. CASE TakeCommand(m)
    <2> DEFINE c == [ticket |-> m.ticket, try |-> m.try, attachment |-> m.attachment, stage |-> "sent"]
    <2>1. running' = running \cup {c} /\ UNCHANGED <<cache, executed, toBroker>>
      BY <1>5 DEF TakeCommand
    <2>2. c \in Command /\ c.stage = "sent"
      BY <1>1 DEF Command
    <2> HIDE DEF c
    <2>3. Memory'
      BY <1>2, <2>1, <2>2 DEF Memory
    <2>4. Wire'
      BY <1>2, <2>1, Drops
    <2> QED
      BY <2>3, <2>4
  <1>6. CASE Reconcile(m)
    <2>1. UNCHANGED <<running, cache, executed>> /\ m.operation = "reconcile"
      BY <1>6 DEF Reconcile, Takes, extension
    <2>2. PICK found \in SUBSET {e \in cache : e.ticket = m.ticket /\ e.try = m.try
                                                  /\ e.attachment = m.attachment} :
             Answer(m, IF found = {} THEN "not_found"
                       ELSE IF \E e \in found : e.ok THEN "succeeded" ELSE "failed", 0)
      BY <1>6 DEF Reconcile
    <2> DEFINE outcome == IF found = {} THEN "not_found"
                          ELSE IF \E e \in found : e.ok THEN "succeeded" ELSE "failed"
    <2>3. outcome = "succeeded" => <<m.ticket, m.try>> \in executed'
      BY <1>2, <2>1 DEF Memory
    <2>4. Memory' /\ executed \subseteq executed'
      BY <2>1, MemoryKept
    <2>5. outcome \in {"refused", "succeeded", "failed", "not_found"}
      OBVIOUS
    <2>6. Answer(m, outcome, 0)
      BY <2>2
    <2> HIDE DEF outcome
    <2> QED
      BY <1>1, <2>1, <2>3, <2>4, <2>5, <2>6, AnswerIsHonest
  <1> QED
    BY <1>3, <1>4, <1>5, <1>6

(* A command is carried out, remembered and reported.                      *)
LEMMA CarriesOut ==
  ASSUME IInv, NEW c \in running, RunCommand(c) \/ ReportCommand(c)
  PROVE  Memory' /\ Wire' /\ executed \subseteq executed'
  <1>1. Memory /\ Wire
    BY MemoryAndWire
  <1>2. c \in Command /\ c.ticket \in Ticket /\ c.try \in Nat /\ c.attachment \in Nat
        /\ c.stage \in {"sent", "ok", "error"}
    BY <1>1 DEF Memory, Command
  <1>3. CASE RunCommand(c)
    <2> DEFINE attached == attachment = c.attachment
               stage == IF attached /\ c.ticket \notin Oversize THEN "ok" ELSE "error"
               ran == [c EXCEPT !.stage = stage]
    <2>1. /\ executed' = IF attached THEN executed \cup {<<c.ticket, c.try>>} ELSE executed
          /\ running' = (running \ {c}) \cup {ran}
          /\ UNCHANGED <<cache, toBroker>>
      BY <1>3 DEF RunCommand, wire
    <2>2. ran \in Command /\ ran.ticket = c.ticket /\ ran.try = c.try
          /\ (ran.stage = "ok" => attached)
      BY <1>2 DEF Command
    <2> HIDE DEF ran, attached
    <2>3. executed \subseteq executed' /\ executed' \subseteq Ticket \X Nat
          /\ (attached => <<c.ticket, c.try>> \in executed')
      BY <1>1, <1>2, <2>1 DEF Memory
    <2>4. Memory'
      BY <1>1, <2>1, <2>2, <2>3 DEF Memory
    <2>5. Wire'
      BY <1>1, <2>1, <2>3, Drops
    <2> QED
      BY <2>3, <2>4, <2>5
  <1>4. CASE ReportCommand(c)
    <2> DEFINE o == Outcome(c, c.stage = "ok" /\ extGeneration # 0)
    <2>1. running' = running \ {c} /\ UNCHANGED executed
          /\ cache' \subseteq cache \cup {o}
      BY <1>4 DEF ReportCommand, Remember
    <2>2. (c.stage = "ok" /\ extGeneration # 0) \in BOOLEAN
      OBVIOUS
    <2>3. o \in Remembered /\ o.ticket = c.ticket /\ o.try = c.try /\ (o.ok => c.stage = "ok")
      BY <1>2, <2>2 DEF Outcome, Remembered
    <2> HIDE DEF o
    <2>4. c.stage = "ok" => <<c.ticket, c.try>> \in executed
      BY <1>1 DEF Memory
    <2>5. Memory'
      BY <1>1, <2>1, <2>3, <2>4 DEF Memory
    <2>6. CASE extGeneration = 0
      <3>1. toBroker' = toBroker
        BY <1>4, <2>6 DEF ReportCommand
      <3> QED
        BY <1>1, <2>1, <2>5, <3>1, Drops
    <2>7. CASE extGeneration # 0
      <3> DEFINE m == [operation |-> "send", ticket |-> c.ticket, try |-> c.try]
                 outcome == IF c.stage = "ok" THEN "succeeded" ELSE "failed"
      <3>1. Answer(m, outcome, 0)
        BY <1>4, <2>7 DEF ReportCommand
      <3>2. m.operation = "send" /\ m.ticket = c.ticket /\ m.try = c.try
        OBVIOUS
      <3>3. outcome \in {"succeeded", "failed"} /\ (outcome = "succeeded" => c.stage = "ok")
        OBVIOUS
      <3> HIDE DEF m, outcome
      <3>4. m.operation \in Operation /\ m.ticket \in Ticket /\ m.try \in Nat
        BY <1>2, <3>2 DEF Operation
      <3>5. outcome = "succeeded" => <<m.ticket, m.try>> \in executed'
        BY <2>1, <2>4, <3>2, <3>3
      <3>6. Wire'
        BY <2>1, <2>7, <3>1, <3>3, <3>4, <3>5, AnswerIsHonest
      <3> QED
        BY <2>1, <2>5, <3>6
    <2> QED
      BY <2>6, <2>7
  <1> QED
    BY <1>3, <1>4

LEMMA MemoryStep ==
  ASSUME IInv, [Next]_vars
  PROVE  Memory' /\ Wire' /\ executed \subseteq executed'
  <1>1. Memory /\ Wire
    BY MemoryAndWire
  <1>2. ASSUME UNCHANGED <<running, cache, executed>>,
               \/ toBroker # <<>> /\ toBroker' = Tail(toBroker)
               \/ toBroker' \in {toBroker, <<>>}
        PROVE  Memory' /\ Wire' /\ executed \subseteq executed'
    BY <1>1, <1>2, MemoryKept, Drops
  <1>3. ASSUME NEW t \in Ticket, StartWork(t) \/ HumanConfirms(t) \/ HumanRestarts(t)
        PROVE  Memory' /\ Wire' /\ executed \subseteq executed'
    BY <1>2, <1>3 DEF StartWork, HumanConfirms, HumanRestarts, extension, wire
  <1>4. CASE OperationTimesOut \/ BrokerSeesClose \/ BrokerSeesUnauthenticatedClose
             \/ Authenticate \/ Hello \/ SocketDies \/ SocketBreaks \/ BrokerRestarts
             \/ UNCHANGED vars
    BY <1>2, <1>4 DEF OperationTimesOut, BrokerSeesClose, BrokerSeesUnauthenticatedClose,
       Authenticate, Hello, SocketDies, SocketBreaks, LoseSocket, BrokerRestarts, vars, extension, wire
  <1>5. CASE DropStaleMessage \/ LateAnswer \/ ReceiveAnswer \/ ReceiveInventory \/ ReceiveDetach
    BY <1>2, <1>5 DEF DropStaleMessage, LateAnswer, ReceiveAnswer, ReceiveInventory, ReceiveDetach,
       Receives, extension
  <1>6. CASE SendInventory
    <2>1. UNCHANGED <<running, cache, executed>> /\ extGeneration # 0 /\ Notify("inventory", attachment)
      BY <1>6 DEF SendInventory, extension
    <2> QED
      BY <2>1, MemoryKept, NoticeIsHonest
  <1>7. CASE ChromeDetaches
    <2>1. UNCHANGED <<running, cache, executed>>
      BY <1>7 DEF ChromeDetaches
    <2>2. CASE extGeneration = 0
      BY <1>2, <1>7, <2>1, <2>2 DEF ChromeDetaches
    <2>3. CASE extGeneration # 0
      <3>1. Notify("detached", attachment)
        BY <1>7, <2>3 DEF ChromeDetaches
      <3> QED
        BY <2>1, <2>3, <3>1, MemoryKept, NoticeIsHonest
    <2> QED
      BY <2>2, <2>3
  <1>8. CASE ExtensionRestarts
    <2>1. running' = {} /\ UNCHANGED <<cache, executed, toBroker>>
      BY <1>8 DEF ExtensionRestarts
    <2>2. Memory' /\ executed \subseteq executed'
      BY <1>1, <2>1 DEF Memory
    <2> QED
      BY <1>1, <2>1, <2>2, Drops
  <1>9. ASSUME NEW m \in toExtension,
               Attach(m) \/ AttachFails(m) \/ TakeCommand(m) \/ Reconcile(m) \/ RefuseStale(m)
        PROVE  Memory' /\ Wire' /\ executed \subseteq executed'
    <2>1. executed' = executed
      BY <1>9 DEF Attach, AttachFails, TakeCommand, Reconcile, RefuseStale, extension
    <2> QED
      BY <1>9, <2>1, Handles
  <1> QED
    BY <1>3, <1>4, <1>5, <1>6, <1>7, <1>8, <1>9, CarriesOut DEF Next, BrokerStep, ExtensionStep

(* Without a connection nothing is on its way to the extension.            *)
LEMMA DisconnectedStep ==
  ASSUME IInv, [Next]_vars, Aside, extGeneration' = 0
  PROVE  toExtension' = {}
  <1>1. (extGeneration = 0 => toExtension = {}) /\ toExtension' \subseteq toExtension
    BY DEF IInv, Generations, Aside
  <1>2. CASE extGeneration = 0
    BY <1>1, <1>2
  <1>3. CASE LoseSocket \/ ExtensionRestarts
    BY <1>3 DEF LoseSocket, ExtensionRestarts
  <1>4. CASE extGeneration' = extGeneration
    BY <1>1, <1>4
  <1>5. CASE Hello
    BY <1>5 DEF Hello, IInv, Types, EndpointTypes, Generation
  <1> QED
    BY <1>2, <1>3, <1>4, <1>5
       DEF Next, BrokerStep, ExtensionStep, StartWork, OperationTimesOut, DropStaleMessage,
           LateAnswer, ReceiveAnswer, ReceiveInventory, ReceiveDetach, Authenticate, BrokerSeesClose,
           BrokerSeesUnauthenticatedClose, Attach, AttachFails, TakeCommand, Reconcile, RunCommand,
           ReportCommand, SendInventory, SocketDies, RefuseStale, SocketBreaks, BrokerRestarts,
           ChromeDetaches, HumanConfirms, HumanRestarts, extension, vars

-----------------------------------------------------------------------------
(* What the two kinds of steps keep of the tickets' part of the invariant. *)
LEMMA WorkKeeps ==
  ASSUME IInv, NEW t \in Ticket, WorkDone(t), executed \subseteq executed'
  PROVE  Waits' /\ Rows' /\ RawResultMeansEffect'
  <1>1. Worked(t) /\ IsHead(t) /\ Open(t) /\ Others(t) /\ Mine(t) /\ Awaits(t)
    BY Heads DEF WorkDone, Worked
  <1>2. Rows /\ RawResultMeansEffect
    BY DEF IInv
  <1>3. \A u \in Ticket : u < t => ~Open(u) /\ u # t
    BY <1>1, CdpAssumption DEF IsHead, Ticket
  <1>4. \A u \in Ticket : u < t => state'[u] \notin {"queued", "running"}
    BY <1>1, <1>3 DEF Others, Open
  <1>5. Waits'
    <2> SUFFICES ASSUME waiting' # Idle
                 PROVE  /\ IsHead(waiting.ticket)'
                        /\ state'[waiting'.ticket] = "running"
                        /\ pause'[waiting'.ticket] # "user_confirmation_required"
                        /\ waiting'.generation <= locator'
                        /\ waiting'.operation # "attach" =>
                               waiting'.try = tries'[waiting'.ticket] /\ waiting'.try > 0
      BY DEF Waits
    <2>1. /\ waiting'.ticket = t /\ state'[t] = "running" /\ waiting'.generation <= locator'
          /\ waiting'.operation # "attach" => waiting'.try = tries'[t] /\ waiting'.try > 0
          /\ pause'[t] # "user_confirmation_required"
      BY <1>1 DEF Awaits, Mine
    <2>2. IsHead(waiting.ticket)'
      BY <1>4, <2>1 DEF IsHead, Open
    <2> QED
      BY <2>1, <2>2
  <1>6. Rows'
    <2> SUFFICES ASSUME NEW u \in Ticket
                 PROVE  /\ basis'[u] # "none" => state'[u] \notin {"queued", "running"}
                        /\ attempt'[u] = "pending" => tries'[u] > 0
                        /\ pause'[u] = "user_confirmation_required" =>
                               state'[u] = "running" /\ tries'[u] > 0 /\ attempt'[u] = "missing"
                        /\ tries'[u] > 0 => \A v \in Ticket :
                               v < u => state'[v] \notin {"queued", "running"}
      BY DEF Rows, Open
    <2>1. CASE u = t
      BY <1>1, <1>4, <2>1 DEF Mine
    <2>2. CASE u # t
      <3>1. /\ state'[u] = state[u] /\ pause'[u] = pause[u] /\ basis'[u] = basis[u]
            /\ tries'[u] = tries[u] /\ attempt'[u] = attempt[u]
        BY <1>1, <2>2 DEF Others
      <3>2. tries[u] > 0 => ~(t < u)
        BY <1>1, <1>2 DEF Rows
      <3>3. ASSUME tries[u] > 0, NEW v \in Ticket, v < u
            PROVE  state'[v] \notin {"queued", "running"}
        <4>1. v < t
          BY <3>2, <3>3, CdpAssumption DEF Ticket
        <4> QED
          BY <1>4, <4>1
      <3> QED
        BY <1>2, <3>1, <3>3 DEF Rows, Open
    <2> QED
      BY <2>1, <2>2
  <1>7. RawResultMeansEffect'
    BY <1>1, <1>2 DEF RawResultMeansEffect, Others, Mine
  <1> QED
    BY <1>5, <1>6, <1>7

LEMMA AsideKeeps ==
  ASSUME IInv, Aside, EndpointTypes', executed \subseteq executed'
  PROVE  Waits' /\ Rows' /\ RawResultMeansEffect'
  <1>1. Elsewhere /\ UNCHANGED <<tries, attempt>> /\ waiting' \in {waiting, Idle} /\ locator <= locator'
    BY DEF Aside, Elsewhere
  <1>2. Rows /\ RawResultMeansEffect /\ Waits
    BY DEF IInv
  <1>3. \A t \in Ticket : state'[t] \in {"queued", "running"} => Open(t)
    BY <1>1 DEF Elsewhere, Open
  <1>4. Waits'
    <2> SUFFICES ASSUME waiting' # Idle
                 PROVE  /\ IsHead(waiting.ticket)'
                        /\ state'[waiting'.ticket] = "running"
                        /\ pause'[waiting'.ticket] # "user_confirmation_required"
                        /\ waiting'.generation <= locator'
                        /\ waiting'.operation # "attach" =>
                               waiting'.try = tries'[waiting'.ticket] /\ waiting'.try > 0
      BY DEF Waits
    <2> DEFINE t == waiting.ticket
    <2>1. waiting' = waiting /\ waiting # Idle
      BY <1>1
    <2>2. waiting \in Asked /\ t \in Ticket /\ waiting.generation \in Nat
      BY <2>1 DEF IInv, Types, RecordTypes, Asked, Generation
    <2>3. locator \in Nat /\ locator' \in Nat
      BY DEF IInv, Types, EndpointTypes
    <2>4. /\ IsHead(t) /\ state[t] = "running" /\ pause[t] # "user_confirmation_required"
          /\ waiting.generation <= locator
          /\ waiting.operation # "attach" => waiting.try = tries[t] /\ waiting.try > 0
      BY <1>2, <2>1 DEF Waits
    <2>5. state'[t] = "running" /\ pause'[t] # "user_confirmation_required"
      BY <1>1, <2>1, <2>2, <2>4 DEF Elsewhere
    <2>6. IsHead(waiting.ticket)'
      BY <1>3, <2>1, <2>4, <2>5 DEF IsHead, Open
    <2>7. waiting.generation <= locator'
      BY <1>1, <2>2, <2>3, <2>4
    <2> QED
      BY <1>1, <2>1, <2>4, <2>5, <2>6, <2>7
  <1>5. Rows'
    <2> SUFFICES ASSUME NEW u \in Ticket
                 PROVE  /\ basis'[u] # "none" => state'[u] \notin {"queued", "running"}
                        /\ attempt'[u] = "pending" => tries'[u] > 0
                        /\ pause'[u] = "user_confirmation_required" =>
                               state'[u] = "running" /\ tries'[u] > 0 /\ attempt'[u] = "missing"
                        /\ tries'[u] > 0 => \A v \in Ticket :
                               v < u => state'[v] \notin {"queued", "running"}
      BY DEF Rows, Open
    <2>1. tries'[u] = tries[u] /\ attempt'[u] = attempt[u]
      BY <1>1
    <2>2. basis'[u] # "none" => state'[u] \notin {"queued", "running"}
      BY <1>1, <1>2 DEF Elsewhere, Rows, Open
    <2>3. pause'[u] = "user_confirmation_required" =>
              state'[u] = state[u] /\ pause[u] = "user_confirmation_required"
      BY <1>1 DEF Elsewhere
    <2> QED
      BY <1>2, <1>3, <2>1, <2>2, <2>3 DEF Rows, Open
  <1>6. RawResultMeansEffect'
    BY <1>1, <1>2 DEF RawResultMeansEffect, Elsewhere
  <1> QED
    BY <1>4, <1>5, <1>6

(* What is on its way to the extension.                                    *)
LEMMA SentKeeps ==
  ASSUME IInv, [Next]_vars
  PROVE  RowTypes' /\ waiting' \in Asked \cup {Idle} /\ toExtension' \subseteq Request /\ Generations'
  <1>1. EndpointTypes' /\ locator' <= dbGeneration'
    BY EndpointStep
  <1>2. ASSUME NEW t \in Ticket, WorkDone(t)
        PROVE  RowTypes' /\ waiting' \in Asked \cup {Idle} /\ toExtension' \subseteq Request
               /\ Generations'
    BY <1>1, <1>2 DEF WorkDone, Sends, Generations
  <1>3. ASSUME Aside
        PROVE  RowTypes' /\ waiting' \in Asked \cup {Idle} /\ toExtension' \subseteq Request
               /\ Generations'
    <2>1. RowTypes' /\ waiting' \in {waiting, Idle} /\ locator <= locator'
          /\ toExtension' \subseteq toExtension
      BY <1>3 DEF Aside, Elsewhere
    <2>2. waiting \in Asked \cup {Idle} /\ toExtension \subseteq Request
          /\ (\A m \in toExtension : m.generation <= locator) /\ locator \in Nat
      BY DEF IInv, Types, RecordTypes, EndpointTypes, Generations
    <2>3. locator' \in Nat
      BY <1>1 DEF EndpointTypes
    <2>4. \A m \in toExtension' : m.generation \in Nat
      BY <2>1, <2>2 DEF Request, Generation
    <2>5. \A m \in toExtension' : m.generation <= locator'
      BY <2>1, <2>2, <2>3, <2>4
    <2>6. extGeneration' = 0 => toExtension' = {}
      BY <1>3, DisconnectedStep
    <2> QED
      BY <1>1, <2>1, <2>2, <2>5, <2>6 DEF Generations
  <1> QED
    BY <1>2, <1>3, Steps

-----------------------------------------------------------------------------
LEMMA Preserved == IInv /\ [Next]_vars => IInv'
  <1> SUFFICES ASSUME IInv, [Next]_vars
               PROVE  IInv'
    OBVIOUS
  <1>1. EndpointTypes'
    BY EndpointStep
  <1>2. Memory' /\ Wire' /\ executed \subseteq executed'
    BY MemoryStep
  <1>3. RowTypes' /\ waiting' \in Asked \cup {Idle} /\ toExtension' \subseteq Request /\ Generations'
    BY SentKeeps
  <1>4. RecordTypes'
    BY <1>2, <1>3 DEF RecordTypes, Memory, Wire
  <1>5. Truthful'
    BY <1>2 DEF Truthful, Memory, Wire, Honest
  <1>6. Waits' /\ Rows' /\ RawResultMeansEffect'
    BY <1>1, <1>2, Steps, WorkKeeps, AsideKeeps
  <1> QED
    BY <1>1, <1>3, <1>4, <1>5, <1>6 DEF IInv, Types

THEOREM Inductive == Spec => []IInv
  <1>1. Init => IInv
    <2> SUFFICES ASSUME Init
                 PROVE  IInv
      OBVIOUS
    <2>1. RowTypes
      BY DEF Init, RowTypes, State, Pause, Basis, Attempt
    <2>2. EndpointTypes
      <3>1. MaxGenerations \in Nat /\ MaxGenerations > 0
        BY CdpAssumption
      <3>2. 0 \in 0 .. MaxGenerations /\ 1 \in 0 .. MaxGenerations /\ 1 \in 1 .. MaxGenerations
        BY <3>1
      <3>3. dbConnected \in BOOLEAN /\ reconciling \in BOOLEAN
        BY DEF Init
      <3> QED
        BY <3>2, <3>3 DEF Init, EndpointTypes, Generation
    <2>3. RecordTypes
      BY DEF Init, RecordTypes
    <2>4. Waits /\ Generations /\ Truthful
      BY DEF Init, Waits, Generations, Truthful
    <2>5. Rows /\ RawResultMeansEffect
      BY DEF Init, Rows, RawResultMeansEffect
    <2> QED
      BY <2>1, <2>2, <2>3, <2>4, <2>5 DEF IInv, Types
  <1> QED
    BY <1>1, Preserved, PTL DEF Spec

(* Rows, memories and messages have their types.                           *)
THEOREM ExecutionTypes == Spec => []TypeOK
  <1>1. IInv => TypeOK
    <2> SUFFICES ASSUME IInv
                 PROVE  TypeOK
      OBVIOUS
    <2>1. RowTypes /\ EndpointTypes /\ RecordTypes
      BY DEF IInv, Types
    <2>2. /\ state \in [Ticket -> {"queued", "running", "succeeded", "failed"}]
          /\ pause \in [Ticket -> {"none", "extension_disconnected", "user_confirmation_required"}]
          /\ basis \in [Ticket -> {"none", "raw_result", "debugger_error", "transport", "locator",
                                   "human"}]
          /\ tries \in [Ticket -> Nat]
          /\ attempt \in [Ticket -> {"none", "pending", "completed", "missing"}]
      BY <2>1 DEF RowTypes, State, Pause, Basis, Attempt
    <2>3. {dbGeneration, bound, greeting, locator, extGeneration} \subseteq 0..MaxGenerations
      BY <2>1 DEF EndpointTypes, Generation
    <2>4. {dbAttachment, attachment, attachments, faults} \subseteq Nat
          /\ {dbConnected, reconciling} \subseteq BOOLEAN
      BY <2>1 DEF EndpointTypes
    <2>5. waiting.operation \in {"none", "attach", "send", "reconcile"}
          /\ waiting.ticket \in Ticket \cup {0}
      BY <2>1 DEF RecordTypes, Asked, Operation, Idle
    <2>6. executed \subseteq Ticket \X Nat
      BY <2>1 DEF RecordTypes
    <2>7. /\ \A c \in running : c.ticket \in Ticket /\ c.stage \in {"sent", "ok", "error"}
          /\ \A e \in cache : e.ticket \in Ticket /\ e.ok \in BOOLEAN
      BY <2>1 DEF RecordTypes, Command, Remembered
    <2>8. \A m \in toExtension : m.ticket \in Ticket /\ m.generation \in 1..MaxGenerations
      BY <2>1 DEF RecordTypes, Request, Generation
    <2>9. \A i \in DOMAIN toBroker : toBroker[i].generation \in 1..MaxGenerations
      BY <2>1 DEF RecordTypes, Message, Answered, Noticed, Generation
    <2> QED
      BY <2>2, <2>3, <2>4, <2>5, <2>6, <2>7, <2>8, <2>9 DEF TypeOK
  <1> QED
    BY <1>1, Inductive, PTL

(* A raw result is published of a try Chrome carried out, however many     *)
(* sockets, restarts and late answers lie between the two (executeCdp(),   *)
(* reconcileCdpAttempt(), RecentAttemptCache).                             *)
THEOREM RawResultsAreEffects == Spec => []RawResultMeansEffect
  <1>1. IInv => RawResultMeansEffect
    BY DEF IInv
  <1> QED
    BY <1>1, Inductive, PTL

(* Chrome carries out a command after everything ahead of it has ended.    *)
THEOREM EffectsFollowTheLane == Spec => []EffectsInLaneOrder
  <1>1. IInv => EffectsInLaneOrder
    <2> SUFFICES ASSUME IInv, NEW t \in Ticket, NEW u \in Ticket, t < u,
                        NEW k \in 1 .. tries[u]
                 PROVE  ~Open(t)
      BY DEF EffectsInLaneOrder
    <2>1. tries[u] \in Nat
      BY DEF IInv, Types, RowTypes
    <2>2. tries[u] > 0
      BY <2>1
    <2> QED
      BY <2>2 DEF IInv, Rows
  <1> QED
    BY <1>1, Inductive, PTL

(* Nothing is sent over a connection before its inventory came             *)
(* (assertCurrentLocator(), executeCdp()).                                 *)
THEOREM CommandsAwaitInventory == Spec => []CommandsFollowInventory
  <1>1. IInv => CommandsFollowInventory
    <2> SUFFICES ASSUME IInv, NEW m \in toExtension
                 PROVE  locator >= m.generation
      BY DEF CommandsFollowInventory
    <2>1. m.generation <= locator /\ m.generation \in Nat /\ locator \in Nat
      BY DEF IInv, Generations, Types, RecordTypes, EndpointTypes, Request, Generation
    <2> QED
      BY <2>1
  <1> QED
    BY <1>1, Inductive, PTL

(* The human is asked about a sent command nobody is reconciling           *)
(* (pauseForHumanConfirmation()).                                          *)
THEOREM HumanIsAskedInDoubt == Spec => []HumanAskedInDoubt
  <1>1. IInv => HumanAskedInDoubt
    <2> SUFFICES ASSUME IInv, NEW t \in Ticket, pause[t] = "user_confirmation_required"
                 PROVE  state[t] = "running" /\ tries[t] > 0 /\ attempt[t] = "missing"
                        /\ waiting.ticket # t
      BY DEF HumanAskedInDoubt
    <2>1. waiting # Idle => waiting.ticket # t
      BY DEF IInv, Waits
    <2>2. waiting = Idle => waiting.ticket # t
      BY DEF Idle, Ticket
    <2> QED
      BY <2>1, <2>2 DEF IInv, Rows
  <1> QED
    BY <1>1, Inductive, PTL

=============================================================================

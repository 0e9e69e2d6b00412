------------------------- MODULE RequestStoreProofs -------------------------
(***************************************************************************)
(* Proofs about RequestStore, for every set of tickets, lanes and worker   *)
(* identities and every number of faults and restarts; and that its lanes  *)
(* implement the contract TabLane.                                         *)
(***************************************************************************)
EXTENDS RequestStore, WellFoundedInduction, TLAPS

(* A non-empty set of natural numbers has a least element. *)
LEMMA LeastNumber ==
    ASSUME NEW T, T \subseteq Nat, T # {}
    PROVE  \E x \in T : \A y \in T : x <= y
<1> DEFINE R == OpToRel(<, Nat)
<1>1. IsWellFoundedOn(R, Nat)
  BY NatLessThanWellFounded
<1> HIDE DEF R
<1>2. PICK x \in T : \A y \in T : ~(<<y, x>> \in R)
  BY <1>1, WFMin
<1>3. \A y \in T : y < x => <<y, x>> \in R
  BY DEF R, OpToRel
<1>4. \A y \in T : ~(y < x)
  BY <1>2, <1>3
<1> QED
  BY <1>4

(* Of any non-empty set of tickets one has the least lane position: the    *)
(* query of advanceLane() finds the row it asks for.                       *)
LEMMA LeastPosition ==
    ASSUME position \in [Request -> Nat], NEW F, F \subseteq Request, F # {}
    PROVE  \E q \in F : \A o \in F : position[q] <= position[o]
<1> DEFINE T == {position[q] : q \in F}
<1>1. T \subseteq Nat /\ T # {}
  OBVIOUS
<1> HIDE DEF T
<1>2. PICK x \in T : \A y \in T : x <= y
  BY <1>1, LeastNumber
<1>3. PICK q \in F : x = position[q]
  BY DEF T
<1>4. \A o \in F : position[o] \in T
  BY DEF T
<1> QED
  BY <1>2, <1>3, <1>4

(* advanceLane() leaves a lane alone whose head goes on, and moves any     *)
(* other to the follower of least position, if there is one.               *)
LEMMA AdvancedHeadFacts ==
    ASSUME TypeOK, NEW S, S \subseteq Request, NEW l \in Lane
    PROVE  LET F == Followers(head[l], S) IN
           /\ head[l] \notin S => AdvancedHead(S)[l] = head[l]
           /\ head[l] \in S /\ F = {} => AdvancedHead(S)[l] = NoRequest
           /\ head[l] \in S /\ F # {} =>
                 /\ AdvancedHead(S)[l] \in F
                 /\ \A o \in F : position[AdvancedHead(S)[l]] <= position[o]
<1> DEFINE F == Followers(head[l], S)
           Least(q) == q \in F /\ \A o \in F : position[q] <= position[o]
<1>1. F \subseteq Request
  BY DEF Followers
<1>2. F # {} => \E q \in F : \A o \in F : position[q] <= position[o]
  BY <1>1, LeastPosition DEF TypeOK
<1>3. AdvancedHead(S)[l] = IF head[l] \notin S THEN head[l]
                           ELSE IF F = {} THEN NoRequest
                           ELSE CHOOSE q \in F : \A o \in F : position[q] <= position[o]
  BY DEF AdvancedHead
<1> HIDE DEF F
<1>4. F # {} => LET c == CHOOSE q \in F : \A o \in F : position[q] <= position[o]
                IN  c \in F /\ \A o \in F : position[c] <= position[o]
  BY <1>2
<1> QED
  BY <1>3, <1>4 DEF F

(* advanceLane() writes a ticket or NULL into every head column. *)
LEMMA AdvancedHeadType ==
    ASSUME TypeOK, NEW S, S \subseteq Request
    PROVE  AdvancedHead(S) \in [Lane -> Request \cup {NoRequest}]
<1>1. ASSUME NEW l \in Lane
      PROVE  AdvancedHead(S)[l] \in Request \cup {NoRequest}
  <2>1. Followers(head[l], S) \subseteq Request
    BY DEF Followers
  <2>2. head[l] \in Request \cup {NoRequest}
    BY DEF TypeOK
  <2> QED
    BY <1>1, <2>1, <2>2, AdvancedHeadFacts
<1>2. AdvancedHead(S) = [l \in Lane |-> AdvancedHead(S)[l]]
  BY DEF AdvancedHead
<1> QED
  BY <1>1, <1>2

-----------------------------------------------------------------------------
(* Types. *)

(* The empty database has the right types. *)
LEMMA TypeOKInit == Init => TypeOK
<1> SUFFICES ASSUME Init PROVE TypeOK
  OBVIOUS
<1> QED
  BY RequestAssumption DEF Init, TypeOK, RequestState, Phase, PauseCondition, AttemptState

(* No operation writes a value outside its column. *)
LEMMA TypeOKStep == TypeOK /\ [Next]_vars => TypeOK'
<1> SUFFICES ASSUME TypeOK, [Next]_vars PROVE TypeOK'
  OBVIOUS
<1> USE RequestAssumption DEF TypeOK
<1>1. CASE UNCHANGED vars
  BY <1>1 DEF vars, claimVars, laneVars, fenceVars, boundVars
<1>2. ASSUME NEW r \in Request, AcceptRequest(r) PROVE TypeOK'
  <2>1. HasLane(r) => LaneOf[r] \in Lane
    BY DEF HasLane
  <2>2. position' \in [Request -> Nat] /\ nextPosition' \in [Lane -> Nat]
    BY <1>2, <2>1 DEF AcceptRequest
  <2>3. state' \in [Request -> RequestState] /\ head' \in [Lane -> Request \cup {NoRequest}]
    BY <1>2 DEF AcceptRequest, RequestState, OpenState
  <2> QED
    BY <1>2, <2>2, <2>3 DEF AcceptRequest, claimVars, fenceVars, boundVars
<1>3. ASSUME NEW r \in Request, AcknowledgementDelivered(r) PROVE TypeOK'
  BY <1>3 DEF AcknowledgementDelivered, claimVars, laneVars, fenceVars, boundVars
<1>4. ASSUME NEW r \in Request, AcknowledgementFailed(r) PROVE TypeOK'
  BY <1>4, AdvancedHeadType
     DEF AcknowledgementFailed, claimVars, fenceVars, boundVars, RequestState, Terminal, Phase
<1>5. ASSUME NEW r \in Request, BeginWork(r) PROVE TypeOK'
  BY <1>5 DEF BeginWork, Claim, laneVars, fenceVars, boundVars, RequestState, OpenState
<1>6. ASSUME NEW r \in Request, ClaimThenPause(r) PROVE TypeOK'
  BY <1>6
     DEF ClaimThenPause, Claim, laneVars, fenceVars, boundVars, RequestState, OpenState,
         PauseCondition
<1>7. ASSUME NEW r \in Request, ClaimThenFail(r) PROVE TypeOK'
  BY <1>7, AdvancedHeadType
     DEF ClaimThenFail, Terminalize, All, RequestState, Terminal, PauseCondition, Phase, fenceVars, boundVars
<1>8. ASSUME NEW r \in Request, ExpireLease(r) PROVE TypeOK'
  BY <1>8 DEF ExpireLease, laneVars, fenceVars, boundVars
<1>9. ASSUME NEW r \in Request, CloseRequest(r) PROVE TypeOK'
  BY <1>9 DEF CloseRequest, claimVars, laneVars, fenceVars, boundVars
<1>10. ASSUME NEW r \in Request, StartAttempt(r) PROVE TypeOK'
  BY <1>10 DEF StartAttempt, claimVars, laneVars, fenceVars, boundVars, AttemptState
<1>11. ASSUME NEW r \in Request, NEW outcome \in Terminal, CompleteWork(r, outcome) PROVE TypeOK'
  <2>1. OwnedBy(r) \subseteq Request
    BY DEF OwnedBy
  <2> HIDE DEF OwnedBy
  <2> QED
    BY <1>11, <2>1, AdvancedHeadType
       DEF CompleteWork, Terminalize, All, Release, RequestState, Terminal, PauseCondition, Phase,
           AttemptState, fenceVars, boundVars
<1>12. ASSUME NEW r \in Request, LoseResult(r) PROVE TypeOK'
  BY <1>12
     DEF LoseResult, Release, claimVars, laneVars, fenceVars, boundVars, AttemptState,
         PauseCondition
<1>13. ASSUME NEW r \in Request, RetryCreation(r) PROVE TypeOK'
  BY <1>13 DEF RetryCreation, claimVars, laneVars, fenceVars, boundVars, AttemptState
<1>14. ASSUME NEW r \in Request, AbandonWork(r) PROVE TypeOK'
  <2> DEFINE S == {q \in {r} : state[q] = "running" /\ pause[q] = "none"}
  <2>1. S \subseteq Request
    OBVIOUS
  <2>2. Terminalize(S, All("failed"), All("done"))
    BY <1>14 DEF AbandonWork
  <2> HIDE DEF S
  <2> QED
    BY <1>14, <2>1, <2>2, AdvancedHeadType
       DEF AbandonWork, Terminalize, All, Release, RequestState, Terminal, PauseCondition, Phase,
           fenceVars, boundVars
<1>15. ASSUME NEW r \in Request, NEW replaced \in BOOLEAN, ResolveTarget(r, replaced) PROVE TypeOK'
  <2> DEFINE S == {r, Target[r]} \cup Invalidated(r)
  <2>1. S \subseteq Request
    BY <1>15 DEF Invalidated, ResolveTarget, IsResolver
  <2>2. head' \in [Lane -> Request \cup {NoRequest}]
    BY <1>15, <2>1, AdvancedHeadType DEF ResolveTarget
  <2>3. state' \in [Request -> RequestState] /\ phase' \in [Request -> Phase]
    BY <1>15 DEF ResolveTarget, RequestState, Terminal, Phase
  <2>4. /\ pause' \in [Request -> PauseCondition]
        /\ claimedBy' \in [Request -> Worker \cup {0}]
        /\ leased' \in [Request -> BOOLEAN]
    BY <1>15 DEF ResolveTarget, PauseCondition
  <2> QED
    BY <1>15, <2>2, <2>3, <2>4 DEF ResolveTarget, Release, fenceVars, boundVars
<1>16. ASSUME NEW r \in Request, ResolutionRaceLost(r) PROVE TypeOK'
  <2>1. OwnedBy(r) \subseteq Request
    BY DEF OwnedBy
  <2> HIDE DEF OwnedBy
  <2> QED
    BY <1>16, <2>1, AdvancedHeadType
       DEF ResolutionRaceLost, Terminalize, All, Release, RequestState, Terminal, PauseCondition, Phase,
           fenceVars, boundVars
<1>17. ASSUME NEW l \in Lane, DebuggerDetached(l) PROVE TypeOK'
  BY <1>17 DEF DebuggerDetached, Fault, claimVars, laneVars, fenceVars, PauseCondition
<1>18. CASE EndpointDown
  <2>1. connected' \in BOOLEAN
    BY <1>18, Zenon DEF EndpointDown
  <2> QED
    BY <1>18, <2>1 DEF EndpointDown, Fault, claimVars, laneVars, PauseCondition
<1>19. CASE EndpointUp
  BY <1>19 DEF EndpointUp, claimVars, laneVars, boundVars, PauseCondition
<1>20. CASE StopWorkspace
  BY <1>20 DEF StopWorkspace, Fault, claimVars, laneVars
<1>21. CASE ResumeWorkspace
  BY <1>21 DEF ResumeWorkspace, claimVars, laneVars, boundVars, PauseCondition
<1>22. CASE FenceTerminationQueue
  <2>1. Fenceable \subseteq Request
    BY DEF Fenceable, Scanned
  <2> HIDE DEF Fenceable
  <2> QED
    BY <1>22, <2>1, AdvancedHeadType
       DEF FenceTerminationQueue, Fault, Terminalize, All, RequestState, Terminal, PauseCondition, Phase
<1>23. CASE TerminationFails
  BY <1>23 DEF TerminationFails, claimVars, laneVars, boundVars
<1>24. CASE Restart
  <2>1. connected' \in BOOLEAN
    BY <1>24, Zenon DEF Restart
  <2> QED
    BY <1>24, <2>1 DEF Restart, claimVars, laneVars, PauseCondition
<1> QED
  BY <1>1, <1>2, <1>3, <1>4, <1>5, <1>6, <1>7, <1>8, <1>9, <1>10, <1>11, <1>12, <1>13, <1>14,
     <1>15, <1>16, <1>17, <1>18, <1>19, <1>20, <1>21, <1>22, <1>23, <1>24
     DEF Next, RequestStep, WorkerStep

(* Every column, lane and process variable keeps its type. *)
THEOREM TypeCorrect == Spec => []TypeOK
<1> QED
  BY TypeOKInit, TypeOKStep, PTL DEF Spec

-----------------------------------------------------------------------------
(* Tickets by themselves. *)

(* What holds of every ticket survives each step.  Only a resolution needs *)
(* the lanes for it: a follower it invalidates was never claimed, because  *)
(* its target is still open ahead of it.                                   *)
LEMMA TicketStep == Inv /\ [Next]_vars => TicketInv'
<1> SUFFICES ASSUME Inv, [Next]_vars PROVE TicketInv'
  OBVIOUS
<1> USE RequestAssumption DEF Inv, TypeOK, TicketInv, OpenIsVisible, UnclaimedIsUntouched, UndoneHasNoEnding,
        HandoffIsPending, AskedHasNoWorker, LanelessWorkerIsUnpaused, EffectAfterDelivery, WorkerOwnsItsTicket,
        InvalidatedNeverDispatched, TerminalIsUnpaused, Open, OpenState, Terminal, claimVars, HasLane
<1>1. CASE UNCHANGED vars
  BY <1>1 DEF vars
<1>2. ASSUME NEW r \in Request, AcceptRequest(r) PROVE TicketInv'
  BY <1>2 DEF AcceptRequest, HasLane, IsResolver
<1>3. ASSUME NEW r \in Request, AcknowledgementDelivered(r) PROVE TicketInv'
  BY <1>3 DEF AcknowledgementDelivered
<1>4. ASSUME NEW r \in Request, AcknowledgementFailed(r) PROVE TicketInv'
  BY <1>4 DEF AcknowledgementFailed
<1>5. ASSUME NEW r \in Request, BeginWork(r) PROVE TicketInv'
  BY <1>5 DEF BeginWork, Claim, Claimable, PumpSelects, ClaimGranted
<1>6. ASSUME NEW r \in Request, ClaimThenPause(r) PROVE TicketInv'
  BY <1>6 DEF ClaimThenPause, Claim, Claimable, PumpSelects, ClaimGranted
<1>7. ASSUME NEW r \in Request, ClaimThenFail(r) PROVE TicketInv'
  BY <1>7 DEF ClaimThenFail, Claimable, PumpSelects, ClaimGranted, Terminalize, All
<1>8. ASSUME NEW r \in Request, ExpireLease(r) PROVE TicketInv'
  BY <1>8 DEF ExpireLease
<1>9. ASSUME NEW r \in Request, CloseRequest(r) PROVE TicketInv'
  BY <1>9 DEF CloseRequest
<1>10. ASSUME NEW r \in Request, StartAttempt(r) PROVE TicketInv'
  BY <1>10 DEF StartAttempt
<1>11. ASSUME NEW r \in Request, NEW outcome \in Terminal, CompleteWork(r, outcome) PROVE TicketInv'
  BY <1>11 DEF CompleteWork, Terminalize, All, OwnedBy, Release
<1>12. ASSUME NEW r \in Request, LoseResult(r) PROVE TicketInv'
  BY <1>12 DEF LoseResult, OwnedBy, Release
<1>13. ASSUME NEW r \in Request, RetryCreation(r) PROVE TicketInv'
  BY <1>13 DEF RetryCreation
<1>14. ASSUME NEW r \in Request, AbandonWork(r) PROVE TicketInv'
  BY <1>14 DEF AbandonWork, Terminalize, All, Release
<1>15. ASSUME NEW r \in Request, NEW replaced \in BOOLEAN, ResolveTarget(r, replaced) PROVE TicketInv'
  <2> DEFINE t == Target[r]
             F == Invalidated(r)
  <2>1. t \in Request /\ LaneOf[r] = NoLane /\ LaneOf[t] # NoLane /\ r # t
    BY <1>15 DEF ResolveTarget, IsResolver
  <2>2. state[t] = "running" /\ held[t] = 0 /\ state[r] = "running" /\ pause[r] = "none"
    BY <1>15, <2>1 DEF ResolveTarget, AwaitsHuman
  <2>3. \A q \in Request : q \in F => generation[q] = 0 /\ held[q] = 0 /\ attempt[q] = "none" /\ q # r
    <3>1. ASSUME NEW q \in Request, q \in F PROVE LaneOf[q] = LaneOf[t] /\ position[t] < position[q]
      BY <3>1, <2>1 DEF Invalidated
    <3> QED
      BY <3>1, <2>1, <2>2 DEF LaneInv, NoOvertaking
  <2>4. \A q \in Request : q \in F => state[q] \in OpenState /\ q # t
    BY <2>1 DEF Invalidated
  <2>5. /\ state' = [q \in Request |->
                      IF q = r THEN IF replaced THEN "succeeded" ELSE "failed"
                      ELSE IF q = t THEN IF r \notin RestartFailed THEN "succeeded" ELSE "failed"
                      ELSE IF q \in F THEN "failed"
                      ELSE state[q]]
        /\ phase' = [q \in Request |->
                      IF q = r THEN "resolved"
                      ELSE IF q = t THEN "human_resolved"
                      ELSE IF q \in F THEN "restart_failed_follower_invalidated"
                      ELSE phase[q]]
        /\ pause' = [q \in Request |-> IF q = t \/ q \in F THEN "none" ELSE pause[q]]
        /\ claimedBy' = [q \in Request |-> IF q = t \/ q \in F THEN 0 ELSE claimedBy[q]]
        /\ held' = [held EXCEPT ![r] = 0]
        /\ UNCHANGED <<acknowledgement, visible, generation, attempt, worker, handoff>>
    BY <1>15, <2>1 DEF ResolveTarget, Release
  <2> HIDE DEF F, t
  <2> QED
    BY <2>1, <2>2, <2>3, <2>4, <2>5
<1>16. ASSUME NEW r \in Request, ResolutionRaceLost(r) PROVE TicketInv'
  BY <1>16 DEF ResolutionRaceLost, Terminalize, All, OwnedBy, Release
<1>17. ASSUME NEW l \in Lane, DebuggerDetached(l) PROVE TicketInv'
  BY <1>17 DEF DebuggerDetached, Scanned, HasLane
<1>18. CASE EndpointDown
  BY <1>18 DEF EndpointDown, Scanned
<1>19. CASE EndpointUp
  BY <1>19 DEF EndpointUp, Scanned
<1>20. CASE StopWorkspace
  BY <1>20 DEF StopWorkspace
<1>21. CASE ResumeWorkspace
  BY <1>21 DEF ResumeWorkspace, Scanned
<1>22. CASE FenceTerminationQueue
  BY <1>22 DEF FenceTerminationQueue, Fenceable, Scanned, Terminalize, All
<1>23. CASE TerminationFails
  BY <1>23 DEF TerminationFails
<1>24. CASE Restart
  BY <1>24 DEF Restart, Scanned
<1> QED
  BY <1>1, <1>2, <1>3, <1>4, <1>5, <1>6, <1>7, <1>8, <1>9, <1>10, <1>11, <1>12, <1>13, <1>14,
     <1>15, <1>16, <1>17, <1>18, <1>19, <1>20, <1>21, <1>22, <1>23, <1>24
     DEF Next, RequestStep, WorkerStep

-----------------------------------------------------------------------------
(* Lanes. *)

(* Once the tickets of S are ended, advanceLane() has put every lane at    *)
(* its least open ticket again.                                            *)
LEMMA AdvanceKeepsHeads ==
    ASSUME TypeOK, OpenIsVisible, PositionsAreDistinct, LaneHeadIsLeastOpen,
           NEW S, S \subseteq Request,
           head' = AdvancedHead(S),
           position' = position,
           \A r \in Request : Open(r)' <=> Open(r) /\ r \notin S
    PROVE  LaneHeadIsLeastOpen'
<1> SUFFICES ASSUME NEW l \in Lane
             PROVE  LET left == {r \in Request : LaneOf[r] = l /\ Open(r) /\ r \notin S} IN
                    IF left = {} THEN head'[l] = NoRequest
                    ELSE /\ head'[l] \in left
                         /\ \A r \in left : position[head'[l]] <= position[r]
  BY DEF LaneHeadIsLeastOpen
<1> DEFINE left == {r \in Request : LaneOf[r] = l /\ Open(r) /\ r \notin S}
           waiting == {r \in Request : LaneOf[r] = l /\ Open(r)}
<1>1. /\ waiting = {} => head[l] = NoRequest
      /\ waiting # {} => head[l] \in waiting /\ \A r \in waiting : position[head[l]] <= position[r]
  BY DEF LaneHeadIsLeastOpen
<1>2. left \subseteq waiting
  OBVIOUS
<1>3. NoRequest \notin S
  BY RequestAssumption
<1>4. CASE head[l] \notin S
  <2>1. head'[l] = head[l]
    BY <1>4, AdvancedHeadFacts
  <2>2. waiting # {} => head[l] \in left
    BY <1>1, <1>4
  <2> QED
    BY <1>1, <1>2, <2>1, <2>2
<1>5. CASE head[l] \in S
  <2>1. head[l] \in waiting
    BY <1>1, <1>3, <1>5
  <2>2. ASSUME NEW r \in left PROVE r \in Followers(head[l], S)
    <3>1. position[head[l]] <= position[r] /\ r # head[l]
      BY <1>1, <1>5, <2>1
    <3>2. state[r] # "absent" /\ state[head[l]] # "absent" /\ LaneOf[r] = LaneOf[head[l]] /\ HasLane(r)
      BY <2>1, RequestAssumption DEF Open, OpenState, HasLane
    <3>3. position[r] # position[head[l]]
      BY <2>1, <3>1, <3>2 DEF PositionsAreDistinct, HasLane
    <3>4. position[head[l]] < position[r]
      BY <2>1, <3>1, <3>3 DEF TypeOK
    <3> QED
      BY <3>2, <3>4 DEF Followers, OpenIsVisible
  <2>3. \A r \in Followers(head[l], S) : r \in left
    BY <2>1 DEF Followers
  <2> HIDE DEF left
  <2>4. Followers(head[l], S) = left
    BY <2>2, <2>3
  <2>5. IF left = {} THEN head'[l] = NoRequest
        ELSE head'[l] \in left /\ \A r \in left : position[head'[l]] <= position[r]
    BY <1>5, <2>4, AdvancedHeadFacts
  <2> QED
    BY <2>5 DEF left
<1> QED
  BY <1>4, <1>5

(* No open ticket is ahead of r in its lane. *)
Free(r) ==
    \A q \in Request :
        LaneOf[q] = LaneOf[r] /\ HasLane(r) /\ Open(q) => ~(position[q] < position[r])

(* The step neither claims nor sends for r. *)
Untouched(r) ==
    generation'[r] = generation[r] /\ held'[r] \in {0, held[r]} /\ attempt'[r] = attempt[r]

(* The head of a lane has no open ticket ahead of it. *)
LEMMA HeadIsFree ==
    ASSUME TypeOK, LaneHeadIsLeastOpen, NEW r \in Request, Open(r), HasLane(r) => head[LaneOf[r]] = r
    PROVE  Free(r)
<1> SUFFICES ASSUME HasLane(r), NEW q \in Request, LaneOf[q] = LaneOf[r], Open(q)
             PROVE  ~(position[q] < position[r])
  BY DEF Free
<1>1. LaneOf[r] \in Lane /\ head[LaneOf[r]] = r
  BY RequestAssumption DEF HasLane
<1>2. position[r] <= position[q]
  BY <1>1 DEF LaneHeadIsLeastOpen
<1> QED
  BY <1>2 DEF TypeOK

(* A ticket with a worker has no open ticket ahead of it. *)
LEMMA WorkerIsFree ==
    ASSUME NoOvertaking, NEW r \in Request, held[r] # 0
    PROVE  Free(r)
BY DEF NoOvertaking, Free

(* A step that ends the tickets of S and works only on free ones keeps the *)
(* lanes in order. *)
LEMMA LanesKept ==
    ASSUME TypeOK, OpenIsVisible, LaneInv,
           NEW S, S \subseteq Request,
           position' = position, nextPosition' = nextPosition,
           head' = AdvancedHead(S) \/ (S = {} /\ head' = head),
           \A r \in Request : Open(r)' <=> Open(r) /\ r \notin S,
           \A r \in Request : state'[r] = "absent" <=> state[r] = "absent",
           \A r \in Request : Free(r) \/ Untouched(r)
    PROVE  LaneInv'
<1>1. PositionsAreDistinct'
  BY DEF LaneInv, PositionsAreDistinct, HasLane
<1>2. LaneHeadIsLeastOpen'
  <2>1. CASE head' = AdvancedHead(S)
    BY <2>1, AdvanceKeepsHeads DEF LaneInv
  <2>2. CASE S = {} /\ head' = head
    BY <2>2 DEF LaneInv, LaneHeadIsLeastOpen
  <2> QED
    BY <2>1, <2>2
<1>3. NoOvertaking'
  <2> SUFFICES ASSUME NEW q \in Request, NEW r \in Request,
                      LaneOf[q] = LaneOf[r], HasLane(r), Open(q)', position'[q] < position'[r]
               PROVE  generation'[r] = 0 /\ held'[r] = 0 /\ attempt'[r] = "none"
    BY DEF NoOvertaking, HasLane
  <2>1. Open(q) /\ position[q] < position[r]
    OBVIOUS
  <2>2. Untouched(r)
    BY <2>1 DEF Free
  <2>3. generation[r] = 0 /\ held[r] = 0 /\ attempt[r] = "none"
    BY <2>1 DEF LaneInv, NoOvertaking
  <2> QED
    BY <2>2, <2>3 DEF Untouched
<1> QED
  BY <1>1, <1>2, <1>3 DEF LaneInv

(* A step that ends nothing and works only on free tickets. *)
Quiet ==
    /\ position' = position
    /\ nextPosition' = nextPosition
    /\ head' = head
    /\ \A q \in Request :
          /\ Open(q)' <=> Open(q)
          /\ state'[q] = "absent" <=> state[q] = "absent"
          /\ Free(q) \/ Untouched(q)

(* What holds along a lane survives each step: most steps do not disturb   *)
(* the lanes, admission appends to one, the others end tickets and advance *)
(* the heads.                                                              *)
LEMMA LaneStep == Inv /\ [Next]_vars => LaneInv'
<1> SUFFICES ASSUME Inv, [Next]_vars PROVE LaneInv'
  OBVIOUS
<1> USE RequestAssumption
<1>0. /\ TypeOK /\ OpenIsVisible /\ LaneInv /\ LaneHeadIsLeastOpen /\ NoOvertaking
      /\ UnclaimedIsUntouched /\ WorkerOwnsItsTicket
  BY DEF Inv, TicketInv, LaneInv
<1>q. Quiet => LaneInv'
  <2> SUFFICES ASSUME Quiet PROVE LaneInv'
    OBVIOUS
  <2>1. /\ {} \subseteq Request
        /\ \A q \in Request : Open(q)' <=> Open(q) /\ q \notin {}
    BY DEF Quiet
  <2>2. /\ position' = position /\ nextPosition' = nextPosition
        /\ head' = AdvancedHead({}) \/ ({} = {} /\ head' = head)
        /\ \A q \in Request : state'[q] = "absent" <=> state[q] = "absent"
        /\ \A q \in Request : Free(q) \/ Untouched(q)
    BY DEF Quiet
  <2> QED
    BY <1>0, <2>1, <2>2, LanesKept
<1>1. CASE UNCHANGED vars
  BY <1>1, <1>0
     DEF vars, laneVars, claimVars, LaneInv, PositionsAreDistinct, LaneHeadIsLeastOpen,
         NoOvertaking, Open, HasLane
<1>2. ASSUME NEW r \in Request, AcceptRequest(r) PROVE LaneInv'
  <2> DEFINE l == LaneOf[r]
  <2>1. /\ state[r] = "absent"
        /\ state' = [state EXCEPT ![r] = "queued"]
        /\ position' = [position EXCEPT ![r] = IF HasLane(r) THEN nextPosition[l] ELSE 0]
        /\ nextPosition' = [k \in Lane |-> IF k = l THEN nextPosition[k] + 1 ELSE nextPosition[k]]
        /\ head' = [k \in Lane |-> IF k = l /\ head[k] = NoRequest THEN r ELSE head[k]]
        /\ UNCHANGED <<generation, held, attempt>>
    BY <1>2 DEF AcceptRequest, claimVars
  <2>2. HasLane(r) => l \in Lane
    BY DEF HasLane
  <2>3. \A q \in Request : q # r /\ LaneOf[q] = l /\ HasLane(r) /\ state[q] # "absent"
            => position[q] < nextPosition[l]
    BY <1>0 DEF LaneInv, PositionsAreDistinct, HasLane
  <2>4. PositionsAreDistinct'
    BY <1>0, <2>1, <2>2, <2>3 DEF LaneInv, PositionsAreDistinct, HasLane, TypeOK
  <2>5. LaneHeadIsLeastOpen'
    <3> SUFFICES ASSUME NEW k \in Lane
                 PROVE  LET waiting == {q \in Request : LaneOf[q] = k /\ Open(q)'} IN
                        IF waiting = {} THEN head'[k] = NoRequest
                        ELSE /\ head'[k] \in waiting
                             /\ \A q \in waiting : position'[head'[k]] <= position'[q]
      BY DEF LaneHeadIsLeastOpen, Open
    <3> DEFINE before == {q \in Request : LaneOf[q] = k /\ Open(q)}
    <3>1. /\ before = {} => head[k] = NoRequest
          /\ before # {} => head[k] \in before /\ \A q \in before : position[head[k]] <= position[q]
      BY <1>0 DEF LaneHeadIsLeastOpen
    <3>2. CASE k # l
      <4>1. \A q \in Request : LaneOf[q] = k => (Open(q)' <=> Open(q)) /\ position'[q] = position[q]
        BY <1>0, <2>1, <3>2 DEF Open, TypeOK
      <4> QED
        BY <2>1, <3>1, <3>2, <4>1
    <3>3. CASE k = l
      <4>1. /\ Open(r)' /\ position'[r] = nextPosition[l]
            /\ \A q \in Request : q # r => (Open(q)' <=> Open(q)) /\ position'[q] = position[q]
        BY <1>0, <2>1, <3>3 DEF Open, OpenState, TypeOK, HasLane
      <4>2. \A q \in before : q # r /\ position[q] < nextPosition[l]
        BY <2>1, <2>3, <3>3 DEF Open, OpenState, HasLane
      <4> QED
        BY <1>0, <2>1, <3>1, <3>3, <4>1, <4>2 DEF TypeOK
    <3> QED
      BY <3>2, <3>3
  <2>6. NoOvertaking'
    <3> SUFFICES ASSUME NEW q \in Request, NEW o \in Request,
                        LaneOf[q] = LaneOf[o], HasLane(o), Open(q)', position'[q] < position'[o]
                 PROVE  generation[o] = 0 /\ held[o] = 0 /\ attempt[o] = "none"
      BY <2>1 DEF NoOvertaking, HasLane
    <3>1. CASE state[o] = "absent"
      BY <1>0, <3>1 DEF UnclaimedIsUntouched
    <3>2. CASE state[o] # "absent"
      <4>1. position'[o] = position[o] /\ o # r
        BY <1>0, <2>1, <3>2 DEF TypeOK
      <4>2. q # r
        BY <1>0, <2>1, <2>3, <3>2, <4>1 DEF TypeOK, HasLane
      <4>3. Open(q) /\ position'[q] = position[q]
        BY <1>0, <2>1, <4>2 DEF TypeOK, Open
      <4> QED
        BY <1>0, <4>1, <4>3 DEF NoOvertaking
    <3> QED
      BY <3>1, <3>2
  <2> QED
    BY <2>4, <2>5, <2>6 DEF LaneInv
<1>3. ASSUME NEW r \in Request, AcknowledgementDelivered(r) PROVE LaneInv'
  <2>1. Quiet
    BY <1>3, <1>0 DEF AcknowledgementDelivered, laneVars, claimVars, Open, Untouched, Quiet, TypeOK
  <2> QED
    BY <1>q, <2>1
<1>4. ASSUME NEW r \in Request, AcknowledgementFailed(r) PROVE LaneInv'
  <2> DEFINE S == {q \in {r} : state[q] = "queued"}
  <2>1. /\ position' = position /\ nextPosition' = nextPosition
        /\ head' = AdvancedHead(S) \/ (S = {} /\ head' = head)
    BY <1>4 DEF AcknowledgementFailed, claimVars
  <2>2. /\ S \subseteq Request
        /\ \A q \in Request : Open(q)' <=> Open(q) /\ q \notin S
        /\ \A q \in Request : state'[q] = "absent" <=> state[q] = "absent"
    BY <1>4, <1>0 DEF AcknowledgementFailed, claimVars, TypeOK, Open, OpenState, Terminal
  <2>3. \A q \in Request : Free(q) \/ Untouched(q)
    BY <1>4, <1>0 DEF AcknowledgementFailed, claimVars, Untouched, TypeOK
  <2> HIDE DEF S
  <2> QED
    BY <1>0, <2>1, <2>2, <2>3, LanesKept
<1>5. ASSUME NEW r \in Request, BeginWork(r) PROVE LaneInv'
  <2>1. Free(r)
    BY <1>5, <1>0, HeadIsFree DEF BeginWork, Claimable, PumpSelects
  <2>2. Quiet
    BY <1>5, <1>0, <2>1 DEF BeginWork, Claim, laneVars,
       Claimable, PumpSelects, Open, OpenState, Untouched, Quiet, TypeOK
  <2> QED
    BY <1>q, <2>2
<1>6. ASSUME NEW r \in Request, ClaimThenPause(r) PROVE LaneInv'
  <2>1. Free(r)
    BY <1>6, <1>0, HeadIsFree DEF ClaimThenPause, Claimable, PumpSelects
  <2>2. Quiet
    BY <1>6, <1>0, <2>1 DEF ClaimThenPause, Claim, laneVars,
       Claimable, PumpSelects, Open, OpenState, Untouched, Quiet, TypeOK
  <2> QED
    BY <1>q, <2>2
<1>7. ASSUME NEW r \in Request, ClaimThenFail(r) PROVE LaneInv'
  <2>1. /\ position' = position /\ nextPosition' = nextPosition
        /\ head' = AdvancedHead({r}) \/ ({r} = {} /\ head' = head)
    BY <1>7 DEF ClaimThenFail, Claimable, PumpSelects, Terminalize, All
  <2>2. /\ {r} \subseteq Request
        /\ \A q \in Request : Open(q)' <=> Open(q) /\ q \notin {r}
        /\ \A q \in Request : state'[q] = "absent" <=> state[q] = "absent"
    BY <1>7, <1>0
       DEF ClaimThenFail, Claimable, PumpSelects, Terminalize, All, TypeOK, Open, OpenState,
           Terminal
  <2>3. Free(r)
    BY <1>7, <1>0, HeadIsFree DEF ClaimThenFail, Claimable, PumpSelects
  <2>4. \A q \in Request : Free(q) \/ Untouched(q)
    BY <1>7, <1>0, <2>3
       DEF ClaimThenFail, Claimable, PumpSelects, Terminalize, All, Untouched, TypeOK
  <2> QED
    BY <1>0, <2>1, <2>2, <2>4, LanesKept
<1>8. ASSUME NEW r \in Request, ExpireLease(r) PROVE LaneInv'
  <2>1. Quiet
    BY <1>8, <1>0 DEF ExpireLease, laneVars, claimVars, Open, Untouched, Quiet, TypeOK
  <2> QED
    BY <1>q, <2>1
<1>9. ASSUME NEW r \in Request, CloseRequest(r) PROVE LaneInv'
  <2>1. Quiet
    BY <1>9, <1>0 DEF CloseRequest, laneVars, claimVars, Open, Untouched, Quiet, TypeOK
  <2> QED
    BY <1>q, <2>1
<1>10. ASSUME NEW r \in Request, StartAttempt(r) PROVE LaneInv'
  <2>1. Free(r)
    BY <1>10, <1>0, WorkerIsFree DEF StartAttempt
  <2>2. Quiet
    BY <1>10, <1>0, <2>1 DEF StartAttempt, laneVars, claimVars,
       Open, OpenState, Untouched, Quiet, TypeOK
  <2> QED
    BY <1>q, <2>2
<1>11. ASSUME NEW r \in Request, NEW outcome \in Terminal, CompleteWork(r, outcome) PROVE LaneInv'
  <2>1. /\ position' = position /\ nextPosition' = nextPosition
        /\ head' = AdvancedHead(OwnedBy(r)) \/ (OwnedBy(r) = {} /\ head' = head)
    BY <1>11 DEF CompleteWork, Terminalize, All, OwnedBy, Release
  <2>2. /\ OwnedBy(r) \subseteq Request
        /\ \A q \in Request : Open(q)' <=> Open(q) /\ q \notin OwnedBy(r)
        /\ \A q \in Request : state'[q] = "absent" <=> state[q] = "absent"
    BY <1>11, <1>0
       DEF CompleteWork, Terminalize, All, OwnedBy, Release, TypeOK, Open, OpenState, Terminal
  <2>3. Free(r)
    BY <1>11, <1>0, WorkerIsFree DEF CompleteWork
  <2>4. \A q \in Request : Free(q) \/ Untouched(q)
    BY <1>11, <1>0, <2>3 DEF CompleteWork, Terminalize, All, OwnedBy, Release, Untouched, TypeOK
  <2> QED
    BY <1>0, <2>1, <2>2, <2>4, LanesKept
<1>12. ASSUME NEW r \in Request, LoseResult(r) PROVE LaneInv'
  <2>1. Free(r)
    BY <1>12, <1>0, WorkerIsFree DEF LoseResult
  <2>2. Quiet
    BY <1>12, <1>0, <2>1 DEF LoseResult, Release, laneVars, claimVars,
       Open, OpenState, Untouched, Quiet, TypeOK
  <2> QED
    BY <1>q, <2>2
<1>13. ASSUME NEW r \in Request, RetryCreation(r) PROVE LaneInv'
  <2>1. Free(r)
    BY <1>13, <1>0, WorkerIsFree DEF RetryCreation
  <2>2. Quiet
    BY <1>13, <1>0, <2>1 DEF RetryCreation, laneVars, claimVars,
       Open, OpenState, Untouched, Quiet, TypeOK
  <2> QED
    BY <1>q, <2>2
<1>14. ASSUME NEW r \in Request, AbandonWork(r) PROVE LaneInv'
  <2> DEFINE S == {q \in {r} : state[q] = "running" /\ pause[q] = "none"}
  <2>1. /\ position' = position /\ nextPosition' = nextPosition
        /\ head' = AdvancedHead(S) \/ (S = {} /\ head' = head)
    BY <1>14 DEF AbandonWork, Terminalize, All, Release
  <2>2. /\ S \subseteq Request
        /\ \A q \in Request : Open(q)' <=> Open(q) /\ q \notin S
        /\ \A q \in Request : state'[q] = "absent" <=> state[q] = "absent"
    BY <1>14, <1>0 DEF AbandonWork, Terminalize, All, Release, TypeOK, Open, OpenState, Terminal
  <2>3. \A q \in Request : Free(q) \/ Untouched(q)
    BY <1>14, <1>0 DEF AbandonWork, Terminalize, All, Release, Untouched, TypeOK
  <2> HIDE DEF S
  <2> QED
    BY <1>0, <2>1, <2>2, <2>3, LanesKept
<1>15. ASSUME NEW r \in Request, NEW replaced \in BOOLEAN, ResolveTarget(r, replaced) PROVE LaneInv'
  <2> DEFINE S == {r, Target[r]} \cup Invalidated(r)
  <2>1. /\ position' = position /\ nextPosition' = nextPosition
        /\ head' = AdvancedHead(S) \/ (S = {} /\ head' = head)
    BY <1>15 DEF ResolveTarget, AwaitsHuman, Release, Invalidated, IsResolver
  <2>2. /\ S \subseteq Request
        /\ \A q \in Request : Open(q)' <=> Open(q) /\ q \notin S
        /\ \A q \in Request : state'[q] = "absent" <=> state[q] = "absent"
    BY <1>15, <1>0
       DEF ResolveTarget, AwaitsHuman, Release, Invalidated, IsResolver, TypeOK, Open,
           OpenState, Terminal
  <2>3. \A q \in Request : Free(q) \/ Untouched(q)
    BY <1>15, <1>0
       DEF ResolveTarget, AwaitsHuman, Release, Invalidated, IsResolver, Untouched, TypeOK
  <2> HIDE DEF S
  <2> QED
    BY <1>0, <2>1, <2>2, <2>3, LanesKept
<1>16. ASSUME NEW r \in Request, ResolutionRaceLost(r) PROVE LaneInv'
  <2>1. /\ position' = position /\ nextPosition' = nextPosition
        /\ head' = AdvancedHead(OwnedBy(r)) \/ (OwnedBy(r) = {} /\ head' = head)
    BY <1>16 DEF ResolutionRaceLost, Terminalize, All, OwnedBy, Release
  <2>2. /\ OwnedBy(r) \subseteq Request
        /\ \A q \in Request : Open(q)' <=> Open(q) /\ q \notin OwnedBy(r)
        /\ \A q \in Request : state'[q] = "absent" <=> state[q] = "absent"
    BY <1>16, <1>0
       DEF ResolutionRaceLost, Terminalize, All, OwnedBy, Release, TypeOK, Open, OpenState,
           Terminal
  <2>3. Free(r)
    BY <1>16, <1>0, WorkerIsFree DEF ResolutionRaceLost
  <2>4. \A q \in Request : Free(q) \/ Untouched(q)
    BY <1>16, <1>0, <2>3
       DEF ResolutionRaceLost, Terminalize, All, OwnedBy, Release, Untouched, TypeOK
  <2> QED
    BY <1>0, <2>1, <2>2, <2>4, LanesKept
<1>17. ASSUME NEW l \in Lane, DebuggerDetached(l) PROVE LaneInv'
  <2>1. Quiet
    BY <1>17, <1>0 DEF DebuggerDetached, laneVars, claimVars, Open, Untouched, Quiet, TypeOK
  <2> QED
    BY <1>q, <2>1
<1>18. CASE EndpointDown
  <2>1. Quiet
    BY <1>18, <1>0 DEF EndpointDown, laneVars, claimVars, Open, Untouched, Quiet, TypeOK
  <2> QED
    BY <1>q, <2>1
<1>19. CASE EndpointUp
  <2>1. Quiet
    BY <1>19, <1>0 DEF EndpointUp, laneVars, claimVars, Open, Untouched, Quiet, TypeOK
  <2> QED
    BY <1>q, <2>1
<1>20. CASE StopWorkspace
  <2>1. Quiet
    BY <1>20, <1>0 DEF StopWorkspace, laneVars, claimVars, Open, Untouched, Quiet, TypeOK
  <2> QED
    BY <1>q, <2>1
<1>21. CASE ResumeWorkspace
  <2>1. Quiet
    BY <1>21, <1>0 DEF ResumeWorkspace, laneVars, claimVars, Open, Untouched, Quiet, TypeOK
  <2> QED
    BY <1>q, <2>1
<1>22. CASE FenceTerminationQueue
  <2>1. /\ position' = position /\ nextPosition' = nextPosition
        /\ head' = AdvancedHead(Fenceable) \/ (Fenceable = {} /\ head' = head)
    BY <1>22 DEF FenceTerminationQueue, Fenceable, Scanned, Terminalize, All
  <2>2. /\ Fenceable \subseteq Request
        /\ \A q \in Request : Open(q)' <=> Open(q) /\ q \notin Fenceable
        /\ \A q \in Request : state'[q] = "absent" <=> state[q] = "absent"
    BY <1>22, <1>0
       DEF FenceTerminationQueue, Fenceable, Scanned, Terminalize, All, TypeOK, Open,
           OpenState, Terminal
  <2>3. \A q \in Request : Free(q) \/ Untouched(q)
    BY <1>22, <1>0
       DEF FenceTerminationQueue, Fenceable, Scanned, Terminalize, All, Untouched, TypeOK
  <2> QED
    BY <1>0, <2>1, <2>2, <2>3, LanesKept
<1>23. CASE TerminationFails
  <2>1. Quiet
    BY <1>23, <1>0 DEF TerminationFails, laneVars, claimVars, Open, Untouched, Quiet, TypeOK
  <2> QED
    BY <1>q, <2>1
<1>24. CASE Restart
  <2>1. Quiet
    BY <1>24, <1>0 DEF Restart, laneVars, claimVars, Open, Untouched, Quiet, TypeOK
  <2> QED
    BY <1>q, <2>1
<1> QED
  BY <1>1, <1>2, <1>3, <1>4, <1>5, <1>6, <1>7, <1>8, <1>9, <1>10, <1>11, <1>12, <1>13, <1>14,
     <1>15, <1>16, <1>17, <1>18, <1>19, <1>20, <1>21, <1>22, <1>23, <1>24
     DEF Next, RequestStep, WorkerStep

-----------------------------------------------------------------------------
(* Resolutions. *)

(* Only a resolution writes the two phases a resolution is known by. *)
LEMMA ResolutionsKept ==
    ASSUME ResolutionIsAtomic,
           \A q \in Request :
               \/ phase'[q] = phase[q]
               \/ phase[q] = "open" /\ phase'[q] \notin {"resolved", "human_resolved"}
    PROVE  ResolutionIsAtomic'
<1>1. \A q \in Request :
       /\ phase'[q] = "resolved" <=> phase[q] = "resolved"
       /\ phase'[q] = "human_resolved" <=> phase[q] = "human_resolved"
  OBVIOUS
<1> QED
  BY <1>1 DEF ResolutionIsAtomic

(* A resolution writes both its rows or neither, and a target resolved     *)
(* once no longer waits for another resolver.                              *)
LEMMA ResolutionStep == Inv /\ [Next]_vars => ResolutionIsAtomic'
<1> SUFFICES ASSUME Inv, [Next]_vars PROVE ResolutionIsAtomic'
  OBVIOUS
<1> USE RequestAssumption
<1>0. TypeOK /\ UndoneHasNoEnding /\ WorkerOwnsItsTicket /\ ResolutionIsAtomic
  BY DEF Inv, TicketInv
<1>1. CASE UNCHANGED vars
  BY <1>1, <1>0 DEF vars, ResolutionIsAtomic
<1>2. ASSUME NEW r \in Request, AcceptRequest(r) PROVE ResolutionIsAtomic'
  BY <1>2, <1>0 DEF AcceptRequest, ResolutionIsAtomic
<1>3. ASSUME NEW r \in Request, AcknowledgementDelivered(r) PROVE ResolutionIsAtomic'
  BY <1>3, <1>0 DEF AcknowledgementDelivered, ResolutionIsAtomic
<1>4. ASSUME NEW r \in Request, AcknowledgementFailed(r) PROVE ResolutionIsAtomic'
  <2>1. \A q \in Request :
            \/ phase'[q] = phase[q]
            \/ phase[q] = "open" /\ phase'[q] \notin {"resolved", "human_resolved"}
    BY <1>4, <1>0 DEF AcknowledgementFailed, UndoneHasNoEnding
  <2> QED
    BY <1>0, <2>1, ResolutionsKept
<1>5. ASSUME NEW r \in Request, BeginWork(r) PROVE ResolutionIsAtomic'
  BY <1>5, <1>0 DEF BeginWork, ResolutionIsAtomic
<1>6. ASSUME NEW r \in Request, ClaimThenPause(r) PROVE ResolutionIsAtomic'
  BY <1>6, <1>0 DEF ClaimThenPause, ResolutionIsAtomic
<1>7. ASSUME NEW r \in Request, ClaimThenFail(r) PROVE ResolutionIsAtomic'
  <2>1. \A q \in Request :
            \/ phase'[q] = phase[q]
            \/ phase[q] = "open" /\ phase'[q] \notin {"resolved", "human_resolved"}
    BY <1>7, <1>0
       DEF ClaimThenFail, Claimable, PumpSelects, Open, OpenState, Terminalize, All,
           UndoneHasNoEnding
  <2> QED
    BY <1>0, <2>1, ResolutionsKept
<1>8. ASSUME NEW r \in Request, ExpireLease(r) PROVE ResolutionIsAtomic'
  BY <1>8, <1>0 DEF ExpireLease, ResolutionIsAtomic
<1>9. ASSUME NEW r \in Request, CloseRequest(r) PROVE ResolutionIsAtomic'
  BY <1>9, <1>0 DEF CloseRequest, ResolutionIsAtomic
<1>10. ASSUME NEW r \in Request, StartAttempt(r) PROVE ResolutionIsAtomic'
  BY <1>10, <1>0 DEF StartAttempt, ResolutionIsAtomic
<1>11. ASSUME NEW r \in Request, NEW outcome \in Terminal, CompleteWork(r, outcome) PROVE ResolutionIsAtomic'
  <2>1. \A q \in Request :
            \/ phase'[q] = phase[q]
            \/ phase[q] = "open" /\ phase'[q] \notin {"resolved", "human_resolved"}
    BY <1>11, <1>0
       DEF CompleteWork, Terminalize, All, OwnedBy, Open, OpenState, UndoneHasNoEnding
  <2> QED
    BY <1>0, <2>1, ResolutionsKept
<1>12. ASSUME NEW r \in Request, LoseResult(r) PROVE ResolutionIsAtomic'
  BY <1>12, <1>0 DEF LoseResult, ResolutionIsAtomic
<1>13. ASSUME NEW r \in Request, RetryCreation(r) PROVE ResolutionIsAtomic'
  BY <1>13, <1>0 DEF RetryCreation, ResolutionIsAtomic
<1>14. ASSUME NEW r \in Request, AbandonWork(r) PROVE ResolutionIsAtomic'
  <2>1. \A q \in Request :
            \/ phase'[q] = phase[q]
            \/ phase[q] = "open" /\ phase'[q] \notin {"resolved", "human_resolved"}
    BY <1>14, <1>0 DEF AbandonWork, Terminalize, All, UndoneHasNoEnding
  <2> QED
    BY <1>0, <2>1, ResolutionsKept
<1>15. ASSUME NEW r \in Request, NEW replaced \in BOOLEAN, ResolveTarget(r, replaced) PROVE ResolutionIsAtomic'
  <2> DEFINE t == Target[r]
             F == Invalidated(r)
  <2>1. t \in Request /\ r # t /\ LaneOf[r] = NoLane /\ LaneOf[t] # NoLane
    BY <1>15 DEF ResolveTarget, IsResolver
  <2>2. state[t] = "running" /\ state[r] = "running"
    BY <1>15, <1>0 DEF ResolveTarget, AwaitsHuman, WorkerOwnsItsTicket
  <2>3. F \subseteq Request /\ t \notin F /\ r \notin F /\ \A q \in F : state[q] \in OpenState
    BY <1>0, <2>1 DEF Invalidated, TypeOK, Open
  <2>4. phase[r] = "open" /\ phase[t] = "open" /\ \A q \in F : phase[q] = "open"
    BY <1>0, <2>1, <2>2, <2>3 DEF UndoneHasNoEnding, OpenState
  <2>5. phase' = [q \in Request |->
                   IF q = r THEN "resolved"
                   ELSE IF q = t THEN "human_resolved"
                   ELSE IF q \in F THEN "restart_failed_follower_invalidated"
                   ELSE phase[q]]
    BY <1>15, <2>1 DEF ResolveTarget
  <2> HIDE DEF F
  <2>6. \A q \in Request :
        /\ phase'[q] = "resolved" <=> q = r \/ phase[q] = "resolved"
        /\ phase'[q] = "human_resolved" <=> q = t \/ phase[q] = "human_resolved"
    BY <2>3, <2>4, <2>5
  <2>7. \A q \in Request : phase[q] = "resolved" => Target[q] # t
    BY <1>0, <2>1, <2>4 DEF ResolutionIsAtomic
  <2> SUFFICES ASSUME NEW s \in Request
               PROVE  LET winners == {q \in Request : Target[q] = s /\ phase'[q] = "resolved"} IN
                      /\ winners # {} <=> phase'[s] = "human_resolved"
                      /\ \A a, b \in winners : a = b
    BY DEF ResolutionIsAtomic
  <2>8. CASE s = t
    <3>1. \A q \in Request : Target[q] = t /\ phase'[q] = "resolved" <=> q = r
      BY <2>6, <2>7
    <3>2. phase'[t] = "human_resolved"
      BY <2>1, <2>6
    <3> QED
      BY <2>8, <3>1, <3>2
  <2>9. CASE s # t
    <3>1. \A q \in Request : Target[q] = s => (phase'[q] = "resolved" <=> phase[q] = "resolved")
      BY <2>6, <2>9
    <3>2. phase'[s] = "human_resolved" <=> phase[s] = "human_resolved"
      BY <2>6, <2>9
    <3> QED
      BY <1>0, <3>1, <3>2 DEF ResolutionIsAtomic
  <2> QED
    BY <2>8, <2>9
<1>16. ASSUME NEW r \in Request, ResolutionRaceLost(r) PROVE ResolutionIsAtomic'
  <2>1. \A q \in Request :
            \/ phase'[q] = phase[q]
            \/ phase[q] = "open" /\ phase'[q] \notin {"resolved", "human_resolved"}
    BY <1>16, <1>0
       DEF ResolutionRaceLost, Terminalize, All, OwnedBy, Open, OpenState, UndoneHasNoEnding
  <2> QED
    BY <1>0, <2>1, ResolutionsKept
<1>17. ASSUME NEW l \in Lane, DebuggerDetached(l) PROVE ResolutionIsAtomic'
  BY <1>17, <1>0 DEF DebuggerDetached, ResolutionIsAtomic
<1>18. CASE EndpointDown
  BY <1>18, <1>0 DEF EndpointDown, ResolutionIsAtomic
<1>19. CASE EndpointUp
  BY <1>19, <1>0 DEF EndpointUp, ResolutionIsAtomic
<1>20. CASE StopWorkspace
  BY <1>20, <1>0 DEF StopWorkspace, ResolutionIsAtomic
<1>21. CASE ResumeWorkspace
  BY <1>21, <1>0 DEF ResumeWorkspace, ResolutionIsAtomic
<1>22. CASE FenceTerminationQueue
  <2>1. \A q \in Request :
            \/ phase'[q] = phase[q]
            \/ phase[q] = "open" /\ phase'[q] \notin {"resolved", "human_resolved"}
    BY <1>22, <1>0
       DEF FenceTerminationQueue, Fenceable, Scanned, Terminalize, All, Open, OpenState,
           UndoneHasNoEnding
  <2> QED
    BY <1>0, <2>1, ResolutionsKept
<1>23. CASE TerminationFails
  BY <1>23, <1>0 DEF TerminationFails, ResolutionIsAtomic
<1>24. CASE Restart
  BY <1>24, <1>0 DEF Restart, ResolutionIsAtomic
<1> QED
  BY <1>1, <1>2, <1>3, <1>4, <1>5, <1>6, <1>7, <1>8, <1>9, <1>10, <1>11, <1>12, <1>13, <1>14,
     <1>15, <1>16, <1>17, <1>18, <1>19, <1>20, <1>21, <1>22, <1>23, <1>24
     DEF Next, RequestStep, WorkerStep

(* The empty database satisfies the invariant. *)
LEMMA InvInit == Init => Inv
<1> SUFFICES ASSUME Init PROVE Inv
  OBVIOUS
<1>1. TypeOK
  BY TypeOKInit
<1>2. TicketInv
  BY DEF Init, TicketInv, OpenIsVisible, UnclaimedIsUntouched, UndoneHasNoEnding,
     HandoffIsPending,
         AskedHasNoWorker, LanelessWorkerIsUnpaused, EffectAfterDelivery, WorkerOwnsItsTicket,
         InvalidatedNeverDispatched, TerminalIsUnpaused, Terminal
<1>3. LaneInv
  BY DEF Init, LaneInv, PositionsAreDistinct, LaneHeadIsLeastOpen, NoOvertaking, Open, OpenState
<1>4. ResolutionIsAtomic
  BY DEF Init, ResolutionIsAtomic
<1> QED
  BY <1>1, <1>2, <1>3, <1>4 DEF Inv

(* Whatever the tickets, lanes, process identities and bounds, every state *)
(* the broker reaches satisfies the inductive invariant.                   *)
THEOREM InvariantHolds == Spec => []Inv
<1>1. Inv /\ [Next]_vars => Inv'
  BY TypeOKStep, TicketStep, LaneStep, ResolutionStep DEF Inv
<1> QED
  BY InvInit, <1>1, PTL DEF Spec

(* No step changes a ticket that has ended, except to close it. *)
LEMMA FinalStep ==
    ASSUME TypeOK, WorkerOwnsItsTicket, [Next]_vars, NEW e \in Request, state[e] \in Terminal
    PROVE  state'[e] = state[e] /\ phase'[e] = phase[e] /\ (~visible[e] => ~visible'[e])
<1> DEFINE Ended == state'[e] = state[e] /\ phase'[e] = phase[e] /\ (~visible[e] => ~visible'[e])
<1> USE RequestAssumption DEF TypeOK, WorkerOwnsItsTicket, Open, OpenState, Terminal
<1>1. CASE UNCHANGED vars
  BY <1>1 DEF vars
<1>2. ASSUME NEW r \in Request, AcceptRequest(r) PROVE Ended
  BY <1>2 DEF AcceptRequest
<1>3. ASSUME NEW r \in Request, AcknowledgementDelivered(r) PROVE Ended
  BY <1>3 DEF AcknowledgementDelivered
<1>4. ASSUME NEW r \in Request, AcknowledgementFailed(r) PROVE Ended
  BY <1>4 DEF AcknowledgementFailed
<1>5. ASSUME NEW r \in Request, BeginWork(r) PROVE Ended
  BY <1>5 DEF BeginWork, Claim, Claimable, PumpSelects
<1>6. ASSUME NEW r \in Request, ClaimThenPause(r) PROVE Ended
  BY <1>6 DEF ClaimThenPause, Claim, Claimable, PumpSelects
<1>7. ASSUME NEW r \in Request, ClaimThenFail(r) PROVE Ended
  BY <1>7 DEF ClaimThenFail, Claimable, PumpSelects, Terminalize
<1>8. ASSUME NEW r \in Request, ExpireLease(r) PROVE Ended
  BY <1>8 DEF ExpireLease
<1>9. ASSUME NEW r \in Request, CloseRequest(r) PROVE Ended
  BY <1>9 DEF CloseRequest
<1>10. ASSUME NEW r \in Request, StartAttempt(r) PROVE Ended
  BY <1>10 DEF StartAttempt
<1>11. ASSUME NEW r \in Request, NEW outcome \in Terminal, CompleteWork(r, outcome) PROVE Ended
  BY <1>11 DEF CompleteWork, Terminalize, OwnedBy
<1>12. ASSUME NEW r \in Request, LoseResult(r) PROVE Ended
  BY <1>12 DEF LoseResult
<1>13. ASSUME NEW r \in Request, RetryCreation(r) PROVE Ended
  BY <1>13 DEF RetryCreation
<1>14. ASSUME NEW r \in Request, AbandonWork(r) PROVE Ended
  BY <1>14 DEF AbandonWork, Terminalize
<1>15. ASSUME NEW r \in Request, NEW replaced \in BOOLEAN, ResolveTarget(r, replaced) PROVE Ended
  BY <1>15 DEF ResolveTarget, AwaitsHuman, Invalidated
<1>16. ASSUME NEW r \in Request, ResolutionRaceLost(r) PROVE Ended
  BY <1>16 DEF ResolutionRaceLost, Terminalize, OwnedBy
<1>17. ASSUME NEW l \in Lane, DebuggerDetached(l) PROVE Ended
  BY <1>17 DEF DebuggerDetached
<1>18. CASE EndpointDown
  BY <1>18 DEF EndpointDown
<1>19. CASE EndpointUp
  BY <1>19 DEF EndpointUp
<1>20. CASE StopWorkspace
  BY <1>20 DEF StopWorkspace
<1>21. CASE ResumeWorkspace
  BY <1>21 DEF ResumeWorkspace
<1>22. CASE FenceTerminationQueue
  BY <1>22 DEF FenceTerminationQueue, Fenceable, Scanned, Terminalize
<1>23. CASE TerminationFails
  BY <1>23 DEF TerminationFails
<1>24. CASE Restart
  BY <1>24 DEF Restart
<1> QED
  BY <1>1, <1>2, <1>3, <1>4, <1>5, <1>6, <1>7, <1>8, <1>9, <1>10, <1>11, <1>12, <1>13,
     <1>14, <1>15, <1>16, <1>17, <1>18, <1>19, <1>20, <1>21, <1>22, <1>23, <1>24
     DEF Next, RequestStep, WorkerStep

-----------------------------------------------------------------------------
(* What follows. *)

(* The head column, moved one step at a time by a dozen statements, always *)
(* names the least open ticket of its lane.                                *)
THEOREM HeadsAreRight == Spec => []LaneHeadIsLeastOpen
<1>1. Inv => LaneHeadIsLeastOpen
  BY DEF Inv, LaneInv
<1> QED
  BY <1>1, InvariantHolds, PTL

(* No ticket is claimed, worked on or sent while one ahead of it is open.  *)
THEOREM LanesAreInOrder == Spec => []NoOvertaking
<1>1. Inv => NoOvertaking
  BY DEF Inv, LaneInv
<1> QED
  BY <1>1, InvariantHolds, PTL

(* Nothing is claimed or sent before its acknowledgement was delivered.    *)
THEOREM DeliveryGatesEffects == Spec => []EffectAfterDelivery
<1>1. Inv => EffectAfterDelivery
  BY DEF Inv, TicketInv
<1> QED
  BY <1>1, InvariantHolds, PTL

(* A worker's claim is never taken over while it works, so none of its     *)
(* generation-checked writes is dropped.                                   *)
THEOREM WorkersKeepTheirClaims == Spec => []WorkerOwnsItsTicket
<1>1. Inv => WorkerOwnsItsTicket
  BY DEF Inv, TicketInv
<1> QED
  BY <1>1, InvariantHolds, PTL

(* A restart_failed resolution invalidates only what was never sent.       *)
THEOREM InvalidationIsSafe == Spec => []InvalidatedNeverDispatched
<1>1. Inv => InvalidatedNeverDispatched
  BY DEF Inv, TicketInv
<1> QED
  BY <1>1, InvariantHolds, PTL

(* A ticket that has ended is not paused. *)
THEOREM EndedIsUnpaused == Spec => []TerminalIsUnpaused
<1>1. Inv => TerminalIsUnpaused
  BY DEF Inv, TicketInv
<1> QED
  BY <1>1, InvariantHolds, PTL

(* A target and its one resolver commit together. *)
THEOREM ResolutionsAreAtomic == Spec => []ResolutionIsAtomic
<1>1. Inv => ResolutionIsAtomic
  BY DEF Inv
<1> QED
  BY <1>1, InvariantHolds, PTL

(* A terminal outcome is final: no late result, fence, resolution or       *)
(* restart writes over it, and a closed ticket does not come back.         *)
THEOREM OutcomesAreFinal == Spec => TerminalIsFinal
<1>1. Inv /\ [Next]_vars =>
        [\A r \in Request : state[r] \in Terminal =>
            /\ state'[r] = state[r]
            /\ phase'[r] = phase[r]
            /\ ~visible[r] => ~visible'[r]]_vars
  BY FinalStep DEF Inv, TicketInv
<1> QED
  BY <1>1, InvariantHolds, PTL DEF Spec, TerminalIsFinal

-----------------------------------------------------------------------------
(* The lanes of the database implement the class tab-lane.ts: for every     *)
(* set of tickets and lanes, each step of the broker is one call of the     *)
(* class on the lanes it touches, or leaves them as they are.               *)

(* What a step that stutters in the lanes leaves alone of a ticket. *)
Kept(q) ==
    /\ state'[q] = state[q]
    /\ acknowledgement'[q] = acknowledgement[q]
    /\ position'[q] = position[q]
    /\ held'[q] # 0 <=> held[q] # 0

(* A step that does not touch what the class keeps of a lane. *)
LEMMA LaneStutters ==
    ASSUME nextPosition' = nextPosition,
           \A q \in Laned : Kept(q)
    PROVE  UNCHANGED TabLane!vars
BY DEF TabLane!vars, Kept

(* claimHead(), whether the worker keeps the claim or not. *)
LEMMA LaneClaims ==
    ASSUME TypeOK, NEW r \in Laned, NEW keep \in BOOLEAN,
           Open(r), Free(r), acknowledgement[r] = "delivered", held[r] = 0,
           state' = [state EXCEPT ![r] = "running"],
           \A q \in Laned : held'[q] # 0 <=> (IF q = r THEN keep ELSE held[q] # 0),
           UNCHANGED <<acknowledgement, position, nextPosition>>
    PROVE  TabLane!Next
<1>1. TabLane!IsHead(r)
  BY DEF TabLane!IsHead, TabLane!Occupies, Free, Open, OpenState, Laned
<1>2. TabLane!ClaimHead(r, keep)
  BY <1>1 DEF TabLane!ClaimHead, Laned, TypeOK
<1> QED
  BY <1>2 DEF TabLane!Next

(* releaseClaim(). *)
LEMMA LaneReleases ==
    ASSUME NEW S, UNCHANGED <<state, acknowledgement, position, nextPosition>>,
           \A q \in Laned : held'[q] # 0 <=> (held[q] # 0 /\ q \notin S)
    PROVE  TabLane!Next
<1> DEFINE T == S \cap Laned
<1>1. TabLane!ReleaseClaim(T)
  BY DEF TabLane!ReleaseClaim
<1> QED
  BY <1>1 DEF TabLane!Next

(* terminalize(). *)
LEMMA LaneEnds ==
    ASSUME NEW S, NEW outcome,
           \A q \in S \cap Laned : Open(q) /\ outcome[q] \in Terminal,
           \A q \in Laned : state'[q] = IF q \in S THEN outcome[q] ELSE state[q],
           \A q \in Laned : held'[q] # 0 <=> (held[q] # 0 /\ q \notin S),
           UNCHANGED <<acknowledgement, position, nextPosition>>
    PROVE  TabLane!Next
<1> DEFINE T == S \cap Laned
           given == [q \in Laned |-> IF q \in T THEN outcome[q] ELSE "failed"]
<1>1. given \in [Laned -> TabLane!Terminal]
  BY DEF TabLane!Terminal, Terminal
<1>2. TabLane!Terminalize(T, given)
  BY DEF TabLane!Terminalize, TabLane!Occupies, Open, OpenState
<1> QED
  BY <1>1, <1>2 DEF TabLane!Next
-----------------------------------------------------------------------------
(* Every step of RequestStore is a step of TabLane or a stutter. *)
LEMMA LaneSimulation == Inv /\ [Next]_vars => [TabLane!Next]_(TabLane!vars)
<1> DEFINE Implemented == TabLane!Next \/ UNCHANGED TabLane!vars
<1> SUFFICES ASSUME Inv, [Next]_vars PROVE Implemented
  OBVIOUS
<1> USE RequestAssumption
<1>0. /\ TypeOK /\ OpenIsVisible /\ LaneInv /\ LaneHeadIsLeastOpen /\ NoOvertaking
      /\ HandoffIsPending /\ AskedHasNoWorker /\ UnclaimedIsUntouched /\ WorkerOwnsItsTicket
  BY DEF Inv, TicketInv, LaneInv
<1>1. CASE UNCHANGED vars
  BY <1>1, LaneStutters DEF Kept, vars, laneVars
<1>2. ASSUME NEW r \in Request, AcceptRequest(r) PROVE Implemented
  <2>1. CASE HasLane(r)
    <3>1. r \in Laned /\ LaneOf[r] \in Lane
      BY <2>1 DEF Laned, HasLane
    <3>2. TabLane!Accept(r)
      BY <1>2, <1>0, <2>1, <3>1 DEF AcceptRequest, TabLane!Accept, Laned, TypeOK
    <3> QED
      BY <3>1, <3>2 DEF TabLane!Next
  <2>2. CASE ~HasLane(r)
    <3>1. nextPosition' = nextPosition /\ \A q \in Laned : Kept(q)
      BY <1>2, <1>0, <2>2 DEF Kept, AcceptRequest, Laned, HasLane, TypeOK
    <3> QED
      BY <3>1, LaneStutters
  <2> QED
    BY <2>1, <2>2
<1>3. ASSUME NEW r \in Request, AcknowledgementDelivered(r) PROVE Implemented
  <2>1. CASE r \in Laned /\ state[r] = "queued"
    <3>1. acknowledgement[r] = "pending"
      BY <1>3, <1>0 DEF AcknowledgementDelivered, HandoffIsPending
    <3>2. TabLane!Acknowledge(r, TRUE)
      BY <1>3, <1>0, <2>1, <3>1
         DEF AcknowledgementDelivered, TabLane!Acknowledge, laneVars, Laned, TypeOK
    <3> QED
      BY <2>1, <3>2 DEF TabLane!Next
  <2>2. CASE ~(r \in Laned /\ state[r] = "queued")
    <3>1. nextPosition' = nextPosition /\ \A q \in Laned : Kept(q)
      BY <1>3, <1>0, <2>2 DEF Kept, AcknowledgementDelivered, laneVars, TypeOK, Laned
    <3> QED
      BY <3>1, LaneStutters
  <2> QED
    BY <2>1, <2>2
<1>4. ASSUME NEW r \in Request, AcknowledgementFailed(r) PROVE Implemented
  <2>1. CASE r \in Laned /\ state[r] = "queued"
    <3>1. acknowledgement[r] = "pending"
      BY <1>4, <1>0 DEF AcknowledgementFailed, HandoffIsPending
    <3>2. TabLane!Acknowledge(r, FALSE)
      BY <1>4, <1>0, <2>1, <3>1 DEF AcknowledgementFailed, TabLane!Acknowledge, Laned, TypeOK
    <3> QED
      BY <2>1, <3>2 DEF TabLane!Next
  <2>2. CASE ~(r \in Laned /\ state[r] = "queued")
    <3>1. nextPosition' = nextPosition /\ \A q \in Laned : Kept(q)
      BY <1>4, <1>0, <2>2 DEF Kept, AcknowledgementFailed, TypeOK, Laned
    <3> QED
      BY <3>1, LaneStutters
  <2> QED
    BY <2>1, <2>2
<1>5. ASSUME NEW r \in Request, BeginWork(r) PROVE Implemented
  <2>1. Open(r) /\ acknowledgement[r] = "delivered" /\ held[r] = 0
    BY <1>5 DEF BeginWork, Claimable, PumpSelects
  <2>2. Free(r)
    BY <1>5, <1>0, HeadIsFree DEF BeginWork, Claimable, PumpSelects
  <2>3. CASE r \in Laned
    <3>1. /\ state' = [state EXCEPT ![r] = "running"]
          /\ \A q \in Laned : held'[q] # 0 <=> (IF q = r THEN TRUE ELSE held[q] # 0)
          /\ UNCHANGED <<acknowledgement, position, nextPosition>>
      BY <1>5, <1>0, <2>1 DEF BeginWork, Claim, laneVars, TypeOK, Laned
    <3> QED
      BY <1>0, <2>1, <2>2, <2>3, <3>1, LaneClaims
  <2>4. CASE r \notin Laned
    <3>1. nextPosition' = nextPosition /\ \A q \in Laned : Kept(q)
      BY <1>5, <1>0, <2>4 DEF Kept, BeginWork, Claim, laneVars, TypeOK, Laned
    <3> QED
      BY <3>1, LaneStutters
  <2> QED
    BY <2>3, <2>4
<1>6. ASSUME NEW r \in Request, ClaimThenPause(r) PROVE Implemented
  <2>1. Open(r) /\ acknowledgement[r] = "delivered" /\ held[r] = 0
    BY <1>6 DEF ClaimThenPause, Claimable, PumpSelects
  <2>2. Free(r)
    BY <1>6, <1>0, HeadIsFree DEF ClaimThenPause, Claimable, PumpSelects
  <2>3. CASE r \in Laned
    <3>1. /\ state' = [state EXCEPT ![r] = "running"]
          /\ \A q \in Laned : held'[q] # 0 <=> (IF q = r THEN FALSE ELSE held[q] # 0)
          /\ UNCHANGED <<acknowledgement, position, nextPosition>>
      BY <1>6, <1>0, <2>1 DEF ClaimThenPause, Claim, laneVars, TypeOK, Laned
    <3> QED
      BY <1>0, <2>1, <2>2, <2>3, <3>1, LaneClaims
  <2>4. CASE r \notin Laned
    <3>1. nextPosition' = nextPosition /\ \A q \in Laned : Kept(q)
      BY <1>6, <1>0, <2>4 DEF Kept, ClaimThenPause, Claim, laneVars, TypeOK, Laned
    <3> QED
      BY <3>1, LaneStutters
  <2> QED
    BY <2>3, <2>4
<1>7. ASSUME NEW r \in Request, ClaimThenFail(r) PROVE Implemented
  <2>1. \A q \in {r} \cap Laned : Open(q) /\ All("failed")[q] \in Terminal
    BY <1>7, <1>0
       DEF ClaimThenFail, Claimable, PumpSelects, Terminalize, All, TypeOK, Laned,
           Terminal, Open, OpenState
  <2>2. /\ \A q \in Laned : state'[q] = IF q \in {r} THEN All("failed")[q] ELSE state[q]
        /\ \A q \in Laned : held'[q] # 0 <=> (held[q] # 0 /\ q \notin {r})
        /\ UNCHANGED <<acknowledgement, position, nextPosition>>
    BY <1>7, <1>0
       DEF ClaimThenFail, Claimable, PumpSelects, Terminalize, All, TypeOK, Laned,
           Terminal, Open, OpenState
  <2> QED
    BY <2>1, <2>2, LaneEnds
<1>8. ASSUME NEW r \in Request, ExpireLease(r) PROVE Implemented
  BY <1>8, <1>0, LaneStutters DEF Kept, ExpireLease, laneVars
<1>9. ASSUME NEW r \in Request, CloseRequest(r) PROVE Implemented
  BY <1>9, <1>0, LaneStutters DEF Kept, CloseRequest, laneVars
<1>10. ASSUME NEW r \in Request, StartAttempt(r) PROVE Implemented
  BY <1>10, <1>0, LaneStutters DEF Kept, StartAttempt, laneVars
<1>11. ASSUME NEW r \in Request, RetryCreation(r) PROVE Implemented
  BY <1>11, <1>0, LaneStutters DEF Kept, RetryCreation, laneVars
<1>12. ASSUME NEW r \in Request, NEW outcome \in Terminal, CompleteWork(r, outcome) PROVE Implemented
  <2>1. \A q \in OwnedBy(r) \cap Laned : Open(q) /\ All(outcome)[q] \in Terminal
    BY <1>12, <1>0
       DEF CompleteWork, Release, OwnedBy, WorkerOwnsItsTicket, Terminalize, All, TypeOK,
           Laned, Terminal, Open, OpenState
  <2>2. /\ \A q \in Laned : state'[q] = IF q \in OwnedBy(r) THEN All(outcome)[q] ELSE state[q]
        /\ \A q \in Laned : held'[q] # 0 <=> (held[q] # 0 /\ q \notin OwnedBy(r))
        /\ UNCHANGED <<acknowledgement, position, nextPosition>>
    BY <1>12, <1>0
       DEF CompleteWork, Release, OwnedBy, WorkerOwnsItsTicket, Terminalize, All, TypeOK,
           Laned, Terminal, Open, OpenState
  <2> QED
    BY <2>1, <2>2, LaneEnds
<1>13. ASSUME NEW r \in Request, LoseResult(r) PROVE Implemented
  <2>1. /\ UNCHANGED <<state, acknowledgement, position, nextPosition>>
        /\ \A q \in Laned : held'[q] # 0 <=> (held[q] # 0 /\ q \notin {r})
    BY <1>13, <1>0 DEF LoseResult, Release, laneVars, Laned, TypeOK
  <2> QED
    BY <2>1, LaneReleases
<1>14. ASSUME NEW r \in Request, AbandonWork(r) PROVE Implemented
  <2>0. /\ UNCHANGED <<acknowledgement, position, nextPosition>>
        /\ \A q \in Laned : held'[q] # 0 <=> (held[q] # 0 /\ q \notin {r})
    BY <1>14, <1>0 DEF AbandonWork, Release, Terminalize, Laned, TypeOK
  <2>1. CASE state[r] = "running" /\ pause[r] = "none"
    <3>1. \A q \in {r} \cap Laned : Open(q) /\ All("failed")[q] \in Terminal
      BY <2>1 DEF All, Open, OpenState, Terminal
    <3>2. \A q \in Laned : state'[q] = IF q \in {r} THEN All("failed")[q] ELSE state[q]
      BY <1>14, <2>1 DEF AbandonWork, Terminalize, All, Laned
    <3> QED
      BY <2>0, <3>1, <3>2, LaneEnds
  <2>2. CASE ~(state[r] = "running" /\ pause[r] = "none")
    <3>1. state' = state
      BY <1>14, <1>0, <2>2 DEF AbandonWork, Terminalize, TypeOK
    <3> QED
      BY <2>0, <3>1, LaneReleases
  <2> QED
    BY <2>1, <2>2
<1>15. ASSUME NEW r \in Request, NEW replaced \in BOOLEAN, ResolveTarget(r, replaced) PROVE Implemented
  <2> DEFINE t == Target[r]
             S == {t} \cup Invalidated(r)
             outcome == IF r \notin RestartFailed THEN All("succeeded") ELSE All("failed")
  <2>1. t \in Request /\ LaneOf[r] = NoLane /\ LaneOf[t] # NoLane
    BY <1>15 DEF ResolveTarget, IsResolver
  <2>2. Open(t) /\ held[t] = 0
    BY <1>15, <1>0, <2>1 DEF ResolveTarget, AwaitsHuman, AskedHasNoWorker, Open, OpenState
  <2>3. \A q \in Invalidated(r) : q \in Request /\ Open(q) /\ held[q] = 0
    BY <1>0, <2>1, <2>2 DEF Invalidated, NoOvertaking, HasLane
  <2>4. \A q \in S \cap Laned : Open(q) /\ outcome[q] \in Terminal
    BY <2>2, <2>3 DEF All, Terminal, Laned
  <2>5. \A q \in Laned : q # r
    BY <2>1 DEF Laned, HasLane
  <2>6. \A q \in Laned : state'[q] = IF q \in S THEN outcome[q] ELSE state[q]
    BY <1>15, <2>5 DEF ResolveTarget, Laned, All, Invalidated
  <2>7. /\ \A q \in Laned : held'[q] # 0 <=> (held[q] # 0 /\ q \notin S)
        /\ UNCHANGED <<acknowledgement, position, nextPosition>>
    BY <1>15, <1>0, <2>2, <2>3, <2>5 DEF ResolveTarget, Release, Laned, TypeOK
  <2> HIDE DEF S, outcome
  <2> QED
    BY <2>4, <2>6, <2>7, LaneEnds
<1>16. ASSUME NEW r \in Request, ResolutionRaceLost(r) PROVE Implemented
  <2>1. \A q \in OwnedBy(r) \cap Laned : Open(q) /\ All("failed")[q] \in Terminal
    BY <1>16, <1>0
       DEF ResolutionRaceLost, Release, OwnedBy, WorkerOwnsItsTicket, Terminalize, All,
           TypeOK, Laned, Terminal, Open, OpenState
  <2>2. /\ \A q \in Laned : state'[q] = IF q \in OwnedBy(r) THEN All("failed")[q] ELSE state[q]
        /\ \A q \in Laned : held'[q] # 0 <=> (held[q] # 0 /\ q \notin OwnedBy(r))
        /\ UNCHANGED <<acknowledgement, position, nextPosition>>
    BY <1>16, <1>0
       DEF ResolutionRaceLost, Release, OwnedBy, WorkerOwnsItsTicket, Terminalize, All,
           TypeOK, Laned, Terminal, Open, OpenState
  <2> QED
    BY <2>1, <2>2, LaneEnds
<1>17. ASSUME NEW l \in Lane, DebuggerDetached(l) PROVE Implemented
  BY <1>17, <1>0, LaneStutters DEF Kept, DebuggerDetached, laneVars
<1>18. CASE EndpointDown
  <2>1. /\ UNCHANGED <<state, acknowledgement, position, nextPosition>>
        /\ \A q \in Laned : held'[q] # 0 <=> (held[q] # 0 /\ q \notin Laned)
    BY <1>18, <1>0 DEF EndpointDown, laneVars, Laned, TypeOK
  <2> QED
    BY <2>1, LaneReleases
<1>19. CASE EndpointUp
  BY <1>19, <1>0, LaneStutters DEF Kept, EndpointUp, laneVars
<1>20. CASE StopWorkspace
  BY <1>20, <1>0, LaneStutters DEF Kept, StopWorkspace, laneVars
<1>21. CASE ResumeWorkspace
  BY <1>21, <1>0, LaneStutters DEF Kept, ResumeWorkspace, laneVars
<1>22. CASE FenceTerminationQueue
  <2>1. \A q \in Fenceable \cap Laned : Open(q) /\ All("failed")[q] \in Terminal
    BY <1>22, <1>0
       DEF FenceTerminationQueue, Fenceable, Scanned, Terminalize, All, TypeOK, Laned,
           Terminal, Open, OpenState
  <2>2. /\ \A q \in Laned : state'[q] = IF q \in Fenceable THEN All("failed")[q] ELSE state[q]
        /\ \A q \in Laned : held'[q] # 0 <=> (held[q] # 0 /\ q \notin Fenceable)
        /\ UNCHANGED <<acknowledgement, position, nextPosition>>
    BY <1>22, <1>0
       DEF FenceTerminationQueue, Fenceable, Scanned, Terminalize, All, TypeOK, Laned,
           Terminal, Open, OpenState
  <2> QED
    BY <2>1, <2>2, LaneEnds
<1>23. CASE TerminationFails
  BY <1>23, <1>0, LaneStutters DEF Kept, TerminationFails, laneVars
<1>24. CASE Restart
  <2>1. /\ UNCHANGED <<state, acknowledgement, position, nextPosition>>
        /\ \A q \in Laned : held'[q] # 0 <=> (held[q] # 0 /\ q \notin Laned)
    BY <1>24, <1>0 DEF Restart, laneVars, Laned, TypeOK
  <2> QED
    BY <2>1, LaneReleases
<1> QED
  BY <1>1, <1>2, <1>3, <1>4, <1>5, <1>6, <1>7, <1>8, <1>9, <1>10, <1>11, <1>12, <1>13,
     <1>14, <1>15, <1>16, <1>17, <1>18, <1>19, <1>20, <1>21, <1>22, <1>23, <1>24
     DEF Next, RequestStep, WorkerStep

(* The tab lanes in SQLite do what the class of the same name does.        *)
THEOREM LanesImplementTabLane == Spec => ImplementsTabLane
<1>1. Init => TabLane!Init
  <2> SUFFICES ASSUME Init PROVE TabLane!Init
    OBVIOUS
  <2> QED
    BY DEF Init, TabLane!Init, Laned
<1> QED
  BY <1>1, LaneSimulation, InvariantHolds, PTL DEF Spec, ImplementsTabLane, TabLane!Spec
=============================================================================

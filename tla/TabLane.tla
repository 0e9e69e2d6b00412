------------------------------ MODULE TabLane ------------------------------
(***************************************************************************)
(* What one tab lane promises, as the class core/octopus/tab-lane.ts       *)
(* states it: tickets enter in order, the first ticket that is neither     *)
(* terminal nor unacknowledged may be claimed, one claim at a time, and a  *)
(* ticket that became terminal never holds the lane again.  The class has  *)
(* one instance per lane; here Lane and LaneOf give every ticket its lane. *)
(*                                                                         *)
(* The broker does not run this class: its lanes are rows of SQLite        *)
(* (RequestStore).  RequestStore is shown to implement this module.  A     *)
(* database transaction or a process crash does several calls of the class *)
(* at once, which is why Terminalize and ReleaseClaim take a set.          *)
(***************************************************************************)
EXTENDS Naturals

CONSTANTS
    Request,    \* the tickets that belong to some lane
    Lane,       \* the managed tabs
    LaneOf      \* the lane of every ticket

VARIABLES
    position,       \* TabLaneEntry.position, 0 while the ticket has not entered
    acknowledgement, \* TabLaneEntry.acknowledgement
    state,          \* TabLaneEntry.state, "absent" while it has not entered
    claimed,        \* TabLaneEntry.claimed
    nextPosition    \* TabLane.nextPosition, one per lane

vars == <<position, acknowledgement, state, claimed, nextPosition>>

Terminal == {"succeeded", "failed"}
RequestState == {"absent", "queued", "running"} \cup Terminal

Init ==
    /\ position = [r \in Request |-> 0]
    /\ acknowledgement = [r \in Request |-> "pending"]
    /\ state = [r \in Request |-> "absent"]
    /\ claimed = [r \in Request |-> FALSE]
    /\ nextPosition = [l \in Lane |-> 1]

(* accept(): a new entry takes the next position of its lane. *)
Accept(r) ==
    /\ state[r] = "absent"
    /\ state' = [state EXCEPT ![r] = "queued"]
    /\ position' = [position EXCEPT ![r] = nextPosition[LaneOf[r]]]
    /\ nextPosition' = [nextPosition EXCEPT ![LaneOf[r]] = @ + 1]
    /\ UNCHANGED <<acknowledgement, claimed>>

(* acknowledge(): a failed handoff terminalizes the entry. *)
Acknowledge(r, delivered) ==
    /\ state[r] = "queued"
    /\ acknowledgement[r] = "pending"
    /\ acknowledgement' = [acknowledgement EXCEPT ![r] = IF delivered THEN "delivered" ELSE "failed"]
    /\ state' = [state EXCEPT ![r] = IF delivered THEN @ ELSE "failed"]
    /\ UNCHANGED <<position, claimed, nextPosition>>

(* An entry that still occupies its place in the lane. *)
Occupies(r) == state[r] \in {"queued", "running"}

IsHead(r) ==
    /\ Occupies(r)
    /\ \A q \in Request :
          LaneOf[q] = LaneOf[r] /\ position[q] < position[r] => ~Occupies(q)

(* claimHead(): only the head, only acknowledged, only unclaimed.  The     *)
(* claim may be released in the same step: a worker that meets a fence or  *)
(* an absent extension gives up before anybody can look.                   *)
ClaimHead(r, keep) ==
    /\ IsHead(r)
    /\ acknowledgement[r] = "delivered"
    /\ ~claimed[r]
    /\ state' = [state EXCEPT ![r] = "running"]
    /\ claimed' = [claimed EXCEPT ![r] = keep]
    /\ UNCHANGED <<position, acknowledgement, nextPosition>>

(* releaseClaim() of every entry of S. *)
ReleaseClaim(S) ==
    /\ claimed' = [r \in Request |-> claimed[r] /\ r \notin S]
    /\ UNCHANGED <<position, acknowledgement, state, nextPosition>>

(* terminalize() of every entry of S, each with an outcome of its own. *)
Terminalize(S, outcome) ==
    /\ \A r \in S : Occupies(r)
    /\ state' = [r \in Request |-> IF r \in S THEN outcome[r] ELSE state[r]]
    /\ claimed' = [r \in Request |-> claimed[r] /\ r \notin S]
    /\ UNCHANGED <<position, acknowledgement, nextPosition>>

Next ==
    \/ \E r \in Request :
          \/ Accept(r)
          \/ \E delivered \in BOOLEAN : Acknowledge(r, delivered)
          \/ \E keep \in BOOLEAN : ClaimHead(r, keep)
    \/ \E S \in SUBSET Request :
          \/ ReleaseClaim(S)
          \/ \E outcome \in [Request -> Terminal] : Terminalize(S, outcome)

Spec == Init /\ [][Next]_vars
-----------------------------------------------------------------------------
TypeOK ==
    /\ position \in [Request -> Nat]
    /\ acknowledgement \in [Request -> {"pending", "delivered", "failed"}]
    /\ state \in [Request -> RequestState]
    /\ claimed \in [Request -> BOOLEAN]
    /\ nextPosition \in [Lane -> Nat \ {0}]

(* One full cycle at a time, in order: while a ticket occupies its lane no *)
(* ticket behind it runs or is claimed.                                    *)
RunsInOrder ==
    \A q, r \in Request :
        LaneOf[q] = LaneOf[r] /\ Occupies(q) /\ position[q] < position[r]
            => state[r] # "running" /\ ~claimed[r]
=============================================================================

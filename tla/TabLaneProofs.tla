--------------------------- MODULE TabLaneProofs ---------------------------
(***************************************************************************)
(* What the class tab-lane.ts promises, proved for every set of tickets    *)
(* and lanes.                                                              *)
(***************************************************************************)
EXTENDS TabLane, TLAPS

(* Entries have distinct positions below the next one, and what is claimed *)
(* or runs has entered. *)
EntriesAreOrdered ==
    /\ \A r \in Request : state[r] # "absent" => position[r] < nextPosition[LaneOf[r]]
    /\ \A r \in Request : claimed[r] => state[r] = "running"

Inv == TypeOK /\ EntriesAreOrdered /\ RunsInOrder

(* While a ticket occupies its lane, no ticket behind it runs or is        *)
(* claimed, whatever calls are made in whatever order. *)
THEOREM TabLaneRunsInOrder ==
    ASSUME LaneOf \in [Request -> Lane]
    PROVE  Spec => []RunsInOrder
<1>1. Init => Inv
  BY DEF Init, Inv, TypeOK, RequestState, EntriesAreOrdered, RunsInOrder, Occupies
<1>2. Inv /\ [Next]_vars => Inv'
  <2> SUFFICES ASSUME Inv, [Next]_vars PROVE Inv'
    OBVIOUS
  <2> USE DEF Inv, TypeOK, RequestState, Terminal, EntriesAreOrdered, RunsInOrder, Occupies
  <2>1. CASE UNCHANGED vars
    BY <2>1 DEF vars
  <2>2. ASSUME NEW r \in Request, Accept(r) PROVE Inv'
    BY <2>2 DEF Accept
  <2>3. ASSUME NEW r \in Request, NEW delivered \in BOOLEAN, Acknowledge(r, delivered) PROVE Inv'
    BY <2>3 DEF Acknowledge
  <2>4. ASSUME NEW r \in Request, NEW keep \in BOOLEAN, ClaimHead(r, keep) PROVE Inv'
    BY <2>4 DEF ClaimHead, IsHead
  <2>5. ASSUME NEW S \in SUBSET Request, ReleaseClaim(S) PROVE Inv'
    BY <2>5 DEF ReleaseClaim
  <2>6. ASSUME NEW S \in SUBSET Request, NEW outcome \in [Request -> Terminal], Terminalize(S, outcome)
        PROVE  Inv'
    BY <2>6 DEF Terminalize
  <2> QED
    BY <2>1, <2>2, <2>3, <2>4, <2>5, <2>6 DEF Next
<1>3. Inv => RunsInOrder
  BY DEF Inv
<1> QED
  BY <1>1, <1>2, <1>3, PTL DEF Spec
=============================================================================

--------------------------- MODULE MCTabCreation ---------------------------
(***************************************************************************)
(* TabCreation for TLC.  A ticket alone meets every pair of faults; two     *)
(* tickets on the same endpoint meet each other, without faults.            *)
(***************************************************************************)
EXTENDS TabCreation

CONSTANTS c1, c2, a1

MCLoad ==
    {[open |-> {c1}, faults |-> MaxFaults], [open |-> {a1}, faults |-> MaxFaults],
     [open |-> {c1, a1}, faults |-> 0], [open |-> {c1, c2}, faults |-> 0]}
=============================================================================

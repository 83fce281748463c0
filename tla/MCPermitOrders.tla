---------------------------- MODULE MCPermitOrders ----------------------------
(***************************************************************************)
(* PermitOrders for TLC.  Permits, vehicles and zones are interchangeable: *)
(* no action singles one out.  Orders are not, because the latest one      *)
(* matters.  The runs that check liveness do not use the symmetry.         *)
(***************************************************************************)
EXTENDS PermitOrders, TLC

Symmetry == Permutations(Permits) \cup Permutations(Vehicles) \cup Permutations(Zones)
================================================================================

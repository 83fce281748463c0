---------------------------- MODULE MCBackOffice ----------------------------
(***************************************************************************)
(* BackOffice for TLC.  Permits, vehicles and zones are interchangeable:   *)
(* no action, of the shop or of the office, singles one out.  Orders are   *)
(* not, because the latest one matters.                                    *)
(***************************************************************************)
EXTENDS BackOffice, TLC

Symmetry == Permutations(Permits) \cup Permutations(Vehicles) \cup Permutations(Zones)
================================================================================

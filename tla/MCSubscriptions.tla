----------------------------- MODULE MCSubscriptions ----------------------------
(***************************************************************************)
(* The run of Subscriptions with several permits, which are all alike.     *)
(***************************************************************************)
EXTENDS Subscriptions, TLC

PermitSymmetry == Permutations(Permits)
================================================================================

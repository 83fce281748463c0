---------------------------- MODULE PermitLifecycle ----------------------------
(***************************************************************************)
(* What a customer may rely on about the life of a permit, whatever the    *)
(* shop, Talpa and the jobs do and in whichever order: a permit leaves the *)
(* drafts once and never comes back, it is forgotten only as a draft, and  *)
(* it is valid only after Talpa took a payment for an order of its own.    *)
(* Abstract specification of PermitOrders.                                 *)
(***************************************************************************)
CONSTANT Permits

VARIABLES
    stage,          \* where each permit is in its life
    paid            \* permits Talpa took a payment for

Stages == {"absent", "draft", "waiting", "valid", "over"}

Init ==
    /\ stage = [p \in Permits |-> "absent"]
    /\ paid = {}

\* The stages permit p may be in after one step.
Reachable(p) ==
    CASE stage[p] = "absent" -> {"absent", "draft"}
      [] stage[p] = "draft" -> {"draft", "absent", "waiting", "over"}
      [] OTHER -> {"waiting", "over"} \cup
                  (IF stage[p] = "valid" \/ p \in paid THEN {"valid"} ELSE {})

\* One event moves any number of permits and pays for any that left the drafts.
Next ==
    /\ stage' \in [Permits -> Stages]
    /\ \A p \in Permits : stage'[p] \in Reachable(p)
    /\ paid \subseteq paid'
    /\ paid' \subseteq paid \cup {p \in Permits : stage[p] \notin {"absent", "draft"}}

Spec == Init /\ [][Next]_<<stage, paid>>
================================================================================

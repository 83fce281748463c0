------------------------------ MODULE PermitState ------------------------------
(***************************************************************************)
(* The database rows of one customer that the purchase of fixed-period     *)
(* parking permits reads and writes: the permits, the orders (with the     *)
(* extension request an extension order carries) and the snapshots that    *)
(* the two non-atomic batch jobs hold between their queries.  The GraphQL  *)
(* handlers, the Talpa webhooks and the jobs are actions over these rows   *)
(* in CustomerApi, TalpaWebhooks and Jobs; PermitOrders composes them.     *)
(*                                                                         *)
(* An order id is a number because `latest("id")' compares ids.  A permit  *)
(* id is only an identity; a deleted draft frees its id again.             *)
(***************************************************************************)
EXTENDS Naturals, FiniteSets

CONSTANTS
    Permits,        \* ids of ParkingPermit rows
    Vehicles,       \* registration numbers
    Zones,          \* the customer's addresses, each with its parking zone
    MaxOrders,      \* bound on the number of Order rows
    MaxAllowed,     \* settings.MAX_ALLOWED_USER_PERMIT
    None            \* SQL NULL

ASSUME NoneAssumption == None \notin Permits \cup Vehicles \cup Zones
ASSUME MaxOrdersAssumption == MaxOrders \in Nat
ASSUME MaxAllowedAssumption == MaxAllowed \in Nat

VARIABLES
    permits,        \* ParkingPermit table
    orders,         \* Order table, each order with its Talpa counterpart
    unpaid,         \* what cancel_old_unpaid_permits read and not yet wrote
    expiry          \* progress of automatic_expiration_of_permits

vars == <<permits, orders, unpaid, expiry>>

Orders == 1..MaxOrders

(***************************************************************************)
(* Rows                                                                    *)
(***************************************************************************)
ParkingPermitStatus == {"DRAFT", "PRELIMINARY", "PAYMENT_IN_PROGRESS",
                        "VALID", "CANCELLED", "CLOSED"}
ParkingPermitEndType == {"IMMEDIATELY", "AFTER_CURRENT_PERIOD", "PREVIOUS_DAY_END"}
OrderStatus == {"DRAFT", "CONFIRMED", "CANCELLED"}
OrderType == {"CREATED", "VEHICLE_CHANGED", "ADDRESS_CHANGED"}
RequestStatus == {"PENDING", "APPROVED", "CANCELLED"}

\* "due": the end time has passed, or the address or the vehicle was flagged
\* as changed on an earlier day, so that the expiration job selects the row.
PermitRow ==
    [status: ParkingPermitStatus \cup {"NONE"},
     vehicle: Vehicles \cup {None}, nextVehicle: Vehicles \cup {None},
     zone: Zones \cup {None}, nextZone: Zones \cup {None},
     primary: BOOLEAN, endType: ParkingPermitEndType, due: BOOLEAN]

\* "request" is the extension request created together with the order;
\* "late": talpa_last_valid_purchase_time has passed; "paid" and "cancelled"
\* are the state of the order at Talpa.
OrderRow ==
    [status: OrderStatus \cup {"NONE"}, type: OrderType,
     permits: SUBSET Permits, request: RequestStatus \cup {"NONE"},
     late: BOOLEAN, paid: BOOLEAN, cancelled: BOOLEAN]

\* "row" is the permit being ended, as it was when its ending began.
ExpiryState ==
    [todo: SUBSET Permits, current: Permits \cup {None}, row: PermitRow,
     step: {"idle", "picked", "orders", "closed"}]

NoPermit ==
    [status |-> "NONE", vehicle |-> None, nextVehicle |-> None, zone |-> None,
     nextZone |-> None, primary |-> FALSE, endType |-> "IMMEDIATELY", due |-> FALSE]

NoOrder ==
    [status |-> "NONE", type |-> "CREATED", permits |-> {}, request |-> "NONE",
     late |-> FALSE, paid |-> FALSE, cancelled |-> FALSE]

\* A row of a new order, as send_to_talpa leaves it.
NewOrder(status, type, S, request) ==
    [status |-> status, type |-> type, permits |-> S, request |-> request,
     late |-> FALSE, paid |-> FALSE, cancelled |-> FALSE]

IdleExpiry == [todo |-> {}, current |-> None, row |-> NoPermit, step |-> "idle"]

TypeOK ==
    /\ permits \in [Permits -> PermitRow]
    /\ orders \in [Orders -> OrderRow]
    /\ unpaid \in SUBSET (Permits \X Orders)
    /\ expiry \in ExpiryState

Init ==
    /\ permits = [p \in Permits |-> NoPermit]
    /\ orders = [o \in Orders |-> NoOrder]
    /\ unpaid = {}
    /\ expiry = IdleExpiry

(***************************************************************************)
(* Queries                                                                 *)
(***************************************************************************)
DraftStatuses == {"DRAFT", "PRELIMINARY"}
ActiveStatuses == {"VALID", "PAYMENT_IN_PROGRESS"}
LiveStatuses == DraftStatuses \cup ActiveStatuses

WithStatus(S) == {p \in Permits : permits[p].status \in S}
Drafts == WithStatus(DraftStatuses)
Active == WithStatus(ActiveStatuses)
Valid == WithStatus({"VALID"})
Live == WithStatus(LiveStatuses)                \* CustomerPermit.customer_permit_query
Primaries == {p \in Live : permits[p].primary}

OrdersOf(p) == {o \in Orders : p \in orders[o].permits}
ExtensionOrdersOf(p) == {o \in OrdersOf(p) : orders[o].request # "NONE"}

\* ParkingPermit.latest_order: the order of the last extension request, of any
\* status, shadows every later order.
IsLatestOrder(p, o) ==
    LET candidates == IF ExtensionOrdersOf(p) # {} THEN ExtensionOrdersOf(p)
                                                  ELSE OrdersOf(p)
    IN  o \in candidates /\ \A k \in candidates : k <= o

\* Mutant: the purchase time is not looked at.
TimedOutAtOnce(p, o) ==
    /\ permits[p].status = "PAYMENT_IN_PROGRESS"
    /\ IsLatestOrder(p, o)
    /\ orders[o].status = "DRAFT"

\* ParkingPermit.has_timed_out_payment_in_progress, with latest order o.
TimedOutBy(p, o) ==
    /\ permits[p].status = "PAYMENT_IN_PROGRESS"
    /\ IsLatestOrder(p, o)
    /\ orders[o].status = "DRAFT"
    /\ orders[o].late

TimedOut(p) == \E o \in Orders : TimedOutBy(p, o)

HasPendingRequest(p) == \E o \in OrdersOf(p) : orders[o].request = "PENDING"

\* Mutant: drafts are not compared with.
MaySaveBesideDraft(ps, p) ==
    ps[p].status \in ActiveStatuses =>
        \A q \in Permits \ {p} :
            ps[q].status \in ActiveStatuses => ps[q].vehicle # ps[p].vehicle

\* The duplicate check of ParkingPermit.save(): does row p of table ps pass it?
MaySave(ps, p) ==
    ps[p].status \in LiveStatuses =>
        \A q \in Permits \ {p} :
            ps[q].status \in LiveStatuses => ps[q].vehicle # ps[p].vehicle

\* The id the next inserted order receives.
IsNextOrderId(o) ==
    /\ orders[o].status = "NONE"
    /\ \A k \in 1..(o - 1) : orders[k].status # "NONE"

(***************************************************************************)
(* Updates                                                                 *)
(***************************************************************************)
\* QuerySet.update(status=...) on the permits S of table ps.
SetStatus(ps, S, status) ==
    [p \in Permits |-> IF p \in S THEN [ps[p] EXCEPT !.status = status] ELSE ps[p]]

\* Some of the permits S were due only because of a flag that is now cleared.
ClearFlags(ps, S) ==
    {[p \in Permits |-> IF p \in F THEN [ps[p] EXCEPT !.due = FALSE] ELSE ps[p]] :
        F \in SUBSET S}

Delete(ps, S) == [p \in Permits |-> IF p \in S THEN NoPermit ELSE ps[p]]

DraftRows(ps) == {p \in Permits : ps[p].status = "DRAFT"}

\* Mutant: the request of an order that was cancelled first is forgotten.
CancelPendingOfDrafts(os, S) ==
    [o \in Orders |-> IF o \in S /\ os[o].request = "PENDING" /\ os[o].status = "DRAFT"
                      THEN [os[o] EXCEPT !.request = "CANCELLED"] ELSE os[o]]

\* cancel_pending() on the requests of the orders S of table os.
CancelPending(os, S) ==
    [o \in Orders |-> IF o \in S /\ os[o].request = "PENDING"
                      THEN [os[o] EXCEPT !.request = "CANCELLED"] ELSE os[o]]

OrdersOfAny(S) == {o \in Orders : orders[o].permits \cap S # {}}

\* Order.cancel() on the orders S.  Talpa may refuse to validate some of them,
\* which leaves those unchanged, and may fail to cancel others, which are
\* cancelled here all the same.
CancelOrders(S, refused, told) ==
    [o \in Orders |->
        IF o \in S \ refused
        THEN [orders[o] EXCEPT !.status = "CANCELLED", !.cancelled = @ \/ o \in told]
        ELSE orders[o]]

\* Mutant: an order is cancelled although another of its permits is VALID.
EveryOrderOf(S, endType) == OrdersOfAny(S)

\* The orders end_permit() cancels when the permits S end one after the other:
\* those in which the permit being ended is the last one that is VALID.  Permits
\* closed at once are no longer VALID when the next one of S ends.
OrdersToCancel(S, endType) ==
    {o \in Orders : \E p \in S \cap orders[o].permits :
        LET gone == IF endType = "AFTER_CURRENT_PERIOD" THEN {p} ELSE S
        IN  \A q \in orders[o].permits \ gone : permits[q].status # "VALID"}

\* ParkingPermit.end_permit() on the permits S.
EndPermits(ps, S, endType) ==
    [p \in Permits |->
        IF p \notin S THEN ps[p]
        ELSE IF endType = "AFTER_CURRENT_PERIOD"
             THEN [ps[p] EXCEPT !.endType = endType]
             ELSE [ps[p] EXCEPT !.endType = endType, !.status = "CLOSED"]]
================================================================================

--------------------------- MODULE PermitOrdersProofs ---------------------------
(***************************************************************************)
(* Proofs about PermitOrders, for every set of permits, vehicles, zones    *)
(* and every bound on the orders; and about the same rows with the clerks  *)
(* of BackOffice at work beside the shop, for every set of refunds,        *)
(* whatever statuses and end types the clerks may give, and with any       *)
(* number of edit forms that were opened and saved in turn.                *)
(***************************************************************************)
EXTENDS BackOffice, TLAPS

USE DEF ParkingPermitStatus, ParkingPermitEndType, OrderStatus, OrderType, RequestStatus

(***************************************************************************)
(* Type correctness                                                        *)
(***************************************************************************)
LEMMA NoPermitType == NoPermit \in PermitRow
  BY DEF NoPermit, PermitRow

LEMMA NewOrderType ==
  ASSUME NEW status \in OrderStatus, NEW type \in OrderType,
         NEW S \in SUBSET Permits, NEW request \in RequestStatus \cup {"NONE"}
  PROVE  NewOrder(status, type, S, request) \in OrderRow
  BY DEF NewOrder, OrderRow

(* The writes of single columns: the row keeps its type, and where a proof asks
   for it, its other columns. *)
LEMMA PermitColumns ==
  ASSUME NEW row \in PermitRow
  PROVE  /\ \A status \in ParkingPermitStatus : [row EXCEPT !.status = status] \in PermitRow
         /\ \A b \in BOOLEAN : /\ [row EXCEPT !.due = b] \in PermitRow
                              /\ [row EXCEPT !.primary = b] \in PermitRow
<1>1. ASSUME NEW status \in ParkingPermitStatus PROVE [row EXCEPT !.status = status] \in PermitRow
  BY DEF PermitRow
<1>2. ASSUME NEW b \in BOOLEAN PROVE [row EXCEPT !.due = b] \in PermitRow
  BY DEF PermitRow
<1>3. ASSUME NEW b \in BOOLEAN PROVE [row EXCEPT !.primary = b] \in PermitRow
  BY DEF PermitRow
<1> QED
  BY <1>1, <1>2, <1>3

LEMMA VehicleColumn ==
  ASSUME NEW row \in PermitRow, NEW vehicle \in Vehicles
  PROVE  /\ [row EXCEPT !.vehicle = vehicle] \in PermitRow
         /\ [row EXCEPT !.vehicle = vehicle].status = row.status
  BY DEF PermitRow

LEMMA NextVehicleColumn ==
  ASSUME NEW row \in PermitRow, NEW vehicle \in Vehicles
  PROVE  LET new == [row EXCEPT !.nextVehicle = vehicle, !.status = "PAYMENT_IN_PROGRESS"]
         IN  new \in PermitRow /\ new.status = "PAYMENT_IN_PROGRESS"
  BY DEF PermitRow, ParkingPermitStatus

LEMMA ZoneColumn ==
  ASSUME NEW row \in PermitRow, NEW zone \in Zones
  PROVE  LET new == [row EXCEPT !.zone = zone]
         IN  new \in PermitRow /\ new.status = row.status /\ new.vehicle = row.vehicle
  BY DEF PermitRow

LEMMA NextZoneColumn ==
  ASSUME NEW row \in PermitRow, NEW zone \in Zones
  PROVE  LET new == [row EXCEPT !.nextZone = zone, !.status = "PAYMENT_IN_PROGRESS"]
         IN  /\ new \in PermitRow
             /\ new.status = "PAYMENT_IN_PROGRESS"
             /\ new.vehicle = row.vehicle
  BY DEF PermitRow, ParkingPermitStatus

LEMMA EndedColumns ==
  ASSUME NEW row \in PermitRow, NEW endType \in ParkingPermitEndType
  PROVE  /\ [row EXCEPT !.endType = endType] \in PermitRow
         /\ [row EXCEPT !.endType = endType, !.status = "CLOSED"] \in PermitRow
<1>1. [row EXCEPT !.endType = endType] \in PermitRow
  BY DEF PermitRow
<1>2. [row EXCEPT !.endType = endType, !.status = "CLOSED"] \in PermitRow
  BY DEF PermitRow, ParkingPermitStatus
<1> QED
  BY <1>1, <1>2

LEMMA OrderColumns ==
  ASSUME NEW row \in OrderRow
  PROVE  /\ [row EXCEPT !.late = TRUE] \in OrderRow
         /\ [row EXCEPT !.paid = TRUE] \in OrderRow
         /\ [row EXCEPT !.cancelled = TRUE] \in OrderRow
         /\ [row EXCEPT !.status = "CANCELLED"] \in OrderRow
         /\ [row EXCEPT !.request = "CANCELLED"] \in OrderRow
<1>1. [row EXCEPT !.late = TRUE] \in OrderRow
  BY DEF OrderRow
<1>2. [row EXCEPT !.paid = TRUE] \in OrderRow
  BY DEF OrderRow
<1>3. [row EXCEPT !.cancelled = TRUE] \in OrderRow
  BY DEF OrderRow
<1>4. [row EXCEPT !.status = "CANCELLED"] \in OrderRow
  BY DEF OrderRow, OrderStatus
<1>5. [row EXCEPT !.request = "CANCELLED"] \in OrderRow
  BY DEF OrderRow, RequestStatus
<1> QED
  BY <1>1, <1>2, <1>3, <1>4, <1>5

LEMMA SetStatusType ==
  ASSUME NEW ps \in [Permits -> PermitRow], NEW S, NEW status \in ParkingPermitStatus
  PROVE  SetStatus(ps, S, status) \in [Permits -> PermitRow]
  BY PermitColumns DEF SetStatus

LEMMA ClearFlagsType ==
  ASSUME NEW ps \in [Permits -> PermitRow], NEW S, NEW r \in ClearFlags(ps, S)
  PROVE  r \in [Permits -> PermitRow]
<1>1. PICK F \in SUBSET S :
        r = [p \in Permits |-> IF p \in F THEN [ps[p] EXCEPT !.due = FALSE] ELSE ps[p]]
  BY DEF ClearFlags
<1>2. ASSUME NEW p \in Permits
      PROVE  (IF p \in F THEN [ps[p] EXCEPT !.due = FALSE] ELSE ps[p]) \in PermitRow
  BY PermitColumns
<1> QED
  BY <1>1, <1>2

LEMMA DeleteType ==
  ASSUME NEW ps \in [Permits -> PermitRow], NEW S
  PROVE  Delete(ps, S) \in [Permits -> PermitRow]
  BY NoPermitType DEF Delete

LEMMA CancelPendingType ==
  ASSUME NEW os \in [Orders -> OrderRow], NEW S
  PROVE  CancelPending(os, S) \in [Orders -> OrderRow]
  BY OrderColumns DEF CancelPending

LEMMA CancelOrdersType ==
  ASSUME orders \in [Orders -> OrderRow], NEW S, NEW refused, NEW told
  PROVE  CancelOrders(S, refused, told) \in [Orders -> OrderRow]
<1>1. ASSUME NEW row \in OrderRow, NEW b \in BOOLEAN
      PROVE  [row EXCEPT !.status = "CANCELLED", !.cancelled = b] \in OrderRow
  BY DEF OrderRow, OrderStatus
<1>2. ASSUME NEW o \in Orders PROVE orders[o] \in OrderRow /\ orders[o].cancelled \in BOOLEAN
  BY DEF OrderRow
<1>3. ASSUME NEW o \in Orders
      PROVE  [orders[o] EXCEPT !.status = "CANCELLED", !.cancelled = @ \/ o \in told] \in OrderRow
  <2>1. (orders[o].cancelled \/ o \in told) \in BOOLEAN
    OBVIOUS
  <2> QED
    BY <1>1, <1>2, <2>1
<1> QED
  BY <1>2, <1>3 DEF CancelOrders

LEMMA EndPermitsType ==
  ASSUME NEW ps \in [Permits -> PermitRow], NEW S, NEW endType \in ParkingPermitEndType
  PROVE  EndPermits(ps, S, endType) \in [Permits -> PermitRow]
  BY EndedColumns DEF EndPermits

LEMMA PaidPermitType ==
  ASSUME NEW permit \in PermitRow, NEW type \in OrderType
  PROVE  PaidPermit(permit, type) \in PermitRow
  BY DEF PaidPermit, PermitRow

LEMMA IdleExpiryType == IdleExpiry \in ExpiryState
  BY NoPermitType DEF IdleExpiry, ExpiryState

LEMMA InitType == Init => TypeOK
  BY NoPermitType, IdleExpiryType DEF Init, TypeOK, NoOrder, OrderRow

LEMMA CreatePermitType ==
  ASSUME TypeOK, NEW p \in Permits, NEW vehicle \in Vehicles, NEW zone \in Zones,
         CreatePermit(p, vehicle, zone)
  PROVE  TypeOK'
<1>1. ASSUME NEW b \in BOOLEAN
      PROVE  [NoPermit EXCEPT !.status = "DRAFT", !.vehicle = vehicle, !.zone = zone,
                              !.primary = b] \in PermitRow
  BY DEF NoPermit, PermitRow
<1>2. (Live = {}) \in BOOLEAN
  OBVIOUS
<1> QED
  BY <1>1, <1>2 DEF TypeOK, CreatePermit

LEMMA DeletePermitType ==
  ASSUME TypeOK, NEW p \in Permits, DeletePermit(p)
  PROVE  TypeOK'
<1>1. Delete(permits, {p}) \in [Permits -> PermitRow]
  BY DeleteType DEF TypeOK
<1>2. ASSUME NEW q \in Permits
      PROVE  [Delete(permits, {p}) EXCEPT ![q].primary = TRUE] \in [Permits -> PermitRow]
  BY <1>1, PermitColumns
<1>3. permits' \in [Permits -> PermitRow]
  BY <1>1, <1>2 DEF DeletePermit, Live, WithStatus
<1> QED
  BY <1>3 DEF TypeOK, DeletePermit

LEMMA TogglePrimaryType ==
  ASSUME TypeOK, TogglePrimary
  PROVE  TypeOK'
<1>2. PICK p \in Permits, s \in Permits :
        permits' = [permits EXCEPT ![p].primary = FALSE, ![s].primary = TRUE]
  BY DEF TogglePrimary, Live, WithStatus
<1>3. [permits EXCEPT ![p].primary = FALSE] \in [Permits -> PermitRow]
  BY PermitColumns DEF TypeOK
<1>4. permits' \in [Permits -> PermitRow]
  BY PermitColumns, <1>2, <1>3
<1> QED
  BY <1>4 DEF TypeOK, TogglePrimary

LEMMA UpdateDraftAddressType ==
  ASSUME TypeOK, NEW zone \in Zones, UpdateDraftAddress(zone)
  PROVE  TypeOK'
  BY ZoneColumn DEF TypeOK, UpdateDraftAddress

LEMMA CreateOrderType ==
  ASSUME TypeOK, CreateOrder
  PROVE  TypeOK'
<1>1. PICK o \in Orders :
        orders' = [orders EXCEPT ![o] = NewOrder("DRAFT", "CREATED", Drafts, "NONE")]
  BY DEF CreateOrder
<1>2. NewOrder("DRAFT", "CREATED", Drafts, "NONE") \in OrderRow
  BY NewOrderType DEF Drafts, WithStatus
<1> QED
  BY <1>1, <1>2, SetStatusType DEF TypeOK, CreateOrder

LEMMA RequestExtensionType ==
  ASSUME TypeOK, NEW p \in Permits, RequestExtension(p)
  PROVE  TypeOK'
<1>1. NewOrder("DRAFT", "CREATED", {p}, "PENDING") \in OrderRow
  BY NewOrderType
<1> QED
  BY <1>1 DEF TypeOK, RequestExtension

LEMMA ChangeVehicleType ==
  ASSUME TypeOK, NEW p \in Permits, NEW vehicle \in Vehicles, ChangeVehicle(p, vehicle)
  PROVE  TypeOK'
<1>1. [permits EXCEPT ![p].vehicle = vehicle] \in [Permits -> PermitRow]
  BY VehicleColumn DEF TypeOK
<1> QED
  BY <1>1, ClearFlagsType DEF TypeOK, ChangeVehicle

LEMMA ChangeToDearerVehicleType ==
  ASSUME TypeOK, NEW p \in Permits, NEW vehicle \in Vehicles,
         ChangeToDearerVehicle(p, vehicle)
  PROVE  TypeOK'
<1>1. NewOrder("CONFIRMED", "VEHICLE_CHANGED", Valid, "NONE") \in OrderRow
  BY NewOrderType DEF Valid, WithStatus
<1>2. orders' \in [Orders -> OrderRow]
  BY <1>1 DEF TypeOK, ChangeToDearerVehicle
<1>3. [permits EXCEPT ![p] = [@ EXCEPT !.nextVehicle = vehicle,
                                       !.status = "PAYMENT_IN_PROGRESS"]]
        \in [Permits -> PermitRow]
  BY NextVehicleColumn DEF TypeOK
<1> QED
  BY <1>2, <1>3, ClearFlagsType DEF TypeOK, ChangeToDearerVehicle

LEMMA ChangeAddressType ==
  ASSUME TypeOK, NEW zone \in Zones, ChangeAddress(zone)
  PROVE  TypeOK'
<1>1. [p \in Permits |-> IF p \in Active THEN [permits[p] EXCEPT !.zone = zone]
                                         ELSE permits[p]] \in [Permits -> PermitRow]
  BY ZoneColumn DEF TypeOK
<1> QED
  BY <1>1, ClearFlagsType DEF TypeOK, ChangeAddress

LEMMA ChangeToDearerAddressType ==
  ASSUME TypeOK, NEW zone \in Zones, ChangeToDearerAddress(zone)
  PROVE  TypeOK'
<1>1. NewOrder("DRAFT", "ADDRESS_CHANGED", Valid, "NONE") \in OrderRow
  BY NewOrderType DEF Valid, WithStatus
<1>2. orders' \in [Orders -> OrderRow]
  BY <1>1 DEF TypeOK, ChangeToDearerAddress
<1>3. [p \in Permits |->
         IF p \in Active
         THEN [permits[p] EXCEPT !.nextZone = zone, !.status = "PAYMENT_IN_PROGRESS"]
         ELSE permits[p]] \in [Permits -> PermitRow]
  BY NextZoneColumn DEF TypeOK
<1> QED
  BY <1>2, <1>3, ClearFlagsType DEF TypeOK, ChangeToDearerAddress

LEMMA EndPermitsOfCustomerType ==
  ASSUME TypeOK, NEW S \in SUBSET Permits,
         NEW endType \in {"IMMEDIATELY", "AFTER_CURRENT_PERIOD"},
         EndPermitsOfCustomer(S, endType)
  PROVE  TypeOK'
<1> DEFINE ending == S \cap Live
           ended == EndPermits(permits, ending, endType)
<1>1. ended \in [Permits -> PermitRow]
  BY EndPermitsType DEF TypeOK
<1>2. Delete(ended, DraftRows(ended)) \in [Permits -> PermitRow]
  <2> HIDE DEF ended
  <2> QED
    BY <1>1, DeleteType
<1>3. orders' \in [Orders -> OrderRow]
  BY CancelOrdersType, CancelPendingType DEF TypeOK, EndPermitsOfCustomer
<1> QED
  BY <1>2, <1>3 DEF TypeOK, EndPermitsOfCustomer

LEMMA GetPermitsType ==
  ASSUME TypeOK, NEW old \in SUBSET DraftRows(permits), NEW cancelled \in SUBSET Permits,
         GetPermits(old, cancelled)
  PROVE  TypeOK'
<1>1. permits' \in [Permits -> PermitRow]
  BY DeleteType, SetStatusType DEF TypeOK, GetPermits
<1>2. orders' \in [Orders -> OrderRow]
  BY DEF TypeOK, GetPermits, OrderRow
<1> QED
  BY <1>1, <1>2 DEF TypeOK, GetPermits

LEMMA CustomerType ==
  ASSUME TypeOK, CustomerNext
  PROVE  TypeOK'
  BY CreatePermitType, DeletePermitType, TogglePrimaryType, UpdateDraftAddressType,
     CreateOrderType, RequestExtensionType, ChangeVehicleType, ChangeToDearerVehicleType,
     ChangeAddressType, ChangeToDearerAddressType, EndPermitsOfCustomerType, GetPermitsType
  DEF CustomerNext, PurchaseNext, UpdateNext, ExtendNext, ChangeNext, EndNext

LEMMA PaymentPaidType ==
  ASSUME TypeOK, NEW o \in Orders, PaymentPaid(o)
  PROVE  TypeOK'
<1> DEFINE order == orders[o]
           paid == [p \in Permits |->
                       IF p \in order.permits THEN PaidPermit(permits[p], order.type)
                                              ELSE permits[p]]
<1>1. order \in OrderRow
  BY DEF TypeOK
<1>2. order.type \in OrderType
  BY <1>1 DEF OrderRow
<1>3. paid \in [Permits -> PermitRow]
  BY <1>2, PaidPermitType DEF TypeOK
<1>4. permits' \in [Permits -> PermitRow]
  <2>1. PICK S : permits' \in ClearFlags(paid, S)
    BY DEF PaymentPaid
  <2> HIDE DEF paid
  <2> QED
    BY <1>3, <2>1, ClearFlagsType
<1>5. PaidOrder(order) \in OrderRow
  BY <1>1 DEF PaidOrder, OrderRow
<1>6. orders' = [orders EXCEPT ![o] = PaidOrder(order)]
  BY DEF PaymentPaid
<1>7. orders' \in [Orders -> OrderRow]
  BY <1>5, <1>6 DEF TypeOK
<1> QED
  BY <1>4, <1>7 DEF TypeOK, PaymentPaid

LEMMA TalpaType ==
  ASSUME TypeOK, TalpaNext
  PROVE  TypeOK'
<1>1. PICK o \in Orders :
        \/ PurchaseTimePasses(o) \/ TalpaPays(o) \/ TalpaCancels(o)
        \/ PaymentPaid(o) \/ PaymentFailed(o) \/ OrderCancelled(o)
  BY DEF TalpaNext
<1>2. CASE PurchaseTimePasses(o)
  BY <1>2, OrderColumns DEF TypeOK, PurchaseTimePasses
<1>3. CASE TalpaPays(o)
  BY <1>3, OrderColumns DEF TypeOK, TalpaPays
<1>4. CASE TalpaCancels(o)
  BY <1>4, OrderColumns DEF TypeOK, TalpaCancels
<1>5. CASE PaymentPaid(o)
  BY <1>5, PaymentPaidType
<1>6. CASE PaymentFailed(o)
  BY <1>6, CancelPendingType DEF TypeOK, PaymentFailed
<1>7. CASE OrderCancelled(o)
  <2>1. permits' \in [Permits -> PermitRow]
    BY <1>7, SetStatusType DEF TypeOK, OrderCancelled
  <2>2. ASSUME NEW os \in [Orders -> OrderRow]
        PROVE  [os EXCEPT ![o].status = "CANCELLED"] \in [Orders -> OrderRow]
    BY OrderColumns
  <2>3. /\ [orders EXCEPT ![o].status = "CANCELLED"] \in [Orders -> OrderRow]
        /\ [CancelPending(orders, {o}) EXCEPT ![o].status = "CANCELLED"]
                \in [Orders -> OrderRow]
    BY <2>2, CancelPendingType DEF TypeOK
  <2>4. orders' \in [Orders -> OrderRow]
    BY <1>7, <2>3 DEF OrderCancelled
  <2> QED
    BY <1>7, <2>1, <2>4 DEF TypeOK, OrderCancelled
<1> QED
  BY <1>1, <1>2, <1>3, <1>4, <1>5, <1>6, <1>7

LEMMA JobsType ==
  ASSUME TypeOK, JobsNext
  PROVE  TypeOK'
<1>1. CASE ReadUnpaid
  BY <1>1 DEF TypeOK, ReadUnpaid
<1>2. CASE CancelUnpaid
  <2>1. orders' \in [Orders -> OrderRow]
    BY <1>2, OrderColumns DEF TypeOK, CancelUnpaid
  <2> QED
    BY <1>2, <2>1, SetStatusType DEF TypeOK, CancelUnpaid
<1>3. ASSUME NEW S \in SUBSET Permits, DeleteOldDrafts(S) PROVE TypeOK'
  BY <1>3, DeleteType DEF TypeOK, DeleteOldDrafts
<1>4. ASSUME NEW S \in SUBSET Orders, CancelOldRequests(S) PROVE TypeOK'
  BY <1>4, CancelPendingType DEF TypeOK, CancelOldRequests
<1>5. ASSUME NEW p \in Permits, BecomesDue(p) PROVE TypeOK'
  BY <1>5, PermitColumns DEF TypeOK, BecomesDue
<1>6. CASE ReadExpired
  BY <1>6, IdleExpiryType DEF TypeOK, ReadExpired, ExpiryState, Valid, WithStatus
<1>7. ASSUME NEW p \in Permits, CancelOrdersOfExpired(p) PROVE TypeOK'
  <2>1. orders' \in [Orders -> OrderRow]
    BY <1>7, CancelOrdersType DEF TypeOK, CancelOrdersOfExpired
  <2>2. (IF p \in Live THEN permits[p] ELSE NoPermit) \in PermitRow
    BY NoPermitType DEF TypeOK
  <2>3. expiry' \in ExpiryState
    BY <1>7, <2>2 DEF TypeOK, CancelOrdersOfExpired, ExpiryState
  <2> QED
    BY <1>7, <2>1, <2>3 DEF TypeOK, CancelOrdersOfExpired
<1>8. CASE CloseExpired
  <2>1. [expiry.row EXCEPT !.endType = "PREVIOUS_DAY_END", !.status = "CLOSED"]
          \in PermitRow
    BY EndedColumns DEF TypeOK, ExpiryState, ParkingPermitEndType
  <2>2. permits' \in [Permits -> PermitRow]
    BY <1>8, <2>1 DEF TypeOK, CloseExpired
  <2>3. expiry' \in ExpiryState
    BY <1>8, NoPermitType DEF TypeOK, CloseExpired, ExpiryState
  <2> QED
    BY <1>8, <2>2, <2>3, CancelPendingType DEF TypeOK, CloseExpired
<1>9. CASE TidyExpired
  <2>2. permits' \in [Permits -> PermitRow]
    BY <1>9, PermitColumns, NoPermitType DEF TypeOK, TidyExpired
  <2>3. expiry' \in ExpiryState
    BY <1>9, IdleExpiryType DEF TypeOK, TidyExpired, ExpiryState
  <2> QED
    BY <1>9, <2>2, <2>3 DEF TypeOK, TidyExpired
<1>10. CASE AbortExpiry
  BY <1>10, IdleExpiryType DEF TypeOK, AbortExpiry
<1> QED
  BY <1>1, <1>2, <1>3, <1>4, <1>5, <1>6, <1>7, <1>8, <1>9, <1>10
  DEF JobsNext, UnpaidNext, CleanupNext, ExpiryNext

LEMMA StepType == TypeOK /\ [Next]_vars => TypeOK'
<1>1. ASSUME TypeOK, UNCHANGED vars PROVE TypeOK'
  BY <1>1 DEF TypeOK, vars
<1> QED
  BY <1>1, CustomerType, TalpaType, JobsType DEF Next

\* Every row keeps its type: no handler, notification or job writes a value that
\* its column cannot hold.
THEOREM TypeCorrect == Spec => []TypeOK
<1> QED
  BY InitType, StepType, PTL DEF Spec

(***************************************************************************)
(* How one step may change the rows.  PermitMoves and OrderMoves hold of   *)
(* every step; what a step may do to a permit and to an order is proved    *)
(* once per action here, and every invariant below follows from it.        *)
(***************************************************************************)
\* Permits that are not, or no longer, drafts.
Ordered == {p \in Permits : permits[p].status \notin DraftStatuses \cup {"NONE"}}

\* Talpa no longer takes a payment of some order of the permit, as a job has read it or
\* as it is now; or a checkout was given up.
LateOrGivenUp(p) == \E o \in OrdersOf(p) : orders[o].late \/ orders[o].cancelled

WasReadLate(p) == \E o \in Orders : <<p, o>> \in unpaid

PermitMove(p, old, new) ==
    \/ new = old
    \/ old = "NONE" /\ new = "DRAFT"
    \/ old \in DraftStatuses /\ new = "NONE"
    \/ old # "NONE" /\ new = "PAYMENT_IN_PROGRESS"
    \/ old # "NONE" /\ new = "CANCELLED" /\ (LateOrGivenUp(p) \/ WasReadLate(p))
    \/ old # "NONE" /\ new = "CLOSED" /\ ~HasPendingRequest(p)'
    \/ new = "VALID" /\ PaidFor(p)

PermitMoves == \A p \in Permits : PermitMove(p, permits[p].status, permits'[p].status)

OrderUpdated(old, new) ==
    /\ old.status # "NONE" /\ new.status # "NONE"
    /\ new.permits = old.permits
    /\ new.type = old.type
    /\ old.paid => new.paid
    /\ old.late => new.late
    /\ new.status = "CONFIRMED" => old.status = "CONFIRMED" \/ old.paid
    /\ new.request = "APPROVED" => old.request = "APPROVED" \/ old.paid
    /\ new.request = "PENDING" => old.request = "PENDING"

OrderInserted(o) ==
    LET new == orders'[o] IN
    /\ IsNextOrderId(o) /\ new.status # "NONE"
    /\ new.permits \subseteq Ordered'
    /\ ~new.paid
    /\ new.status = "CONFIRMED" => new.type = "VEHICLE_CHANGED"
    /\ new.request # "APPROVED"
    /\ new.request = "PENDING" =>
         \E p \in Permits : /\ new.permits = {p} /\ ~HasPendingRequest(p)
                           /\ permits'[p].status # "CLOSED"

OrderMoves ==
    \A o \in Orders :
        \/ orders'[o] = orders[o]
        \/ OrderUpdated(orders[o], orders'[o])
        \/ OrderInserted(o)

\* An order id that was not given out yet has an empty row.
FreshOrders == \A o \in Orders : orders[o].status = "NONE" => orders[o] = NoOrder

\* An order is never over a draft.
OrderedNotDraft == \A o \in Orders : orders[o].permits \subseteq Ordered

\* The rows the jobs remember exist, and are no drafts.
Snapshots ==
    /\ \A row \in unpaid : row[1] \in Ordered /\ orders[row[2]].status # "NONE"
    /\ expiry.todo \subseteq Ordered
    /\ expiry.step = "orders" => expiry.current \in Ordered

IInv == TypeOK /\ FreshOrders /\ OrderedNotDraft /\ Snapshots

LEMMA FlagsKeepRest ==
  ASSUME NEW ps \in [Permits -> PermitRow], NEW S, NEW r \in ClearFlags(ps, S),
         NEW p \in Permits
  PROVE  r[p].status = ps[p].status /\ r[p].vehicle = ps[p].vehicle
<1>1. PICK F \in SUBSET S :
        r = [q \in Permits |-> IF q \in F THEN [ps[q] EXCEPT !.due = FALSE] ELSE ps[q]]
  BY DEF ClearFlags
<1>2. ps[p] \in PermitRow
  OBVIOUS
<1>3. r[p] = IF p \in F THEN [ps[p] EXCEPT !.due = FALSE] ELSE ps[p]
  BY <1>1
<1> QED
  BY <1>2, <1>3 DEF PermitRow

LEMMA CancelPendingMoves ==
  ASSUME IInv, NEW S, orders' = CancelPending(orders, S)
  PROVE  OrderMoves
<1> SUFFICES ASSUME NEW o \in Orders, orders'[o] # orders[o]
             PROVE  OrderUpdated(orders[o], orders'[o])
  BY DEF OrderMoves
<1>1. orders[o].request = "PENDING" /\ orders'[o] = [orders[o] EXCEPT !.request = "CANCELLED"]
  BY DEF CancelPending
<1>2. orders[o].status # "NONE"
  BY <1>1 DEF IInv, FreshOrders, NoOrder
<1>3. orders[o] \in OrderRow
  BY DEF IInv, TypeOK
<1> QED
  BY <1>1, <1>2, <1>3 DEF OrderUpdated, OrderRow

LEMMA InsertMoves ==
  ASSUME IInv, NEW o \in Orders, IsNextOrderId(o),
         NEW status \in {"DRAFT", "CONFIRMED"}, NEW type \in OrderType,
         NEW S \in SUBSET Permits, S \subseteq Ordered', NEW request \in {"NONE", "PENDING"},
         request = "PENDING" => \E p \in Permits : /\ S = {p} /\ ~HasPendingRequest(p)
                                                   /\ permits'[p].status # "CLOSED",
         status = "CONFIRMED" => type = "VEHICLE_CHANGED",
         orders' = [orders EXCEPT ![o] = NewOrder(status, type, S, request)]
  PROVE  OrderMoves
<1>1. orders'[o] = NewOrder(status, type, S, request)
  BY DEF IInv, TypeOK
<1>2. OrderInserted(o)
  BY <1>1 DEF OrderInserted, NewOrder
<1> QED
  BY <1>2 DEF OrderMoves, IInv, TypeOK

LEMMA KeptOrders ==
  ASSUME orders' = orders
  PROVE  OrderMoves
  BY DEF OrderMoves

LEMMA KeptPermits ==
  ASSUME permits' = permits
  PROVE  PermitMoves
  BY DEF PermitMoves, PermitMove

LEMMA CreatePermitMoves ==
  ASSUME IInv, NEW p \in Permits, NEW vehicle \in Vehicles, NEW zone \in Zones,
         CreatePermit(p, vehicle, zone)
  PROVE  PermitMoves /\ OrderMoves
<1>1. PermitMoves
  BY DEF PermitMoves, PermitMove, CreatePermit, IInv, TypeOK, NoPermit
<1> QED
  BY <1>1, KeptOrders DEF CreatePermit

LEMMA DeletePermitMoves ==
  ASSUME IInv, NEW p \in Permits, DeletePermit(p)
  PROVE  PermitMoves /\ OrderMoves
<1>1. ASSUME NEW q \in Permits
      PROVE  permits'[q].status = Delete(permits, {p})[q].status
  <2>1. Delete(permits, {p}) \in [Permits -> PermitRow]
    BY DeleteType DEF IInv, TypeOK
  <2>2. CASE permits' = Delete(permits, {p})
    BY <2>2
  <2>3. ASSUME NEW r \in Permits,
               permits' = [Delete(permits, {p}) EXCEPT ![r].primary = TRUE]
        PROVE  permits'[q].status = Delete(permits, {p})[q].status
    <3> DEFINE ps == Delete(permits, {p})
    <3> HIDE DEF ps
    <3> QED
      BY <2>1, <2>3 DEF PermitRow, ps
  <2> QED
    BY <2>2, <2>3 DEF DeletePermit, Live, WithStatus
<1>2. PermitMoves
  BY <1>1 DEF PermitMoves, PermitMove, DeletePermit, Delete, NoPermit, Drafts, WithStatus
<1> QED
  BY <1>2, KeptOrders DEF DeletePermit

LEMMA TogglePrimaryMoves ==
  ASSUME IInv, TogglePrimary
  PROVE  PermitMoves /\ OrderMoves
<1>1. PICK p \in Permits, s \in Permits :
        permits' = [permits EXCEPT ![p].primary = FALSE, ![s].primary = TRUE]
  BY DEF TogglePrimary, Live, WithStatus
<1>2. \A q \in Permits : permits[q] \in PermitRow
  BY DEF IInv, TypeOK
<1>3. PermitMoves
  BY <1>1, <1>2 DEF PermitMoves, PermitMove, PermitRow, IInv, TypeOK
<1> QED
  BY <1>3, KeptOrders DEF TogglePrimary

LEMMA UpdateDraftAddressMoves ==
  ASSUME IInv, NEW zone \in Zones, UpdateDraftAddress(zone)
  PROVE  PermitMoves /\ OrderMoves
<1>1. PermitMoves
  BY DEF PermitMoves, PermitMove, UpdateDraftAddress, IInv, TypeOK, PermitRow
<1> QED
  BY <1>1, KeptOrders DEF UpdateDraftAddress

LEMMA CreateOrderMoves ==
  ASSUME IInv, CreateOrder
  PROVE  PermitMoves /\ OrderMoves
<1>1. \A p \in Permits : permits'[p].status = IF p \in Drafts THEN "PAYMENT_IN_PROGRESS"
                                              ELSE permits[p].status
  BY DEF CreateOrder, SetStatus, IInv, TypeOK, PermitRow
<1>2. PermitMoves
  BY <1>1 DEF PermitMoves, PermitMove, Drafts, WithStatus, DraftStatuses
<1>3. Drafts \subseteq Ordered' /\ Drafts \subseteq Permits
  BY <1>1 DEF Ordered, Drafts, WithStatus, DraftStatuses
<1>4. OrderMoves
  BY <1>3, InsertMoves DEF CreateOrder
<1> QED
  BY <1>2, <1>4

LEMMA RequestExtensionMoves ==
  ASSUME IInv, NEW p \in Permits, RequestExtension(p)
  PROVE  PermitMoves /\ OrderMoves
<1>1. {p} \subseteq Ordered'
  BY DEF RequestExtension, Ordered, DraftStatuses
<1>2. OrderMoves
  <2>1. PICK o \in Orders :
            /\ IsNextOrderId(o)
            /\ orders' = [orders EXCEPT ![o] = NewOrder("DRAFT", "CREATED", {p}, "PENDING")]
    BY DEF RequestExtension
  <2>2. ~HasPendingRequest(p) /\ permits'[p].status # "CLOSED"
    BY DEF RequestExtension
  <2> QED
    BY <1>1, <2>1, <2>2, InsertMoves
<1> QED
  BY <1>2, KeptPermits DEF RequestExtension

LEMMA ChangeVehicleMoves ==
  ASSUME IInv, NEW p \in Permits, NEW vehicle \in Vehicles, ChangeVehicle(p, vehicle)
  PROVE  PermitMoves /\ OrderMoves
<1> DEFINE ps == [permits EXCEPT ![p].vehicle = vehicle]
<1>1. ps \in [Permits -> PermitRow] /\ \A q \in Permits : ps[q].status = permits[q].status
  BY VehicleColumn DEF IInv, TypeOK
<1>2. permits' \in ClearFlags(ps, {p})
  BY DEF ChangeVehicle
<1> HIDE DEF ps
<1>3. PermitMoves
  BY <1>1, <1>2, FlagsKeepRest DEF PermitMoves, PermitMove
<1> QED
  BY <1>3, KeptOrders DEF ChangeVehicle

LEMMA ChangeToDearerVehicleMoves ==
  ASSUME IInv, NEW p \in Permits, NEW vehicle \in Vehicles,
         ChangeToDearerVehicle(p, vehicle)
  PROVE  PermitMoves /\ OrderMoves
<1> DEFINE ps == [permits EXCEPT ![p] = [@ EXCEPT !.nextVehicle = vehicle,
                                                  !.status = "PAYMENT_IN_PROGRESS"]]
<1>1. /\ ps \in [Permits -> PermitRow]
      /\ \A q \in Permits : ps[q].status = IF q = p THEN "PAYMENT_IN_PROGRESS"
                                           ELSE permits[q].status
  BY NextVehicleColumn DEF IInv, TypeOK
<1>2. permits' \in ClearFlags(ps, {p})
  BY DEF ChangeToDearerVehicle
<1> HIDE DEF ps
<1>3. \A q \in Permits : permits'[q].status = IF q = p THEN "PAYMENT_IN_PROGRESS"
                                              ELSE permits[q].status
  BY <1>1, <1>2, FlagsKeepRest
<1>4. PermitMoves
  BY <1>3 DEF PermitMoves, PermitMove, ChangeToDearerVehicle
<1>5. Valid \subseteq Ordered' /\ Valid \subseteq Permits
  BY <1>3 DEF Ordered, Valid, WithStatus, DraftStatuses
<1>6. OrderMoves
  BY <1>5, InsertMoves DEF ChangeToDearerVehicle
<1> QED
  BY <1>4, <1>6

LEMMA ChangeAddressMoves ==
  ASSUME IInv, NEW zone \in Zones, ChangeAddress(zone)
  PROVE  PermitMoves /\ OrderMoves
<1> DEFINE ps == [p \in Permits |-> IF p \in Active THEN [permits[p] EXCEPT !.zone = zone]
                                                    ELSE permits[p]]
<1>1. ps \in [Permits -> PermitRow] /\ \A q \in Permits : ps[q].status = permits[q].status
  BY DEF IInv, TypeOK, PermitRow
<1>2. permits' \in ClearFlags(ps, Active)
  BY DEF ChangeAddress
<1> HIDE DEF ps
<1>3. PermitMoves
  BY <1>1, <1>2, FlagsKeepRest DEF PermitMoves, PermitMove
<1> QED
  BY <1>3, KeptOrders DEF ChangeAddress

LEMMA ChangeToDearerAddressMoves ==
  ASSUME IInv, NEW zone \in Zones, ChangeToDearerAddress(zone)
  PROVE  PermitMoves /\ OrderMoves
<1> DEFINE ps == [p \in Permits |->
                    IF p \in Active
                    THEN [permits[p] EXCEPT !.nextZone = zone,
                                            !.status = "PAYMENT_IN_PROGRESS"]
                    ELSE permits[p]]
<1>1. /\ ps \in [Permits -> PermitRow]
      /\ \A q \in Permits : ps[q].status = IF q \in Active THEN "PAYMENT_IN_PROGRESS"
                                           ELSE permits[q].status
  BY NextZoneColumn DEF IInv, TypeOK
<1>2. permits' \in ClearFlags(ps, Active)
  BY DEF ChangeToDearerAddress
<1> HIDE DEF ps
<1>3. \A q \in Permits : permits'[q].status = IF q \in Active THEN "PAYMENT_IN_PROGRESS"
                                              ELSE permits[q].status
  BY <1>1, <1>2, FlagsKeepRest
<1>4. PermitMoves
  BY <1>3 DEF PermitMoves, PermitMove, Active, WithStatus, ActiveStatuses
<1>5. Valid \subseteq Ordered' /\ Valid \subseteq Permits
  BY <1>3 DEF Ordered, Valid, WithStatus, DraftStatuses
<1>6. OrderMoves
  BY <1>5, InsertMoves DEF ChangeToDearerAddress
<1> QED
  BY <1>4, <1>6

\* Cancelling orders, then pending requests of any orders, is an update of both.
LEMMA CancelOrdersMoves ==
  ASSUME IInv, NEW S \in SUBSET {o \in Orders : orders[o].status # "NONE"},
         NEW refused, NEW told, NEW o \in Orders
  PROVE  LET new == CancelOrders(S, refused, told)[o]
         IN  new = orders[o] \/ OrderUpdated(orders[o], new)
<1> DEFINE new == CancelOrders(S, refused, told)[o]
<1>1. orders[o] \in OrderRow
  BY DEF IInv, TypeOK
<1>2. CASE o \in S \ refused
  <2>1. new = [orders[o] EXCEPT !.status = "CANCELLED", !.cancelled = @ \/ o \in told]
    BY <1>2 DEF CancelOrders
  <2>2. /\ new.status = "CANCELLED" /\ new.permits = orders[o].permits
        /\ new.type = orders[o].type /\ new.paid = orders[o].paid
        /\ new.late = orders[o].late /\ new.request = orders[o].request
    <3> HIDE DEF new
    <3> QED
      BY <1>1, <2>1 DEF OrderRow
  <2>3. orders[o].status # "NONE"
    BY <1>2
  <2> HIDE DEF new
  <2>4. OrderUpdated(orders[o], new)
    BY <2>2, <2>3 DEF OrderUpdated
  <2> QED
    BY <2>4 DEF new
<1>3. CASE o \notin S \ refused
  BY <1>3 DEF CancelOrders
<1> QED
  BY <1>2, <1>3

LEMMA CancelBothMoves ==
  ASSUME IInv, NEW S \in SUBSET {o \in Orders : orders[o].status # "NONE"},
         NEW refused, NEW told, NEW T,
         orders' = CancelPending(CancelOrders(S, refused, told), T)
  PROVE  OrderMoves
<1> DEFINE mid == CancelOrders(S, refused, told)
<1>1. mid \in [Orders -> OrderRow]
  BY CancelOrdersType DEF IInv, TypeOK
<1> SUFFICES ASSUME NEW o \in Orders
             PROVE  orders'[o] = orders[o] \/ OrderUpdated(orders[o], orders'[o])
  BY DEF OrderMoves
<1>2. mid[o] = orders[o] \/ OrderUpdated(orders[o], mid[o])
  BY CancelOrdersMoves
<1> HIDE DEF mid
<1>3. CASE o \in T /\ mid[o].request = "PENDING"
  <2>1. orders'[o] = [mid[o] EXCEPT !.request = "CANCELLED"]
    BY <1>3 DEF CancelPending, mid
  <2>2. orders[o].status # "NONE"
    BY <1>2, <1>3 DEF OrderUpdated, IInv, FreshOrders, NoOrder
  <2>3. mid[o] \in OrderRow
    BY <1>1
  <2> QED
    BY <1>2, <2>1, <2>2, <2>3 DEF OrderUpdated, OrderRow
<1>4. CASE ~(o \in T /\ mid[o].request = "PENDING")
  <2>1. orders'[o] = mid[o]
    BY <1>4 DEF CancelPending, mid
  <2> QED
    BY <1>2, <2>1
<1> QED
  BY <1>3, <1>4

LEMMA ToCancelExist ==
  ASSUME IInv, NEW S, NEW endType
  PROVE  OrdersToCancel(S, endType) \in SUBSET {o \in Orders : orders[o].status # "NONE"}
  BY DEF OrdersToCancel, IInv, FreshOrders, NoOrder

\* Cancelling the pending requests of all orders of a permit leaves it none.
LEMMA NoRequestLeft ==
  ASSUME NEW os \in [Orders -> OrderRow], \A o \in Orders : os[o].permits = orders[o].permits,
         NEW T, NEW p \in Permits, OrdersOf(p) \subseteq T, orders' = CancelPending(os, T)
  PROVE  ~HasPendingRequest(p)'
<1> SUFFICES ASSUME NEW o \in Orders, p \in orders'[o].permits, orders'[o].request = "PENDING"
             PROVE  FALSE
  BY DEF HasPendingRequest, OrdersOf
<1>1. orders'[o] = IF o \in T /\ os[o].request = "PENDING"
                   THEN [os[o] EXCEPT !.request = "CANCELLED"] ELSE os[o]
  BY DEF CancelPending
<1>2. os[o] \in OrderRow
  OBVIOUS
<1>3. orders'[o].permits = os[o].permits
  BY <1>1, <1>2 DEF OrderRow
<1>4. o \in T
  BY <1>3 DEF OrdersOf
<1> QED
  BY <1>1, <1>2, <1>4 DEF OrderRow

LEMMA CancelledKeepPermits ==
  ASSUME orders \in [Orders -> OrderRow], NEW S, NEW refused, NEW told, NEW o \in Orders
  PROVE  CancelOrders(S, refused, told)[o].permits = orders[o].permits
  BY DEF CancelOrders, OrderRow

LEMMA EndPermitsOfCustomerMoves ==
  ASSUME IInv, NEW S \in SUBSET Permits,
         NEW endType \in {"IMMEDIATELY", "AFTER_CURRENT_PERIOD"},
         EndPermitsOfCustomer(S, endType)
  PROVE  PermitMoves /\ OrderMoves
<1> DEFINE ending == S \cap Live
           ended == EndPermits(permits, ending, endType)
<1>1. permits' = Delete(ended, DraftRows(ended))
  BY DEF EndPermitsOfCustomer
<1>2. ASSUME NEW p \in Permits
      PROVE  \/ ended[p].status = permits[p].status
             \/ p \in ending /\ permits[p].status # "NONE" /\ ended[p].status = "CLOSED"
  <2>1. permits[p] \in PermitRow
    BY DEF IInv, TypeOK
  <2>2. p \in Live => permits[p].status # "NONE"
    BY DEF Live, WithStatus, LiveStatuses, DraftStatuses, ActiveStatuses
  <2> QED
    BY <2>1, <2>2 DEF EndPermits, PermitRow
<1> HIDE DEF ended
<1>3. \A p \in Permits : permits'[p].status = IF ended[p].status = "DRAFT" THEN "NONE"
                                              ELSE ended[p].status
  BY <1>1 DEF Delete, DraftRows, NoPermit
<1>4. ASSUME NEW p \in ending, p \in Permits PROVE ~HasPendingRequest(p)'
  <2>1. PICK refused, told, toCancel :
            orders' = CancelPending(CancelOrders(toCancel, refused, told), OrdersOfAny(ending))
    BY DEF EndPermitsOfCustomer
  <2> DEFINE os == CancelOrders(toCancel, refused, told)
  <2>2. os \in [Orders -> OrderRow] /\ \A o \in Orders : os[o].permits = orders[o].permits
    BY CancelOrdersType, CancelledKeepPermits DEF IInv, TypeOK
  <2>3. OrdersOf(p) \subseteq OrdersOfAny(ending)
    BY <1>4 DEF OrdersOf, OrdersOfAny
  <2>4. orders' = CancelPending(os, OrdersOfAny(ending))
    BY <2>1
  <2> HIDE DEF os
  <2> QED
    BY <1>4, <2>2, <2>3, <2>4, NoRequestLeft
<1>5. PermitMoves
  BY <1>2, <1>3, <1>4 DEF PermitMoves, PermitMove, DraftStatuses
<1>6. OrderMoves
  BY ToCancelExist, CancelBothMoves DEF EndPermitsOfCustomer
<1> QED
  BY <1>5, <1>6

LEMMA GetPermitsMoves ==
  ASSUME IInv, NEW old \in SUBSET DraftRows(permits), NEW cancelled \in SUBSET Permits,
         GetPermits(old, cancelled)
  PROVE  PermitMoves /\ OrderMoves
<1>1. ASSUME NEW p \in Permits
      PROVE  permits'[p].status = IF p \in cancelled THEN "CANCELLED"
                                  ELSE IF p \in old THEN "NONE" ELSE permits[p].status
  <2>1. Delete(permits, old) \in [Permits -> PermitRow]
    BY DeleteType DEF IInv, TypeOK
  <2>2. Delete(permits, old)[p].status = IF p \in old THEN "NONE" ELSE permits[p].status
    BY DEF Delete, NoPermit
  <2> DEFINE ps == Delete(permits, old)
  <2>3. permits' = SetStatus(ps, cancelled, "CANCELLED")
    BY DEF GetPermits
  <2> HIDE DEF ps
  <2>4. ps[p] \in PermitRow
    BY <2>1 DEF ps
  <2> QED
    BY <2>2, <2>3, <2>4 DEF ps, SetStatus, PermitRow
<1>2. \A p \in cancelled : permits[p].status = "PAYMENT_IN_PROGRESS" /\ LateOrGivenUp(p)
  BY DEF GetPermits, TimedOut, TimedOutBy, IsLatestOrder, ExtensionOrdersOf, LateOrGivenUp
<1>3. PermitMoves
  BY <1>1, <1>2 DEF PermitMoves, PermitMove, DraftRows, DraftStatuses
<1>4. ASSUME NEW o \in Orders, orders'[o] # orders[o]
      PROVE  OrderUpdated(orders[o], orders'[o])
  <2>1. /\ orders'[o] = [orders[o] EXCEPT !.status = "CANCELLED"]
        /\ orders[o].status = "DRAFT"
    BY <1>4 DEF GetPermits, TimedOutBy
  <2>2. orders[o] \in OrderRow
    BY DEF IInv, TypeOK
  <2> QED
    BY <2>1, <2>2 DEF OrderUpdated, OrderRow
<1> QED
  BY <1>3, <1>4 DEF OrderMoves

LEMMA CustomerMoves ==
  ASSUME IInv, CustomerNext
  PROVE  PermitMoves /\ OrderMoves
  BY CreatePermitMoves, DeletePermitMoves, TogglePrimaryMoves, UpdateDraftAddressMoves,
     CreateOrderMoves, RequestExtensionMoves, ChangeVehicleMoves,
     ChangeToDearerVehicleMoves, ChangeAddressMoves, ChangeToDearerAddressMoves,
     EndPermitsOfCustomerMoves, GetPermitsMoves
  DEF CustomerNext, PurchaseNext, UpdateNext, ExtendNext, ChangeNext, EndNext

\* An order keeps its permits, so a permit of a paid order is paid for.
LEMMA PaymentPaidMoves ==
  ASSUME IInv, NEW o \in Orders, PaymentPaid(o)
  PROVE  PermitMoves /\ OrderMoves
<1> DEFINE order == orders[o]
           paid == [p \in Permits |->
                       IF p \in order.permits THEN PaidPermit(permits[p], order.type)
                                              ELSE permits[p]]
<1>1. order \in OrderRow /\ order.paid /\ order.type \in OrderType
  BY DEF IInv, TypeOK, PaymentPaid, NotifiesPaid, OrderRow
<1>2. /\ paid \in [Permits -> PermitRow]
      /\ \A p \in Permits :
            paid[p].status = IF p \in order.permits THEN "VALID" ELSE permits[p].status
  <2>1. ASSUME NEW permit \in PermitRow, NEW type \in OrderType
        PROVE  PaidPermit(permit, type).status = "VALID"
    BY DEF PaidPermit, PermitRow
  <2>2. \A p \in Permits : permits[p] \in PermitRow
    BY DEF IInv, TypeOK
  <2> QED
    BY <1>1, <2>1, <2>2, PaidPermitType
<1>3. PICK S : permits' \in ClearFlags(paid, S)
  BY DEF PaymentPaid
<1> HIDE DEF paid
<1>4. \A p \in Permits : permits'[p].status = IF p \in order.permits THEN "VALID"
                                              ELSE permits[p].status
  BY <1>2, <1>3, FlagsKeepRest
<1>5. PermitMoves
  BY <1>1, <1>4 DEF PermitMoves, PermitMove, PaidFor, OrdersOf
<1>6. orders' = [orders EXCEPT ![o] = PaidOrder(order)]
  BY DEF PaymentPaid
<1>7. OrderUpdated(order, PaidOrder(order))
  <2>1. order.status # "NONE"
    BY <1>1 DEF IInv, FreshOrders, NoOrder
  <2> QED
    BY <1>1, <2>1 DEF OrderUpdated, PaidOrder, OrderRow
<1>8. OrderMoves
  BY <1>6, <1>7 DEF OrderMoves, IInv, TypeOK
<1> QED
  BY <1>5, <1>8

LEMMA OrderCancelledMoves ==
  ASSUME IInv, NEW o \in Orders, OrderCancelled(o)
  PROVE  PermitMoves /\ OrderMoves
<1>1. \A p \in Permits : permits[p] \in PermitRow
  BY DEF IInv, TypeOK
<1>2. \A k \in Orders : orders[k] \in OrderRow
  BY DEF IInv, TypeOK
<1>3. orders[o].status # "NONE"
  BY DEF OrderCancelled, IInv, FreshOrders, NoOrder
<1>4. CASE /\ permits' = SetStatus(permits, PermitsToCancel(o), "CANCELLED")
           /\ orders' = [orders EXCEPT ![o].status = "CANCELLED"]
  <2>1. \A p \in PermitsToCancel(o) \cap Permits : permits[p].status # "NONE" /\ LateOrGivenUp(p)
    BY DEF PermitsToCancel, OrderCancelled, LateOrGivenUp, OrdersOf
  <2>a. PermitMoves
    BY <1>1, <1>4, <2>1 DEF PermitMoves, PermitMove, SetStatus, PermitRow
  <2>2. OrderUpdated(orders[o], [orders[o] EXCEPT !.status = "CANCELLED"])
    BY <1>2, <1>3 DEF OrderUpdated, OrderRow
  <2>3. OrderMoves
    BY <1>4, <2>2 DEF OrderMoves, IInv, TypeOK
  <2> QED
    BY <2>a, <2>3
<1>5. CASE /\ orders[o].request = "PENDING"
           /\ orders' = [CancelPending(orders, {o}) EXCEPT ![o].status = "CANCELLED"]
           /\ UNCHANGED permits
  <2> DEFINE new == [[orders[o] EXCEPT !.request = "CANCELLED"] EXCEPT !.status = "CANCELLED"]
  <2>1. orders'[o] = new /\ \A k \in Orders \ {o} : orders'[k] = orders[k]
    BY <1>5 DEF CancelPending
  <2>2. OrderUpdated(orders[o], new)
    BY <1>2, <1>3 DEF OrderUpdated, OrderRow
  <2>3. OrderMoves
    BY <2>1, <2>2 DEF OrderMoves
  <2> QED
    BY <1>5, <2>3, KeptPermits
<1> QED
  BY <1>4, <1>5 DEF OrderCancelled

LEMMA TalpaMoves ==
  ASSUME IInv, TalpaNext
  PROVE  PermitMoves /\ OrderMoves
<1>1. PICK o \in Orders :
        \/ PurchaseTimePasses(o) \/ TalpaPays(o) \/ TalpaCancels(o)
        \/ PaymentPaid(o) \/ PaymentFailed(o) \/ OrderCancelled(o)
  BY DEF TalpaNext
<1>2. orders[o] \in OrderRow
  BY DEF IInv, TypeOK
<1>3. ASSUME NEW new, orders' = [orders EXCEPT ![o] = new], OrderUpdated(orders[o], new)
      PROVE  OrderMoves
  BY <1>3 DEF OrderMoves, IInv, TypeOK
<1>4. CASE PurchaseTimePasses(o)
  <2>1. OrderUpdated(orders[o], [orders[o] EXCEPT !.late = TRUE])
    BY <1>2, <1>4 DEF PurchaseTimePasses, OrderUpdated, OrderRow
  <2>2. orders' = [orders EXCEPT ![o] = [orders[o] EXCEPT !.late = TRUE]]
    BY <1>4 DEF PurchaseTimePasses
  <2> QED
    BY <1>3, <1>4, <2>1, <2>2, KeptPermits DEF PurchaseTimePasses
<1>5. CASE TalpaPays(o)
  <2>1. OrderUpdated(orders[o], [orders[o] EXCEPT !.paid = TRUE])
    BY <1>2, <1>5 DEF TalpaPays, OrderUpdated, OrderRow
  <2>2. orders' = [orders EXCEPT ![o] = [orders[o] EXCEPT !.paid = TRUE]]
    BY <1>5 DEF TalpaPays
  <2> QED
    BY <1>3, <1>5, <2>1, <2>2, KeptPermits DEF TalpaPays
<1>6. CASE TalpaCancels(o)
  <2>1. OrderUpdated(orders[o], [orders[o] EXCEPT !.cancelled = TRUE])
    BY <1>2, <1>6 DEF TalpaCancels, OrderUpdated, OrderRow
  <2>2. orders' = [orders EXCEPT ![o] = [orders[o] EXCEPT !.cancelled = TRUE]]
    BY <1>6 DEF TalpaCancels
  <2> QED
    BY <1>3, <1>6, <2>1, <2>2, KeptPermits DEF TalpaCancels
<1>7. CASE PaymentPaid(o)
  BY <1>7, PaymentPaidMoves
<1>8. CASE PaymentFailed(o)
  BY <1>8, CancelPendingMoves, KeptPermits DEF PaymentFailed
<1>9. CASE OrderCancelled(o)
  BY <1>9, OrderCancelledMoves
<1> QED
  BY <1>1, <1>4, <1>5, <1>6, <1>7, <1>8, <1>9

\* The rows cancel_old_unpaid_permits remembers may have changed since it read
\* them, but they exist and are no drafts.
LEMMA CancelUnpaidMoves ==
  ASSUME IInv, CancelUnpaid
  PROVE  PermitMoves /\ OrderMoves
<1>1. \A p \in Permits, o \in Orders : <<p, o>> \in unpaid =>
            p \in Ordered /\ orders[o].status # "NONE"
  BY DEF IInv, Snapshots
<1>2. \A p \in Permits : permits[p] \in PermitRow
  BY DEF IInv, TypeOK
<1>3. \A o \in Orders : orders[o] \in OrderRow
  BY DEF IInv, TypeOK
<1>4. PermitMoves
  BY <1>1, <1>2 DEF PermitMoves, PermitMove, CancelUnpaid, SetStatus, Ordered, PermitRow,
                    WasReadLate
<1>5. ASSUME NEW o \in Orders, orders'[o] # orders[o]
      PROVE  OrderUpdated(orders[o], orders'[o])
  <2>1. orders'[o] = [orders[o] EXCEPT !.status = "CANCELLED"] /\ orders[o].status # "NONE"
    BY <1>1, <1>5 DEF CancelUnpaid
  <2> QED
    BY <1>3, <2>1 DEF OrderUpdated, OrderRow
<1> QED
  BY <1>4, <1>5 DEF OrderMoves

LEMMA CloseExpiredMoves ==
  ASSUME IInv, CloseExpired
  PROVE  PermitMoves /\ OrderMoves
<1> DEFINE row == [expiry.row EXCEPT !.endType = "PREVIOUS_DAY_END", !.status = "CLOSED"]
<1>1. expiry.current \in Ordered
  BY DEF IInv, Snapshots, CloseExpired
<1>2. row.status = "CLOSED"
  BY DEF IInv, TypeOK, ExpiryState, PermitRow
<1>3. permits' = [permits EXCEPT ![expiry.current] = row]
  BY DEF CloseExpired
<1> HIDE DEF row
<1>4. PICK c \in Permits : c = expiry.current
  BY <1>1 DEF Ordered
<1>5. ~HasPendingRequest(c)'
  <2>1. orders \in [Orders -> OrderRow] /\ orders' = CancelPending(orders, OrdersOf(c))
    BY <1>4 DEF IInv, TypeOK, CloseExpired
  <2> QED
    BY <2>1, NoRequestLeft
<1>6. PermitMoves
  BY <1>1, <1>2, <1>3, <1>4, <1>5 DEF PermitMoves, PermitMove, Ordered, IInv, TypeOK
<1>7. OrderMoves
  BY CancelPendingMoves DEF CloseExpired
<1> QED
  BY <1>6, <1>7

LEMMA TidyExpiredMoves ==
  ASSUME IInv, TidyExpired
  PROVE  PermitMoves /\ OrderMoves
<1>1. \A p \in Permits : permits[p] \in PermitRow
  BY DEF IInv, TypeOK
<1>2. \A p \in Permits : permits'[p].status = IF permits[p].status = "DRAFT" THEN "NONE"
                                              ELSE permits[p].status
  BY <1>1 DEF TidyExpired, DraftRows, NoPermit, PermitRow
<1>3. PermitMoves
  BY <1>2 DEF PermitMoves, PermitMove, DraftStatuses
<1> QED
  BY <1>3, KeptOrders DEF TidyExpired

LEMMA CancelOrdersOfExpiredMoves ==
  ASSUME IInv, NEW p \in Permits, CancelOrdersOfExpired(p)
  PROVE  PermitMoves /\ OrderMoves
<1>1. PICK S, refused, told :
        /\ S \in SUBSET {o \in Orders : orders[o].status # "NONE"}
        /\ orders' = CancelOrders(S, refused, told)
  BY ToCancelExist DEF CancelOrdersOfExpired
<1>2. OrderMoves
  BY <1>1, CancelOrdersMoves DEF OrderMoves
<1> QED
  BY <1>2, KeptPermits DEF CancelOrdersOfExpired

LEMMA JobsMoves ==
  ASSUME IInv, JobsNext
  PROVE  PermitMoves /\ OrderMoves
<1>1. CASE ReadUnpaid \/ ReadExpired \/ AbortExpiry
  BY <1>1, KeptPermits, KeptOrders DEF ReadUnpaid, ReadExpired, AbortExpiry
<1>2. ASSUME NEW S \in SUBSET Permits, DeleteOldDrafts(S) PROVE PermitMoves /\ OrderMoves
  <2>1. PermitMoves
    BY <1>2 DEF DeleteOldDrafts, PermitMoves, PermitMove, Delete, NoPermit, Drafts, WithStatus
  <2> QED
    BY <1>2, <2>1, KeptOrders DEF DeleteOldDrafts
<1>3. ASSUME NEW S \in SUBSET Orders, CancelOldRequests(S) PROVE PermitMoves /\ OrderMoves
  BY <1>3, CancelPendingMoves, KeptPermits DEF CancelOldRequests
<1>4. ASSUME NEW p \in Permits, BecomesDue(p) PROVE PermitMoves /\ OrderMoves
  <2>1. PermitMoves
    BY <1>4 DEF BecomesDue, PermitMoves, PermitMove, IInv, TypeOK, PermitRow
  <2> QED
    BY <1>4, <2>1, KeptOrders DEF BecomesDue
<1> QED
  BY <1>1, <1>2, <1>3, <1>4, CancelUnpaidMoves, CloseExpiredMoves, TidyExpiredMoves,
     CancelOrdersOfExpiredMoves
  DEF JobsNext, UnpaidNext, CleanupNext, ExpiryNext

LEMMA StepMoves ==
  ASSUME IInv, [Next]_vars
  PROVE  PermitMoves /\ OrderMoves
<1>1. CASE UNCHANGED vars
  BY <1>1, KeptPermits, KeptOrders DEF vars
<1> QED
  BY <1>1, CustomerMoves, TalpaMoves, JobsMoves DEF Next

(***************************************************************************)
(* The inductive invariant                                                 *)
(***************************************************************************)
LEMMA InitIInv == Init => IInv
  BY InitType DEF Init, IInv, FreshOrders, OrderedNotDraft, Snapshots, NoOrder, IdleExpiry

LEMMA OrderedStays ==
  ASSUME PermitMoves
  PROVE  Ordered \subseteq Ordered'
  BY DEF PermitMoves, PermitMove, Ordered, DraftStatuses

LEMMA StepSnapshots ==
  ASSUME IInv, [Next]_vars, Ordered \subseteq Ordered',
         \A o \in Orders : orders[o].status # "NONE" => orders'[o].status # "NONE"
  PROVE  Snapshots'
<1>1. ASSUME unpaid' \subseteq unpaid, expiry'.todo \subseteq expiry.todo,
             \/ expiry'.step # "orders"
             \/ expiry'.step = expiry.step /\ expiry'.current = expiry.current
      PROVE  Snapshots'
  BY <1>1 DEF IInv, TypeOK, Snapshots
<1>2. CASE UNCHANGED <<unpaid, expiry>>
  BY <1>1, <1>2
<1>3. CASE ReadUnpaid
  <2>1. \A row \in unpaid' : row[1] \in Ordered /\ orders[row[2]].status # "NONE"
    BY <1>3 DEF ReadUnpaid, TimedOutBy, Ordered, DraftStatuses
  <2>2. unpaid' \subseteq Permits \X Orders
    BY <1>3 DEF ReadUnpaid
  <2> QED
    BY <1>3, <2>1, <2>2 DEF ReadUnpaid, IInv, Snapshots
<1>4. CASE CancelUnpaid
  BY <1>1, <1>4 DEF CancelUnpaid
<1>5. CASE ReadExpired
  <2>1. Valid \subseteq Ordered
    BY DEF Valid, WithStatus, Ordered, DraftStatuses
  <2>2. expiry'.todo \subseteq Valid /\ expiry'.step = "picked"
    BY <1>5 DEF ReadExpired, IdleExpiry
  <2>3. unpaid' = unpaid
    BY <1>5 DEF ReadExpired
  <2> QED
    BY <2>1, <2>2, <2>3 DEF IInv, TypeOK, Snapshots
<1>6. ASSUME NEW p \in Permits, CancelOrdersOfExpired(p) PROVE Snapshots'
  <2>1. /\ unpaid' = unpaid
        /\ p \in expiry.todo
        /\ expiry' = [todo |-> expiry.todo \ {p}, current |-> p,
                      row |-> IF p \in Live THEN permits[p] ELSE NoPermit,
                      step |-> IF p \in Live THEN "orders" ELSE "closed"]
    BY <1>6 DEF CancelOrdersOfExpired
  <2>2. expiry'.todo = expiry.todo \ {p} /\ expiry'.current = p
    BY <2>1
  <2> QED
    BY <2>1, <2>2 DEF IInv, TypeOK, Snapshots
<1>7. CASE CloseExpired
  BY <1>1, <1>7 DEF CloseExpired, IInv, TypeOK, ExpiryState
<1>8. CASE TidyExpired
  BY <1>1, <1>8 DEF TidyExpired, IInv, TypeOK, ExpiryState, IdleExpiry
<1>9. CASE AbortExpiry
  BY <1>1, <1>9 DEF AbortExpiry, IdleExpiry
<1>10. CustomerNext \/ TalpaNext => UNCHANGED <<unpaid, expiry>>
  BY DEF CustomerNext, PurchaseNext, UpdateNext, ExtendNext, ChangeNext, EndNext,
         CreatePermit, DeletePermit, CreateOrder, GetPermits, TogglePrimary,
         UpdateDraftAddress, RequestExtension, ChangeVehicle, ChangeToDearerVehicle,
         ChangeAddress, ChangeToDearerAddress, EndPermitsOfCustomer,
         TalpaNext, PurchaseTimePasses, TalpaPays, TalpaCancels, PaymentPaid,
         PaymentFailed, OrderCancelled
<1>11. ASSUME JobsNext PROVE Snapshots'
  <2>1. CleanupNext \/ (\E p \in Permits : BecomesDue(p)) => UNCHANGED <<unpaid, expiry>>
    BY DEF CleanupNext, DeleteOldDrafts, CancelOldRequests, BecomesDue
  <2> QED
    BY <1>2, <1>3, <1>4, <1>5, <1>6, <1>7, <1>8, <1>9, <1>11, <2>1
    DEF JobsNext, UnpaidNext, ExpiryNext
<1>12. UNCHANGED vars => UNCHANGED <<unpaid, expiry>>
  BY DEF vars
<1> QED
  BY <1>2, <1>10, <1>11, <1>12 DEF Next

LEMMA StepIInv == IInv /\ [Next]_vars => IInv'
<1> SUFFICES ASSUME IInv, [Next]_vars PROVE IInv'
  OBVIOUS
<1>1. PermitMoves /\ OrderMoves
  BY StepMoves
<1>2. TypeOK'
  BY StepType DEF IInv
<1>3. Ordered \subseteq Ordered'
  BY <1>1, OrderedStays
<1>4. FreshOrders'
  BY <1>1 DEF OrderMoves, OrderUpdated, OrderInserted, FreshOrders, IInv
<1>5. OrderedNotDraft'
  BY <1>1, <1>3 DEF OrderMoves, OrderUpdated, OrderInserted, OrderedNotDraft, IInv
<1>6. \A o \in Orders : orders[o].status # "NONE" => orders'[o].status # "NONE"
  BY <1>1 DEF OrderMoves, OrderUpdated, OrderInserted
<1>7. Snapshots'
  BY <1>3, <1>6, StepSnapshots
<1> QED
  BY <1>2, <1>4, <1>5, <1>7 DEF IInv

\* Orders are never over drafts, and what the jobs remember between their queries
\* exists and has left the drafts, however long ago they read it.
THEOREM Invariant == Spec => []IInv
<1> QED
  BY InitIInv, StepIInv, PTL DEF Spec

(***************************************************************************)
(* Safety                                                                  *)
(***************************************************************************)
\* A draft has no order, so that deleting it loses nothing that can be paid.
THEOREM DraftsHaveNoOrder == Spec => []DraftHasNoOrder
<1>1. IInv => DraftHasNoOrder
  BY DEF IInv, OrderedNotDraft, DraftHasNoOrder, Drafts, WithStatus, OrdersOf, Ordered
<1> QED
  BY <1>1, Invariant, PTL

LEMMA PaidStays ==
  ASSUME IInv, OrderMoves, NEW p \in Permits, PaidFor(p)
  PROVE  PaidFor(p)'
  BY DEF OrderMoves, OrderUpdated, OrderInserted, IsNextOrderId, PaidFor, OrdersOf,
         IInv, FreshOrders, NoOrder

\* A VALID permit was paid for, whatever was cancelled, reopened or notified late.
THEOREM ValidPermitsArePaid == Spec => []ValidIsPaid
<1>1. Init => ValidIsPaid
  BY DEF Init, ValidIsPaid, Valid, WithStatus, NoPermit
<1>2. IInv /\ ValidIsPaid /\ [Next]_vars => ValidIsPaid'
  <2> SUFFICES ASSUME IInv, ValidIsPaid, [Next]_vars, NEW p \in Permits,
                      permits'[p].status = "VALID"
               PROVE  PaidFor(p)'
    BY DEF ValidIsPaid, Valid, WithStatus
  <2>1. PermitMoves /\ OrderMoves
    BY StepMoves
  <2>2. PaidFor(p)
    BY <2>1 DEF PermitMoves, PermitMove, ValidIsPaid, Valid, WithStatus, DraftStatuses
  <2> QED
    BY <2>1, <2>2, PaidStays
<1> QED
  BY <1>1, <1>2, Invariant, PTL DEF Spec

\* An order that counts as CONFIRMED was paid, unless it is that of a dearer vehicle.
THEOREM ConfirmedOrdersArePaid == Spec => []ConfirmedIsPaid
<1>1. Init => ConfirmedIsPaid
  BY DEF Init, ConfirmedIsPaid, NoOrder
<1>2. IInv /\ ConfirmedIsPaid /\ [Next]_vars => ConfirmedIsPaid'
  BY StepMoves DEF OrderMoves, OrderUpdated, OrderInserted, ConfirmedIsPaid
<1> QED
  BY <1>1, <1>2, Invariant, PTL DEF Spec

\* An approved extension request was paid for.
THEOREM ApprovedRequestsArePaid == Spec => []ApprovedIsPaid
<1>1. Init => ApprovedIsPaid
  BY DEF Init, ApprovedIsPaid, NoOrder
<1>2. IInv /\ ApprovedIsPaid /\ [Next]_vars => ApprovedIsPaid'
  BY StepMoves DEF OrderMoves, OrderUpdated, OrderInserted, ApprovedIsPaid
<1> QED
  BY <1>1, <1>2, Invariant, PTL DEF Spec

\* No permit ever has two extension requests open at once, although a request is
\* created, approved, given up and cleaned up by different handlers and jobs.
THEOREM RequestsAreSingle == Spec => []OnePendingRequest
<1>1. Init => OnePendingRequest
  BY DEF Init, OnePendingRequest, NoOrder, OrdersOf
<1>2. IInv /\ OnePendingRequest /\ [Next]_vars => OnePendingRequest'
  <2> SUFFICES ASSUME IInv, OnePendingRequest, [Next]_vars, NEW p \in Permits,
                      NEW o \in Orders, NEW k \in Orders,
                      p \in orders'[o].permits, p \in orders'[k].permits,
                      orders'[o].request = "PENDING", orders'[k].request = "PENDING"
               PROVE  o = k
    BY DEF OnePendingRequest, OrdersOf
  <2>1. OrderMoves
    BY StepMoves
  <2>2. ASSUME NEW i \in Orders, p \in orders'[i].permits, orders'[i].request = "PENDING"
        PROVE  \/ p \in orders[i].permits /\ orders[i].request = "PENDING"
               \/ IsNextOrderId(i) /\ ~HasPendingRequest(p)
    BY <2>1, <2>2 DEF OrderMoves, OrderUpdated, OrderInserted
  <2>3. CASE IsNextOrderId(o) /\ IsNextOrderId(k)
    BY <2>3 DEF IsNextOrderId, Orders
  <2> QED
    BY <2>2, <2>3 DEF OnePendingRequest, OrdersOf, HasPendingRequest
<1> QED
  BY <1>1, <1>2, Invariant, PTL DEF Spec

\* A permit that was ended has no open request that a late payment would approve.
THEOREM ClosedPermitsHaveNoRequest == Spec => []ClosedHasNoPendingRequest
<1>1. Init => ClosedHasNoPendingRequest
  BY DEF Init, ClosedHasNoPendingRequest, WithStatus, NoPermit
<1>2. IInv /\ ClosedHasNoPendingRequest /\ [Next]_vars => ClosedHasNoPendingRequest'
  <2> SUFFICES ASSUME IInv, ClosedHasNoPendingRequest, [Next]_vars, NEW p \in Permits,
                      permits'[p].status = "CLOSED", HasPendingRequest(p)'
               PROVE  FALSE
    BY DEF ClosedHasNoPendingRequest, WithStatus
  <2>1. PermitMoves /\ OrderMoves
    BY StepMoves
  <2>2. permits[p].status = "CLOSED"
    BY <2>1 DEF PermitMoves, PermitMove, DraftStatuses
  <2>3. PICK o \in Orders : p \in orders'[o].permits /\ orders'[o].request = "PENDING"
    BY DEF HasPendingRequest, OrdersOf
  <2>4. p \in orders[o].permits /\ orders[o].request = "PENDING"
    BY <2>1, <2>3 DEF OrderMoves, OrderUpdated, OrderInserted
  <2> QED
    BY <2>2, <2>4 DEF ClosedHasNoPendingRequest, WithStatus, HasPendingRequest, OrdersOf
<1> QED
  BY <1>1, <1>2, Invariant, PTL DEF Spec

(***************************************************************************)
(* One live permit per vehicle                                             *)
(***************************************************************************)
\* A live permit after the step was live before with the same vehicle, or passed
\* the check of save() at the end of the step.
VehicleMoves ==
    \A p \in Permits : permits'[p].status \in LiveStatuses =>
        \/ permits[p].status \in LiveStatuses /\ permits'[p].vehicle = permits[p].vehicle
        \/ MaySave(permits', p)

\* The steps that bring no permit to life and change no vehicle.
VehiclesKept ==
    \A p \in Permits : permits'[p].status \in LiveStatuses =>
        permits[p].status \in LiveStatuses /\ permits'[p].vehicle = permits[p].vehicle

LEMMA SetStatusKeeps ==
  ASSUME NEW ps \in [Permits -> PermitRow], NEW S, NEW status, NEW p \in Permits
  PROVE  LET new == SetStatus(ps, S, status)[p]
         IN  /\ new.status = IF p \in S THEN status ELSE ps[p].status
             /\ new.vehicle = ps[p].vehicle
  BY DEF SetStatus, PermitRow

LEMMA PurchaseVehicles ==
  ASSUME TypeOK, PurchaseNext
  PROVE  VehicleMoves
<1> USE DEF LiveStatuses, DraftStatuses, ActiveStatuses
<1>0. permits \in [Permits -> PermitRow] /\ \A p \in Permits : permits[p] \in PermitRow
  BY DEF TypeOK
<1>1. ASSUME NEW p \in Permits, NEW vehicle \in Vehicles, NEW zone \in Zones,
             CreatePermit(p, vehicle, zone)
      PROVE  VehicleMoves
  <2>1. permits'[p].vehicle = vehicle /\ \A q \in Permits \ {p} : permits'[q] = permits[q]
    BY <1>0, <1>1 DEF CreatePermit, NoPermit
  <2>2. MaySave(permits', p)
    BY <1>1, <2>1 DEF MaySave, CreatePermit, Live, WithStatus
  <2> QED
    BY <2>1, <2>2 DEF VehicleMoves
<1>2. ASSUME NEW p \in Permits, DeletePermit(p) PROVE VehiclesKept
  <2> DEFINE ps == Delete(permits, {p})
  <2>1. ps \in [Permits -> PermitRow] /\ \A q \in Permits : ps[q] \in PermitRow
    BY <1>0, DeleteType
  <2>2. \A q \in Permits : ps[q] = IF q = p THEN NoPermit ELSE permits[q]
    BY DEF Delete
  <2>3. \/ permits' = ps
        \/ \E q \in Permits : permits' = [ps EXCEPT ![q].primary = TRUE]
    BY <1>2 DEF DeletePermit, Live, WithStatus
  <2> HIDE DEF ps
  <2>4. \A q \in Permits : permits'[q].status = ps[q].status /\ permits'[q].vehicle = ps[q].vehicle
    BY <2>1, <2>3 DEF PermitRow
  <2> QED
    BY <2>2, <2>4 DEF VehiclesKept, NoPermit
<1>3. CASE CreateOrder
  BY <1>0, <1>3, SetStatusKeeps DEF CreateOrder, Drafts, WithStatus, VehicleMoves
<1>4. ASSUME NEW old \in SUBSET DraftRows(permits), NEW cancelled \in SUBSET Permits,
             GetPermits(old, cancelled)
      PROVE  VehiclesKept
  <2> DEFINE ps == Delete(permits, old)
  <2>1. ps \in [Permits -> PermitRow]
    BY <1>0, DeleteType
  <2>2. \A q \in Permits : ps[q] = IF q \in old THEN NoPermit ELSE permits[q]
    BY DEF Delete
  <2>3. permits' = SetStatus(ps, cancelled, "CANCELLED")
    BY <1>4 DEF GetPermits
  <2> HIDE DEF ps
  <2> QED
    BY <2>1, <2>2, <2>3, SetStatusKeeps DEF VehiclesKept, NoPermit
<1>5. VehiclesKept => VehicleMoves
  BY DEF VehiclesKept, VehicleMoves
<1> QED
  BY <1>1, <1>2, <1>3, <1>4, <1>5 DEF PurchaseNext

LEMMA UpdateEndVehicles ==
  ASSUME TypeOK, UpdateNext \/ ExtendNext \/ EndNext
  PROVE  VehicleMoves
<1> USE DEF LiveStatuses, DraftStatuses, ActiveStatuses
<1>0. permits \in [Permits -> PermitRow] /\ \A p \in Permits : permits[p] \in PermitRow
  BY DEF TypeOK
<1>1. CASE TogglePrimary
  <2>1. PICK p \in Permits, s \in Permits :
          permits' = [permits EXCEPT ![p].primary = FALSE, ![s].primary = TRUE]
    BY <1>1 DEF TogglePrimary, Live, WithStatus
  <2> QED
    BY <1>0, <2>1 DEF VehicleMoves, PermitRow
<1>2. ASSUME NEW zone \in Zones, UpdateDraftAddress(zone) PROVE VehicleMoves
  BY <1>0, <1>2 DEF UpdateDraftAddress, VehicleMoves, PermitRow
<1>3. CASE ExtendNext
  BY <1>3 DEF ExtendNext, RequestExtension, VehicleMoves
<1>4. ASSUME NEW S \in SUBSET Permits,
             NEW endType \in {"IMMEDIATELY", "AFTER_CURRENT_PERIOD"},
             EndPermitsOfCustomer(S, endType)
      PROVE  VehicleMoves
  <2> DEFINE ended == EndPermits(permits, S \cap Live, endType)
  <2>1. permits' = Delete(ended, DraftRows(ended))
    BY <1>4 DEF EndPermitsOfCustomer
  <2>2. ASSUME NEW p \in Permits
        PROVE  /\ ended[p].status \in LiveStatuses => ended[p].status = permits[p].status
               /\ ended[p].vehicle = permits[p].vehicle
    BY <1>0 DEF EndPermits, PermitRow
  <2> HIDE DEF ended
  <2>3. \A p \in Permits : permits'[p] = IF ended[p].status = "DRAFT" THEN NoPermit
                                         ELSE ended[p]
    BY <2>1 DEF Delete, DraftRows
  <2> QED
    BY <2>2, <2>3 DEF VehicleMoves, NoPermit
<1> QED
  BY <1>1, <1>2, <1>3, <1>4 DEF UpdateNext, EndNext

LEMMA ChangeVehicles ==
  ASSUME TypeOK, ChangeNext
  PROVE  VehicleMoves
<1> USE DEF LiveStatuses, DraftStatuses, ActiveStatuses
<1>0. permits \in [Permits -> PermitRow] /\ \A p \in Permits : permits[p] \in PermitRow
  BY DEF TypeOK
<1>1. ASSUME NEW p \in Permits, NEW vehicle \in Vehicles, ChangeVehicle(p, vehicle)
      PROVE  VehicleMoves
  <2> DEFINE ps == [permits EXCEPT ![p].vehicle = vehicle]
  <2>1. ps \in [Permits -> PermitRow] /\ \A q \in Permits \ {p} : ps[q] = permits[q]
    BY <1>0, VehicleColumn
  <2>2. permits' \in ClearFlags(ps, {p}) /\ MaySave(permits', p)
    BY <1>1 DEF ChangeVehicle
  <2> HIDE DEF ps
  <2> QED
    BY <2>1, <2>2, FlagsKeepRest DEF VehicleMoves
<1>2. ASSUME NEW p \in Permits, NEW vehicle \in Vehicles, ChangeToDearerVehicle(p, vehicle)
      PROVE  VehicleMoves
  <2> DEFINE ps == [permits EXCEPT ![p] = [@ EXCEPT !.nextVehicle = vehicle,
                                                    !.status = "PAYMENT_IN_PROGRESS"]]
  <2>1. ps \in [Permits -> PermitRow] /\ \A q \in Permits \ {p} : ps[q] = permits[q]
    BY <1>0, NextVehicleColumn
  <2>2. permits' \in ClearFlags(ps, {p}) /\ MaySave(permits', p)
    BY <1>2 DEF ChangeToDearerVehicle
  <2> HIDE DEF ps
  <2> QED
    BY <2>1, <2>2, FlagsKeepRest DEF VehicleMoves
<1>3. ASSUME NEW zone \in Zones, ChangeAddress(zone) PROVE VehicleMoves
  <2> DEFINE ps == [p \in Permits |-> IF p \in Active THEN [permits[p] EXCEPT !.zone = zone]
                                                      ELSE permits[p]]
  <2>1. /\ ps \in [Permits -> PermitRow]
        /\ \A q \in Permits : ps[q].status = permits[q].status /\ ps[q].vehicle = permits[q].vehicle
    BY <1>0, ZoneColumn
  <2>2. permits' \in ClearFlags(ps, Active)
    BY <1>3 DEF ChangeAddress
  <2> HIDE DEF ps
  <2> QED
    BY <2>1, <2>2, FlagsKeepRest DEF VehicleMoves
<1>4. ASSUME NEW zone \in Zones, ChangeToDearerAddress(zone) PROVE VehicleMoves
  <2> DEFINE ps == [p \in Permits |->
                      IF p \in Active
                      THEN [permits[p] EXCEPT !.nextZone = zone,
                                              !.status = "PAYMENT_IN_PROGRESS"]
                      ELSE permits[p]]
  <2>1. /\ ps \in [Permits -> PermitRow]
        /\ \A q \in Permits : /\ ps[q].status = permits[q].status \/ q \in Active
                              /\ ps[q].vehicle = permits[q].vehicle
    BY <1>0, NextZoneColumn
  <2>2. permits' \in ClearFlags(ps, Active)
    BY <1>4 DEF ChangeToDearerAddress
  <2> HIDE DEF ps
  <2> QED
    BY <2>1, <2>2, FlagsKeepRest DEF VehicleMoves, Active, WithStatus
<1> QED
  BY <1>1, <1>2, <1>3, <1>4 DEF ChangeNext

LEMMA TalpaVehicles ==
  ASSUME TypeOK, TalpaNext
  PROVE  VehicleMoves
<1> USE DEF LiveStatuses, DraftStatuses, ActiveStatuses
<1>0. permits \in [Permits -> PermitRow] /\ \A p \in Permits : permits[p] \in PermitRow
  BY DEF TypeOK
<1>1. ASSUME NEW o \in Orders, PaymentPaid(o) PROVE VehicleMoves
  <2> DEFINE order == orders[o]
             paid == [p \in Permits |->
                         IF p \in order.permits THEN PaidPermit(permits[p], order.type)
                                                ELSE permits[p]]
  <2>1. order.type \in OrderType
    BY DEF TypeOK, OrderRow
  <2>2. paid \in [Permits -> PermitRow]
    BY <1>0, <2>1, PaidPermitType
  <2>3. \A p \in Permits \ order.permits : paid[p] = permits[p]
    OBVIOUS
  <2>4. PICK S : permits' \in ClearFlags(paid, S)
    BY <1>1 DEF PaymentPaid
  <2>5. \A p \in order.permits : MaySave(permits', p)
    BY <1>1 DEF PaymentPaid
  <2> HIDE DEF paid
  <2> QED
    BY <2>2, <2>3, <2>4, <2>5, FlagsKeepRest DEF VehicleMoves
<1>2. ASSUME NEW o \in Orders, OrderCancelled(o) PROVE VehicleMoves
  BY <1>0, <1>2, SetStatusKeeps DEF OrderCancelled, VehicleMoves
<1>3. permits' = permits => VehicleMoves
  BY DEF VehicleMoves
<1> QED
  BY <1>1, <1>2, <1>3 DEF TalpaNext, PurchaseTimePasses, TalpaPays, TalpaCancels, PaymentFailed

LEMMA JobsVehicles ==
  ASSUME TypeOK, JobsNext
  PROVE  VehicleMoves
<1> USE DEF LiveStatuses, DraftStatuses, ActiveStatuses
<1>0. permits \in [Permits -> PermitRow] /\ \A p \in Permits : permits[p] \in PermitRow
  BY DEF TypeOK
<1>1. CASE CancelUnpaid
  BY <1>0, <1>1, SetStatusKeeps DEF CancelUnpaid, VehicleMoves
<1>2. ASSUME NEW S \in SUBSET Permits, DeleteOldDrafts(S) PROVE VehicleMoves
  BY <1>2 DEF DeleteOldDrafts, Delete, NoPermit, VehicleMoves
<1>3. ASSUME NEW p \in Permits, BecomesDue(p) PROVE VehicleMoves
  BY <1>0, <1>3 DEF BecomesDue, VehicleMoves, PermitRow
<1>4. CASE CloseExpired
  <2> DEFINE row == [expiry.row EXCEPT !.endType = "PREVIOUS_DAY_END", !.status = "CLOSED"]
  <2>1. row.status = "CLOSED"
    BY DEF TypeOK, ExpiryState, PermitRow
  <2>2. permits' = [permits EXCEPT ![expiry.current] = row]
    BY <1>4 DEF CloseExpired
  <2> HIDE DEF row
  <2> QED
    BY <1>0, <2>1, <2>2 DEF VehicleMoves
<1>5. CASE TidyExpired
  BY <1>0, <1>5 DEF TidyExpired, NoPermit, VehicleMoves, PermitRow
<1>6. permits' = permits => VehicleMoves
  BY DEF VehicleMoves
<1> QED
  BY <1>1, <1>2, <1>3, <1>4, <1>5, <1>6
  DEF JobsNext, UnpaidNext, CleanupNext, ExpiryNext, ReadUnpaid, CancelOldRequests,
      ReadExpired, CancelOrdersOfExpired, AbortExpiry

\* A vehicle never has two live permits: every bulk update that skips the check of
\* save() leaves the live permits and their vehicles as they were, and every other
\* write that revives a permit or changes its vehicle is checked.
THEOREM VehiclesAreUnique == Spec => []NoDuplicateVehicle
<1>1. Init => NoDuplicateVehicle
  BY DEF Init, NoDuplicateVehicle, Live, WithStatus, NoPermit, LiveStatuses,
         DraftStatuses, ActiveStatuses
<1>2. TypeOK /\ NoDuplicateVehicle /\ [Next]_vars => NoDuplicateVehicle'
  <2> SUFFICES ASSUME TypeOK, NoDuplicateVehicle, [Next]_vars
               PROVE  NoDuplicateVehicle'
    OBVIOUS
  <2>1. VehicleMoves
    <3>1. UNCHANGED vars => VehicleMoves
      BY DEF vars, VehicleMoves
    <3> QED
      BY <3>1, PurchaseVehicles, UpdateEndVehicles, ChangeVehicles, TalpaVehicles,
         JobsVehicles DEF Next, CustomerNext
  <2> QED
    BY <2>1 DEF VehicleMoves, NoDuplicateVehicle, Live, WithStatus, MaySave
<1> QED
  BY <1>1, <1>2, TypeCorrect, PTL DEF Spec

(***************************************************************************)
(* The zone of a permit                                                    *)
(***************************************************************************)
\* A permit after the step had a zone and the same one before, or was given one.
ZoneMoves ==
    \A p \in Permits : permits'[p].status # "NONE" =>
        \/ permits[p].status # "NONE" /\ permits'[p].zone = permits[p].zone
        \/ permits'[p].zone # None

\* The nightly job writes back the row it read.
RowHasZone == expiry.step = "orders" => expiry.row.zone # None

LEMMA FlagsKeepZone ==
  ASSUME NEW ps \in [Permits -> PermitRow], NEW S, NEW r \in ClearFlags(ps, S),
         NEW p \in Permits
  PROVE  r[p].status = ps[p].status /\ r[p].zone = ps[p].zone
<1>1. PICK F \in SUBSET S :
        r = [q \in Permits |-> IF q \in F THEN [ps[q] EXCEPT !.due = FALSE] ELSE ps[q]]
  BY DEF ClearFlags
<1>2. ps[p] \in PermitRow
  OBVIOUS
<1>3. r[p] = IF p \in F THEN [ps[p] EXCEPT !.due = FALSE] ELSE ps[p]
  BY <1>1
<1> QED
  BY <1>2, <1>3 DEF PermitRow

LEMMA SetStatusKeepsZone ==
  ASSUME NEW ps \in [Permits -> PermitRow], NEW S, NEW status, NEW p \in Permits
  PROVE  LET new == SetStatus(ps, S, status)[p]
         IN  /\ new.status = IF p \in S THEN status ELSE ps[p].status
             /\ new.zone = ps[p].zone
  BY DEF SetStatus, PermitRow

LEMMA PurchaseZones ==
  ASSUME TypeOK, PurchaseNext
  PROVE  ZoneMoves
<1>0. permits \in [Permits -> PermitRow] /\ \A p \in Permits : permits[p] \in PermitRow
  BY DEF TypeOK
<1>1. ASSUME NEW p \in Permits, NEW vehicle \in Vehicles, NEW zone \in Zones,
             CreatePermit(p, vehicle, zone)
      PROVE  ZoneMoves
  <2>1. permits'[p].zone = zone /\ \A q \in Permits \ {p} : permits'[q] = permits[q]
    BY <1>0, <1>1 DEF CreatePermit, NoPermit
  <2> QED
    BY <2>1, NoneAssumption DEF ZoneMoves
<1>2. ASSUME NEW p \in Permits, DeletePermit(p) PROVE ZoneMoves
  <2> DEFINE ps == Delete(permits, {p})
  <2>1. ps \in [Permits -> PermitRow] /\ \A q \in Permits : ps[q] \in PermitRow
    BY <1>0, DeleteType
  <2>2. \A q \in Permits : ps[q] = IF q = p THEN NoPermit ELSE permits[q]
    BY DEF Delete
  <2>3. \/ permits' = ps
        \/ \E q \in Permits : permits' = [ps EXCEPT ![q].primary = TRUE]
    BY <1>2 DEF DeletePermit, Live, WithStatus
  <2> HIDE DEF ps
  <2>4. \A q \in Permits : permits'[q].status = ps[q].status /\ permits'[q].zone = ps[q].zone
    BY <2>1, <2>3 DEF PermitRow
  <2> QED
    BY <2>2, <2>4 DEF ZoneMoves, NoPermit
<1>3. CASE CreateOrder
  BY <1>0, <1>3, SetStatusKeepsZone DEF CreateOrder, Drafts, WithStatus, DraftStatuses, ZoneMoves
<1>4. ASSUME NEW old \in SUBSET DraftRows(permits), NEW cancelled \in SUBSET Permits,
             GetPermits(old, cancelled)
      PROVE  ZoneMoves
  <2> DEFINE ps == Delete(permits, old)
  <2>1. ps \in [Permits -> PermitRow]
    BY <1>0, DeleteType
  <2>2. \A q \in Permits : ps[q] = IF q \in old THEN NoPermit ELSE permits[q]
    BY DEF Delete
  <2>3. permits' = SetStatus(ps, cancelled, "CANCELLED")
    BY <1>4 DEF GetPermits
  <2>4. \A q \in cancelled : permits[q].status = "PAYMENT_IN_PROGRESS" /\ q \notin old
    BY <1>4 DEF GetPermits, TimedOut, TimedOutBy, DraftRows
  <2> HIDE DEF ps
  <2> QED
    BY <2>1, <2>2, <2>3, <2>4, SetStatusKeepsZone DEF ZoneMoves, NoPermit
<1> QED
  BY <1>1, <1>2, <1>3, <1>4 DEF PurchaseNext

LEMMA UpdateEndZones ==
  ASSUME TypeOK, UpdateNext \/ ExtendNext \/ EndNext
  PROVE  ZoneMoves
<1>0. permits \in [Permits -> PermitRow] /\ \A p \in Permits : permits[p] \in PermitRow
  BY DEF TypeOK
<1>1. CASE TogglePrimary
  <2>1. PICK p \in Permits, s \in Permits :
          permits' = [permits EXCEPT ![p].primary = FALSE, ![s].primary = TRUE]
    BY <1>1 DEF TogglePrimary, Live, WithStatus
  <2> QED
    BY <1>0, <2>1 DEF ZoneMoves, PermitRow
<1>2. ASSUME NEW zone \in Zones, UpdateDraftAddress(zone) PROVE ZoneMoves
  <2>1. \A p \in Permits : \/ permits'[p] = permits[p]
                            \/ permits'[p] = [permits[p] EXCEPT !.zone = zone]
    BY <1>2 DEF UpdateDraftAddress
  <2>2. \A p \in Permits : permits'[p] = permits[p] \/ permits'[p].zone = zone
    <3> SUFFICES ASSUME NEW p \in Permits, permits'[p] # permits[p]
                 PROVE  permits'[p].zone = zone
      OBVIOUS
    <3>1. permits[p] \in PermitRow
      BY <1>0
    <3>2. permits'[p] = [permits[p] EXCEPT !.zone = zone]
      BY <2>1
    <3> QED
      BY <3>1, <3>2 DEF PermitRow
  <2> QED
    BY <2>2, NoneAssumption DEF ZoneMoves
<1>3. CASE ExtendNext
  BY <1>3 DEF ExtendNext, RequestExtension, ZoneMoves
<1>4. ASSUME NEW S \in SUBSET Permits,
             NEW endType \in {"IMMEDIATELY", "AFTER_CURRENT_PERIOD"},
             EndPermitsOfCustomer(S, endType)
      PROVE  ZoneMoves
  <2> DEFINE ended == EndPermits(permits, S \cap Live, endType)
  <2>1. permits' = Delete(ended, DraftRows(ended))
    BY <1>4 DEF EndPermitsOfCustomer
  <2>2. ASSUME NEW p \in Permits
        PROVE  /\ ended[p].status = permits[p].status \/ p \in Live
               /\ ended[p].zone = permits[p].zone
    BY <1>0 DEF EndPermits, PermitRow
  <2> HIDE DEF ended
  <2>3. \A p \in Permits : permits'[p] = IF ended[p].status = "DRAFT" THEN NoPermit
                                         ELSE ended[p]
    BY <2>1 DEF Delete, DraftRows
  <2>4. \A p \in Live : permits[p].status # "NONE"
    BY DEF Live, WithStatus, LiveStatuses, DraftStatuses, ActiveStatuses
  <2> QED
    BY <2>2, <2>3, <2>4 DEF ZoneMoves, NoPermit
<1> QED
  BY <1>1, <1>2, <1>3, <1>4 DEF UpdateNext, EndNext

LEMMA ChangeZones ==
  ASSUME TypeOK, ChangeNext
  PROVE  ZoneMoves
<1>0. permits \in [Permits -> PermitRow] /\ \A p \in Permits : permits[p] \in PermitRow
  BY DEF TypeOK
<1>a. \A p \in Active : permits[p].status # "NONE"
  BY DEF Active, WithStatus, ActiveStatuses
<1>1. ASSUME NEW p \in Permits, NEW vehicle \in Vehicles, ChangeVehicle(p, vehicle)
      PROVE  ZoneMoves
  <2> DEFINE ps == [permits EXCEPT ![p].vehicle = vehicle]
  <2>1. /\ ps \in [Permits -> PermitRow]
        /\ \A q \in Permits : ps[q].status = permits[q].status /\ ps[q].zone = permits[q].zone
    BY <1>0, VehicleColumn DEF PermitRow
  <2>2. permits' \in ClearFlags(ps, {p})
    BY <1>1 DEF ChangeVehicle
  <2> HIDE DEF ps
  <2> QED
    BY <2>1, <2>2, FlagsKeepZone DEF ZoneMoves
<1>2. ASSUME NEW p \in Permits, NEW vehicle \in Vehicles, ChangeToDearerVehicle(p, vehicle)
      PROVE  ZoneMoves
  <2> DEFINE new == [permits[p] EXCEPT !.nextVehicle = vehicle, !.status = "PAYMENT_IN_PROGRESS"]
             ps == [permits EXCEPT ![p] = new]
  <2>1. new \in PermitRow /\ new.zone = permits[p].zone
    BY <1>0, NextVehicleColumn DEF PermitRow
  <2>2. permits' \in ClearFlags(ps, {p}) /\ permits[p].status # "NONE"
    BY <1>2 DEF ChangeToDearerVehicle
  <2> HIDE DEF new
  <2>3. /\ ps \in [Permits -> PermitRow]
        /\ \A q \in Permits : ps[q] = IF q = p THEN new ELSE permits[q]
    BY <1>0, <2>1
  <2> HIDE DEF ps
  <2> QED
    BY <2>1, <2>2, <2>3, FlagsKeepZone DEF ZoneMoves
<1>3. ASSUME NEW zone \in Zones, ChangeAddress(zone) PROVE ZoneMoves
  <2> DEFINE ps == [p \in Permits |-> IF p \in Active THEN [permits[p] EXCEPT !.zone = zone]
                                                      ELSE permits[p]]
  <2>1. /\ ps \in [Permits -> PermitRow]
        /\ \A q \in Permits : ps[q] = permits[q] \/ ps[q].zone = zone
    BY <1>0, ZoneColumn
  <2>2. permits' \in ClearFlags(ps, Active)
    BY <1>3 DEF ChangeAddress
  <2> HIDE DEF ps
  <2> QED
    BY <2>1, <2>2, FlagsKeepZone, NoneAssumption DEF ZoneMoves
<1>4. ASSUME NEW zone \in Zones, ChangeToDearerAddress(zone) PROVE ZoneMoves
  <2> DEFINE ps == [p \in Permits |->
                      IF p \in Active
                      THEN [permits[p] EXCEPT !.nextZone = zone,
                                              !.status = "PAYMENT_IN_PROGRESS"]
                      ELSE permits[p]]
  <2>1. ASSUME NEW row \in PermitRow
        PROVE  [row EXCEPT !.nextZone = zone, !.status = "PAYMENT_IN_PROGRESS"].zone = row.zone
    BY DEF PermitRow
  <2>2. /\ ps \in [Permits -> PermitRow]
        /\ \A q \in Permits : /\ ps[q].status = permits[q].status \/ q \in Active
                              /\ ps[q].zone = permits[q].zone
    BY <1>0, <2>1, NextZoneColumn
  <2>3. permits' \in ClearFlags(ps, Active)
    BY <1>4 DEF ChangeToDearerAddress
  <2> HIDE DEF ps
  <2> QED
    BY <1>a, <2>2, <2>3, FlagsKeepZone DEF ZoneMoves
<1> QED
  BY <1>1, <1>2, <1>3, <1>4 DEF ChangeNext

LEMMA PaidZone ==
  ASSUME NEW row \in PermitRow, NEW type \in OrderType,
         type = "ADDRESS_CHANGED" => row.nextZone # None
  PROVE  LET new == PaidPermit(row, type) IN new.zone = row.zone \/ new.zone # None
<1>1. CASE type = "CREATED"
  BY <1>1 DEF PaidPermit, PermitRow
<1>2. CASE type = "VEHICLE_CHANGED"
  BY <1>2 DEF PaidPermit, PermitRow
<1>3. CASE type = "ADDRESS_CHANGED"
  BY <1>3 DEF PaidPermit, PermitRow
<1> QED
  BY <1>1, <1>2, <1>3

LEMMA TalpaZones ==
  ASSUME IInv, TalpaNext
  PROVE  ZoneMoves
<1>0. permits \in [Permits -> PermitRow] /\ \A p \in Permits : permits[p] \in PermitRow
  BY DEF IInv, TypeOK
<1>a. \A o \in Orders : \A p \in orders[o].permits : p \in Permits /\ permits[p].status # "NONE"
  BY DEF IInv, OrderedNotDraft, Ordered
<1>1. ASSUME NEW o \in Orders, PaymentPaid(o) PROVE ZoneMoves
  <2> DEFINE order == orders[o]
             paid == [p \in Permits |->
                         IF p \in order.permits THEN PaidPermit(permits[p], order.type)
                                                ELSE permits[p]]
  <2>1. order.type \in OrderType
    BY DEF IInv, TypeOK, OrderRow
  <2>2. paid \in [Permits -> PermitRow]
    BY <1>0, <2>1, PaidPermitType
  <2>3. ASSUME NEW p \in order.permits
        PROVE  paid[p].zone = permits[p].zone \/ paid[p].zone # None
    <3>1. p \in Permits /\ permits[p] \in PermitRow /\ paid[p] = PaidPermit(permits[p], order.type)
      BY <1>0, <1>a
    <3>2. order.type = "ADDRESS_CHANGED" => permits[p].nextZone # None
      BY <1>1 DEF PaymentPaid, ZonesGiven
    <3> HIDE DEF order, paid
    <3> QED
      BY <2>1, <3>1, <3>2, PaidZone
  <2>4. \A p \in Permits \ order.permits : paid[p] = permits[p]
    OBVIOUS
  <2>5. PICK S : permits' \in ClearFlags(paid, S)
    BY <1>1 DEF PaymentPaid
  <2> HIDE DEF paid
  <2> QED
    BY <1>a, <2>2, <2>3, <2>4, <2>5, FlagsKeepZone DEF ZoneMoves
<1>2. ASSUME NEW o \in Orders, OrderCancelled(o) PROVE ZoneMoves
  <2>1. PermitsToCancel(o) \subseteq orders[o].permits
    BY DEF PermitsToCancel
  <2> QED
    BY <1>0, <1>a, <1>2, <2>1, SetStatusKeepsZone DEF OrderCancelled, ZoneMoves
<1>3. permits' = permits => ZoneMoves
  BY DEF ZoneMoves
<1> QED
  BY <1>1, <1>2, <1>3 DEF TalpaNext, PurchaseTimePasses, TalpaPays, TalpaCancels, PaymentFailed

LEMMA JobsZones ==
  ASSUME IInv, RowHasZone, JobsNext
  PROVE  ZoneMoves
<1>0. permits \in [Permits -> PermitRow] /\ \A p \in Permits : permits[p] \in PermitRow
  BY DEF IInv, TypeOK
<1>1. CASE CancelUnpaid
  <2>1. \A row \in unpaid : permits[row[1]].status # "NONE"
    BY DEF IInv, Snapshots, Ordered
  <2>2. \A p \in {q \in Permits : \E o \in Orders : <<q, o>> \in unpaid} :
          permits[p].status # "NONE"
    BY <2>1
  <2> DEFINE S == {q \in Permits : \E o \in Orders : <<q, o>> \in unpaid}
  <2>3. permits' = SetStatus(permits, S, "CANCELLED")
    BY <1>1 DEF CancelUnpaid
  <2> HIDE DEF S
  <2>4. \A p \in S : permits[p].status # "NONE"
    BY <2>2 DEF S
  <2> QED
    BY <1>0, <2>3, <2>4, SetStatusKeepsZone DEF ZoneMoves
<1>2. ASSUME NEW S \in SUBSET Permits, DeleteOldDrafts(S) PROVE ZoneMoves
  BY <1>2 DEF DeleteOldDrafts, Delete, NoPermit, ZoneMoves
<1>3. ASSUME NEW p \in Permits, BecomesDue(p) PROVE ZoneMoves
  BY <1>0, <1>3 DEF BecomesDue, ZoneMoves, PermitRow
<1>4. CASE CloseExpired
  <2> DEFINE row == [expiry.row EXCEPT !.endType = "PREVIOUS_DAY_END", !.status = "CLOSED"]
  <2>1. row.zone # None
    BY <1>4 DEF IInv, TypeOK, ExpiryState, PermitRow, RowHasZone, CloseExpired
  <2>2. permits' = [permits EXCEPT ![expiry.current] = row]
    BY <1>4 DEF CloseExpired
  <2> HIDE DEF row
  <2> QED
    BY <1>0, <2>1, <2>2 DEF ZoneMoves
<1>5. CASE TidyExpired
  BY <1>0, <1>5 DEF TidyExpired, NoPermit, ZoneMoves, PermitRow
<1>6. permits' = permits => ZoneMoves
  BY DEF ZoneMoves
<1> QED
  BY <1>1, <1>2, <1>3, <1>4, <1>5, <1>6
  DEF JobsNext, UnpaidNext, CleanupNext, ExpiryNext, ReadUnpaid, CancelOldRequests,
      ReadExpired, CancelOrdersOfExpired, AbortExpiry

LEMMA StepRowHasZone ==
  ASSUME TypeOK, ZoneSet, RowHasZone, [Next]_vars
  PROVE  RowHasZone'
<1>1. ASSUME NEW p \in Permits, CancelOrdersOfExpired(p) PROVE RowHasZone'
  BY <1>1 DEF CancelOrdersOfExpired, RowHasZone, ZoneSet, Live, WithStatus, LiveStatuses,
              DraftStatuses, ActiveStatuses
<1>2. ASSUME expiry'.step # "orders" PROVE RowHasZone'
  BY <1>2 DEF RowHasZone
<1>3. CASE CloseExpired \/ TidyExpired \/ ReadExpired \/ AbortExpiry
  <2>1. CASE CloseExpired
    BY <1>2, <2>1 DEF CloseExpired, TypeOK, ExpiryState
  <2>2. CASE TidyExpired
    BY <1>2, <2>2 DEF TidyExpired, IdleExpiry, TypeOK, ExpiryState
  <2>3. CASE ReadExpired
    BY <1>2, <2>3 DEF ReadExpired, IdleExpiry
  <2>4. CASE AbortExpiry
    BY <1>2, <2>4 DEF AbortExpiry, IdleExpiry
  <2> QED
    BY <1>3, <2>1, <2>2, <2>3, <2>4
<1>4. CASE expiry' = expiry
  BY <1>4 DEF RowHasZone
<1>5. CustomerNext \/ TalpaNext => expiry' = expiry
  BY DEF CustomerNext, PurchaseNext, UpdateNext, ExtendNext, ChangeNext, EndNext, CreatePermit,
         DeletePermit, CreateOrder, GetPermits, TogglePrimary, UpdateDraftAddress,
         RequestExtension, ChangeVehicle, ChangeToDearerVehicle, ChangeAddress,
         ChangeToDearerAddress, EndPermitsOfCustomer, TalpaNext, PurchaseTimePasses, TalpaPays,
         TalpaCancels, PaymentPaid, PaymentFailed, OrderCancelled
<1>6. UnpaidNext \/ CleanupNext \/ (\E p \in Permits : BecomesDue(p)) => expiry' = expiry
  BY DEF UnpaidNext, CleanupNext, ReadUnpaid, CancelUnpaid, DeleteOldDrafts, CancelOldRequests,
         BecomesDue
<1> QED
  BY <1>1, <1>3, <1>4, <1>5, <1>6 DEF Next, JobsNext, ExpiryNext, vars

\* Whatever is ordered, paid, and written back by the nightly job, in whichever order: the
\* zone of a permit is never lost.
THEOREM ZonesAreSet == Spec => []ZoneSet
<1>1. Init => ZoneSet /\ RowHasZone
  BY DEF Init, ZoneSet, RowHasZone, NoPermit, IdleExpiry
<1>2. IInv /\ ZoneSet /\ RowHasZone /\ [Next]_vars => ZoneSet' /\ RowHasZone'
  <2> SUFFICES ASSUME IInv, ZoneSet, RowHasZone, [Next]_vars
               PROVE  ZoneSet' /\ RowHasZone'
    OBVIOUS
  <2>0. TypeOK
    BY DEF IInv
  <2>1. ZoneMoves
    <3>1. UNCHANGED vars => ZoneMoves
      BY DEF vars, ZoneMoves
    <3> QED
      BY <2>0, <3>1, PurchaseZones, UpdateEndZones, ChangeZones, TalpaZones, JobsZones
      DEF Next, CustomerNext
  <2>2. ZoneSet'
    BY <2>1 DEF ZoneMoves, ZoneSet
  <2> QED
    BY <2>0, <2>2, StepRowHasZone
<1> QED
  BY <1>1, <1>2, Invariant, PTL DEF Spec

(***************************************************************************)
(* The time to pay                                                         *)
(***************************************************************************)
\* The payment time of the orders that the job has read is over.
ReadWasLate ==
    \A row \in unpaid : row[1] \in orders[row[2]].permits /\ orders[row[2]].late

LEMMA StepReadWasLate ==
  ASSUME IInv, ReadWasLate, [Next]_vars
  PROVE  ReadWasLate'
<1>1. ASSUME unpaid' \subseteq unpaid PROVE ReadWasLate'
  <2> SUFFICES ASSUME NEW row \in unpaid'
               PROVE  row[1] \in orders'[row[2]].permits /\ orders'[row[2]].late
    BY DEF ReadWasLate
  <2>1. row \in unpaid /\ row[2] \in Orders
    BY <1>1 DEF IInv, TypeOK
  <2>2. orders[row[2]].status # "NONE"
    BY <2>1 DEF IInv, Snapshots
  <2>3. orders'[row[2]] = orders[row[2]] \/ OrderUpdated(orders[row[2]], orders'[row[2]])
    BY <2>1, <2>2, StepMoves DEF OrderMoves, OrderInserted, IsNextOrderId
  <2> QED
    BY <2>1, <2>3 DEF ReadWasLate, OrderUpdated
<1>2. CASE ReadUnpaid
  <2>1. unpaid' = {row \in Permits \X Orders : TimedOutBy(row[1], row[2])} /\ orders' = orders
    BY <1>2 DEF ReadUnpaid
  <2> QED
    BY <2>1 DEF ReadWasLate, TimedOutBy, IsLatestOrder, ExtensionOrdersOf, OrdersOf
<1>3. CustomerNext \/ TalpaNext => unpaid' = unpaid
  BY DEF CustomerNext, PurchaseNext, UpdateNext, ExtendNext, ChangeNext, EndNext, CreatePermit,
         DeletePermit, CreateOrder, GetPermits, TogglePrimary, UpdateDraftAddress,
         RequestExtension, ChangeVehicle, ChangeToDearerVehicle, ChangeAddress,
         ChangeToDearerAddress, EndPermitsOfCustomer, TalpaNext, PurchaseTimePasses, TalpaPays,
         TalpaCancels, PaymentPaid, PaymentFailed, OrderCancelled
<1>4. CancelUnpaid => unpaid' = {}
  BY DEF CancelUnpaid
<1>5. CleanupNext \/ ExpiryNext \/ AbortExpiry => unpaid' = unpaid
  BY DEF CleanupNext, ExpiryNext, AbortExpiry, DeleteOldDrafts, CancelOldRequests, BecomesDue,
         ReadExpired, CancelOrdersOfExpired, CloseExpired, TidyExpired
<1> QED
  BY <1>1, <1>2, <1>3, <1>4, <1>5 DEF Next, JobsNext, UnpaidNext, vars

\* Neither the customer's query of the permits nor the job nor a notification cancels a
\* permit whose orders can all still be paid: a row that the job has read some time ago was
\* late already, and an order that is late stays late.
THEOREM PaymentTimeIsRespected == Spec => PaymentTimeRespected
<1>1. ReadWasLate /\ IInv => \A p \in Permits : WasReadLate(p) => LateOrGivenUp(p)
  BY DEF ReadWasLate, WasReadLate, LateOrGivenUp, OrdersOf
<1>2. ASSUME IInv, ReadWasLate, [Next]_vars
      PROVE  \A p \in Permits :
                permits[p].status = "PAYMENT_IN_PROGRESS" /\ permits'[p].status = "CANCELLED" =>
                    \E o \in OrdersOf(p) : orders[o].late \/ orders[o].cancelled
  BY <1>1, <1>2, StepMoves DEF PermitMoves, PermitMove, LateOrGivenUp
<1>3. IInv /\ ReadWasLate /\ [Next]_vars =>
        [\A p \in Permits :
            permits[p].status = "PAYMENT_IN_PROGRESS" /\ permits'[p].status = "CANCELLED" =>
                \E o \in OrdersOf(p) : orders[o].late \/ orders[o].cancelled]_vars
  BY <1>2
<1>4. Init => ReadWasLate
  BY DEF Init, ReadWasLate
<1>5. IInv /\ ReadWasLate /\ [Next]_vars => ReadWasLate'
  BY StepReadWasLate
<1> QED
  BY <1>3, <1>4, <1>5, Invariant, PTL DEF Spec, PaymentTimeRespected

(***************************************************************************)
(* The order behind a valid permit                                         *)
(*                                                                         *)
(* This is about EndSpec: CancelUnpaid, which EndSpec leaves out, writes   *)
(* back an order that may have been paid since it was read.                *)
(***************************************************************************)
EndStep ==
    PurchaseNext \/ UpdateNext \/ EndNext \/ TalpaNext \/ ExpiryNext \/ AbortExpiry

\* A permit whose order must still be confirmed.
Running(p) ==
    permits[p].status = "VALID" /\ permits[p].endType = "IMMEDIATELY" /\ permits[p].due = FALSE

\* The nightly job has only read permits whose time is up, and the one it is about to
\* write is no longer on its list.
TodoIsDue ==
    /\ \A p \in expiry.todo : permits[p].due = TRUE
    /\ expiry.step = "orders" => expiry.current \notin expiry.todo

NoRequests == \A o \in Orders : orders[o].request # "PENDING"

EInv == IInv /\ TodoIsDue /\ NoRequests

\* A permit that runs after the step ran before, and the step cancelled no confirmed order
\* of it; or the step confirmed one.
RunningMoves ==
    \A p \in Permits : Running(p)' =>
        \/ Running(p) /\ \A o \in OrdersOf(p) :
                orders[o].status = "CONFIRMED" => orders'[o].status = "CONFIRMED"
        \/ \E o \in OrdersOf(p) : orders'[o].status = "CONFIRMED"

\* A permit that was ordered stays due, but for the one that the job writes.
DueMoves ==
    \A p \in Ordered : permits[p].due = TRUE =>
        permits'[p].due = TRUE \/ (expiry.step = "orders" /\ p = expiry.current)

LEMMA EndStepIsStep == EndStep => Next
  BY DEF EndStep, Next, CustomerNext, JobsNext

LEMMA PurchaseRuns ==
  ASSUME EInv, PurchaseNext \/ UpdateNext
  PROVE  RunningMoves /\ DueMoves /\ NoRequests'
<1>0. /\ permits \in [Permits -> PermitRow] /\ \A p \in Permits : permits[p] \in PermitRow
      /\ orders \in [Orders -> OrderRow]
  BY DEF EInv, IInv, TypeOK
<1>1. ASSUME NEW p \in Permits, NEW vehicle \in Vehicles, NEW zone \in Zones,
             CreatePermit(p, vehicle, zone)
      PROVE  RunningMoves /\ DueMoves /\ orders' = orders
  <2>1. permits[p].status = "NONE" /\ orders' = orders
    BY <1>1 DEF CreatePermit
  <2>2. permits'[p].status = "DRAFT" /\ \A q \in Permits \ {p} : permits'[q] = permits[q]
    BY <1>0, <1>1 DEF CreatePermit, NoPermit
  <2> QED
    BY <2>1, <2>2 DEF RunningMoves, DueMoves, Running, Ordered
<1>2. ASSUME NEW p \in Permits, DeletePermit(p)
      PROVE  RunningMoves /\ DueMoves /\ orders' = orders
  <2> DEFINE ps == Delete(permits, {p})
  <2>1. ps \in [Permits -> PermitRow] /\ \A q \in Permits : ps[q] \in PermitRow
    BY <1>0, DeleteType
  <2>2. ps[p].status = "NONE" /\ \A q \in Permits \ {p} : ps[q] = permits[q]
    BY DEF Delete, NoPermit
  <2>3. /\ orders' = orders
        /\ \/ permits' = ps
           \/ \E q \in Permits : permits' = [ps EXCEPT ![q].primary = TRUE]
        /\ p \in Drafts
    BY <1>2 DEF DeletePermit, Live, WithStatus
  <2> HIDE DEF ps
  <2>4. \A q \in Permits : /\ permits'[q].status = ps[q].status
                           /\ permits'[q].due = ps[q].due
                           /\ permits'[q].endType = ps[q].endType
    <3>1. ASSUME NEW r \in Permits, permits' = [ps EXCEPT ![r].primary = TRUE],
                 NEW q \in Permits
          PROVE  /\ permits'[q].status = ps[q].status
                 /\ permits'[q].due = ps[q].due
                 /\ permits'[q].endType = ps[q].endType
      BY <2>1, <3>1 DEF PermitRow
    <3> QED
      BY <2>3, <3>1
  <2>5. \A q \in Permits : \/ permits'[q].status = "NONE"
                           \/ /\ permits'[q].status = permits[q].status
                              /\ permits'[q].due = permits[q].due
                              /\ permits'[q].endType = permits[q].endType
    BY <2>2, <2>4
  <2>6. RunningMoves
    BY <2>3, <2>5 DEF RunningMoves, Running
  <2>7. DueMoves
    BY <2>2, <2>3, <2>4 DEF DueMoves, Ordered, Drafts, WithStatus
  <2> QED
    BY <2>3, <2>6, <2>7
<1>3. ASSUME CreateOrder
      PROVE  RunningMoves /\ DueMoves /\ NoRequests'
  <2>1. PICK o \in Orders :
          IsNextOrderId(o) /\ orders' = [orders EXCEPT ![o] = NewOrder("DRAFT", "CREATED", Drafts, "NONE")]
    BY <1>3 DEF CreateOrder
  <2>2. orders[o].status = "NONE" /\ \A k \in Orders \ {o} : orders'[k] = orders[k]
    BY <2>1, <1>0 DEF IsNextOrderId
  <2>3. orders'[o].request = "NONE"
    BY <2>1, <1>0 DEF NewOrder
  <2>4. \A p \in Permits : /\ permits'[p].due = permits[p].due
                           /\ permits'[p].endType = permits[p].endType
                           /\ \/ permits'[p].status = permits[p].status
                              \/ permits'[p].status = "PAYMENT_IN_PROGRESS"
    BY <1>0, <1>3 DEF CreateOrder, SetStatus, PermitRow
  <2>5. RunningMoves
    BY <2>2, <2>4 DEF RunningMoves, Running, OrdersOf
  <2> QED
    BY <2>2, <2>3, <2>4, <2>5 DEF DueMoves, Ordered, NoRequests, EInv
<1>4. ASSUME NEW old \in SUBSET DraftRows(permits), NEW cancelled \in SUBSET Permits,
             GetPermits(old, cancelled)
      PROVE  RunningMoves /\ DueMoves /\ NoRequests'
  <2> DEFINE ps == Delete(permits, old)
  <2>1. ps \in [Permits -> PermitRow] /\ \A q \in Permits : ps[q] \in PermitRow
    BY <1>0, DeleteType
  <2>2. \A p \in Permits : ps[p] = IF p \in old THEN NoPermit ELSE permits[p]
    BY DEF Delete
  <2>3. permits' = SetStatus(ps, cancelled, "CANCELLED")
    BY <1>4 DEF GetPermits
  <2> HIDE DEF ps
  <2>4. \A p \in Permits : permits'[p] = IF p \in cancelled
                                         THEN [ps[p] EXCEPT !.status = "CANCELLED"] ELSE ps[p]
    BY <2>3 DEF SetStatus
  <2>5. \A p \in Permits : permits'[p].due = ps[p].due
    BY <2>1, <2>4 DEF PermitRow
  <2>6. \A p \in Permits : Running(p)' => Running(p)
    <3>1. NoPermit.status = "NONE"
      BY DEF NoPermit
    <3>2. \A p \in Permits : p \in cancelled => permits'[p].status = "CANCELLED"
      BY <2>1, <2>4 DEF PermitRow
    <3>3. \A p \in Permits : \/ p \in cancelled
                            \/ permits'[p] = NoPermit
                            \/ permits'[p] = permits[p]
      BY <2>2, <2>4
    <3> QED
      BY <3>1, <3>2, <3>3 DEF Running
  <2>7. \A o \in Orders : \/ orders'[o] = orders[o]
                          \/ /\ orders[o].status = "DRAFT"
                             /\ orders'[o] = [orders[o] EXCEPT !.status = "CANCELLED"]
    BY <1>4 DEF GetPermits, TimedOutBy
  <2>8. RunningMoves
    BY <2>6, <2>7 DEF RunningMoves, OrdersOf
  <2>9. \A p \in Ordered : p \notin old
    BY DEF Ordered, DraftStatuses, DraftRows
  <2>10. DueMoves
    BY <2>2, <2>5, <2>9 DEF DueMoves, Ordered
  <2>11. NoRequests'
    <3>1. ASSUME NEW o \in Orders PROVE orders'[o].request = orders[o].request
      BY <1>0, <2>7 DEF OrderRow
    <3> QED
      BY <3>1 DEF NoRequests, EInv
  <2> QED
    BY <2>8, <2>10, <2>11
<1>5. ASSUME TogglePrimary
      PROVE  RunningMoves /\ DueMoves /\ orders' = orders
  <2>1. PICK p \in Permits, s \in Permits :
          permits' = [permits EXCEPT ![p].primary = FALSE, ![s].primary = TRUE]
    BY <1>5 DEF TogglePrimary, Live, WithStatus
  <2>2. \A q \in Permits : /\ permits'[q].status = permits[q].status
                           /\ permits'[q].due = permits[q].due
                           /\ permits'[q].endType = permits[q].endType
    BY <1>0, <2>1 DEF PermitRow
  <2>3. orders' = orders
    BY <1>5 DEF TogglePrimary
  <2> QED
    BY <2>2, <2>3 DEF RunningMoves, DueMoves, Running, Ordered
<1>6. ASSUME NEW zone \in Zones, UpdateDraftAddress(zone)
      PROVE  RunningMoves /\ DueMoves /\ orders' = orders
  <2>1. \A q \in Permits : /\ permits'[q].status = permits[q].status
                           /\ permits'[q].due = permits[q].due
                           /\ permits'[q].endType = permits[q].endType
    BY <1>0, <1>6 DEF UpdateDraftAddress, PermitRow
  <2>2. orders' = orders
    BY <1>6 DEF UpdateDraftAddress
  <2> QED
    BY <2>1, <2>2 DEF RunningMoves, DueMoves, Running, Ordered
<1>7. orders' = orders => NoRequests'
  BY DEF NoRequests, EInv
<1> QED
  BY <1>1, <1>2, <1>3, <1>4, <1>5, <1>6, <1>7 DEF PurchaseNext, UpdateNext

LEMMA CancelOrdersKeep ==
  ASSUME TypeOK, NEW S, NEW refused, NEW told, NEW o \in Orders
  PROVE  LET new == CancelOrders(S, refused, told)[o]
         IN  /\ new.request = orders[o].request
             /\ o \notin S => new = orders[o]
<1>1. orders[o] \in OrderRow
  BY DEF TypeOK
<1>2. CancelOrders(S, refused, told)[o] =
        IF o \in S \ refused
        THEN [orders[o] EXCEPT !.status = "CANCELLED", !.cancelled = @ \/ o \in told]
        ELSE orders[o]
  BY DEF CancelOrders
<1> QED
  BY <1>1, <1>2 DEF OrderRow

LEMMA CancelPendingKeeps ==
  ASSUME NEW os \in [Orders -> OrderRow], NEW S, NEW o \in Orders
  PROVE  LET new == CancelPending(os, S)[o]
         IN  /\ new.request = "PENDING" => os[o].request = "PENDING"
             /\ new.status = os[o].status
<1>1. os[o] \in OrderRow
  OBVIOUS
<1>2. CancelPending(os, S)[o] = IF o \in S /\ os[o].request = "PENDING"
                               THEN [os[o] EXCEPT !.request = "CANCELLED"] ELSE os[o]
  BY DEF CancelPending
<1> QED
  BY <1>1, <1>2 DEF OrderRow

LEMMA EndRuns ==
  ASSUME EInv, EndNext
  PROVE  RunningMoves /\ DueMoves /\ NoRequests'
<1>0. /\ permits \in [Permits -> PermitRow] /\ \A p \in Permits : permits[p] \in PermitRow
      /\ orders \in [Orders -> OrderRow] /\ TypeOK
  BY DEF EInv, IInv, TypeOK
<1>1. PICK S \in SUBSET Permits, endType \in {"IMMEDIATELY", "AFTER_CURRENT_PERIOD"} :
        EndPermitsOfCustomer(S, endType)
  BY DEF EndNext
<1> DEFINE ending == S \cap Live
           toCancel == OrdersToCancel(ending, endType)
           ended == EndPermits(permits, ending, endType)
<1>2. PICK refused, told :
        orders' = CancelPending(CancelOrders(toCancel, refused, told), OrdersOfAny(ending))
  BY <1>1 DEF EndPermitsOfCustomer
<1>3. CancelOrders(toCancel, refused, told) \in [Orders -> OrderRow]
  BY <1>0, CancelOrdersType
<1>4. \A o \in Orders : /\ orders'[o].request = "PENDING" => orders[o].request = "PENDING"
                        /\ o \notin toCancel => orders'[o].status = orders[o].status
  <2> SUFFICES ASSUME NEW o \in Orders
               PROVE  /\ orders'[o].request = "PENDING" => orders[o].request = "PENDING"
                      /\ o \notin toCancel => orders'[o].status = orders[o].status
    OBVIOUS
  <2> DEFINE new == CancelOrders(toCancel, refused, told)
  <2>1. new[o].request = orders[o].request /\ (o \notin toCancel => new[o] = orders[o])
    BY <1>0, CancelOrdersKeep
  <2>2. /\ orders'[o].request = "PENDING" => new[o].request = "PENDING"
        /\ orders'[o].status = new[o].status
    <3> HIDE DEF new
    <3> QED
      BY <1>2, <1>3, CancelPendingKeeps DEF new
  <2> QED
    BY <2>1, <2>2
<1>5. ended \in [Permits -> PermitRow] /\ \A q \in Permits : ended[q] \in PermitRow
  BY <1>0, EndPermitsType
<1>6. \A p \in Permits : ended[p] =
        IF p \notin ending THEN permits[p]
        ELSE IF endType = "AFTER_CURRENT_PERIOD"
             THEN [permits[p] EXCEPT !.endType = endType]
             ELSE [permits[p] EXCEPT !.endType = endType, !.status = "CLOSED"]
  BY DEF EndPermits
<1>7. \A p \in Permits :
        /\ ended[p].due = permits[p].due
        /\ p \in ending => ended[p].status = "CLOSED" \/ ended[p].endType = "AFTER_CURRENT_PERIOD"
        /\ ended[p].status = "CLOSED" \/ ended[p].status = permits[p].status
        /\ endType = "IMMEDIATELY" /\ p \in ending => ended[p].status = "CLOSED"
  BY <1>0, <1>6 DEF PermitRow
<1>8. permits' = Delete(ended, DraftRows(ended))
  BY <1>1 DEF EndPermitsOfCustomer
<1> HIDE DEF ended
<1>9. \A p \in Permits : permits'[p] = IF ended[p].status = "DRAFT" THEN NoPermit ELSE ended[p]
  BY <1>8 DEF Delete, DraftRows
<1>10. \A p \in Permits : Running(p)' => Running(p) /\ p \notin ending
  <2>1. NoPermit.status = "NONE"
    BY DEF NoPermit
  <2>2. \A p \in Permits : p \notin ending => ended[p] = permits[p]
    BY <1>6
  <2> QED
    BY <1>7, <1>9, <2>1, <2>2 DEF Running
<1>11. ASSUME NEW p \in Permits, NEW o \in Orders, p \in orders[o].permits, Running(p),
              p \notin ending
       PROVE  o \notin toCancel
  BY <1>11 DEF OrdersToCancel, Running
<1>12. RunningMoves
  BY <1>4, <1>10, <1>11 DEF RunningMoves, OrdersOf
<1>13. DueMoves
  BY <1>7, <1>9 DEF DueMoves, Ordered, DraftStatuses
<1> QED
  BY <1>4, <1>12, <1>13 DEF NoRequests, EInv

LEMMA TalpaRuns ==
  ASSUME EInv, TalpaNext
  PROVE  RunningMoves /\ DueMoves /\ NoRequests'
<1>0. /\ permits \in [Permits -> PermitRow] /\ \A p \in Permits : permits[p] \in PermitRow
      /\ orders \in [Orders -> OrderRow] /\ \A o \in Orders : orders[o] \in OrderRow
  BY DEF EInv, IInv, TypeOK
<1>1. PICK o \in Orders :
        \/ PurchaseTimePasses(o) \/ TalpaPays(o) \/ TalpaCancels(o)
        \/ PaymentPaid(o) \/ PaymentFailed(o) \/ OrderCancelled(o)
  BY DEF TalpaNext
<1>2. ASSUME permits' = permits,
             \A k \in Orders : /\ orders'[k].status = orders[k].status
                               /\ orders'[k].request = "PENDING" => orders[k].request = "PENDING"
      PROVE  RunningMoves /\ DueMoves /\ NoRequests'
  BY <1>2 DEF RunningMoves, Running, DueMoves, NoRequests, EInv, OrdersOf
<1>3. CASE PurchaseTimePasses(o) \/ TalpaPays(o) \/ TalpaCancels(o)
  <2>1. permits' = permits
    BY <1>3 DEF PurchaseTimePasses, TalpaPays, TalpaCancels
  <2>2. \A k \in Orders : orders'[k].status = orders[k].status /\ orders'[k].request = orders[k].request
    BY <1>0, <1>3 DEF PurchaseTimePasses, TalpaPays, TalpaCancels, OrderRow
  <2> QED
    BY <1>2, <2>1, <2>2
<1>4. CASE PaymentFailed(o)
  BY <1>0, <1>2, <1>4, CancelPendingKeeps DEF PaymentFailed
<1>5. CASE PaymentPaid(o)
  <2> DEFINE order == orders[o]
             paid == [p \in Permits |->
                         IF p \in order.permits THEN PaidPermit(permits[p], order.type)
                                                ELSE permits[p]]
  <2>1. order.request # "PENDING"
    BY DEF EInv, NoRequests
  <2>2. permits' \in ClearFlags(paid, {})
    BY <1>5, <2>1 DEF PaymentPaid
  <2>3. PICK F \in SUBSET {} :
          permits' = [p \in Permits |-> IF p \in F THEN [paid[p] EXCEPT !.due = FALSE] ELSE paid[p]]
    BY <2>2 DEF ClearFlags
  <2>4. \A p \in Permits : permits'[p] = paid[p]
    BY <2>3
  <2>5. \A p \in Permits : p \notin order.permits => permits'[p] = permits[p]
    BY <2>4
  <2>6. order.type \in OrderType
    BY <1>0 DEF OrderRow
  <2>7. \A p \in Permits : permits'[p].due = permits[p].due
    BY <1>0, <2>4, <2>6 DEF PaidPermit, PermitRow
  <2>8. orders' = [orders EXCEPT ![o] = PaidOrder(order)]
    BY <1>5 DEF PaymentPaid
  <2>9. orders'[o].status = "CONFIRMED" /\ orders'[o].request = order.request
    BY <1>0, <2>1, <2>8 DEF PaidOrder, OrderRow
  <2>10. \A k \in Orders \ {o} : orders'[k] = orders[k]
    BY <1>0, <2>8
  <2>11. RunningMoves
    <3> SUFFICES ASSUME NEW p \in Permits, Running(p)'
                 PROVE  \/ Running(p) /\ \A k \in OrdersOf(p) :
                            orders[k].status = "CONFIRMED" => orders'[k].status = "CONFIRMED"
                        \/ \E k \in OrdersOf(p) : orders'[k].status = "CONFIRMED"
      BY DEF RunningMoves
    <3>1. CASE p \in order.permits
      BY <2>9, <3>1 DEF OrdersOf
    <3>2. CASE p \notin order.permits
      BY <2>5, <2>9, <2>10, <3>2 DEF Running, OrdersOf
    <3> QED
      BY <3>1, <3>2
  <2>12. DueMoves
    BY <2>7 DEF DueMoves, Ordered
  <2>13. NoRequests'
    BY <2>9, <2>10 DEF NoRequests, EInv
  <2> QED
    BY <2>11, <2>12, <2>13
<1>6. CASE OrderCancelled(o)
  <2>1. PermitsToCancel(o) # {} /\ permits' = SetStatus(permits, PermitsToCancel(o), "CANCELLED")
         /\ orders' = [orders EXCEPT ![o].status = "CANCELLED"]
    BY <1>6 DEF OrderCancelled, EInv, NoRequests
  <2>2. \A p \in Permits : permits'[p] = IF p \in PermitsToCancel(o)
                                         THEN [permits[p] EXCEPT !.status = "CANCELLED"]
                                         ELSE permits[p]
    BY <2>1 DEF SetStatus
  <2>3. \A p \in Permits : permits'[p].due = permits[p].due
    BY <1>0, <2>2 DEF PermitRow
  <2>4. \A p \in Permits : Running(p)' => Running(p) /\ p \notin PermitsToCancel(o)
    BY <1>0, <2>2 DEF Running, PermitRow
  <2>5. \A k \in Orders : /\ orders'[k].request = orders[k].request
                          /\ k # o => orders'[k] = orders[k]
    BY <1>0, <2>1 DEF OrderRow
  <2>6. \A p \in Permits : Running(p) /\ p \in orders[o].permits => p \in PermitsToCancel(o)
    BY DEF Running, PermitsToCancel
  <2>7. RunningMoves
    BY <2>4, <2>5, <2>6 DEF RunningMoves, OrdersOf
  <2> QED
    BY <2>3, <2>5, <2>7 DEF DueMoves, Ordered, NoRequests, EInv
<1> QED
  BY <1>1, <1>3, <1>4, <1>5, <1>6

LEMMA ExpiryRuns ==
  ASSUME EInv, ExpiryNext \/ AbortExpiry
  PROVE  RunningMoves /\ DueMoves /\ NoRequests'
<1>0. /\ permits \in [Permits -> PermitRow] /\ \A p \in Permits : permits[p] \in PermitRow
      /\ orders \in [Orders -> OrderRow] /\ TypeOK
  BY DEF EInv, IInv, TypeOK
<1>1. ASSUME NEW p \in Permits, BecomesDue(p) PROVE RunningMoves /\ DueMoves /\ NoRequests'
  <2>1. /\ orders' = orders
        /\ \A q \in Permits : /\ permits'[q].status = permits[q].status
                              /\ permits'[q].endType = permits[q].endType
                              /\ permits'[q].due = permits[q].due \/ permits'[q].due = TRUE
    BY <1>0, <1>1 DEF BecomesDue, PermitRow
  <2> QED
    BY <2>1 DEF RunningMoves, Running, DueMoves, Ordered, NoRequests, EInv
<1>2. UNCHANGED <<permits, orders>> => RunningMoves /\ DueMoves /\ NoRequests'
  BY DEF RunningMoves, Running, DueMoves, Ordered, NoRequests, EInv
<1>3. ASSUME NEW p \in Permits, CancelOrdersOfExpired(p)
      PROVE  RunningMoves /\ DueMoves /\ NoRequests'
  <2> DEFINE toCancel == IF p \in Live THEN OrdersToCancel({p}, "PREVIOUS_DAY_END") ELSE {}
  <2>1. PICK refused, told : orders' = CancelOrders(toCancel, refused, told)
    BY <1>3 DEF CancelOrdersOfExpired
  <2>2. permits' = permits /\ p \in expiry.todo
    BY <1>3 DEF CancelOrdersOfExpired
  <2>3. permits[p].due = TRUE
    BY <2>2 DEF EInv, TodoIsDue
  <2>4. ASSUME NEW q \in Permits, NEW o \in Orders, q \in orders[o].permits, Running(q)
        PROVE  o \notin toCancel
    BY <2>3, <2>4 DEF OrdersToCancel, Running
  <2> HIDE DEF toCancel
  <2>5. \A o \in Orders : /\ orders'[o].request = orders[o].request
                          /\ o \notin toCancel => orders'[o] = orders[o]
    BY <1>0, <2>1, CancelOrdersKeep
  <2>6. RunningMoves
    BY <2>2, <2>4, <2>5 DEF RunningMoves, Running, OrdersOf
  <2> QED
    BY <2>2, <2>5, <2>6 DEF DueMoves, Ordered, NoRequests, EInv
<1>4. ASSUME CloseExpired PROVE RunningMoves /\ DueMoves /\ NoRequests'
  <2>1. expiry.row \in PermitRow /\ expiry.current \in Permits
    BY <1>0, <1>4 DEF CloseExpired, TypeOK, ExpiryState, EInv, IInv, Snapshots, Ordered
  <2>2. /\ permits'[expiry.current].status = "CLOSED"
        /\ \A q \in Permits \ {expiry.current} : permits'[q] = permits[q]
    BY <1>0, <1>4, <2>1 DEF CloseExpired, PermitRow
  <2>3. \A o \in Orders : /\ orders'[o].status = orders[o].status
                          /\ orders'[o].request = "PENDING" => orders[o].request = "PENDING"
    BY <1>0, <1>4, CancelPendingKeeps DEF CloseExpired
  <2>4. RunningMoves
    BY <2>2, <2>3 DEF RunningMoves, Running, OrdersOf
  <2>5. DueMoves
    BY <1>4, <2>2 DEF DueMoves, CloseExpired, Ordered
  <2> QED
    BY <2>3, <2>4, <2>5 DEF NoRequests, EInv
<1>5. ASSUME TidyExpired PROVE RunningMoves /\ DueMoves /\ NoRequests'
  <2>1. \A p \in Permits :
          IF permits[p].status = "DRAFT" THEN permits'[p].status = "NONE"
          ELSE /\ permits'[p].status = permits[p].status
               /\ permits'[p].endType = permits[p].endType
               /\ permits'[p].due = permits[p].due
    BY <1>0, <1>5 DEF TidyExpired, DraftRows, NoPermit, PermitRow
  <2>2. orders' = orders
    BY <1>5 DEF TidyExpired
  <2> QED
    BY <2>1, <2>2 DEF RunningMoves, Running, DueMoves, Ordered, DraftStatuses, NoRequests, EInv
<1> QED
  BY <1>1, <1>2, <1>3, <1>4, <1>5 DEF ExpiryNext, ReadExpired, AbortExpiry

LEMMA StepTodoIsDue ==
  ASSUME EInv, [EndStep]_vars, DueMoves
  PROVE  TodoIsDue'
<1>1. ASSUME expiry' = expiry, ~CloseExpired PROVE TodoIsDue'
  <2>1. \A p \in expiry.todo : p \in Ordered /\ permits[p].due = TRUE
    BY DEF EInv, IInv, Snapshots, TodoIsDue
  <2> QED
    BY <1>1, <2>1 DEF TodoIsDue, DueMoves, EInv
<1>2. CASE CloseExpired
  <2>1. /\ expiry'.todo = expiry.todo /\ expiry'.step = "closed"
        /\ expiry.step = "orders" /\ expiry.current \notin expiry.todo
    BY <1>2 DEF CloseExpired, EInv, IInv, TypeOK, ExpiryState, TodoIsDue
  <2> QED
    BY <2>1 DEF TodoIsDue, DueMoves, EInv, IInv, Snapshots
<1>3. ASSUME NEW p \in Permits, CancelOrdersOfExpired(p) PROVE TodoIsDue'
  BY <1>3 DEF CancelOrdersOfExpired, TodoIsDue, EInv
<1>4. CASE ReadExpired
  BY <1>4 DEF ReadExpired, IdleExpiry, TodoIsDue
<1>5. CASE TidyExpired
  <2>1. expiry'.todo = expiry.todo \/ expiry'.todo = {}
    BY <1>5 DEF TidyExpired, IdleExpiry, EInv, IInv, TypeOK, ExpiryState
  <2>2. expiry'.step # "orders"
    BY <1>5 DEF TidyExpired, IdleExpiry, EInv, IInv, TypeOK, ExpiryState
  <2>3. expiry.step # "orders"
    BY <1>5 DEF TidyExpired
  <2> QED
    BY <2>1, <2>2, <2>3 DEF TodoIsDue, DueMoves, EInv, IInv, Snapshots
<1>6. CASE AbortExpiry
  BY <1>6 DEF AbortExpiry, IdleExpiry, TodoIsDue
<1>7. CASE UNCHANGED vars
  BY <1>7 DEF vars, TodoIsDue, EInv
<1>8. PurchaseNext \/ UpdateNext \/ EndNext => expiry' = expiry
  BY DEF PurchaseNext, UpdateNext, EndNext, CreatePermit, DeletePermit, CreateOrder,
         GetPermits, TogglePrimary, UpdateDraftAddress, EndPermitsOfCustomer
<1>9. TalpaNext \/ (\E p \in Permits : BecomesDue(p)) => expiry' = expiry
  BY DEF TalpaNext, PurchaseTimePasses, TalpaPays, TalpaCancels, PaymentPaid,
         PaymentFailed, OrderCancelled, BecomesDue
<1> QED
  BY <1>1, <1>2, <1>3, <1>4, <1>5, <1>6, <1>7, <1>8, <1>9 DEF EndStep, ExpiryNext

LEMMA StepEInv ==
  ASSUME EInv, [EndStep]_vars
  PROVE  EInv' /\ RunningMoves
<1>1. RunningMoves /\ DueMoves /\ NoRequests'
  <2>1. CASE UNCHANGED vars
    BY <2>1 DEF vars, RunningMoves, Running, DueMoves, Ordered, NoRequests, EInv
  <2> QED
    BY <2>1, PurchaseRuns, EndRuns, TalpaRuns, ExpiryRuns DEF EndStep
<1>2. IInv'
  BY StepIInv, EndStepIsStep DEF EInv
<1> QED
  BY <1>1, <1>2, StepTodoIsDue DEF EInv

\* As long as no job writes back an order that was paid since it was read, a permit that
\* is valid and was not asked to end has an order that is confirmed: what ends one permit
\* of an order cancels the order only if no other permit of it is valid.
THEOREM ValidPermitsHaveConfirmedOrder == EndSpec => []ValidHasConfirmedOrder
<1>1. Init => EInv /\ ValidHasConfirmedOrder
  <2>1. Init => TodoIsDue /\ NoRequests /\ ValidHasConfirmedOrder
    BY DEF Init, TodoIsDue, NoRequests, NoOrder, IdleExpiry, ValidHasConfirmedOrder, Valid,
           WithStatus, NoPermit
  <2> QED
    BY <2>1, InitIInv DEF EInv
<1>2. EInv /\ ValidHasConfirmedOrder /\ [EndStep]_vars => EInv' /\ ValidHasConfirmedOrder'
  <2> SUFFICES ASSUME EInv, ValidHasConfirmedOrder, [EndStep]_vars
               PROVE  EInv' /\ ValidHasConfirmedOrder'
    OBVIOUS
  <2>1. EInv' /\ RunningMoves
    BY StepEInv
  <2>2. OrderMoves
    BY EndStepIsStep, StepMoves DEF EInv
  <2>3. \A o \in Orders : orders[o].permits # {} => orders'[o].permits = orders[o].permits
    <3> SUFFICES ASSUME NEW o \in Orders, orders[o].permits # {}
                 PROVE  orders'[o].permits = orders[o].permits
      OBVIOUS
    <3>1. orders[o].status # "NONE"
      BY DEF EInv, IInv, FreshOrders, NoOrder
    <3> QED
      BY <2>2, <3>1 DEF OrderMoves, OrderUpdated, OrderInserted, IsNextOrderId
  <2>4. \A p \in Permits : OrdersOf(p) \subseteq OrdersOf(p)'
    BY <2>3 DEF OrdersOf
  <2>5. \A p \in Permits : Running(p) => \E o \in OrdersOf(p) : orders[o].status = "CONFIRMED"
    BY DEF ValidHasConfirmedOrder, Valid, WithStatus, Running
  <2> QED
    BY <2>1, <2>4, <2>5 DEF RunningMoves, Running, ValidHasConfirmedOrder, Valid, WithStatus
<1> QED
  BY <1>1, <1>2, PTL DEF EndSpec, EndStep

(***************************************************************************)
(* Refinement                                                              *)
(***************************************************************************)
LEMMA LifecycleInit == Init => Lifecycle!Init
<1> SUFFICES ASSUME Init PROVE Lifecycle!Init
  OBVIOUS
<1>1. \A p \in Permits : permits[p].status = "NONE"
  BY DEF Init, NoPermit
<1>2. StageOf("NONE") = "absent"
  BY DEF StageOf, DraftStatuses
<1>3. \A o \in Orders : orders[o].permits = {}
  BY DEF Init, NoOrder
<1>4. \A p \in Permits : ~PaidFor(p)
  BY <1>3 DEF PaidFor, OrdersOf
<1> QED
  BY <1>1, <1>2, <1>4, Zenon DEF Lifecycle!Init

LEMMA PaidWasOrdered ==
  ASSUME IInv, OrderMoves, NEW p \in Permits, PaidFor(p)'
  PROVE  PaidFor(p) \/ p \in Ordered
<1>1. PICK o \in Orders : p \in orders'[o].permits /\ orders'[o].paid
  BY DEF PaidFor, OrdersOf
<1>2. p \in orders[o].permits
  BY <1>1 DEF OrderMoves, OrderUpdated, OrderInserted
<1> QED
  BY <1>2 DEF IInv, OrderedNotDraft

LEMMA PaidIsOrdered ==
  ASSUME IInv, NEW p \in Permits, PaidFor(p)
  PROVE  p \in Ordered
  BY DEF IInv, OrderedNotDraft, PaidFor, OrdersOf

\* The system implements PermitLifecycle: a permit is deleted only while it is a
\* draft, never becomes a draft again, and becomes valid only after a payment for it.
THEOREM LifecycleIsImplemented == Spec => ImplementsLifecycle
<1> DEFINE stage == [p \in Permits |-> StageOf(permits[p].status)]
           paid == {p \in Permits : PaidFor(p)}
<1>1. IInv /\ [Next]_vars => [Lifecycle!Next]_<<stage, paid>>
  <2> SUFFICES ASSUME IInv, [Next]_vars PROVE Lifecycle!Next
    OBVIOUS
  <2>1. PermitMoves /\ OrderMoves /\ IInv'
    BY StepMoves, StepIInv
  <2>2. \A p \in Permits : permits[p] \in PermitRow /\ permits'[p] \in PermitRow
    BY <2>1 DEF IInv, TypeOK
  <2>3. stage' \in [Permits -> Lifecycle!Stages]
    BY <2>2 DEF Lifecycle!Stages, StageOf
  <2>4. ASSUME NEW p \in Permits PROVE stage'[p] \in Lifecycle!Reachable(p)
    <3>1. PermitMove(p, permits[p].status, permits'[p].status)
      BY <2>1 DEF PermitMoves
    <3>2. PaidFor(p) => p \in Ordered
      BY PaidIsOrdered
    <3> QED
      BY <2>2, <3>1, <3>2 DEF PermitMove, Lifecycle!Reachable, StageOf, DraftStatuses,
         Ordered, PermitRow
  <2>5. paid \subseteq paid'
    BY <2>1, PaidStays
  <2>6. paid' \subseteq paid \cup {p \in Permits : stage[p] \notin {"absent", "draft"}}
    BY <2>1, PaidWasOrdered DEF Ordered, StageOf
  <2> QED
    BY <2>3, <2>4, <2>5, <2>6 DEF Lifecycle!Next
<1> QED
  BY <1>1, LifecycleInit, Invariant, PTL DEF Spec, ImplementsLifecycle, Lifecycle!Spec

(***************************************************************************)
(* The office and the shop together: from here on, OfficeSpec.             *)
(***************************************************************************)

(***************************************************************************)
(* Refunds                                                                 *)
(***************************************************************************)
(* The statuses a refund has had: a stale save can only give it one of those again. *)
RefundInv ==
    /\ refunds \in [Refunds -> RefundRow]
    /\ \A r \in Refunds :
        /\ refunds[r].status \in refunds[r].past \cup {"NONE"}
        /\ "ACCEPTED" \in refunds[r].past => "REQUEST_FOR_APPROVAL" \in refunds[r].past

LEMMA RefundInvInit == OfficeInit => RefundInv
  BY DEF OfficeInit, RefundInv, RefundRow, RefundStatus, NoRefund

LEMMA MayRefundKeeps ==
  ASSUME RefundInv, UNCHANGED refunds \/ CreateRefund
  PROVE  RefundInv'
<1>1. CASE UNCHANGED refunds
  BY <1>1 DEF RefundInv
<1>2. CASE CreateRefund
  <2>1. PICK r \in Refunds : refunds' = [refunds EXCEPT ![r] = GivenStatus(@, "OPEN")]
    BY <1>2 DEF CreateRefund
  <2> QED
    BY <2>1 DEF RefundInv, RefundRow, RefundStatus, GivenStatus
<1> QED
  BY <1>1, <1>2

LEMMA RequestForApprovalKeeps ==
  ASSUME RefundInv, NEW ids \in SUBSET Refunds, RequestForApproval(ids)
  PROVE  RefundInv'
  BY DEF RequestForApproval, GiveStatus, GivenStatus, RefundInv, RefundRow, RefundStatus

LEMMA AcceptRefundsKeeps ==
  ASSUME RefundInv, NEW ids \in SUBSET Refunds, AcceptRefunds(ids)
  PROVE  RefundInv'
  BY DEF AcceptRefunds, GiveStatus, GivenStatus, RefundInv, RefundRow, RefundStatus

LEMMA UpdateRefundKeeps ==
  ASSUME RefundInv, NEW r \in Refunds, UpdateRefund(r)
  PROVE  RefundInv'
<1>1. PICK status \in refunds[r].past : refunds' = [refunds EXCEPT ![r] = GivenStatus(@, status)]
  BY DEF UpdateRefund
<1> QED
  BY <1>1 DEF RefundInv, RefundRow, GivenStatus

LEMMA RefundSteps ==
  ASSUME OfficeNext
  PROVE  \/ UNCHANGED refunds \/ CreateRefund
         \/ \E ids \in SUBSET Refunds : RequestForApproval(ids) \/ AcceptRefunds(ids)
         \/ \E r \in Refunds : UpdateRefund(r)
<1>1. ASSUME NEW p \in Permits, NEW vehicle \in Vehicles, NEW zone \in Zones,
             \/ \E status \in GivenStatuses : CreateResidentPermit(p, vehicle, zone, status)
             \/ \E status \in EditedStatuses :
                    UpdateResidentPermit(p, vehicle, zone, status)
             \/ ImportPermit(p, vehicle, zone)
      PROVE  UNCHANGED refunds \/ CreateRefund
  BY <1>1 DEF CreateResidentPermit, UpdateResidentPermit, ImportPermit
<1>2. ASSUME NEW p \in Permits, OpenForm(p) \/ ExtendByOffice(p)
      PROVE  UNCHANGED refunds
  BY <1>2 DEF OpenForm, ExtendByOffice
<1>3. ASSUME NEW p \in Permits, NEW endType \in EndTypes, EndByOffice(p, endType)
      PROVE  UNCHANGED refunds \/ CreateRefund
  BY <1>3 DEF EndByOffice, MayRefund
<1> QED
  BY <1>1, <1>2, <1>3 DEF OfficeNext

LEMMA OfficeStepKeeps ==
  ASSUME RefundInv, OfficeNext
  PROVE  RefundInv'
  BY RefundSteps, MayRefundKeeps, RequestForApprovalKeeps, AcceptRefundsKeeps,
     UpdateRefundKeeps

(***************************************************************************)
(* A refund is accepted only after its approval was asked for: by the      *)
(* mutations of refunds in admin_resolvers.py, with any number of refunds  *)
(* and any interleaving with saves of rows that were read earlier.         *)
(***************************************************************************)
THEOREM AcceptedWasAskedAlways == OfficeSpec => []AcceptedWasAsked
<1>1. RefundInv /\ [OfficeNext \/ ShopNext]_allVars => RefundInv'
  <2> SUFFICES ASSUME RefundInv, [OfficeNext \/ ShopNext]_allVars PROVE RefundInv'
    OBVIOUS
  <2>1. CASE OfficeNext
    BY <2>1, OfficeStepKeeps
  <2>2. CASE ShopNext
    BY <2>2 DEF ShopNext, RefundInv
  <2>3. CASE UNCHANGED allVars
    BY <2>3 DEF allVars, office, RefundInv
  <2> QED
    BY <2>1, <2>2, <2>3
<1>2. RefundInv => AcceptedWasAsked
  BY DEF RefundInv, AcceptedWasAsked
<1> QED
  BY RefundInvInit, <1>1, <1>2, PTL DEF OfficeSpec

(***************************************************************************)
(* Type correctness                                                        *)
(***************************************************************************)
LEMMA OrderAtCounterType ==
  ASSUME TypeOK, NEW S \in SUBSET Permits, NEW request \in RequestStatus \cup {"NONE"},
         OrderAtCounter(S, request), counter \subseteq Orders
  PROVE  orders' \in [Orders -> OrderRow] /\ counter' \subseteq Orders
<1>1. PICK o \in Orders :
        /\ orders' = [orders EXCEPT ![o] =
                        [NewOrder("CONFIRMED", "CREATED", S, request) EXCEPT !.paid = TRUE]]
        /\ counter' = counter \cup {o}
  BY DEF OrderAtCounter
<1>2. [NewOrder("CONFIRMED", "CREATED", S, request) EXCEPT !.paid = TRUE] \in OrderRow
  BY NewOrderType, OrderColumns
<1> QED
  BY <1>1, <1>2 DEF TypeOK

LEMMA CreateResidentPermitType ==
  ASSUME OfficeTypeOK, NEW p \in Permits, NEW vehicle \in Vehicles, NEW zone \in Zones,
         NEW status \in GivenStatuses, CreateResidentPermit(p, vehicle, zone, status)
  PROVE  TypeOK' /\ counter' \subseteq Orders
<1>1. PICK due \in {FALSE, \E q \in Active : permits[q].due} :
        permits' = [permits EXCEPT ![p] =
            [@ EXCEPT !.status = status, !.vehicle = vehicle, !.zone = zone,
                      !.primary = (Active = {}), !.due = due]]
  BY DEF CreateResidentPermit
<1>2. status \in ParkingPermitStatus
  BY GivenAssumption DEF ParkingPermitStatus
<1>3. permits[p] \in PermitRow /\ due \in BOOLEAN /\ (Active = {}) \in BOOLEAN
  BY DEF OfficeTypeOK, TypeOK
<1>4. ASSUME NEW b \in BOOLEAN
      PROVE  [permits[p] EXCEPT !.status = status, !.vehicle = vehicle, !.zone = zone,
                                !.primary = b, !.due = due] \in PermitRow
  BY <1>2, <1>3 DEF PermitRow
<1>5. permits' \in [Permits -> PermitRow]
  BY <1>1, <1>3, <1>4 DEF OfficeTypeOK, TypeOK
<1>6. orders' \in [Orders -> OrderRow] /\ counter' \subseteq Orders
  BY OrderAtCounterType DEF CreateResidentPermit, OfficeTypeOK, TypeOK
<1> QED
  BY <1>5, <1>6 DEF CreateResidentPermit, OfficeTypeOK, TypeOK

(* What an edit of p writes: the row of p alone may get another status or vehicle. *)
LEMMA UpdatedType ==
  ASSUME OfficeTypeOK, NEW p \in Permits, NEW vehicle \in Vehicles, NEW zone \in Zones,
         NEW status \in EditedStatuses, NEW ps \in Updated(p, vehicle, zone, status)
  PROVE  /\ ps \in [Permits -> PermitRow]
         /\ MaySave(ps, p)
         /\ ps[p].status = status
         /\ \A q \in Permits \ {p} : /\ ps[q].status = permits[q].status
                                     /\ ps[q].vehicle = permits[q].vehicle
<1> DEFINE table == [q \in Permits |->
             [permits[q] EXCEPT !.status = IF q = p THEN status ELSE @,
                                !.vehicle = IF q = p THEN vehicle ELSE @,
                                !.zone = IF q \in Active THEN zone ELSE @]]
<1>1. ps \in ClearFlags(table, {p}) /\ MaySave(ps, p)
  BY DEF Updated
<1>2. ASSUME NEW q \in Permits
      PROVE  /\ table[q] \in PermitRow
             /\ table[q].status = (IF q = p THEN status ELSE permits[q].status)
             /\ table[q].vehicle = (IF q = p THEN vehicle ELSE permits[q].vehicle)
  <2> DEFINE given == IF q = p THEN status ELSE permits[q].status
             car == IF q = p THEN vehicle ELSE permits[q].vehicle
             home == IF q \in Active THEN zone ELSE permits[q].zone
  <2>1. permits[q] \in PermitRow
    BY DEF OfficeTypeOK, TypeOK
  <2>2. /\ given \in ParkingPermitStatus \cup {"NONE"}
        /\ car \in Vehicles \cup {None}
        /\ home \in Zones \cup {None}
    BY <2>1, EditedAssumption DEF PermitRow
  <2>3. table[q] = [permits[q] EXCEPT !.status = given, !.vehicle = car, !.zone = home]
    OBVIOUS
  <2> HIDE DEF given, car, home, table
  <2>4. table[q] \in PermitRow /\ table[q].status = given /\ table[q].vehicle = car
    BY <2>1, <2>2, <2>3 DEF PermitRow
  <2> QED
    BY <2>4 DEF given, car
<1>3. table \in [Permits -> PermitRow]
  <2>1. table = [q \in Permits |-> table[q]]
    OBVIOUS
  <2> HIDE DEF table
  <2> QED
    BY <1>2, <2>1
<1> HIDE DEF table
<1> QED
  BY <1>1, <1>2, <1>3, ClearFlagsType, FlagsKeepRest

LEMMA UpdateResidentPermitType ==
  ASSUME OfficeTypeOK, NEW p \in Permits, NEW vehicle \in Vehicles, NEW zone \in Zones,
         NEW status \in EditedStatuses, UpdateResidentPermit(p, vehicle, zone, status)
  PROVE  TypeOK' /\ counter' \subseteq Orders
<1>1. permits' \in [Permits -> PermitRow]
  BY UpdatedType DEF UpdateResidentPermit
<1>2. orders' \in [Orders -> OrderRow] /\ counter' \subseteq Orders
  <2>1. \/ UNCHANGED <<orders, counter>>
        \/ \E S \in SUBSET Permits : OrderAtCounter(S, "NONE")
    BY DEF UpdateResidentPermit
  <2> QED
    BY <2>1, OrderAtCounterType DEF OfficeTypeOK, TypeOK
<1> QED
  BY <1>1, <1>2 DEF UpdateResidentPermit, OfficeTypeOK, TypeOK

LEMMA ImportPermitType ==
  ASSUME OfficeTypeOK, NEW p \in Permits, NEW vehicle \in Vehicles, NEW zone \in Zones,
         ImportPermit(p, vehicle, zone)
  PROVE  TypeOK' /\ counter' \subseteq Orders
<1>1. [NoPermit EXCEPT !.status = "VALID", !.vehicle = vehicle, !.zone = zone,
                       !.primary = TRUE] \in PermitRow
  BY DEF NoPermit, PermitRow
<1>2. permits' \in [Permits -> PermitRow]
  BY <1>1 DEF ImportPermit, OfficeTypeOK, TypeOK
<1>3. orders' \in [Orders -> OrderRow] /\ counter' \subseteq Orders
  BY OrderAtCounterType DEF ImportPermit, OfficeTypeOK
<1> QED
  BY <1>2, <1>3 DEF ImportPermit, OfficeTypeOK, TypeOK

LEMMA ExtendByOfficeType ==
  ASSUME OfficeTypeOK, NEW p \in Permits, ExtendByOffice(p)
  PROVE  TypeOK' /\ counter' \subseteq Orders
<1>1. permits' \in [Permits -> PermitRow]
  BY ClearFlagsType DEF ExtendByOffice, OfficeTypeOK, TypeOK
<1>2. orders' \in [Orders -> OrderRow] /\ counter' \subseteq Orders
  BY OrderAtCounterType DEF ExtendByOffice, OfficeTypeOK
<1> QED
  BY <1>1, <1>2 DEF ExtendByOffice, OfficeTypeOK, TypeOK

LEMMA EndByOfficeType ==
  ASSUME OfficeTypeOK, NEW p \in Permits, NEW endType \in EndTypes, EndByOffice(p, endType)
  PROVE  TypeOK' /\ counter' \subseteq Orders
<1>1. endType \in ParkingPermitEndType
  BY EndTypesAssumption
<1>2. permits' \in [Permits -> PermitRow]
  BY <1>1, EndPermitsType DEF EndByOffice, OfficeTypeOK, TypeOK
<1>3. orders' \in [Orders -> OrderRow]
  BY CancelOrdersType, CancelPendingType DEF EndByOffice, OfficeTypeOK, TypeOK
<1> QED
  BY <1>2, <1>3 DEF EndByOffice, OfficeTypeOK, TypeOK

LEMMA OfficeNextType ==
  ASSUME OfficeTypeOK, OfficeNext
  PROVE  TypeOK' /\ counter' \subseteq Orders
<1>1. ASSUME UNCHANGED <<vars, counter>>
      PROVE  TypeOK' /\ counter' \subseteq Orders
  BY <1>1 DEF OfficeTypeOK, TypeOK, vars
<1>2. ASSUME \/ \E p \in Permits : OpenForm(p)
             \/ \E ids \in SUBSET Refunds : RequestForApproval(ids) \/ AcceptRefunds(ids)
             \/ \E r \in Refunds : UpdateRefund(r)
      PROVE  UNCHANGED <<vars, counter>>
  BY <1>2 DEF OpenForm, RequestForApproval, AcceptRefunds, GiveStatus, UpdateRefund
<1> QED
  BY <1>1, <1>2, CreateResidentPermitType, UpdateResidentPermitType, ImportPermitType,
     ExtendByOfficeType, EndByOfficeType DEF OfficeNext

LEMMA ShopNextType ==
  ASSUME OfficeTypeOK, ShopNext
  PROVE  TypeOK' /\ counter' \subseteq Orders
<1>1. CustomerNext \/ TalpaNext
  BY DEF ShopNext, CustomerNext, TalpaNext
<1> QED
  BY <1>1, CustomerType, TalpaType DEF ShopNext, OfficeTypeOK

(***************************************************************************)
(* How one step may change the rows                                        *)
(***************************************************************************)
OrderGrows(old, new) ==
    \/ new = old
    \/ /\ new.status # "NONE"
       /\ old.status # "NONE" => new.permits = old.permits /\ (old.paid => new.paid)

OrdersGrow == \A o \in Orders : OrderGrows(orders[o], orders'[o])

(* A permit becomes VALID because an edit says so, or because it is paid for. *)
OfficeMoves ==
    /\ OrdersGrow
    /\ \A p \in Permits :
        permits[p].status # "VALID" /\ permits'[p].status = "VALID" =>
            PaidFor(p)' \/ EditMadeValid(p)
    /\ VehicleMoves

LEMMA OrderAtCounterMoves ==
  ASSUME TypeOK, NEW S \in SUBSET Permits, NEW request, OrderAtCounter(S, request)
  PROVE  OrdersGrow /\ \A p \in S : PaidFor(p)'
<1>1. PICK o \in Orders :
        /\ IsNextOrderId(o)
        /\ orders' = [orders EXCEPT ![o] =
                        [NewOrder("CONFIRMED", "CREATED", S, request) EXCEPT !.paid = TRUE]]
  BY DEF OrderAtCounter
<1>2. /\ orders'[o].permits = S
      /\ orders'[o].paid
      /\ orders'[o].status = "CONFIRMED"
      /\ \A k \in Orders \ {o} : orders'[k] = orders[k]
  BY <1>1 DEF NewOrder, TypeOK
<1> QED
  BY <1>1, <1>2 DEF OrdersGrow, OrderGrows, IsNextOrderId, PaidFor, OrdersOf

LEMMA CreateResidentPermitMoves ==
  ASSUME OfficeTypeOK, NEW p \in Permits, NEW vehicle \in Vehicles, NEW zone \in Zones,
         NEW status \in GivenStatuses, CreateResidentPermit(p, vehicle, zone, status)
  PROVE  OfficeMoves
<1>1. /\ permits'[p].status = status
      /\ \A q \in Permits \ {p} : permits'[q] = permits[q]
  BY DEF CreateResidentPermit, OfficeTypeOK, TypeOK, PermitRow
<1>2. VehicleMoves
  BY <1>1 DEF CreateResidentPermit, VehicleMoves
<1>3. OrdersGrow /\ (status = "VALID" => PaidFor(p)')
  BY OrderAtCounterMoves DEF CreateResidentPermit, OfficeTypeOK, OrdersGrow, OrderGrows
<1> QED
  BY <1>1, <1>2, <1>3 DEF OfficeMoves

LEMMA UpdateResidentPermitMoves ==
  ASSUME OfficeTypeOK, NEW p \in Permits, NEW vehicle \in Vehicles, NEW zone \in Zones,
         NEW status \in EditedStatuses, UpdateResidentPermit(p, vehicle, zone, status)
  PROVE  OfficeMoves
<1>1. /\ permits'[p].status = status
      /\ MaySave(permits', p)
      /\ \A q \in Permits \ {p} : /\ permits'[q].status = permits[q].status
                                  /\ permits'[q].vehicle = permits[q].vehicle
  BY UpdatedType DEF UpdateResidentPermit
<1>2. VehicleMoves
  BY <1>1 DEF VehicleMoves
<1>3. OrdersGrow
  <2>1. \/ UNCHANGED orders
        \/ \E S \in SUBSET Permits : OrderAtCounter(S, "NONE")
    BY DEF UpdateResidentPermit
  <2> QED
    BY <2>1, OrderAtCounterMoves DEF OfficeTypeOK, OrdersGrow, OrderGrows
<1>4. status = "VALID" => EditMadeValid(p)
  BY DEF EditMadeValid
<1> QED
  BY <1>1, <1>2, <1>3, <1>4 DEF OfficeMoves

LEMMA ImportPermitMoves ==
  ASSUME OfficeTypeOK, NEW p \in Permits, NEW vehicle \in Vehicles, NEW zone \in Zones,
         ImportPermit(p, vehicle, zone)
  PROVE  OfficeMoves
<1>1. \A q \in Permits \ {p} : permits'[q] = permits[q]
  BY DEF ImportPermit, OfficeTypeOK, TypeOK
<1>2. VehicleMoves
  BY <1>1 DEF ImportPermit, VehicleMoves
<1>3. OrdersGrow /\ PaidFor(p)'
  BY OrderAtCounterMoves DEF ImportPermit, OfficeTypeOK
<1> QED
  BY <1>1, <1>2, <1>3 DEF OfficeMoves, ImportPermit

LEMMA ExtendByOfficeMoves ==
  ASSUME OfficeTypeOK, NEW p \in Permits, ExtendByOffice(p)
  PROVE  OfficeMoves
<1>1. \A q \in Permits : /\ permits'[q].status = permits[q].status
                         /\ permits'[q].vehicle = permits[q].vehicle
  BY FlagsKeepRest DEF ExtendByOffice, OfficeTypeOK, TypeOK
<1>2. OrdersGrow
  BY OrderAtCounterMoves DEF ExtendByOffice, OfficeTypeOK
<1> QED
  BY <1>1, <1>2 DEF OfficeMoves, VehicleMoves, ExtendByOffice

LEMMA CancelledGrow ==
  ASSUME TypeOK, FreshOrders, NEW S, NEW T, NEW refused, NEW told,
         \A o \in S : orders[o].status # "NONE",
         orders' = CancelPending(CancelOrders(S, refused, told), T)
  PROVE  OrdersGrow
<1> DEFINE os == CancelOrders(S, refused, told)
<1>1. os \in [Orders -> OrderRow]
  BY CancelOrdersType DEF TypeOK
<1>2. ASSUME NEW o \in Orders
      PROVE  /\ os[o].permits = orders[o].permits /\ os[o].paid = orders[o].paid
             /\ os[o].status # orders[o].status => os[o].status = "CANCELLED"
             /\ orders[o].status = "NONE" => os[o] = orders[o]
  BY DEF CancelOrders, TypeOK, OrderRow
<1>3. \A o \in Orders :
        orders'[o] = os[o] \/ (os[o].request = "PENDING" /\ orders'[o] = [os[o] EXCEPT !.request = "CANCELLED"])
  BY DEF CancelPending
<1> HIDE DEF os
<1> SUFFICES ASSUME NEW o \in Orders PROVE OrderGrows(orders[o], orders'[o])
  BY DEF OrdersGrow
<1>4. os[o] \in OrderRow
  BY <1>1
<1>5. CASE orders[o].status = "NONE"
  <2>1. orders[o] = NoOrder /\ os[o] = orders[o]
    BY <1>2, <1>5 DEF FreshOrders
  <2>2. os[o].request = "NONE"
    BY <2>1 DEF NoOrder
  <2> QED
    BY <1>3, <2>1, <2>2 DEF OrderGrows
<1>6. CASE orders[o].status # "NONE"
  <2>1. /\ orders'[o].permits = os[o].permits /\ orders'[o].paid = os[o].paid
        /\ orders'[o].status = os[o].status
    BY <1>3, <1>4 DEF OrderRow
  <2> QED
    BY <1>2, <1>6, <2>1 DEF OrderGrows
<1> QED
  BY <1>5, <1>6

LEMMA EndByOfficeMoves ==
  ASSUME OfficeTypeOK, FreshOrders, NEW p \in Permits, NEW endType \in EndTypes,
         EndByOffice(p, endType)
  PROVE  OfficeMoves
<1> DEFINE toCancel == OrdersToCancel({p}, endType)
<1>1. \A o \in toCancel : orders[o].status # "NONE"
  BY DEF OrdersToCancel, FreshOrders, NoOrder
<1>2. OrdersGrow
  <2>1. PICK refused \in SUBSET toCancel, told \in SUBSET toCancel :
          orders' = CancelPending(CancelOrders(toCancel, refused, told), OrdersOf(p))
    BY DEF EndByOffice
  <2> HIDE DEF toCancel
  <2> QED
    BY <1>1, <2>1, CancelledGrow DEF OfficeTypeOK
<1>3. \A q \in Permits : /\ permits'[q].status \in {permits[q].status, "CLOSED"}
                         /\ permits'[q].vehicle = permits[q].vehicle
  BY DEF EndByOffice, EndPermits, OfficeTypeOK, TypeOK, PermitRow
<1>4. VehicleMoves
  BY <1>3 DEF VehicleMoves, LiveStatuses, DraftStatuses, ActiveStatuses
<1> QED
  BY <1>2, <1>3, <1>4 DEF OfficeMoves, EndByOffice

LEMMA OfficeNextMoves ==
  ASSUME OfficeTypeOK, FreshOrders, OfficeNext
  PROVE  OfficeMoves
<1>1. ASSUME \/ \E p \in Permits : OpenForm(p)
             \/ \E ids \in SUBSET Refunds : RequestForApproval(ids) \/ AcceptRefunds(ids)
             \/ \E r \in Refunds : UpdateRefund(r)
      PROVE  OfficeMoves
  <2>1. permits' = permits /\ orders' = orders
    BY <1>1 DEF OpenForm, RequestForApproval, AcceptRefunds, GiveStatus, UpdateRefund, vars
  <2> QED
    BY <2>1 DEF OfficeMoves, OrdersGrow, OrderGrows, VehicleMoves
<1> QED
  BY <1>1, CreateResidentPermitMoves, UpdateResidentPermitMoves, ImportPermitMoves,
     ExtendByOfficeMoves, EndByOfficeMoves DEF OfficeNext

LEMMA BoughtMoves ==
  ASSUME TypeOK, PurchaseNext
  PROVE  /\ OrdersGrow
         /\ \A p \in Permits : permits'[p].status = "VALID" => permits[p].status = "VALID"
<1>0. permits \in [Permits -> PermitRow] /\ orders \in [Orders -> OrderRow]
  BY DEF TypeOK
<1>1. ASSUME NEW p \in Permits, NEW vehicle \in Vehicles, NEW zone \in Zones,
             CreatePermit(p, vehicle, zone)
      PROVE  /\ UNCHANGED orders
             /\ \A q \in Permits : permits'[q].status = "VALID" => permits[q].status = "VALID"
  BY <1>0, <1>1 DEF CreatePermit, NoPermit
<1>2. ASSUME NEW p \in Permits, DeletePermit(p)
      PROVE  /\ UNCHANGED orders
             /\ \A q \in Permits : permits'[q].status = "VALID" => permits[q].status = "VALID"
  <2> DEFINE ps == Delete(permits, {p})
  <2>1. ps \in [Permits -> PermitRow]
    BY <1>0, DeleteType
  <2>2. \A q \in Permits : ps[q] = IF q = p THEN NoPermit ELSE permits[q]
    BY DEF Delete
  <2>3. permits' = ps \/ \E q \in Permits : permits' = [ps EXCEPT ![q].primary = TRUE]
    BY <1>2 DEF DeletePermit, Live, WithStatus
  <2> HIDE DEF ps
  <2>4. \A q \in Permits : permits'[q].status = ps[q].status
    BY <2>1, <2>3 DEF PermitRow
  <2> QED
    BY <1>2, <2>2, <2>4 DEF DeletePermit, NoPermit
<1>3. ASSUME CreateOrder
      PROVE  /\ OrdersGrow
             /\ \A q \in Permits : permits'[q].status = "VALID" => permits[q].status = "VALID"
  <2>1. OrdersGrow
    BY <1>0, <1>3 DEF CreateOrder, IsNextOrderId, NewOrder, OrdersGrow, OrderGrows
  <2> QED
    BY <1>0, <1>3, <2>1, SetStatusKeeps DEF CreateOrder
<1>4. ASSUME NEW old \in SUBSET DraftRows(permits), NEW cancelled \in SUBSET Permits,
             GetPermits(old, cancelled)
      PROVE  /\ OrdersGrow
             /\ \A q \in Permits : permits'[q].status = "VALID" => permits[q].status = "VALID"
  <2> DEFINE ps == Delete(permits, old)
  <2>1. ps \in [Permits -> PermitRow]
    BY <1>0, DeleteType
  <2>2. \A q \in Permits : ps[q] = IF q \in old THEN NoPermit ELSE permits[q]
    BY DEF Delete
  <2>3. permits' = SetStatus(ps, cancelled, "CANCELLED")
    BY <1>4 DEF GetPermits
  <2>4. \A o \in Orders :
          orders'[o] \in {orders[o], [orders[o] EXCEPT !.status = "CANCELLED"]}
    BY <1>4 DEF GetPermits
  <2>5. OrdersGrow
    BY <1>0, <2>4 DEF OrdersGrow, OrderGrows, OrderRow
  <2> HIDE DEF ps
  <2> QED
    BY <2>1, <2>2, <2>3, <2>5, SetStatusKeeps DEF NoPermit
<1>5. UNCHANGED orders => OrdersGrow
  BY DEF OrdersGrow, OrderGrows
<1> QED
  BY <1>1, <1>2, <1>3, <1>4, <1>5 DEF PurchaseNext

LEMMA PaymentPaidGrows ==
  ASSUME TypeOK, NEW o \in Orders, PaymentPaid(o)
  PROVE  /\ OrdersGrow
         /\ \A p \in Permits : permits'[p].status = "VALID" =>
                permits[p].status = "VALID" \/ PaidFor(p)'
<1> DEFINE order == orders[o]
           paid == [p \in Permits |->
                       IF p \in order.permits THEN PaidPermit(permits[p], order.type)
                                              ELSE permits[p]]
<1>1. order \in OrderRow /\ order.type \in OrderType
  BY DEF TypeOK, OrderRow
<1>2. paid \in [Permits -> PermitRow]
  BY <1>1, PaidPermitType DEF TypeOK
<1>3. \A p \in Permits \ order.permits : paid[p] = permits[p]
  OBVIOUS
<1>4. PICK S : permits' \in ClearFlags(paid, S)
  BY DEF PaymentPaid
<1>5. /\ orders'[o].permits = order.permits
      /\ orders'[o].paid
      /\ orders'[o].status = "CONFIRMED"
      /\ \A k \in Orders \ {o} : orders'[k] = orders[k]
  BY <1>1 DEF PaymentPaid, PaidOrder, NotifiesPaid, TypeOK, OrderRow
<1> HIDE DEF paid
<1>6. \A p \in Permits : permits'[p].status = paid[p].status
  BY <1>2, <1>4, FlagsKeepRest
<1> QED
  BY <1>3, <1>5, <1>6 DEF OrdersGrow, OrderGrows, PaidFor, OrdersOf

LEMMA ShopNextMoves ==
  ASSUME OfficeTypeOK, FreshOrders, ShopNext
  PROVE  OfficeMoves
<1>1. VehicleMoves
  BY PurchaseVehicles, UpdateEndVehicles, TalpaVehicles
  DEF ShopNext, TalpaNext, OfficeTypeOK
<1>2. ASSUME ExtendNext PROVE OrdersGrow /\ permits' = permits
  BY <1>2 DEF ExtendNext, RequestExtension, IsNextOrderId, NewOrder, OrdersGrow, OrderGrows,
     OfficeTypeOK, TypeOK
<1>3. ASSUME NEW o \in Orders, TalpaPays(o) PROVE OrdersGrow /\ permits' = permits
  BY <1>3 DEF TalpaPays, OrdersGrow, OrderGrows, OfficeTypeOK, TypeOK, OrderRow
<1>4. ASSUME NEW o \in Orders, PaymentFailed(o) PROVE OrdersGrow /\ permits' = permits
  BY <1>4 DEF PaymentFailed, CancelPending, OrdersGrow, OrderGrows, OfficeTypeOK, TypeOK, OrderRow
<1> QED
  BY <1>1, <1>2, <1>3, <1>4, BoughtMoves, PaymentPaidGrows
  DEF ShopNext, OfficeMoves, OfficeTypeOK

LEMMA OpenedTypeKept ==
  ASSUME OfficeTypeOK, OfficeNext \/ ShopNext
  PROVE  opened' \subseteq Permits
<1>1. \/ UNCHANGED opened
      \/ opened' = FormsLeft
      \/ \E p \in Permits : CloseForm(p) \/ opened' = {p}
  <2>1. ASSUME NEW p \in Permits, NEW vehicle \in Vehicles, NEW zone \in Zones,
               NEW status, CreateResidentPermit(p, vehicle, zone, status)
        PROVE  CloseForm(p)
    BY <2>1 DEF CreateResidentPermit
  <2>2. ASSUME NEW p \in Permits, NEW vehicle \in Vehicles, NEW zone \in Zones,
               \/ ImportPermit(p, vehicle, zone)
               \/ \E status \in EditedStatuses :
                      UpdateResidentPermit(p, vehicle, zone, status)
        PROVE  UNCHANGED opened
    BY <2>2 DEF ImportPermit, UpdateResidentPermit
  <2>3. ASSUME NEW p \in Permits, OpenForm(p)
        PROVE  opened' = {p}
    BY <2>3 DEF OpenForm
  <2>4. ASSUME NEW p \in Permits, ExtendByOffice(p) \/ \E endType \in EndTypes : EndByOffice(p, endType)
        PROVE  UNCHANGED opened
    BY <2>4 DEF ExtendByOffice, EndByOffice
  <2>5. CASE \/ \E ids \in SUBSET Refunds : RequestForApproval(ids) \/ AcceptRefunds(ids)
             \/ \E r \in Refunds : UpdateRefund(r)
    BY <2>5 DEF RequestForApproval, AcceptRefunds, GiveStatus, UpdateRefund
  <2>6. CASE ShopNext
    BY <2>6 DEF ShopNext
  <2> QED
    BY <2>1, <2>2, <2>3, <2>4, <2>5, <2>6 DEF OfficeNext
<1> QED
  BY <1>1 DEF OfficeTypeOK, FormsLeft, CloseForm

LEMMA RefundsTypeKept ==
  ASSUME OfficeTypeOK, OfficeNext \/ ShopNext
  PROVE  refunds' \in [Refunds -> RefundRow]
<1>1. ASSUME UNCHANGED refunds \/ CreateRefund
      PROVE  refunds' \in [Refunds -> RefundRow]
  BY <1>1 DEF CreateRefund, GivenStatus, OfficeTypeOK, RefundRow, RefundStatus
<1>2. ASSUME NEW ids \in SUBSET Refunds, RequestForApproval(ids) \/ AcceptRefunds(ids)
      PROVE  refunds' \in [Refunds -> RefundRow]
  BY <1>2 DEF RequestForApproval, AcceptRefunds, GiveStatus, GivenStatus, OfficeTypeOK,
     RefundRow, RefundStatus
<1>3. ASSUME NEW r \in Refunds, UpdateRefund(r)
      PROVE  refunds' \in [Refunds -> RefundRow]
  BY <1>3 DEF UpdateRefund, GivenStatus, OfficeTypeOK, RefundRow, RefundStatus
<1>4. \/ UNCHANGED refunds \/ CreateRefund
      \/ \E ids \in SUBSET Refunds : RequestForApproval(ids) \/ AcceptRefunds(ids)
      \/ \E r \in Refunds : UpdateRefund(r)
  BY RefundSteps DEF ShopNext
<1> QED
  BY <1>1, <1>2, <1>3, <1>4

(***************************************************************************)
(* The inductive invariant                                                 *)
(***************************************************************************)
OfficeInv == OfficeTypeOK /\ FreshOrders

LEMMA OfficeInitInv == OfficeInit => OfficeInv /\ NoDuplicateVehicle
<1> SUFFICES ASSUME OfficeInit PROVE OfficeInv /\ NoDuplicateVehicle
  OBVIOUS
<1>1. TypeOK
  BY InitType DEF OfficeInit
<1>2. OfficeTypeOK
  BY <1>1 DEF OfficeInit, OfficeTypeOK, RefundRow, RefundStatus, NoRefund
<1> QED
  BY <1>2 DEF OfficeInit, Init, OfficeInv, FreshOrders, NoPermit, NoDuplicateVehicle, Live,
     WithStatus, LiveStatuses, DraftStatuses, ActiveStatuses

LEMMA OfficeStepInv ==
  ASSUME OfficeInv, [OfficeNext \/ ShopNext]_allVars
  PROVE  OfficeInv' /\ OfficeMoves
<1>0. OfficeTypeOK /\ FreshOrders
  BY DEF OfficeInv
<1>1. CASE UNCHANGED allVars
  <2>1. UNCHANGED <<permits, orders, unpaid, expiry, counter, opened, refunds>>
    BY <1>1 DEF allVars, vars, office
  <2>2. OfficeTypeOK'
    BY <1>0, <2>1 DEF OfficeTypeOK, TypeOK
  <2> QED
    BY <2>1, <2>2 DEF OfficeInv, FreshOrders, OfficeMoves, OrdersGrow, OrderGrows, VehicleMoves
<1>2. CASE OfficeNext \/ ShopNext
  <2>1. OfficeMoves
    BY <1>0, <1>2, OfficeNextMoves, ShopNextMoves
  <2>2. TypeOK' /\ counter' \subseteq Orders
    BY <1>0, <1>2, OfficeNextType, ShopNextType
  <2>3. opened' \subseteq Permits
    BY <1>0, <1>2, OpenedTypeKept
  <2>4. refunds' \in [Refunds -> RefundRow]
    BY <1>0, <1>2, RefundsTypeKept
  <2>5. FreshOrders'
    BY <1>0, <2>1 DEF OfficeMoves, OrdersGrow, OrderGrows, FreshOrders
  <2> QED
    BY <2>1, <2>2, <2>3, <2>4, <2>5 DEF OfficeInv, OfficeTypeOK
<1> QED
  BY <1>1, <1>2

(***************************************************************************)
(* Theorems about the permits                                              *)
(***************************************************************************)
\* Every row of the office keeps its type, with the rows of the web shop.
THEOREM OfficeTypeCorrect == OfficeSpec => []OfficeTypeOK
<1>1. OfficeInv /\ [OfficeNext \/ ShopNext]_allVars => OfficeInv'
  BY OfficeStepInv
<1>2. OfficeInv => OfficeTypeOK
  BY DEF OfficeInv
<1> QED
  BY OfficeInitInv, <1>1, <1>2, PTL DEF OfficeSpec

\* Whatever the office and the shop do, in any order and with any status a clerk gives, a
\* permit becomes VALID because it was paid for, at Talpa or at the counter, or by the very
\* edit that says so.
THEOREM UnpaidByEditOnly == OfficeSpec => OnlyEditsAreUnpaid
<1>1. OfficeInv /\ [OfficeNext \/ ShopNext]_allVars => OfficeInv'
  BY OfficeStepInv
<1>2. OfficeInv /\ [OfficeNext \/ ShopNext]_allVars =>
        [\A p \in Permits :
            permits[p].status # "VALID" /\ permits'[p].status = "VALID" =>
                PaidFor(p)' \/ EditMadeValid(p)]_allVars
  BY OfficeStepInv DEF OfficeMoves
<1> QED
  BY OfficeInitInv, <1>1, <1>2, PTL DEF OfficeSpec, OnlyEditsAreUnpaid

\* The clerks' edits, the import and the web shop together never give one vehicle two live
\* permits of the customer, whatever status a clerk gives and whatever form was opened before.
THEOREM OfficeVehiclesAreUnique == OfficeSpec => []NoDuplicateVehicle
<1>1. OfficeInv /\ [OfficeNext \/ ShopNext]_allVars => OfficeInv'
  BY OfficeStepInv
<1>2. OfficeInv /\ NoDuplicateVehicle /\ [OfficeNext \/ ShopNext]_allVars => NoDuplicateVehicle'
  BY OfficeStepInv DEF OfficeMoves, VehicleMoves, NoDuplicateVehicle, Live, WithStatus, MaySave
<1> QED
  BY OfficeInitInv, <1>1, <1>2, PTL DEF OfficeSpec
================================================================================

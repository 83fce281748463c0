----------------------------- MODULE TalpaWebhooks -----------------------------
(***************************************************************************)
(* The payment service Talpa and the webhooks it calls.  Talpa takes a     *)
(* payment only before the purchase time of the order has passed, but the  *)
(* notification may arrive at any later time, after any other event and    *)
(* more than once.  A webhook runs in one transaction; an exception in it  *)
(* (a duplicate vehicle, a missing zone, Parkkihubi) rolls it back and the *)
(* notification has had no effect.                                         *)
(***************************************************************************)
EXTENDS PermitState

(***************************************************************************)
(* Talpa                                                                   *)
(***************************************************************************)
PurchaseTimePasses(o) ==
    /\ orders[o].status # "NONE"
    /\ ~orders[o].late
    /\ orders' = [orders EXCEPT ![o].late = TRUE]
    /\ UNCHANGED <<permits, unpaid, expiry>>

TalpaPays(o) ==
    /\ orders[o].status # "NONE"
    /\ ~orders[o].late /\ ~orders[o].paid /\ ~orders[o].cancelled
    /\ orders' = [orders EXCEPT ![o].paid = TRUE]
    /\ UNCHANGED <<permits, unpaid, expiry>>

\* The customer gives up the checkout.
TalpaCancels(o) ==
    /\ orders[o].status # "NONE"
    /\ ~orders[o].paid /\ ~orders[o].cancelled
    /\ orders' = [orders EXCEPT ![o].cancelled = TRUE]
    /\ UNCHANGED <<permits, unpaid, expiry>>

(***************************************************************************)
(* PaymentView                                                             *)
(***************************************************************************)
\* The order after it has been paid: its pending extension request is approved.
PaidOrder(order) ==
    [order EXCEPT !.status = "CONFIRMED",
                  !.request = IF @ = "PENDING" THEN "APPROVED" ELSE @]

\* Mutant: the permit is given the status of its order.
PaidPermitConfirmed(permit, type) == [permit EXCEPT !.status = "CONFIRMED"]

\* The permit after its order, of the given type, has been paid.
PaidPermit(permit, type) ==
    CASE type = "CREATED" -> [permit EXCEPT !.status = "VALID"]
      [] type = "VEHICLE_CHANGED" ->
            [permit EXCEPT !.status = "VALID", !.nextVehicle = None,
                           !.vehicle = IF permit.nextVehicle = None THEN @
                                       ELSE permit.nextVehicle]
      [] type = "ADDRESS_CHANGED" ->
            [permit EXCEPT !.status = "VALID", !.zone = permit.nextZone, !.nextZone = None]

\* Mutant: any notification about an order counts as its payment.
NotifiesAnything(o) == orders[o].status # "NONE"

\* Talpa sends PAYMENT_PAID only for an order it took the payment of.
NotifiesPaid(o) == orders[o].paid

\* Mutant: the next zone of a permit may be missing.
ZonesNotChecked(o) == TRUE

\* parking_zone is not nullable, so saving a permit without a next zone fails.
ZonesGiven(o) ==
    orders[o].type = "ADDRESS_CHANGED" =>
        \A p \in orders[o].permits : permits[p].nextZone # None

\* PAYMENT_PAID: confirms the order, approves its pending extension request and
\* makes every permit of the order VALID whatever it was.  An approved extension
\* moves the end time, so the permit may no longer be due.
PaymentPaid(o) ==
    LET order == orders[o]
        extended == IF order.request = "PENDING" THEN order.permits ELSE {}
        paid == [p \in Permits |->
                    IF p \in order.permits THEN PaidPermit(permits[p], order.type)
                                           ELSE permits[p]]
    IN  /\ NotifiesPaid(o)
        /\ ZonesGiven(o)
        /\ orders' = [orders EXCEPT ![o] = PaidOrder(@)]
        /\ permits' \in ClearFlags(paid, extended)
        /\ \A p \in order.permits : MaySave(permits', p)
        /\ UNCHANGED <<unpaid, expiry>>

\* Any other payment event gives up the extension request; the answer is 400.
PaymentFailed(o) ==
    /\ orders[o].status # "NONE"
    /\ orders' = CancelPending(orders, {o})
    /\ UNCHANGED <<permits, unpaid, expiry>>

(***************************************************************************)
(* OrderView, ORDER_CANCELLED                                              *)
(***************************************************************************)
\* The permits of the order that were never ended by the customer or by the
\* expiration job with another end type.
PermitsToCancel(o) ==
    {p \in orders[o].permits :
        /\ permits[p].status \in {"DRAFT", "PAYMENT_IN_PROGRESS", "VALID"}
        /\ permits[p].endType = "IMMEDIATELY"}

OrderCancelled(o) ==
    /\ orders[o].cancelled
    /\ \/ /\ PermitsToCancel(o) # {}
          /\ permits' = SetStatus(permits, PermitsToCancel(o), "CANCELLED")
          /\ orders' = [orders EXCEPT ![o].status = "CANCELLED"]
       \/ /\ PermitsToCancel(o) = {}
          /\ orders[o].request = "PENDING"
          /\ orders' = [CancelPending(orders, {o}) EXCEPT ![o].status = "CANCELLED"]
          /\ UNCHANGED permits
    /\ UNCHANGED <<unpaid, expiry>>

TalpaNext ==
    \E o \in Orders :
        \/ PurchaseTimePasses(o)
        \/ TalpaPays(o)
        \/ TalpaCancels(o)
        \/ PaymentPaid(o)
        \/ PaymentFailed(o)
        \/ OrderCancelled(o)
================================================================================

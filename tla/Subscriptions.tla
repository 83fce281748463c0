----------------------------- MODULE Subscriptions -----------------------------
(***************************************************************************)
(* Open-ended permits: the permits of one order, a subscription at Talpa   *)
(* for each, the renewal order Talpa makes every month, and the webhooks,  *)
(* the customer and the nightly job that cancel them and refund what was   *)
(* paid ahead.  Talpa's notifications come late, repeatedly and in any     *)
(* order; a cancellation sent to Talpa may fail.                           *)
(*                                                                         *)
(* Time is counted in months.  The permits start at month 1 and are paid   *)
(* until month 2.  Every item costs the same and covers one month.         *)
(***************************************************************************)
EXTENDS Naturals, FiniteSets

CONSTANTS
    Permits,        \* the open-ended permits of one customer
    MaxOrders,      \* bound on the number of orders
    MaxMonth        \* bound on the time and on the end of a permit

ASSUME BoundsAssumption == MaxOrders \in Nat \ {0} /\ MaxMonth \in Nat \ {0, 1}

VARIABLES
    now,
    permits,        \* the ParkingPermit rows
    orders,         \* the Order rows; order 1 is the purchase
    subscriptions,  \* the status of the Subscription row of each permit
    refunds,        \* how many Refund rows there are for an item
    repeated,       \* the orders whose payment was notified more than once
    prolonged,      \* the permits that were ended so late that ending put off their end
    talpa           \* Talpa: its subscriptions and its orders

rows == <<permits, orders, subscriptions, refunds, repeated, prolonged>>
vars == <<now, rows, talpa>>

Orders == 1..MaxOrders
Items == Orders \X Permits
Months == 0..MaxMonth

OrderStatus == {"NONE", "DRAFT", "CONFIRMED", "CANCELLED"}
SubscriptionStatus == {"NONE", "CONFIRMED", "CANCELLED"}

Start == 1

NoOrder == [status |-> "NONE", permits |-> {}, refunded |-> {}]

TypeOK ==
    /\ now \in Months
    /\ permits \in [Permits -> [status : {"PAYMENT_IN_PROGRESS", "VALID", "CLOSED"}, end : Months]]
    /\ orders \in [Orders -> [status : OrderStatus, permits : SUBSET Permits,
                              refunded : SUBSET Permits]]
    /\ subscriptions \in [Permits -> SubscriptionStatus]
    /\ refunds \in [Items -> Nat]
    /\ repeated \in SUBSET Orders
    /\ prolonged \in SUBSET Permits
    /\ talpa \in [subscriptions : [Permits -> {"NONE", "ACTIVE", "CANCELLED"}],
                  orders : [Orders -> SUBSET Permits], paid : SUBSET Orders]

Init ==
    /\ now = 0
    /\ permits = [p \in Permits |-> [status |-> "PAYMENT_IN_PROGRESS", end |-> Start + 1]]
    /\ orders = [o \in Orders |-> IF o = 1 THEN [NoOrder EXCEPT !.status = "DRAFT", !.permits = Permits]
                                           ELSE NoOrder]
    /\ subscriptions = [p \in Permits |-> "NONE"]
    /\ refunds = [i \in Items |-> 0]
    /\ repeated = {}
    /\ prolonged = {}
    /\ talpa = [subscriptions |-> [p \in Permits |-> "NONE"],
                orders |-> [o \in Orders |-> IF o = 1 THEN Permits ELSE {}], paid |-> {}]

(***************************************************************************)
(* Time and Talpa                                                          *)
(***************************************************************************)
MonthPasses ==
    /\ now < MaxMonth
    /\ now' = now + 1
    /\ UNCHANGED <<rows, talpa>>

\* What Talpa asks before it charges a renewal: whether the Subscription is CONFIRMED.
\* A permit without one has no item Talpa could ask about.
RightOfPurchase(p) == subscriptions[p] = "CONFIRMED"

\* The purchase is paid, within the time of its checkout, and every permit of it gets
\* a subscription; a renewal is charged.
TalpaPays(o) ==
    /\ talpa.orders[o] # {}
    /\ o \notin talpa.paid
    /\ o = 1 => now <= Start
    /\ o # 1 => \A p \in talpa.orders[o] : RightOfPurchase(p)
    /\ talpa' = [talpa EXCEPT !.paid = @ \union {o},
                              !.subscriptions = IF o = 1 THEN [p \in Permits |-> "ACTIVE"] ELSE @]
    /\ UNCHANGED <<now, rows>>

RenewalsAtTalpa(p) == {o \in Orders \ {1} : p \in talpa.orders[o]}

\* In the last month that its orders cover, Talpa makes the order of the next one.
TalpaRenews(p, o) ==
    /\ talpa.subscriptions[p] = "ACTIVE"
    /\ now >= Start + Cardinality(RenewalsAtTalpa(p))
    /\ talpa.orders[o] = {}
    /\ \A i \in Orders : i < o => talpa.orders[i] # {}
    /\ talpa' = [talpa EXCEPT !.orders[o] = {p}]
    /\ UNCHANGED <<now, rows>>

\* The customer cancels it there, or a renewal could not be charged.
TalpaCancels(p) ==
    /\ talpa.subscriptions[p] = "ACTIVE"
    /\ talpa' = [talpa EXCEPT !.subscriptions[p] = "CANCELLED"]
    /\ UNCHANGED <<now, rows>>

(***************************************************************************)
(* Webhooks                                                                *)
(***************************************************************************)
\* Mutant: the first payment adds a month as well.
IsOrder(o) == TRUE

IsRenewal(o) == o # 1

\* PAYMENT_PAID.  A renewal adds a month each time it is notified.
PaymentPaid(o) ==
    /\ o \in talpa.paid
    /\ orders[o].status # "NONE"
    /\ \A p \in orders[o].permits : permits[p].end < MaxMonth - 1
    /\ orders' = [orders EXCEPT ![o].status = "CONFIRMED"]
    /\ permits' = [p \in Permits |->
            IF p \in orders[o].permits
            THEN [permits[p] EXCEPT !.status = "VALID", !.end = IF IsRenewal(o) THEN @ + 1 ELSE @]
            ELSE permits[p]]
    /\ repeated' = IF orders[o].status = "DRAFT" THEN repeated ELSE repeated \union {o}
    /\ UNCHANGED <<now, subscriptions, refunds, prolonged, talpa>>

\* SubscriptionValidator and OrderValidator: Talpa has what the notification is about.
IsValidSubscription(p) == talpa.subscriptions[p] # "NONE"

IsValidOrder(o) == talpa.orders[o] # {}

\* SUBSCRIPTION_CREATED.  The unique Talpa id refuses a second row.
SubscriptionCreated(p) ==
    /\ IsValidSubscription(p)
    /\ subscriptions[p] = "NONE"
    /\ subscriptions' = [subscriptions EXCEPT ![p] = "CONFIRMED"]
    /\ UNCHANGED <<now, permits, orders, refunds, repeated, prolonged, talpa>>

\* SUBSCRIPTION_RENEWAL_ORDER_CREATED.  An order id seen before is ignored.
RenewalOrderCreated(o) ==
    /\ IsRenewal(o)
    /\ IsValidOrder(o)
    /\ orders[o].status = "NONE"
    /\ \A p \in talpa.orders[o] : subscriptions[p] # "NONE"
    /\ orders' = [orders EXCEPT ![o] = [NoOrder EXCEPT !.status = "DRAFT",
                                                      !.permits = talpa.orders[o]]]
    /\ UNCHANGED <<now, permits, subscriptions, refunds, repeated, prolonged, talpa>>

(***************************************************************************)
(* Ending                                                                  *)
(***************************************************************************)
OrdersOf(p) == {o \in Orders : orders[o].status # "NONE" /\ p \in orders[o].permits}

LatestOrder(p) == CHOOSE o \in OrdersOf(p) : \A i \in OrdersOf(p) : i <= o

\* Mutant: the month that has begun can be refunded as well.
CanBeRefundedWhileValid(p) == permits[p].status = "VALID" /\ permits[p].end > now

CanBeRefunded(p) ==
    /\ permits[p].status = "VALID"
    /\ now < Start \/ permits[p].end > now + 1

\* The item of the latest order of each permit that is paid ahead, unless it is refunded.
ItemsToRefund(ended, refunded) ==
    {<<LatestOrder(p), p>> :
        p \in {q \in ended : CanBeRefunded(q) /\ q \notin refunded[LatestOrder(q)]}}

\* Mutant: the current period ends a month before the permit, renewed or not.
EndOfLastMonth(p, endType) ==
    IF endType = "AFTER_CURRENT_PERIOD" THEN permits[p].end - 1 ELSE now

\* In months, the previous day is in the month before.
EndOf(p, endType) ==
    CASE endType = "IMMEDIATELY" -> IF now > Start THEN now ELSE Start
      [] endType = "AFTER_CURRENT_PERIOD" ->
            IF permits[p].end > now + 1 THEN permits[p].end - 1 ELSE permits[p].end
      [] endType = "PREVIOUS_DAY_END" -> now - 1

\* The purchase is cancelled with the last subscription.
HasSubscription(subscribed) == \E p \in orders[1].permits : subscribed[p] = "CONFIRMED"

\* The permits whose items of an order are marked as refunded.
Refunded == [o \in Orders |-> orders[o].refunded]

\* Mutant: the refunded items are not marked.
UnmarkedItems(items) == Refunded

\* create_permit_refunds marks what it refunds.
RefundedItems(items) == [o \in Orders |-> Refunded[o] \union {p \in Permits : <<o, p>> \in items}]

\* end_permits: the refunds, then for each permit Subscription.cancel and the end of the
\* permit.  Subscription.cancel does nothing if Talpa does not validate the order, and
\* goes on if Talpa does not cancel.  In between it refunds what is still unused of the
\* latest order ("again"), but marks the first item of the subscription, the purchase's.
\* Order.cancel validates the order at Talpa once more.
EndPermits(ended, endType, cancelFromTalpa) ==
    \E cancelled \in SUBSET {p \in ended : subscriptions[p] # "NONE"} :
    \E cancelledAtTalpa \in IF cancelFromTalpa THEN SUBSET cancelled ELSE {{}} :
        LET items == ItemsToRefund(ended, Refunded)
            again == ItemsToRefund(cancelled, RefundedItems(items))
            subscribed == [p \in Permits |-> IF p \in cancelled THEN "CANCELLED" ELSE subscriptions[p]]
            hasEnded == cancelled # {} /\ ~HasSubscription(subscribed)
        IN  \E cancelsOrder \in {FALSE, hasEnded} :
            /\ refunds' = [i \in Items |-> refunds[i] + (IF i \in items THEN 1 ELSE 0)
                                                      + (IF i \in again THEN 1 ELSE 0)]
            /\ orders' = [o \in Orders |->
                    [orders[o] EXCEPT
                        !.refunded = RefundedItems(items)[o] \union
                                     (IF o = 1 THEN {i[2] : i \in again} ELSE {}),
                        !.status = IF o = 1 /\ cancelsOrder THEN "CANCELLED" ELSE @]]
            /\ subscriptions' = subscribed
            /\ talpa' = [talpa EXCEPT !.subscriptions =
                    [p \in Permits |-> IF p \in cancelledAtTalpa THEN "CANCELLED" ELSE @[p]]]
            /\ permits' = [p \in Permits |->
                    IF p \in ended
                    THEN [status |-> IF endType = "AFTER_CURRENT_PERIOD" THEN permits[p].status
                                                                        ELSE "CLOSED",
                          end |-> EndOf(p, endType)]
                    ELSE permits[p]]
            /\ prolonged' = prolonged \union {p \in ended : EndOf(p, endType) > permits[p].end}
            /\ UNCHANGED <<now, repeated>>

\* endParkingPermit looks for the permits among the customer's VALID ones and those in
\* payment, overdue or not.
CustomerEnds(ended, endType) ==
    /\ ended # {}
    /\ \A p \in ended : permits[p].status \in {"VALID", "PAYMENT_IN_PROGRESS"}
    /\ EndPermits(ended, endType, TRUE)

\* endPermit of the admin interface takes any permit.
ClerkEnds(p, endType) == EndPermits({p}, endType, TRUE)

\* SUBSCRIPTION_CANCELLED, with any order of the subscription.
SubscriptionCancelled(p, o) ==
    /\ talpa.subscriptions[p] = "CANCELLED"
    /\ o \in OrdersOf(p)
    /\ orders[o].status # "CANCELLED"
    /\ subscriptions[p] = "CONFIRMED"
    /\ permits[p].status # "CLOSED"
    /\ EndPermits({p}, "AFTER_CURRENT_PERIOD", FALSE)

\* Mutant: the job leaves permits with a subscription to Talpa.
ExpireUnsubscribed(p) ==
    /\ permits[p].status = "VALID" /\ permits[p].end < now /\ subscriptions[p] # "CONFIRMED"
    /\ EndPermits({p}, "PREVIOUS_DAY_END", TRUE)

\* automatic_expiration_of_permits
Expire(p) ==
    /\ permits[p].status = "VALID"
    /\ permits[p].end < now
    /\ EndPermits({p}, "PREVIOUS_DAY_END", TRUE)

Next ==
    \/ MonthPasses
    \/ \E o \in Orders : TalpaPays(o) \/ PaymentPaid(o) \/ RenewalOrderCreated(o)
    \/ \E p \in Permits :
        \/ TalpaCancels(p) \/ SubscriptionCreated(p) \/ Expire(p)
        \/ \E o \in Orders : TalpaRenews(p, o) \/ SubscriptionCancelled(p, o)
    \/ \E endType \in {"IMMEDIATELY", "AFTER_CURRENT_PERIOD"} :
        \/ \E ended \in SUBSET Permits : CustomerEnds(ended, endType)
        \/ \E p \in Permits : ClerkEnds(p, endType)

Spec == Init /\ [][Next]_vars

\* Time goes on, and the nightly job reaches every permit.
Fairness == WF_vars(MonthPasses) /\ \A p \in Permits : WF_vars(Expire(p))

FairSpec == Spec /\ Fairness

(***************************************************************************)
(* Properties                                                              *)
(***************************************************************************)
\* No item of an order is refunded twice, although end_permits and Subscription.cancel
\* both refund and mark different items, and a permit can be ended again and again.
RefundedOnce == \A i \in Items : refunds[i] <= 1

\* Talpa notified every payment of the permit once, and no ending came after its end.
IsRegular(p) == OrdersOf(p) \cap repeated = {} /\ p \notin prolonged

\* What is refunded was paid: the order of next month, which nobody paid yet, is not
\* refunded.
RefundedWasPaid ==
    \A i \in Items : refunds[i] > 0 /\ IsRegular(i[2]) => i[1] \in talpa.paid

PaidUntil(p) == Start + 1 + Cardinality(RenewalsAtTalpa(p) \cap talpa.paid)

\* Every month of a permit was paid.
MonthsArePaidFor == \A p \in Permits : IsRegular(p) => permits[p].end <= PaidUntil(p)

\* What an ending takes from a VALID permit is refunded, except for the month that has
\* begun when it is closed at once: can_be_refunded, the items of the latest order and
\* current_period_end_time agree on which month is paid ahead.
EndingRefundsWhatItTakes ==
    [][\A p \in Permits : permits[p].status = "VALID" /\ IsRegular(p) =>
        LET refunded == {o \in Orders : refunds'[<<o, p>>] > refunds[<<o, p>>]}
            begun == IF permits'[p].status = "CLOSED" THEN 1 ELSE 0
        IN  permits'[p].end + Cardinality(refunded) + begun >= permits[p].end]_vars

\* A permit that Talpa no longer renews ends, whether or not Talpa's notification of
\* the cancellation ever arrives.
CancelledSubscriptionEnds ==
    \A p \in Permits : talpa.subscriptions[p] = "CANCELLED" /\ permits[p].status = "VALID"
        ~> permits[p].status # "VALID"
================================================================================

------------------------------ MODULE PermitMoney ------------------------------
(***************************************************************************)
(* One permit and the money paid and refunded for it, while the calendar   *)
(* advances: buying, renewing, extending, changing and ending a permit     *)
(* with the prices and the dates the code computes.  When a payment        *)
(* arrives is the business of PermitOrders; here an order is paid at once. *)
(***************************************************************************)
EXTENDS Prices

CONSTANTS
    Moments,        \* the times at which something may happen
    Starts,         \* the times at which a permit may start
    MonthCounts,    \* the months a customer asks for
    MaxOrders,      \* bound on the number of orders
    MaxChanges      \* bound on the number of changes of zone or vehicle

\* A permit starts on a day that exists.
ASSUME StartsAssumption ==
    \A start \in Starts : start \in Nat /\ DayOf(DateIn(start)) <= DaysIn(MonthOf(DateIn(start)))

\* The clock begins with the first of its times.
ASSUME MomentsAssumption == Moments \subseteq Nat /\ Moments # {}

ASSUME MonthCountsAssumption == MonthCounts \subseteq Int

VARIABLES
    now,
    permit,         \* the ParkingPermit row, None before the purchase
    orders,         \* its orders with their items, oldest first
    changes,        \* the number of changes of its zone or its vehicle
    lowered,        \* refunded because a change lowered the price
    unused          \* refunded because months were left when it ended

vars == <<now, permit, orders, changes, lowered, unused>>

Zones == DOMAIN Products

NoPermit ==
    [contract |-> "FIXED_PERIOD", status |-> "NONE", start |-> 0, end |-> 0, months |-> 0,
     zone |-> "none", lowEmission |-> FALSE, primary |-> TRUE]

Order(extension, items) == [extension |-> extension, status |-> "CONFIRMED", items |-> items]

Init ==
    /\ now = CHOOSE t \in Moments : \A u \in Moments : t <= u
    /\ permit = NoPermit
    /\ orders = <<>>
    /\ changes = 0
    /\ lowered = 0
    /\ unused = 0

PassTime ==
    /\ \E t \in Moments :
        /\ t > now
        /\ \A u \in Moments : u > now => t <= u
        /\ now' = t
    /\ UNCHANGED <<permit, orders, changes, lowered, unused>>

\* create_for_permits for a draft of the given months.
Buy(contract, start, months, zone, lowEmission, primary) ==
    LET count == MonthCountForPrimary(contract, months)
        bought == [contract |-> contract, status |-> "VALID", start |-> start,
                   end |-> GetEndTime(start, count), months |-> count, zone |-> zone,
                   lowEmission |-> lowEmission, primary |-> primary]
    IN  /\ permit.status = "NONE"
        /\ start >= now
        /\ CatalogCovers(zone, LocalDate(start), LocalDate(bought.end))
        /\ permit' = bought
        /\ orders' = <<Order(FALSE, PurchaseItems(bought))>>
        /\ UNCHANGED <<now, changes, lowered, unused>>

\* PAYMENT_PAID of a subscription renewal order.
Renew ==
    /\ IsOpenEnded(permit)
    /\ IsValid(permit)
    /\ orders[1].status = "CONFIRMED"
    /\ Len(orders) < MaxOrders
    /\ now <= permit.end /\ AddMonthsTo(permit.end, -1) <= now
    /\ permit' = RenewOpenEndedPermit(permit)
    /\ LET first == AddDays(LocalDate(permit.end), 1)
           price == ModifiedUnitPrice(GetForDate(permit.zone, first), permit.lowEmission,
                                      permit.primary)
           item == OrderItem(price, price, 1, FromLocal(first, 0),
                             GetEndTime(FromLocal(first, 0), 1))
       IN  orders' = Append(orders, Order(FALSE, <<item>>))
    /\ UNCHANGED <<now, changes, lowered, unused>>

\* An extension, requested by the customer and paid, or made by the back office.
\* Bound: a permit is extended before it is changed, not after.
Extend(months, dateRestriction) ==
    LET items == ExtensionItems(permit, months)
    IN  /\ CanExtend(permit, dateRestriction, now)
        /\ changes = 0
        /\ Len(orders) < MaxOrders
        /\ items # <<>>
        /\ permit' = ExtendPermit(permit, months)
        /\ orders' = Append(orders, Order(TRUE, items))
        /\ UNCHANGED <<now, changes, lowered, unused>>

\* The permit with another zone and vehicle.
Changed(zone, lowEmission) == [permit EXCEPT !.zone = zone, !.lowEmission = lowEmission]

\* A price that falls is refunded, a price that rises is charged with a new order.
Change(zone, lowEmission) ==
    LET total == TotalPriceChange(permit, zone, lowEmission, now)
        items == RenewalItems(Changed(zone, lowEmission), orders, now)
    IN  /\ IsFixedPeriod(permit)
        /\ IsValid(permit)
        /\ changes < MaxChanges
        /\ changes' = changes + 1
        /\ <<zone, lowEmission>> # <<permit.zone, permit.lowEmission>>
        /\ permit' = Changed(zone, lowEmission)
        /\ \/ /\ total <= 0
              /\ lowered' = lowered - total
              /\ UNCHANGED orders
           \/ /\ total > 0
              /\ Len(orders) < MaxOrders
              /\ CatalogCovers(zone, LocalDate(permit.start), LocalDate(permit.end))
              /\ \A i \in 1..Len(items) : items[i].quantity > 0 =>
                    LocalDate(items[i].start) < LocalDate(items[i].end)
              /\ orders' = Append(orders, Order(FALSE, items))
              /\ UNCHANGED lowered
        /\ UNCHANGED <<now, unused>>

\* Mutant: the orders are left as they are.
OrdersAsBefore == orders

\* The orders after the permit ended: refunded items are marked, and an order
\* without another VALID permit is cancelled.
OrdersAfterEnd ==
    LET amount == RefundAmount(permit, orders, now)
        used == UnusedItems(permit, orders, now)
        mark(x) == IF amount > 0 /\ \E i \in 1..Len(used) : used[i].item = x
                   THEN [x EXCEPT !.refunded = TRUE] ELSE x
    IN  [i \in 1..Len(orders) |->
            [orders[i] EXCEPT !.status = "CANCELLED",
                              !.items = [j \in 1..Len(@) |-> mark(@[j])]]]

\* end_permits: refunds first, then the orders, then the permit.
End(endType) ==
    /\ CASE endType = "IMMEDIATELY" -> CanEndImmediately(permit, now)
         [] endType = "AFTER_CURRENT_PERIOD" -> CanEndAfterCurrentPeriod(permit, now)
         [] OTHER -> IsValid(permit) /\ now > permit.end
    /\ unused' = unused + RefundAmount(permit, orders, now)
    /\ orders' = OrdersAfterEnd
    /\ permit' = EndPermit(permit, endType, now)
    /\ UNCHANGED <<now, changes, lowered>>

Next ==
    \/ PassTime
    \/ \E contract \in ContractType, start \in Starts, months \in MonthCounts, zone \in Zones,
          lowEmission, primary \in BOOLEAN :
            Buy(contract, start, months, zone, lowEmission, primary)
    \/ Renew
    \/ \E months \in MonthCounts, dateRestriction \in BOOLEAN : Extend(months, dateRestriction)
    \/ \E zone \in Zones, lowEmission \in BOOLEAN : Change(zone, lowEmission)
    \/ \E endType \in {"IMMEDIATELY", "AFTER_CURRENT_PERIOD", "PREVIOUS_DAY_END"} : End(endType)

Spec == Init /\ [][Next]_vars

(***************************************************************************)
(* Properties                                                              *)
(***************************************************************************)
Charged(order) == SumOver(order.items, LAMBDA x : x.payment * x.quantity)

Paid == SumOver(orders, Charged)

\* What a purchase or an extension was for: a renewed item only charges a difference.
MonthsBought(order) ==
    SumOver(order.items, LAMBDA x : IF x.unit = x.payment THEN x.quantity ELSE 0)

NotEnded == IsValid(permit) /\ orders[1].status = "CONFIRMED"

AsBought == NotEnded /\ IsFixedPeriod(permit) /\ changes = 0

\* The permit starts on a day that every month has.
StartsOnCommonDay == DayOf(LocalDate(permit.start)) <= 28

\* The products of the zone follow each other, the price changes with the first day of
\* a month, and the last price is known until the end of the permit.
PricesChangeWithMonths ==
    LET products == Products[permit.zone]
    IN  /\ \A i \in 1..(Len(products) - 1) :
            /\ products[i].first < products[i + 1].first
            /\ products[i + 1].first = AddDays(products[i].last, 1)
            /\ DayOf(products[i + 1].first) = 1
        /\ LocalDate(permit.end) <= products[Len(products)].last

MonthsRefunded == SumOver(UnusedItems(permit, orders, now), LAMBDA u : u.quantity)

\* However short the months in between, an open-ended permit renewed n times ends
\* n + 1 months after its start: increment_end_time does not lose or gain a month.
OpenEndedEndsInStep ==
    NotEnded /\ IsOpenEnded(permit) => permit.end = GetEndTime(permit.start, Len(orders))

\* The months charged for, split over the products, add up to the months of the
\* permit, however often it is extended, if it starts on a day every month has and
\* prices change with months.
BoughtMonthsAreGranted ==
    AsBought /\ StartsOnCommonDay /\ PricesChangeWithMonths =>
        SumOver(orders, MonthsBought) = permit.months

\* Every item is for days after those of all items before it, in the same order and in
\* earlier ones: an extension is charged from the day after the last one paid for.
NoDayIsPaidForTwice ==
    AsBought /\ PricesChangeWithMonths =>
        \A i, k \in 1..Len(orders) :
            \A j \in 1..Len(orders[i].items), l \in 1..Len(orders[k].items) :
                i < k \/ (i = k /\ j < l) =>
                    LocalDate(orders[k].items[l].start) > LocalDate(orders[i].items[j].end)

\* What end_permits would refund now, computed from the dates of the order items, is
\* the months_left computed from the month count.
RefundIsForMonthsLeft ==
    AsBought /\ StartsOnCommonDay /\ PricesChangeWithMonths =>
        MonthsRefunded = MonthsLeft(permit, now)

\* Ending a permit, even twice, never pays back more than was paid, also for a dearer
\* vehicle or zone, if no change to a cheaper one was refunded before: where one zone is
\* the dearer one in every month, so that no change charges less than nothing.
RefundAtMostPaid == lowered = 0 => unused <= Paid

\* The price list of permit_prices, which works with the dates in UTC and gives a month
\* back where products meet, sums up to what the order charges, unless the permit starts
\* on another day in Helsinki than in UTC.
ShownPriceIsCharged ==
    AsBought /\ StartsOnCommonDay /\ PricesChangeWithMonths
    /\ Len(orders) = 1 /\ DateIn(permit.start) = LocalDate(permit.start) =>
        ListPrice(PermitPrices(permit)) = Charged(orders[1])

\* A change to a dearer vehicle or zone is charged, month by month and product by
\* product, what the list of price changes shown before it sums up to: for a permit that
\* starts on a day every month has and was not extended, because only the months of the
\* latest order are charged again.
ChangeIsChargedAsShown ==
    [][LET charge == orders'[Len(orders')]
       IN  AsBought /\ StartsOnCommonDay /\ PricesChangeWithMonths /\ PricesChangeWithMonths'
           /\ Len(orders) = 1 /\ changes' > changes /\ Len(orders') > Len(orders) =>
             Charged(charge) = TotalPriceChange(permit, permit'.zone, permit'.lowEmission, now)]_vars
================================================================================

-------------------------------- MODULE Prices --------------------------------
(***************************************************************************)
(* What the months of a permit cost: the products of a zone, each with a   *)
(* price for a range of dates, and the order items made from them when a   *)
(* permit is bought, extended, changed or ended.  Everything here is a     *)
(* function of the permit, its orders and the time.                        *)
(*                                                                         *)
(* The loops of the code walk over two lists in step; they are recursive   *)
(* functions over the number of the month or operators over the lists.     *)
(***************************************************************************)
EXTENDS PermitPeriods, SequencesExt

CONSTANT Products       \* of each zone, in order: [first, last, price]

\* The columns of a product are dates and a price; nothing is assumed of gaps,
\* overlaps, or a last date before the first.
ASSUME ProductsAssumption ==
    \A zone \in DOMAIN Products :
        Products[zone] \in Seq([first : Nat, last : Nat, price : Nat])

(***************************************************************************)
(* Lists                                                                   *)
(***************************************************************************)
\* The n-th smallest of a set of numbers.
Nth(numbers, n) == CHOOSE i \in numbers : Cardinality({j \in numbers : j <= i}) = n

\* The elements of a list that pass a test, in their order: SelectSeq, by the
\* positions it selects, about which more can be proved.
Select(seq, Test(_)) ==
    LET passing == {i \in 1..Len(seq) : Test(seq[i])}
    IN  [n \in 1..Cardinality(passing) |-> seq[Nth(passing, n)]]

Total(numbers) ==
    LET total[i \in 0..Len(numbers)] == IF i = 0 THEN 0 ELSE total[i - 1] + numbers[i]
    IN  total[Len(numbers)]

SumOver(seq, Value(_)) == Total([i \in 1..Len(seq) |-> Value(seq[i])])

(***************************************************************************)
(* Products                                                                *)
(***************************************************************************)
\* Half the price for a low-emission vehicle, then half as much again for a
\* second vehicle.
ModifiedUnitPrice(product, lowEmission, primary) ==
    LET price == IF lowEmission THEN product.price \div 2 ELSE product.price
    IN  IF primary THEN price ELSE price + price \div 2

ForDateRange(zone, first, last) ==
    Select(Products[zone], LAMBDA product : product.first <= last /\ product.last >= first)

GetForDate(zone, date) == ForDateRange(zone, date, date)[1]

\* The iterator over products moves on when a month begins after its product: at
\* most one product is passed per month.
NextProduct(products, i, date) ==
    IF i <= Len(products) /\ date > products[i].last THEN i + 1 ELSE i

\* The checks of get_products_with_quantities: no gap, no overlap, all covered.
CatalogCovers(zone, first, last) ==
    LET products == ForDateRange(zone, first, last)
    IN  /\ products # <<>>
        /\ \A i \in 1..(Len(products) - 1) :
                AddDays(products[i].last, 1) = products[i + 1].first
        /\ products[1].first <= first
        /\ last <= products[Len(products)].last

\* Each product with the months of the permit that begin while it is on sale: its
\* dates are moved to the permit's day of the month.
ProductMonths(zone, first, last, ToDay(_, _)) ==
    LET products == ForDateRange(zone, first, last)
        from(i) == IF i = 1 THEN first ELSE ToDay(products[i].first, DayOf(first))
        to(i) == IF i = Len(products) THEN last ELSE ToDay(products[i].last, DayOf(last))
    IN  [i \in 1..Len(products) |->
            [product |-> products[i], first |-> from(i), last |-> to(i),
             quantity |-> MonthsBetween(from(i), to(i))]]

\* Mutant: the dates of a product are taken as they are.
ProductsWithUnalignedQuantities(zone, first, last) ==
    ProductMonths(zone, first, last, LAMBDA date, day : date)

\* get_products_with_quantities
ProductsWithQuantities(zone, first, last) == ProductMonths(zone, first, last, FindNextDate)

\* The price list shown before the purchase: the dates are those of the stored
\* times, and the last of several products gives back the month that the others
\* count twice.
PricesFor(permit, countedTwice) ==
    LET first == DateIn(permit.start)
        last == DateIn(permit.end)
        products == ForDateRange(permit.zone, first, last)
        from(i) == Greatest(products[i].first, first)
        to(i) == Least(products[i].last, last)
        shared(i) == i = Len(products) /\ i > 1 /\ DayOf(first) # 1
    IN  [i \in 1..Len(products) |->
            [price |-> ModifiedUnitPrice(products[i], permit.lowEmission, permit.primary),
             quantity |-> MonthsBetween(from(i), to(i)) - (IF shared(i) THEN countedTwice ELSE 0)]]

\* Mutant: the shared month is not given back.
PermitPricesUncorrected(permit) == PricesFor(permit, 0)

PermitPrices(permit) == PricesFor(permit, 1)

ListPrice(prices) == SumOver(prices, LAMBDA entry : entry.price * entry.quantity)

(***************************************************************************)
(* Order items                                                             *)
(***************************************************************************)
\* "payment" is what the order charges for a month of the item, "unit" what the
\* month costs.
OrderItem(unit, payment, quantity, start, end) ==
    [unit |-> unit, payment |-> payment, quantity |-> quantity, start |-> start,
     end |-> end, refunded |-> FALSE]

\* create_for_permits: the items of a new permit.
PurchaseItems(permit) ==
    LET first == LocalDate(permit.start)
        details == ProductsWithQuantities(permit.zone, first, LocalDate(permit.end))
        price(product) == ModifiedUnitPrice(product, permit.lowEmission, permit.primary)
        item(i) == OrderItem(price(details[i].product), price(details[i].product),
                             details[i].quantity,
                             IF i = 1 THEN permit.start ELSE FromLocal(details[i].first, 0),
                             EndOfDay(details[i].last))
        openEnded == OrderItem(price(GetForDate(permit.zone, first)),
                               price(GetForDate(permit.zone, first)), 1, permit.start,
                               EndOfDay(LocalDate(GetEndTime(permit.start, 1))))
    IN  IF IsOpenEnded(permit) THEN <<openEnded>>
        ELSE Select([i \in 1..Len(details) |-> item(i)], LAMBDA x : x.quantity > 0)

\* The months from a date on, each with the product on sale when it begins.
MonthsFrom(permit, first, months) ==
    LET last == LocalDate(GetEndTime(FromLocal(first, 0), months))
        products == ForDateRange(permit.zone, first, last)
        start[k \in 0..months] == IF k = 0 THEN first ELSE AddMonths(start[k - 1], 1)
        index[k \in 0..months] ==
            IF k = 0 THEN 1 ELSE NextProduct(products, index[k - 1], start[k])
        inLoop(k) == start[k] < last /\ index[k] <= Len(products)
        count == Cardinality({k \in 0..(months - 1) : \A j \in 0..k : inLoop(j)})
    IN  [k \in 1..count |->
            [product |-> products[index[k - 1]], first |-> start[k - 1],
             last |-> AddDays(AddMonths(start[k - 1], 1), -1)]]

\* Mutant: an extension begins on the last day of the permit.
MonthsFromEnd(permit, months) == MonthsFrom(permit, LocalDate(permit.end), months)

\* get_future_product_month_dates: the months after the end.
FutureMonths(permit, months) == MonthsFrom(permit, AddDays(LocalDate(permit.end), 1), months)

\* One item for the months that follow each other with one product.
ItemsOfMonths(permit, future) ==
    LET begins == {k \in 1..Len(future) : k = 1 \/ future[k].product # future[k - 1].product}
        first(i) == Nth(begins, i)
        last(i) == IF i = Cardinality(begins) THEN Len(future) ELSE Nth(begins, i + 1) - 1
        price(i) == ModifiedUnitPrice(future[first(i)].product, permit.lowEmission, permit.primary)
    IN  [i \in 1..Cardinality(begins) |->
            OrderItem(price(i), price(i), last(i) - first(i) + 1,
                      FromLocal(future[first(i)].first, 0), FromLocal(future[last(i)].last, 0))]

\* create_for_extended_permit
ExtensionItems(permit, months) == ItemsOfMonths(permit, FutureMonths(permit, months))

(***************************************************************************)
(* Unused months                                                           *)
(***************************************************************************)
\* What is left of the items of an order from a date on.
ItemsLeft(order, unusedFrom) ==
    LET left == Select(order.items,
                          LAMBDA x : LocalDate(x.end) >= unusedFrom /\ ~x.refunded)
        from(x) == Greatest(unusedFrom, LocalDate(x.start))
    IN  IF order.status # "CONFIRMED" THEN <<>>
        ELSE [i \in 1..Len(left) |->
                [item |-> left[i], first |-> from(left[i]), last |-> LocalDate(left[i].end),
                 quantity |-> MonthsBetween(from(left[i]), LocalDate(left[i].end))]]

\* Mutant: the month that has begun counts as unused.
BegunItemsOfOrder(order, permit, now) ==
    ItemsLeft(order, AddMonths(NextPeriodStart(permit, now), -1))

\* get_unused_order_items_for_order
UnusedItemsOfOrder(order, permit, now) == ItemsLeft(order, NextPeriodStart(permit, now))

\* The whole items of the latest order, for an open-ended permit.
UnusedItemsOfOpenEnded(order) ==
    LET left == Select(order.items, LAMBDA x : ~x.refunded)
    IN  [i \in 1..Len(left) |->
            [item |-> left[i], first |-> LocalDate(left[i].start),
             last |-> LocalDate(left[i].end), quantity |-> left[i].quantity]]

\* ParkingPermit.latest_order: the order of the last extension shadows the others.
LatestOrder(orders) ==
    LET extensions == {i \in 1..Len(orders) : orders[i].extension}
    IN  orders[IF extensions = {} THEN Len(orders)
               ELSE CHOOSE i \in extensions : \A j \in extensions : j <= i]

\* get_unused_order_items
UnusedItemsOfLatest(permit, orders, now) ==
    IF IsOpenEnded(permit) THEN UnusedItemsOfOpenEnded(LatestOrder(orders))
    ELSE UnusedItemsOfOrder(LatestOrder(orders), permit, now)

\* get_unused_order_items_for_all_orders
UnusedItems(permit, orders, now) ==
    IF IsOpenEnded(permit) THEN UnusedItemsOfOpenEnded(LatestOrder(orders))
    ELSE FlattenSeq([i \in 1..Len(orders) |-> UnusedItemsOfOrder(orders[i], permit, now)])

\* total_refund_amount
RefundAmount(permit, orders, now) ==
    IF CanBeRefunded(permit, now)
    THEN SumOver(UnusedItems(permit, orders, now), LAMBDA u : u.item.payment * u.quantity)
    ELSE 0

(***************************************************************************)
(* Changing the zone or the vehicle                                        *)
(***************************************************************************)
\* get_price_change_list of a fixed-period permit: what each month from the next
\* period on costs more (or less, if negative) in the other zone or with the
\* other vehicle.
PriceChanges(permit, zone, lowEmission, now) ==
    LET first == NextPeriodStart(permit, now)
        last == LocalDate(permit.end)
        old == ForDateRange(permit.zone, first, last)
        new == ForDateRange(zone, first, last)
        start[k \in 0..permit.months] == IF k = 0 THEN first ELSE AddMonths(start[k - 1], 1)
        i[k \in 0..permit.months] == IF k = 0 THEN 1 ELSE NextProduct(old, i[k - 1], start[k])
        j[k \in 0..permit.months] == IF k = 0 THEN 1 ELSE NextProduct(new, j[k - 1], start[k])
        inLoop(k) == start[k] < last /\ i[k] <= Len(old) /\ j[k] <= Len(new)
        count == Cardinality({k \in 0..permit.months : \A m \in 0..k : inLoop(m)})
    IN  [k \in 1..count |->
            ModifiedUnitPrice(new[j[k - 1]], lowEmission, permit.primary)
            - ModifiedUnitPrice(old[i[k - 1]], permit.lowEmission, permit.primary)]

TotalPriceChange(permit, zone, lowEmission, now) ==
    SumOver(PriceChanges(permit, zone, lowEmission, now), LAMBDA change : change)

\* The two lists create_renewal_order walks in step, as pairs of positions.
Pairs(products, unused) ==
    LET from[i \in 1..(Len(products) + 1), j \in 1..(Len(unused) + 1)] ==
            IF i > Len(products) \/ j > Len(unused) THEN <<>>
            ELSE <<<<i, j>>>> \o
                 from[IF products[i].last <= unused[j].last THEN i + 1 ELSE i,
                      IF products[i].last >= unused[j].last THEN j + 1 ELSE j]
    IN  from[1, 1]

\* One item for each pair, from the first day that is chosen for it.
ItemsInStep(permit, products, unused, First(_, _)) ==
    LET pairs == Pairs(products, unused)
        item(product, old) ==
            LET first == First(product, old)
                last == Least(product.last, old.last)
                unit == ModifiedUnitPrice(product.product, permit.lowEmission, permit.primary)
            IN  OrderItem(unit, unit - old.item.unit, MonthsBetween(first, last),
                          FromLocal(first, 0), EndOfDay(last))
    IN  [n \in 1..Len(pairs) |-> item(products[pairs[n][1]], unused[pairs[n][2]])]

RenewalItemsFrom(permit, orders, now, First(_, _)) ==
    IF NextPeriodStart(permit, now) >= LocalDate(permit.end) THEN <<>>
    ELSE ItemsInStep(permit,
                     ProductsWithQuantities(permit.zone, LocalDate(permit.start),
                                            LocalDate(permit.end)),
                     UnusedItemsOfLatest(permit, orders, now), First)

\* Mutant: each product is charged from its own first day.
RenewalItemsOfWholeProducts(permit, orders, now) ==
    RenewalItemsFrom(permit, orders, now, LAMBDA product, old : product.first)

\* create_renewal_order: each unused month again, at its new price, with what was
\* paid for it deducted.  "permit" already has the new zone and vehicle.
RenewalItems(permit, orders, now) ==
    RenewalItemsFrom(permit, orders, now,
                     LAMBDA product, old : Greatest(product.first, old.first))
================================================================================

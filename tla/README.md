# Parking permits: formal model

TLA+ modules, TLC configurations and TLAPS proofs for the resident parking
permit service in this repository. A resident drafts one or two permits in the
web shop, orders them, pays at Talpa (the payment service), and may later extend,
change or end them; webhooks tell the service what happened at Talpa, customer
service works on the same permits, and batch jobs cancel what was not paid, close
what has expired and tell other systems. All of it writes the same few rows, in an
order nobody controls, beside systems that share no transaction with them. That is
what is modelled here.

## Inventory

Sources are under `src/parking_permits`. The components without a module are listed
in `PROJECT.json` with the reason.

| Component | State | Operations | What is hard | What makes it correct | Module |
|---|---|---|---|---|---|
| Customer API (`resolvers.py`, `customer_permit.py`) | `ParkingPermit`, `Order`, extension requests | create, delete, move, order, extend, change, end, list (which also writes) | long sequences of legal calls; bulk updates that skip `save()` | one live permit per vehicle; drafts have no orders | `CustomerApi` |
| Talpa webhooks (`views.py`) | same rows, subscriptions | payments, orders, subscriptions, the right of purchase, prices and products | late, repeated, reordered notifications | a permit is valid, and an extension granted, only when paid | `TalpaWebhooks`, `Subscriptions`, `TalpaCatalog` |
| Jobs (`cron.py`, `cancel_old_unpaid_permits`, `delete_draft_permits`) | lists read before they are used | cancel what is unpaid, delete drafts, expire | no transaction, may stop anywhere, stale rows written back | what is due ends; what is unpaid closes | `Jobs` |
| Customer service (`admin_resolvers.py`, `import_pasi_csv`) | same rows, `Refund` | create, edit, extend, end, import; approve refunds | stale forms; approvals that are not atomic | as for the customer, as far as a status is not given by hand; nothing is accepted unasked | `BackOffice` |
| Subscriptions (`models/order.py`, `views.py`) | `Subscription`, renewal orders | renew, cancel, refund | failures at Talpa, two paths that both refund | months are paid for, nothing is refunded twice, an ending refunds what it takes | `Subscriptions` |
| Calendar, periods, prices (`utils.py`, `models/parking_permit.py`, `product.py`, `order.py`) | dates and items | buy, renew, extend, change, end | ends of months, local time, products that change | months granted, charged, shown and refunded agree | `Calendar`, `PermitPeriods`, `Prices`, `PermitMoney` |
| Parkkihubi (`services/parkkihubi.py`, `cron.py`) | the synced flag, the remote permit, temporary vehicles | send, change without sending, half-hourly job | refused requests, lost answers, a stale job | inspectors see the row | `Parkkihubi` |
| Anonymization (`models/customer.py`, `cron.py`, GDPR) | `Customer`, vehicle users | log in, generate numbers, anonymize | the job's list is stale | what is anonymous stays so, at the vehicles too; what is obsolete goes | `Customers` |
| Vehicles (`services/traficom.py`, `models/vehicle.py`, `driving_*.py`) | `Vehicle`, criteria, licences | look up, save, buy | several figures, changing criteria, old rows | the discount has a ground, and who has one gets it | `Vehicles` |
| Residence (`services/dvv.py`, `kami.py`, `customer_permit.py`) | profile addresses, the mark of a permit | log in, query, end in the night | look-ups that fail or come back empty | only who moved is marked; a marked permit ends | `Residence` |
| Products and accounting (`models/product.py`, admin API and site) | `Product`, `Accounting`, Talpa's catalog | create, update, delete, sell, renew, move | requests to Talpa inside a transaction; rows that products share | both sides hold the same | `TalpaCatalog` |

Customer mutations, the permit query and the webhooks run in one transaction each;
most of the admin API does too, and where it does not (the refund resolvers, the clerk's
look-ups) the model says so. The jobs do not. Requests to Talpa, Parkkihubi, Traficom,
DVV and KAMI are made in the middle of all of them.

The hazards in `PROJECT.json` are what these components can get wrong that a test
would hardly reach, each at its line, with the properties that would notice. Those
without a property are what the code does not prevent; the models contain the step.

## Modules

There are three layers over the rows of one customer, and one specification each for
the parts that have their own state.

    PermitState <- CustomerApi, TalpaWebhooks, Jobs <- PermitOrders <- BackOffice
    PermitOrders => PermitLifecycle              (refinement)
    Calendar <- PermitPeriods <- Prices <- PermitMoney
    Subscriptions, Parkkihubi, Customers, Vehicles, Residence, TalpaCatalog

`MCPermitOrders`, `MCBackOffice`, `MCPermitMoney`, `MCSubscriptions`, `MCVehicles` and
`MCTalpaCatalog` add what TLC needs: symmetry, the values of constants that a
configuration cannot write, or, in the last, the parts that are explored apart.
The modules named `...Proofs` hold the theorems, one beside each component; those of
`BackOffice`, which extends `PermitOrders`, are in `PermitOrdersProofs`.

### Permits, orders, Talpa and the jobs: `PermitOrders`

`permits[p]` is the `ParkingPermit` row `p`: its status, vehicle and next vehicle,
zone and next zone, whether it is the primary one, its end type, and whether the
expiration job would select it (`due`). `orders[o]` is the `Order` row `o` with
the permits it is over, the extension request created with it (`request`),
whether `talpa_last_valid_purchase_time` and the wait buffer have passed (`late`),
and what Talpa did with it (`paid`, `cancelled`). `"NONE"` is the status of a row
that does not exist. `unpaid` is the list `cancel_old_unpaid_permits` holds between
its read and its write. `expiry` is how far `automatic_expiration_of_permits` got:
the permits it read, the one it is ending, the row of it that it will write back.

| Action | Code |
|---|---|
| `CreatePermit`, `DeletePermit`, `TogglePrimary`, `UpdateDraftAddress`, `RequestExtension`, `EndPermitsOfCustomer`, `GetPermits` | methods of `CustomerPermit` and the resolvers that call them |
| `CreateOrder`, `ChangeVehicle`, `ChangeToDearerVehicle`, `ChangeAddress`, `ChangeToDearerAddress` | resolvers; the two branches of a change are two actions, chosen by the price |
| `PaymentPaid`, `PaymentFailed`, `OrderCancelled` | `PaymentView.post`, `OrderView.post` |
| `PurchaseTimePasses`, `TalpaPays`, `TalpaCancels`, `BecomesDue` | time and Talpa |
| `ReadUnpaid`, `CancelUnpaid` | `cancel_old_unpaid_permits` |
| `DeleteOldDrafts`, `CancelOldRequests` | `delete_draft_permits` |
| `ReadExpired`, `CancelOrdersOfExpired`, `CloseExpired`, `TidyExpired`, `AbortExpiry` | `automatic_expiration_of_permits` through `CustomerPermit.end` |

A handler that raises leaves the rows as they were, because its transaction is
rolled back, so its checks are the guard of its action. A call to Talpa or
Parkkihubi that fails inside a handler raises too. `Order.cancel()` is the
exception: it swallows both kinds of failure, and `CancelOrders` chooses freely
which orders Talpa refuses to validate and which it fails to cancel.

What is abstracted:

* One customer with fixed-period permits. No handler touches the rows of two
  customers.
* An address is its zone. Prices are the choice between the cheaper and the dearer
  action. A CLOSED permit has no time left to be charged for, so its change is
  never dearer.
* Times are three facts: the purchase time of an order has passed, the expiration
  would select a permit, a draft or a request is old. `due` covers the end time as
  well as the changed-vehicle and changed-address flags; where the code clears a
  flag, `ClearFlags` lets the permit be due or not, because the end time may have
  passed as well. The 15 minutes to pay and the wait buffer are one limit, `late`.
* The 30 minutes after which a request is cleaned up are longer than those 15, so
  `CancelOldRequests` requires `late`.
* Talpa takes a payment only for an order that exists here, before its purchase
  time has passed and at most once; it notifies late, repeatedly and in any order.
  An order cancelled at Talpa may still have been paid.
* `get()` and the expiration go through permits in an order that only the database
  knows; the model allows every order. `ReadUnpaid` is one snapshot: the queries of
  that loop run within moments, and the gap that matters is the one before the write.
* `PaymentPaid` makes the duplicate check of `save()` on the final rows. For two
  permits that swap their vehicles the code would refuse the first `save()`; the
  model allows the step, which only adds behaviours.
* A vehicle change paid for without a next vehicle is not saved by `PaymentView`
  itself, but by the Parkkihubi call that follows it (`handle_response`).

`PermitLifecycle` is the abstract specification: a stage per permit (absent, draft,
waiting, valid, over) and the set of permits that were paid for. The refinement
mapping reads the stage off the status and the payment off the orders, so that
implementing it relates two tables: a permit is forgotten only as a draft, never
becomes a draft again, and becomes valid only after a payment for it. It cannot
promise that an ended permit stays ended: a late `PAYMENT_PAID` revives it.

### Customer service: `BackOffice`

Extends `PermitOrders` and keeps its customer and the payments at Talpa running. `opened`
is the set of drafts that a clerk has a form open of, whose row it then writes, whatever
became of it; an edit gives any of `EditedStatuses` to any permit there is, which is all
the resolver asks. `counter` is the set of orders paid at the counter, of which Talpa never
hears; `refunds` are `Refund` rows with the statuses they have had.

| Action | Code |
|---|---|
| `CreateResidentPermit`, `OpenForm`, `UpdateResidentPermit`, `ExtendByOffice`, `EndByOffice` | resolvers of the admin API |
| `ImportPermit` | `import_pasi_csv` |
| `RequestForApproval`, `AcceptRefunds`, `UpdateRefund` | refund resolvers, none of them in a transaction; the last writes back a row read at any earlier time |

`RequestForApproval` and `AcceptRefunds` are one UPDATE each. What follows it in the code, a
second query by the new status and the mails, changes no row and is left out.

### Dates and money: `PermitMoney`

`Calendar` has dates as day numbers, minutes of UTC, Helsinki time with its two
offsets, `diff_months_floor` and `_ceil`, `get_end_time`, `increment_end_time` and
the rest of `utils.py`. `PermitPeriods` has the properties of `ParkingPermit` that
follow from start, end and month count. `Prices` has products over a period
(`get_products_with_quantities`), order items, unused items, refunds, price change
lists and the items of a change. `PermitMoney` is one permit whose orders are paid at
once, while time jumps between the given moments: `Buy`, `Renew`, `Extend`, `Change`,
`End`. `lowered` and `unused` add up the refunds of its changes and of its end.

Left out: VAT and rounding, the months an extension may have at most
(`max_extension_month_count`), the month counts a secondary permit is offered, and the
price change list of open-ended permits.

What the model shows of the code, and the properties therefore except:

* The price shown for a permit that starts at midnight in Helsinki is that of the UTC day
  before.
* A permit that starts on the 31st gets a month more refunded than `months_left` says.
* A price that changes in the middle of a month charges a month twice
  (`get_products_with_quantities`, `models/product.py:124`): one month from 1 February, with
  a change on the 15th, is two items of one month, because the dates of both are clipped to
  the 28th. So do starts on the 29th to the 31st: two months from 31 March, with a change on
  1 April, are charged as one and two, where the price list shown sums up to two. The tests
  of that method expect the quantities to add up to the months
  (`tests/models/test_parking_permit.py:488`); they start on days that are not clipped. TLC
  finds both with other constants for the same modules. `StartsOnCommonDay` and
  `PricesChangeWithMonths` are the conditions under which the sums agree.
* An extension beyond the last product grants all its months and charges those that have
  a product.
* A change after an extension is charged only for the months of the latest order, which
  may be a negative sum although the change is dearer as a whole.
* A change to a cheaper vehicle that was refunded is not deducted from the refund at the
  end.

### Open-ended permits: `Subscriptions`

Months instead of dates, order 1 is the purchase, every other one a renewal of one
permit. `talpa` has Talpa's subscriptions and orders, `refunds` counts the `Refund` rows
of each item, `repeated` remembers which payments were notified twice, `prolonged` which
permits were ended after their own end. Actions: `TalpaRenews`, `TalpaPays`,
`TalpaCancels` at Talpa; `SubscriptionCreated`, `RenewalOrderCreated`, `PaymentPaid`,
`SubscriptionCancelled` are the webhooks; `CustomerEnds`, `ClerkEnds` and `Expire` reach
`EndPermits`.

`EndPermits` is `end_permits` with what it calls. `create_permit_refunds` comes first and
marks what it refunds; `Subscription.cancel` then looks again for something to refund, and
would mark the first item of the subscription, which is that of the purchase. It finds
nothing only because the first refund took all there was and no two refunds see the same
unmarked item, which is what `RefundedOnce` says. A refused order validation leaves the
subscription CONFIRMED and the permit ended.

A repeated `PAYMENT_PAID` of a renewal adds a month each time, and an unpaid renewal may
then be refunded; a permit that is overdue and is ended IMMEDIATELY gets the present moment
as its end, and so time that nobody paid for. The properties ask for payments notified
once and, where it matters, endings in time (`IsRegular`).

### Parkkihubi: `Parkkihubi`

`remote[p]` is the set of subjects (vehicle, from, to) Parkkihubi has of permit `p`; the
row has its status, its own vehicle and area (`details`), its end, its active temporary
vehicles and `synced`. A request succeeds, is refused, or is carried out and its answer
lost; a handler is rolled back in the last two cases, with all the permits it sends, and
what Parkkihubi has of those it reached is then `Stale`: not known, and not followed until
the next request about the permit is answered.

| Action | Code |
|---|---|
| `EndPermits`, `EndAfterPeriod`, `PaymentPaid`, `UpdatePermit`, `AddTemporaryVehicle`, `RemoveTemporaryVehicle` | handlers that send what they change: `end_permits`, `PaymentView`, `updateResidentPermit` and changes that cost nothing, temporary vehicles |
| `PaymentStarts`, `PaymentCancelled` | checkouts of a change, time-outs and cancelled orders change the status and send nothing |
| `ToggledEnd` | toggling the primary permit rewrites the ends of both (`customer_permit.py:520`) |
| `MovedUnsent` | a fixed-period permit moves to a cheaper zone (`resolvers.py:703`), or a clerk moves the other permits (`admin_resolvers.py:854`) |
| `LookAtPermit` | `CustomerPermit.get` deactivates temporary vehicles (`customer_permit.py:148`) |
| `ReadTemporaryVehicles`, `DeactivateTemporaryVehicle`, `ReadUnsynced`, `SendUnsynced`, `FailToSend`, `JobEnds` | `automatic_syncing_of_permits_to_parkkihubi` |

Permits that are PAYMENT_IN_PROGRESS or CANCELLED are there, and the job sends neither and
ends no temporary vehicle of theirs. Drafts are never sent and left out. After `ToggledEnd`,
`MovedUnsent` and, where temporary vehicles overlap, `LookAtPermit`, what Parkkihubi has is
`Stale` as well; after the other unsent changes it is not, and `InspectorsSeeTheRow` says
that it still shows the row. The job reads a list, deactivates and sends one permit after
another, writes back the row as it read it and stops at the first failure. `Subjects` is
`get_subjects`: where temporary vehicles start together the query fixes no order, and the
model takes one (`OrderedByStart`). The 12 hours and the yearly limit of temporary vehicles
only refuse and are left out.

### Customers: `Customers`

Rows in the order of their keys, because `generate_ssn` and lookups depend on it; the
numbers kept with vehicles; the job's list with the rows as it read them. Years are the
unit of time. A fetch for a purchase stores the number of everyone the register names as
owner or holder (`UsersNamed`), of whom only the buyer need be a customer. `generate_ssn` may answer a number that is in use, and a stale list may
anonymize a customer who came back; the properties hold in spite of both.

### Vehicles: `Vehicles`

An answer of Traficom is a vehicle class, owners, and a list of consumption and emission
figures; the row keeps one type, one whole figure and the euro class. The register, the
criteria in force and the licences change at any time. `EmissionData` is the loop of
`_get_emission_data`, written as what it stops at: the first index whose figure is within
its limit, else the last one. A row typed in by a clerk
(`AddRefusedVehicle`, `SaveVehicle`) is outside the two properties. Licences and owners
are guards of what is fetched; nothing is claimed about who may drive. The settings
are the defaults, `TRAFICOM_CHECK` on and `TRAFICOM_MOCK` off.

### Residence: `Residence`

What DVV has registered, what KAMI finds, what the address table knows and what the
profile of the customer holds are four sets of addresses; the permit has an address and
a mark with the day it was set. A login copies both addresses, or fails as a whole: when
one of them is neither found by KAMI nor in the table, or lies in two zones. Coming back
to an address does not clear the mark. The permit is open-ended, so only its mark can
end it. The expiration runs once on each day, at 00:22, so a day has two parts: before it
(`~ran`) and after it. Clerks who write the address of a customer or a permit
(`admin_resolvers.py:333`, `:853`) are left out: they can mark somebody who has not moved.

### Products at Talpa: `TalpaCatalog`

`updateProduct` reads a product, sends it and commits in three steps, with a failure at
each; `createProduct`, which only adds rows that nobody else has seen, is one; the admin
site writes the same rows and tells nobody. An `Accounting` is a row of its own that several
products may name and the admin site may edit; an update sends what the row says at that
moment and saves that again. `createOrder` is begun, sent and committed in three steps
with a failure at each. Talpa's `orders` and `renewals` have product ids, the rows here have
products. Permits have a zone: `ChangeAddress` moves them at once, and the next renewal is
for the product of the new zone on the day the permit started. `unsent` and `raced`
remember what the properties except: an accounting written since the product was last
sent, by an edit or by the update of another product, and two requests that had one product
open. Product ids at Talpa that a rollback leaves behind stay there.

The next accounting of a product is left out: it is sent with the accounting
(`models/product.py:392`) and never saved back.

## Runs

P, V, Z, O are the numbers of permits, vehicles, zones and orders.

| Run | Instance | Checks | Why these bounds |
|---|---|---|---|
| `purchase` | `PurchaseSpec` 3/3/2/2 | `TypeOK`, `NoDuplicateVehicle`, `ZoneSet`, `PaymentTimeRespected`, `ImplementsLifecycle` | a third permit is the one beyond the limit, a third vehicle and a second zone to change to, two orders for a purchase and a change or for two purchases |
| `life` | `FairLifeSpec` 1/1/1/2 | `ApprovedIsPaid`, `ClosedHasNoPendingRequest`, `TimedOutOrderCloses`, `RequestIsDecided`, `DueEndsUncut` | every activity but changes, with an order and its extension |
| `end` | `EndSpec` 2/2/1/2 | `ValidHasConfirmedOrder` | two permits on one order or on two, ended together, apart or in an interrupted run |
| `office` | `OfficeSpec` 2/2/1/2, a refund | `NoDuplicateVehicle`, `OnlyEditsAreUnpaid`, `AcceptedWasAsked` | two permits that may get each other's vehicle; one form open at a time; clerks create and edit to VALID, the status the properties are about, drafts come from the shop |
| `money` | three orders, one change, six moments from January to May 2025 | `OpenEndedEndsInStep`, `BoughtMonthsAreGranted`, `NoDayIsPaidForTwice`, `RefundIsForMonthsLeft`, `RefundAtMostPaid`, `ShownPriceIsCharged`, `ChangeIsChargedAsShown` | starts on 28 January, which satisfies the conditions of all properties and meets the end of February, on 31 January, and on 15 February at midnight in Helsinki; a price that changes with March, summer time in between; two extensions or renewals, so that a date clipped by February is stepped on from |
| `subscriptions` | two permits, two orders, four months | `RefundedOnce`, `MonthsArePaidFor` | one purchase of two permits and a renewal of either, so that one ending refunds of both orders |
| `renewals` | one permit, three orders, five months | `RefundedWasPaid`, `EndingRefundsWhatItTakes`, `CancelledSubscriptionEnds` | two renewals, so that the latest order is not the only one; fairness |
| `parkkihubi` | one permit, time 0..3, two temporary vehicles | `InspectorsSeeTheRow`, `OneVehicleAtATime`, `UnsentIsSent`, `PastVehiclesEnd` | every status; two intervals that overlap, nest, touch or outlast the permit |
| `customers` | a person, a visitor, a co-owner, two rows, three years | `AnonymizedIsNobody`, `BuyersAreForgotten`, `ObsoleteIsForgotten` | one year more than data are kept; two rows that can be confused |
| `vehicles` | one vehicle, one customer, two criteria | `LowEmissionIsRegistered`, `EligibleIsLowEmission` | any two figures, on both sides of the limits of both types |
| `residence` | four addresses | `MarkedHasMoved`, `MarkedPermitEnds` | two to live at, one outside Helsinki, one in two zones |
| `catalog` | two products, an accounting, two ids, two orders, a permit, two requests | `AccountingAgrees`, `SoldProductIsKnown` | products of two zones or of one, an accounting they may share, a purchase and a renewal; two months, in one of which a zone has no product |

In `catalog` accountings and sales have only the products in common, and each is explored
without the other: accountings with two requests and one offer, sales with one request open
at a time, products without an accounting and two zones (`MCTalpaCatalog`). Accountings were
also explored with two rows, and pass, but take too long to keep; the theorems are about
`Spec`, which has everything at once.

In `PermitMoney` a permit is extended before it is changed, not after; in `office` Talpa
cancels nothing and nothing times out, which `purchase` and `life` cover. The theorems
about `office` are for every status that clerks give to a new or an old permit.

The runs of `PermitOrders` use partial specifications that leave out activities not bearing on
the question. Each allows a subset of the behaviours of `Spec`, and the theorems are
about `Spec`. TLC checks for deadlock except where time has a bound or the rows run out.

## What the code does not prevent

The models contain these, and properties are stated so as to except them; most are
hazards with a note in `PROJECT.json`.

* Two permits of an order time out, listing them cancels one, and the other waits for
  ever, because its order is CANCELLED.
* `cancel_old_unpaid_permits` overwrites a payment made between its read and its write.
* Cancelling the checkout of an extension, or letting that of a change time out, cancels
  the permit that was paid earlier. A permit whose dearer vehicle is never paid for waits
  for ever, because that order is CONFIRMED from the start.
* `PAYMENT_FAILED` and then `PAYMENT_PAID` of an extension confirm the order without
  extending the permit.
* The number of permits is compared with the limit by `>`: one more is allowed.
* A clerk's edit stores any status: it revives a CLOSED permit, makes an unpaid one VALID,
  or gives a permit with orders the status DRAFT. An imported permit is a second primary
  one.
* `acceptRefunds` between the update and the query of `requestForApproval` leaves the
  customer without the mail of the request; a mail that fails is only logged.
* A refused subscription cancellation at Talpa leaves the subscription CONFIRMED. An order
  that Talpa does not validate leaves it CONFIRMED and the permit ended.
* An overdue permit that is ended IMMEDIATELY ends now, later than was paid for. A permit
  ended while it waits for its payment, and paid then, has lost a month.
* Ending a primary permit beside a live secondary one is refused only after Talpa was told
  to cancel its subscription; the rows are rolled back, Talpa is not. `Subscriptions` does
  not tell primary permits from secondary ones.
* The copy at Parkkihubi is left behind by a toggle of the primary permit, a move of a
  fixed-period permit to a cheaper zone, a clerk's move of the other permits, and a query
  that ends one of several overlapping temporary vehicles. The flag is never reset, so the
  job does not find them. A CANCELLED permit stays with the inspectors until its end, and
  its temporary vehicles stay active.
* The numbers of co-owners stay with the vehicles after the buyer is anonymized, and so do
  numbers at vehicles that no permit names any more. A later fetch of the vehicle stores
  the buyer's number again.
* A permit may be held for a vehicle its holder neither owns nor may drive: a change of
  vehicle asks for neither, the look-up before it uses the saved licence, and a clerk's
  permit needs none.
* A permit that is marked for a move is marked anew by every query (`customer_permit.py:182`):
  one between midnight and 00:22 postpones its end by a day, every time.
* A product that nobody bought may be deleted while Talpa renews a permit that moved to its
  zone; the renewal is then paid and never stored. An edit of the next accounting of a
  product between the request of an update and its commit is not noticed.
* Two criteria in force at once make every look-up fail; a clerk's row turns an electric
  vehicle into a petrol one.
* A zone import leaves the zone of existing permits as it was.

## Fairness

* `FairLifeSpec`: clocks go on, and the three jobs run again and again, a run that
  started going on. `settings.py` schedules the expiration (`CRONJOBS`); the two
  management commands are scheduled by the operator, which is what their help texts
  assume. A permit that Parkkihubi refuses on every run cuts every run short, so
  `DueEndsUncut` asks that from some time on this no longer happens.
* `Subscriptions`: months pass and the expiration reaches every permit. Nothing is
  assumed of Talpa's notifications.
* `Parkkihubi`: the job runs, weakly fair, and strongly fair for each permit it comes to,
  because an attempt may fail and is made again half an hour later. A permit that is refused
  for ever is outside this.
* `Customers`: the job runs and comes to each candidate it read.
* `Residence`: days pass and the expiration runs on each of them, at 00:22 (`CRONJOBS`), as
  the guards of both actions say. `MarkedPermitEnds` asks that from some night on nobody
  asks for the permits between midnight and then.

Nothing is ever assumed of a customer or a clerk.

## Proofs

All are for every value of the constants, from the assumptions named in the modules:
bounds are natural numbers, special values are no members of the sets they are beside,
permits start on a day that exists (`StartsAssumption`), products begin and end on days and
have a price (`ProductsAssumption`), there is a first moment (`MomentsAssumption`), months
are counted in whole numbers (`MonthCountsAssumption`), what Traficom answers and a clerk types has the types of the columns (`AnswersAssumption`, `RowsAssumption`,
`CriteriaAssumption`). Each proof starts with TLC: the invariant was checked on the
instances above before, and the properties on small instances still are.

| Module | Theorems | Argument |
|---|---|---|
| `PermitOrdersProofs` | `TypeCorrect`, `Invariant`, `DraftsHaveNoOrder`, `ValidPermitsArePaid`, `ConfirmedOrdersArePaid`, `ApprovedRequestsArePaid`, `RequestsAreSingle`, `ClosedPermitsHaveNoRequest`, `VehiclesAreUnique`, `ZonesAreSet`, `PaymentTimeIsRespected`, `ValidPermitsHaveConfirmedOrder`, `LifecycleIsImplemented` | see below |
| the same, of `BackOffice` | `OfficeTypeCorrect`, `UnpaidByEditOnly`, `OfficeVehiclesAreUnique`, `AcceptedWasAskedAlways` | the moves of the shop are those of `PermitOrders`; those of the office are added. Statuses that an edit gives may be any |
| `SubscriptionsProofs` | `TypeCorrect`, `ItemsAreRefundedOnce`, `RefundsWerePaid`, `MonthsArePaid`, `EndingsRefundWhatTheyTake` | what `create_permit_refunds` refunds it marks, so that `Subscription.cancel` finds no more, and a marked item is of no later refund; the end of a permit is counted against the renewals Talpa made and the payments taken. Talpa renews what was paid, and not before the last month its orders reach, so a permit that can still be refunded has no unpaid renewal, and an unrefunded item to give back |
| `ResidenceProofs` | `TypeCorrect`, `OnlyMoversAreMarked` | `Settled`: until the person moves, the profile and the permit hold only registered addresses, whatever a login failed to find |
| `TalpaCatalogProofs` | `AccountingsAgree`, `PermitsWaitForKnownOrder`, `SoldProductsAreKnown` | see below |
| `ParkkihubiProofs` | `InvariantHolds`, `InspectorsAlwaysSeeTheRow`, `OneVehicleAlways` | what Parkkihubi has of a permit was sent of its row as it is now, or of that row with temporary vehicles that are all over, of which a query left none (`WasSent`): every step keeps that, sends the row it saves, or leaves `Stale`. The subjects depend on neither the flag nor the status. What covers a moment is the shortened subject that began last, or what fills the time after it: a gap, or the rest |
| `CustomersProofs` | `TypeCorrect`, `AnonymizedStaysNobody`, `BuyersStayForgotten` | a row keeps its number until it is anonymized and changes no more from then on, because its number is of a kind that no login asks for; what the job holds of a row is old, but its number is still that of the row, or the row is anonymized already. Whoever else the register names, the number of a buyer is removed as long as a permit names the vehicle |
| `VehiclesProofs` | `VInvHolds`, `DiscountHasAGround`, `EligibleVehiclesGetTheDiscount` | `RowsAreOfAnswers`: a fetched row is that of its answer under the criteria of the fetch; the rest is about the first and the last index in a list |
| `PermitMoneyProofs` | `RenewalsKeepStep` | `increment_end_time` adds a month to the exact end, clipped by a short month or not, and an hour's change of the clock keeps the local day; so each renewal moves the end by one month of the start |
| the same | `DaysArePaidOnce`, `MonthsAreGranted`, `RefundsAreForMonthsLeft`, `ShownPricesAreCharged` | see below |

`PermitOrdersProofs`. None of the invariants is inductive alone: a job writes a row it
read some steps ago, and a payment arrives for permits whose order was made earlier.
`IInv` says what survives the waiting: ids not given out are empty rows, an order is
never over a draft, and every row a job remembers exists and is no draft. `PermitMoves`
and `OrderMoves` say how one step may change a permit and an order (for instance:
becomes VALID only if paid for; an order keeps its permits; a request becomes pending
only with a new order of a permit that has none). They are proved once per action, using
`IInv` where a job writes; then `IInv` is inductive, and all invariants and the refinement
follow from the moves without looking at the actions again. `NoDuplicateVehicle` needs
one more move, `VehicleMoves`: a permit that is live after a step was live before with
the same vehicle, or passed the check of `save()` at the end of the step.

`ZonesAreSet` and `PaymentTimeIsRespected` follow from the moves, with a condition each on
what a job remembers: the row that the expiration will write back has a zone, and an order
on the list of unpaid ones was late or given up when it was read, and stays so. `ValidPermitsHaveConfirmedOrder` is a theorem of `EndSpec`, the specification of the
run that checks it, and not of `Spec`: `cancel_old_unpaid_permits` writes back an order
that was paid since it was read. Its invariant says that the expiration has on its list
only permits that are due, whatever else ended since, so an interrupted run leaves only
those without a confirmed order; and that nothing is being extended.

`TalpaCatalogProofs`. Ids here and at Talpa name the same product; one request per product
is sent at a time, and what it has sent is what it will save, also of the accounting: unless
it is on record as unsent, nobody else has written the row since. For the order that a
permit waits for: what Talpa was sent covers every draft until the commit. For the product
of a renewal, `SoldInv` says that a request saves the id it read, unless two raced; that all
permits are sold together, once, so that sales are in one of two phases; that what is stored
of an order is the product Talpa has in it; and that what was sold keeps its id or is
deleted, which it never is while an order item names it. Nothing is asked of the zones: a
renewal resolved to another zone's product is for that product on both sides.

`PermitMoneyProofs`. Nothing in the state says which months an order is for: the items
have dates and quantities, the permit a count. `MoneyInv` says that a permit that was
bought, extended any number of times and not changed ends with its months; that its orders
are paid in order, each item for days after those of the one before; that the first order
is what its purchase charged; and, if it starts on a day every month has and prices change
with months, that its orders *tile* the months: there are positions `b[1] <= b[2] <= ...`
from the first month to the one after the last, such that order `i` is for the months from
`b[i]` to `b[i + 1]`, and each order is tiled by its items in the same way. The positions
are what makes it inductive: an extension adds one more, and finds the next month to charge
where the last order stopped.
That the code's walks give such tiles is the bulk of the proof: the products selected for a
period follow each other (`ProductsOfPeriod`), so the clipped dates between them are first
and last days of months (`PurchaseTiles`); the months from the day after the end are grouped by
consecutive products (`ExtensionTiles`). Then the three sums are one sum over the
tiles: the months charged for (`MonthsOfOrders`), the months left of items that are used up,
begun or untouched at a moment (`MonthsLeftOfOrders`), and the price list, whose surplus
month is the overlap of two tiles (`ShownSum`).

Where an argument over data looks like an induction (that a finite set of numbers has a
greatest one, that temporary vehicles can be ordered by their start), a least
counterexample stands in for it, which the library's theorem on well-founded orders gives
without an operator as its parameter.

Only model-checked: every liveness property (they rest on fairness, which the prover does
not handle), and two properties of `PermitMoney`. `RefundAtMostPaid` holds
of catalogs, like that of the run, in which one zone is the dearer one in every month. With
a zone that is dearer in the first months of a permit and cheaper in those of its extension,
and two changes, TLC finds that more is refunded than was paid: the change is dearer as a
whole, but only the months of the extension are charged again, so its order has a negative
sum.
`ChangeIsChargedAsShown` compares a walk over unused items and products in step with a sum
month by month; the lemmas on tiles are where its proof would begin. The invariants
behind the theorems (`IInv`, `SoldInv` and the like) are no properties of the runs; TLC
checked them before the proofs.
`WaitsForKnownOrder` is proved and in no run.

## Not modelled

Mail, announcements, exports, reports, search, the audit log, users, the GraphQL and
admin wiring: output, views and configuration that no rule above depends on. The import of
zones and addresses and the data repair commands are run by hand. The race of two
transactions through the duplicate check of `save()` under READ COMMITTED is not
modelled: handlers are atomic, and no constraint in the database would refuse the second
write. Two customers share rows only where that is modelled: generated numbers and
vehicle users in `Customers`, a vehicle in `Vehicles`, the catalog in `TalpaCatalog`.

## What is left to do

1. That the office, too, implements the abstract life of a permit as far as its stale
   forms allow, which needs an abstract specification weaker than `PermitLifecycle`.
2. `ChangeIsChargedAsShown` as a theorem: that the walk in step visits each month of the
   remaining tiles once, with the price the list of changes has for it.
3. Two permits in `PermitMoney`, whose prices depend on each other.

## Running

    tlc -workers 2 -config MC_purchase.cfg MCPermitOrders
    tlapm PermitOrdersProofs.tla

------------------------------ MODULE TalpaCatalog ------------------------------
(***************************************************************************)
(* What the application and Talpa must hold in common, with no transaction *)
(* across the two: the products and their accounting, which super admins   *)
(* keep over GraphQL and in the admin site; the order of a purchase, made  *)
(* at Talpa in the middle of a database transaction; and the products that *)
(* Talpa asks for when it renews an open-ended permit.                     *)
(*                                                                         *)
(* The permits are open-ended and of one customer, who buys them together  *)
(* for one address; they start in month Start.  A request to Talpa may     *)
(* fail before or after Talpa has done what it asks, and a process may     *)
(* stop between two requests.  A form of the admin site is read and saved  *)
(* in one step.  The next accounting of a product, which is sent with its  *)
(* accounting and which nothing saves back, is left out.                   *)
(***************************************************************************)
EXTENDS Naturals, FiniteSets

CONSTANTS
    MaxProducts,        \* bound on the products ever created
    MaxAccountings,     \* bound on the accountings ever created
    MaxIds,             \* bound on the products ever created at Talpa
    MaxOrders,          \* bound on the orders at Talpa
    LastMonth,          \* bound on the time
    Zones,
    Offers,             \* what a product may be for: [zone, months: a set of months]
    Permits,
    Requests,           \* the updateProduct requests that may be open at once
    Contents,           \* what an Accounting row may say
    DefaultAccounting,  \* settings.TALPA_DEFAULT_ACCOUNTING_*
    None

ASSUME CatalogAssumption ==
    /\ {MaxProducts, MaxAccountings, MaxIds, MaxOrders, LastMonth} \subseteq Nat \ {0}
    /\ Offers \subseteq [zone : Zones, months : SUBSET (0..LastMonth)]
    /\ DefaultAccounting \in Contents
    /\ None \notin Nat \union Contents \union Offers

VARIABLES
    now,
    products,       \* the Product rows
    accountings,    \* the Accounting rows, each of which any products may share
    updates,        \* the updateProduct requests in progress
    permits,        \* the ParkingPermit rows
    items,          \* the product of the OrderItem rows of an order, if it is stored
    checkout,       \* the transaction of createOrder
    talpa,          \* Talpa: its products and orders, the renewals it prepares
    unsent,         \* history: products whose accounting was written since they were last sent
    raced           \* history: products that two requests had open at once

rows == <<products, accountings, updates>>
orders == <<permits, items, checkout>>
history == <<unsent, raced>>
vars == <<now, rows, orders, talpa, history>>

Products == 1..MaxProducts
Accountings == 1..MaxAccountings
Ids == 1..MaxIds
Orders == 1..MaxOrders

Start == 0

NoRow == [state |-> "NONE", offer |-> None, id |-> None, accounting |-> None]

NoUpdate == [product |-> None, row |-> NoRow, content |-> None, sent |-> FALSE]

NoCheckout == [product |-> None, order |-> None]

NoProduct == [entity |-> None, accounting |-> None]

Init ==
    /\ now = 0
    /\ products = [a \in Products |-> NoRow]
    /\ accountings = [k \in Accountings |-> None]
    /\ updates = [r \in Requests |-> NoUpdate]
    /\ \E first \in Permits, z \in Zones :
        permits = [p \in Permits |-> [status |-> "DRAFT", primary |-> p = first, zone |-> z]]
    /\ items = [o \in Orders |-> None]
    /\ checkout = NoCheckout
    /\ talpa = [products |-> [i \in Ids |-> NoProduct], orders |-> [o \in Orders |-> {}],
                renewals |-> {}, renewing |-> [p \in Permits |-> None]]
    /\ unsent = {} /\ raced = {}

MonthPasses ==
    /\ now < LastMonth
    /\ now' = now + 1
    /\ UNCHANGED <<rows, orders, talpa, history>>

(***************************************************************************)
(* Products                                                                *)
(***************************************************************************)
IsNextId(i, t) == \A j \in Ids : (j < i) <=> t[j] # NoProduct

Created(i, row, a, t) == [row |-> [row EXCEPT !.id = i], talpa |-> [t EXCEPT ![i].entity = a]]

\* Mutant: a product that Talpa has is created again.
CreatesProductAgain(row, a, t) == {Created(i, row, a, t) : i \in {j \in Ids : IsNextId(j, t)}}

\* create_talpa_product: the row, and Talpa's products, after it has succeeded.
CreatesProduct(row, a, t) ==
    IF row.id # None THEN {[row |-> row, talpa |-> t]}
    ELSE {Created(i, row, a, t) : i \in {j \in Ids : IsNextId(j, t)}}

\* update_talpa_accounting, which does nothing for a product that lacks either.
SendsAccounting(row, content, t) ==
    IF row.id = None \/ row.accounting = None THEN t
    ELSE [t EXCEPT ![row.id].accounting = content]

\* The key of a row that is rolled back or deleted is not used again.
IsNextKey(a) == \A b \in Products : (b < a) <=> products[b].state # "NONE"

IsNextAccounting(k) == \A n \in Accountings : (n < k) <=> accountings[n] # None

\* createProduct, with create_talpa_accounting.  If it fails, what was made at Talpa
\* remains there.
CreateProduct(a, k, offer) ==
    /\ IsNextKey(a) /\ IsNextAccounting(k)
    /\ \E made \in CreatesProduct([NoRow EXCEPT !.state = "SAVED", !.offer = offer], a, talpa.products) :
        LET row == [made.row EXCEPT !.accounting = k]
            sent == SendsAccounting(row, DefaultAccounting, made.talpa)
        IN  \/ /\ products' = [products EXCEPT ![a] = row]
               /\ accountings' = [accountings EXCEPT ![k] = DefaultAccounting]
               /\ talpa' = [talpa EXCEPT !.products = sent]
            \/ /\ products' = [products EXCEPT ![a].state = "GONE"]
               /\ \E t \in {made.talpa, sent} : talpa' = [talpa EXCEPT !.products = t]
               /\ UNCHANGED accountings
    /\ UNCHANGED <<now, updates, orders, history>>

IsOpen(r) == updates[r] # NoUpdate

\* The save that begins an update locks the row until the transaction ends.
IsLocked(a) == \E r \in Requests : updates[r].product = a /\ updates[r].sent

\* updateProduct reads the product ...
ReadProduct(r, a) ==
    /\ ~IsOpen(r)
    /\ products[a].state = "SAVED"
    /\ updates' = [updates EXCEPT ![r] =
           [product |-> a, row |-> products[a], content |-> None, sent |-> FALSE]]
    /\ raced' = IF \E s \in Requests : updates[s].product = a THEN raced \union {a} ELSE raced
    /\ UNCHANGED <<now, products, accountings, orders, talpa, unsent>>

\* ... saves it, whatever was written and even if it was deleted since, and tells Talpa:
\* the product, if it was read without an id, and its accounting, whose row is read only
\* now; if Talpa refuses it, all is rolled back ...
SendProduct(r, offer) ==
    LET a == updates[r].product
        row == [updates[r].row EXCEPT !.offer = offer]
        content == IF row.accounting = None THEN None ELSE accountings[row.accounting]
    IN  /\ IsOpen(r) /\ ~updates[r].sent
        /\ ~IsLocked(a)
        /\ \E made \in CreatesProduct(row, a, talpa.products) :
            \/ /\ updates' = [updates EXCEPT ![r].row = made.row, ![r].content = content,
                                             ![r].sent = TRUE]
               /\ talpa' = [talpa EXCEPT !.products = SendsAccounting(made.row, content, made.talpa)]
               /\ UNCHANGED unsent
            \/ /\ updates' = [updates EXCEPT ![r] = NoUpdate]
               /\ talpa' = [talpa EXCEPT !.products = made.talpa]
               /\ unsent' = unsent \union {a}
        /\ UNCHANGED <<now, products, accountings, orders, raced>>

\* Mutant: the accounting that was sent is not saved.
AccountingsKept(k, content) == accountings

\* The accounting is saved as it was sent: what the admin site wrote since is overwritten.
AccountingsSaved(k, content) ==
    IF k = None THEN accountings ELSE [accountings EXCEPT ![k] = content]

\* The other products of an accounting whose row says something new.
Unaware(a) ==
    {b \in Products \ {a} : LET k == products[b].accounting
                            IN  k # None /\ accountings'[k] # accountings[k]}

\* ... and commits ...
CommitUpdate(r) ==
    LET a == updates[r].product
        row == updates[r].row
    IN  /\ updates[r].sent
        /\ products' = [products EXCEPT ![a] = row]
        /\ accountings' = AccountingsSaved(row.accounting, updates[r].content)
        /\ updates' = [updates EXCEPT ![r] = NoUpdate]
        /\ unsent' = (unsent \ {a}) \union Unaware(a)
        /\ UNCHANGED <<now, orders, talpa, raced>>

\* ... or is rolled back, whatever Talpa has done.
FailUpdate(r) ==
    /\ IsOpen(r)
    /\ updates' = [updates EXCEPT ![r] = NoUpdate]
    /\ unsent' = unsent \union {updates[r].product}
    /\ UNCHANGED <<now, products, accountings, orders, talpa, raced>>

HasItems(a) == \E o \in Orders : items[o] = a

\* deleteProduct, and the admin site.  The product at Talpa stays.
DeleteProduct(a) ==
    /\ products[a].state = "SAVED"
    /\ ~IsLocked(a) /\ ~HasItems(a)
    /\ products' = [products EXCEPT ![a] = [NoRow EXCEPT !.state = "GONE"]]
    /\ UNCHANGED <<now, accountings, updates, orders, talpa, history>>

\* The admin site adds products and accountings, and writes them.  It never tells Talpa.
AddProduct(a, offer) ==
    /\ IsNextKey(a)
    /\ products' = [products EXCEPT ![a] = [NoRow EXCEPT !.state = "SAVED", !.offer = offer]]
    /\ UNCHANGED <<now, accountings, updates, orders, talpa, history>>

EditProduct(a, offer, k) ==
    /\ products[a].state = "SAVED"
    /\ ~IsLocked(a)
    /\ k # None => accountings[k] # None
    /\ products' = [products EXCEPT ![a].offer = offer, ![a].accounting = k]
    /\ unsent' = IF k # products[a].accounting THEN unsent \union {a} ELSE unsent
    /\ UNCHANGED <<now, accountings, updates, orders, talpa, raced>>

AddAccounting(k, content) ==
    /\ IsNextAccounting(k)
    /\ accountings' = [accountings EXCEPT ![k] = content]
    /\ UNCHANGED <<now, products, updates, orders, talpa, history>>

EditAccounting(k, content) ==
    /\ accountings[k] \notin {None, content}
    /\ accountings' = [accountings EXCEPT ![k] = content]
    /\ unsent' = unsent \union {a \in Products : products[a].accounting = k}
    /\ UNCHANGED <<now, products, updates, orders, talpa, raced>>

(***************************************************************************)
(* The purchase                                                            *)
(***************************************************************************)
\* get_for_date: an error unless there is exactly one.
IsProductFor(a, zone, month) ==
    {b \in Products : /\ products[b].state = "SAVED"
                      /\ products[b].offer.zone = zone
                      /\ month \in products[b].offer.months} = {a}

Drafts == {p \in Permits : permits[p].status = "DRAFT"}

IsNextOrder(o) == \A n \in Orders : (n < o) <=> talpa.orders[n] # {}

ItemData(p, a) == [permit |-> p, id |-> products[a].id]

OrderData(a) == {ItemData(p, a) : p \in Drafts}

\* createOrder makes the order and its items ...
BeginCheckout(a) ==
    /\ checkout = NoCheckout
    /\ Drafts # {}
    /\ \A p \in Drafts : IsProductFor(a, permits[p].zone, Start)
    /\ checkout' = [product |-> a, order |-> None]
    /\ UNCHANGED <<now, rows, permits, items, talpa, history>>

\* ... sends them to Talpa, which knows no product without an id ...
SendToTalpa(o) ==
    /\ checkout.product # None /\ checkout.order = None
    /\ products[checkout.product].id # None
    /\ IsNextOrder(o)
    /\ talpa' = [talpa EXCEPT !.orders[o] = OrderData(checkout.product)]
    /\ checkout' = [checkout EXCEPT !.order = o]
    /\ UNCHANGED <<now, rows, permits, items, history>>

InPayment(ps) ==
    [p \in Permits |-> IF p \in ps THEN [permits[p] EXCEPT !.status = "PAYMENT_IN_PROGRESS"]
                                   ELSE permits[p]]

\* ... and, when the flow steps are set, commits with the ids that Talpa answered, if
\* the product still exists.
CommitCheckout ==
    /\ checkout.order # None
    /\ products[checkout.product].state = "SAVED"
    /\ permits' = InPayment(Drafts)
    /\ items' = [items EXCEPT ![checkout.order] = checkout.product]
    /\ checkout' = NoCheckout
    /\ UNCHANGED <<now, rows, talpa, history>>

\* Talpa refuses the order, or its flow steps cannot be set: everything here is rolled
\* back, and an order that Talpa has is never heard of again.
FailCheckout ==
    /\ checkout # NoCheckout
    /\ checkout' = NoCheckout
    /\ UNCHANGED <<now, rows, permits, items, talpa, history>>

PermitsOf(o) == {i.permit : i \in talpa.orders[o]}

\* PAYMENT_PAID
PaymentPaid(o) ==
    /\ items[o] # None
    /\ o \notin talpa.renewals
    /\ permits' = [p \in Permits |-> IF p \in PermitsOf(o) THEN [permits[p] EXCEPT !.status = "VALID"]
                                                          ELSE permits[p]]
    /\ UNCHANGED <<now, rows, items, checkout, talpa, history>>

EndPermit(p) ==
    /\ permits[p].status = "VALID"
    /\ permits' = [permits EXCEPT ![p].status = "CLOSED"]
    /\ UNCHANGED <<now, rows, items, checkout, talpa, history>>

Active == {p \in Permits : permits[p].status \in {"VALID", "PAYMENT_IN_PROGRESS"}}

\* changeAddress moves open-ended permits at once, and closed ones never.
ChangeAddress(z) ==
    /\ Active # {}
    /\ permits' = [p \in Permits |-> IF p \in Active THEN [permits[p] EXCEPT !.zone = z]
                                                     ELSE permits[p]]
    /\ UNCHANGED <<now, rows, items, checkout, talpa, history>>

(***************************************************************************)
(* Renewals                                                                *)
(***************************************************************************)
\* get_products_with_quantities of an open-ended permit: that of the day it started.
Resolved(p, a) == IsProductFor(a, permits[p].zone, Start)

\* TalpaResolveProduct.  A permit that is the customer's only one becomes the primary
\* one, also if there is no product to answer.  An id that is missing is answered as a
\* text that is the id of no product, of which Talpa makes no order.
ResolveProduct(p) ==
    /\ permits[p].status \in {"VALID", "CLOSED"}
    /\ talpa.renewing[p] = None
    /\ permits' = [permits EXCEPT ![p].primary = @ \/ Active \ {p} = {}]
    /\ \/ \E a \in Products :
            Resolved(p, a) /\ talpa' = [talpa EXCEPT !.renewing[p] = products[a].id]
       \/ ~(\E a \in Products : Resolved(p, a)) /\ UNCHANGED talpa
    /\ UNCHANGED <<now, rows, items, checkout, history>>

\* TalpaResolvePrice answers the price of the day.  Then Talpa makes the order.
ResolvePrice(p, o) ==
    /\ talpa.renewing[p] # None
    /\ \E a \in Products : IsProductFor(a, permits[p].zone, now)
    /\ IsNextOrder(o)
    /\ talpa' = [talpa EXCEPT !.renewing[p] = None, !.renewals = @ \union {o},
                              !.orders[o] = {[permit |-> p, id |-> talpa.renewing[p]]}]
    /\ UNCHANGED <<now, rows, orders, history>>

\* SUBSCRIPTION_RENEWAL_ORDER_CREATED, stored once, with the product of that id.
RenewalOrderCreated(o, a) ==
    /\ o \in talpa.renewals
    /\ items[o] = None
    /\ products[a].state = "SAVED"
    /\ \E i \in talpa.orders[o] : products[a].id = i.id
    /\ items' = [items EXCEPT ![o] = a]
    /\ UNCHANGED <<now, rows, permits, checkout, talpa, history>>

ProductsNext ==
    \/ \E a \in Products :
        \/ \E offer \in Offers : AddProduct(a, offer)
        \/ \E r \in Requests : ReadProduct(r, a)
        \/ DeleteProduct(a)
    \/ \E r \in Requests :
        \/ \E offer \in Offers : SendProduct(r, offer)
        \/ CommitUpdate(r) \/ FailUpdate(r)

AccountingsNext ==
    \/ \E a \in Products, offer \in Offers :
        \/ \E k \in Accountings : CreateProduct(a, k, offer)
        \/ \E k \in Accountings \union {None} : EditProduct(a, offer, k)
    \/ \E k \in Accountings, content \in Contents :
        AddAccounting(k, content) \/ EditAccounting(k, content)

SalesNext ==
    \/ MonthPasses
    \/ \E a \in Products : BeginCheckout(a) \/ \E o \in Orders : RenewalOrderCreated(o, a)
    \/ CommitCheckout \/ FailCheckout
    \/ \E z \in Zones : ChangeAddress(z)
    \/ \E o \in Orders : SendToTalpa(o) \/ PaymentPaid(o)
    \/ \E p \in Permits :
        \/ EndPermit(p) \/ ResolveProduct(p)
        \/ \E o \in Orders : ResolvePrice(p, o)

Next == ProductsNext \/ AccountingsNext \/ SalesNext

Spec == Init /\ [][Next]_vars

(***************************************************************************)
(* Properties                                                              *)
(***************************************************************************)
\* Talpa books the payments of a product on the accounting that the application shows,
\* since the last updateProduct or createProduct that succeeded: also when the admin site
\* or the update of another product wrote that accounting while it was under way.
AccountingAgrees ==
    \A a \in Products \ unsent :
        LET row == products[a]
        IN  /\ row.state = "SAVED" /\ row.id # None /\ row.accounting # None
            /\ \A r \in Requests : updates[r].product # a
            => talpa.products[row.id].accounting = accountings[row.accounting]

\* A permit that waits for payment waits for an order that Talpa has and that is stored
\* here: no failure of createOrder leaves one waiting for an order that nobody can pay.
WaitsForKnownOrder ==
    \A p \in Permits : permits[p].status = "PAYMENT_IN_PROGRESS" =>
        \E o \in Orders : items[o] # None /\ p \in PermitsOf(o)

\* An order that is stored here is for the product that Talpa sold, and whatever Talpa
\* sold or renews of a product that was ever bought has the id of that product here, so
\* its renewal can be stored whenever it is notified; unless two requests wrote the
\* product at once.  A product that nobody bought may be deleted while Talpa renews it.
SoldProductIsKnown ==
    \A o \in Orders : \A i \in talpa.orders[o] :
        LET a == talpa.products[i.id].entity
        IN  /\ items[o] \in {None, a}
            /\ HasItems(a) => a \in raced \/ products[a].id = i.id
================================================================================

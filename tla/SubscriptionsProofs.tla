-------------------------- MODULE SubscriptionsProofs --------------------------
(***************************************************************************)
(* Proofs about Subscriptions, for every set of permits and every bound on *)
(* the orders and on the time.                                             *)
(***************************************************************************)
EXTENDS Subscriptions, FiniteSetTheorems, WellFoundedInduction, TLAPS

(***************************************************************************)
(* The latest order                                                        *)
(***************************************************************************)
LEMMA LatestExists ==
  ASSUME NEW S \in SUBSET Orders, S # {}
  PROVE  \E o \in S : \A i \in S : i <= o
<1> DEFINE R == OpToRel(<, Nat)
           T == {MaxOrders - o : o \in S}
<1>1. T \subseteq Nat /\ T # {}
  <2>1. \A o \in S : MaxOrders - o \in Nat
    BY BoundsAssumption DEF Orders
  <2> QED
    BY <2>1
<1>2. PICK x \in T : \A y \in T : <<y, x>> \notin R
  <2>1. IsWellFoundedOn(R, Nat)
    BY NatLessThanWellFounded
  <2> HIDE DEF R, T
  <2> QED
    BY <1>1, <2>1, WFMin
<1>3. \A y \in T : ~(y < x)
  BY <1>1, <1>2 DEF OpToRel
<1>4. PICK o \in S : x = MaxOrders - o
  OBVIOUS
<1>5. \A i \in S : MaxOrders - i \in T
  OBVIOUS
<1>6. \A i \in S : ~(MaxOrders - i < MaxOrders - o)
  BY <1>3, <1>4, <1>5
<1> QED
  BY <1>6, BoundsAssumption DEF Orders

LEMMA LatestIsOrder ==
  ASSUME NEW p \in Permits, OrdersOf(p) # {}
  PROVE  LatestOrder(p) \in OrdersOf(p)
<1>1. OrdersOf(p) \in SUBSET Orders
  BY DEF OrdersOf
<1>2. \E o \in OrdersOf(p) : \A i \in OrdersOf(p) : i <= o
  BY <1>1, LatestExists
<1> QED
  BY <1>2 DEF LatestOrder

LEMMA OneIsOrder == 1 \in Orders
  BY BoundsAssumption DEF Orders

(***************************************************************************)
(* Type correctness                                                        *)
(***************************************************************************)
PermitRow == [status : {"PAYMENT_IN_PROGRESS", "VALID", "CLOSED"}, end : Months]
OrderRow == [status : OrderStatus, permits : SUBSET Permits, refunded : SUBSET Permits]
TalpaState == [subscriptions : [Permits -> {"NONE", "ACTIVE", "CANCELLED"}],
               orders : [Orders -> SUBSET Permits], paid : SUBSET Orders]

LEMMA InitType == Init => TypeOK
<1> SUFFICES ASSUME Init PROVE TypeOK
  OBVIOUS
<1>1. now \in Months /\ Start + 1 \in Months
  BY BoundsAssumption DEF Init, Months, Start
<1>2. permits \in [Permits -> PermitRow]
  BY <1>1 DEF Init, PermitRow
<1>3. orders \in [Orders -> OrderRow]
  <2>1. NoOrder \in OrderRow /\ [NoOrder EXCEPT !.status = "DRAFT", !.permits = Permits] \in OrderRow
    BY DEF NoOrder, OrderRow, OrderStatus
  <2> QED
    BY <2>1 DEF Init
<1>4. refunds \in [Items -> Nat] /\ subscriptions \in [Permits -> SubscriptionStatus]
  BY DEF Init, SubscriptionStatus
<1>5. talpa \in TalpaState
  BY DEF Init, TalpaState
<1> QED
  BY <1>1, <1>2, <1>3, <1>4, <1>5 DEF Init, TypeOK, PermitRow, OrderRow, TalpaState

LEMMA EndOfType ==
  ASSUME TypeOK, NEW p \in Permits,
         NEW endType \in {"IMMEDIATELY", "AFTER_CURRENT_PERIOD", "PREVIOUS_DAY_END"},
         endType = "PREVIOUS_DAY_END" => permits[p].end < now
  PROVE  EndOf(p, endType) \in Months
<1>1. permits[p].end \in Months /\ now \in Months
  BY DEF TypeOK
<1> QED
  BY <1>1, BoundsAssumption DEF EndOf, Months, Start

(* What EndPermits writes, table by table. *)
LEMMA EndedRows ==
  ASSUME NEW ended, NEW endType, NEW cancelFromTalpa, EndPermits(ended, endType, cancelFromTalpa)
  PROVE  /\ permits' = [p \in Permits |->
                IF p \in ended
                THEN [status |-> IF endType = "AFTER_CURRENT_PERIOD" THEN permits[p].status
                                                                    ELSE "CLOSED",
                      end |-> EndOf(p, endType)]
                ELSE permits[p]]
         /\ prolonged' = prolonged \union {p \in ended : EndOf(p, endType) > permits[p].end}
         /\ UNCHANGED <<now, repeated>>
  BY DEF EndPermits

LEMMA EndedTalpa ==
  ASSUME NEW ended, NEW endType, NEW cancelFromTalpa, EndPermits(ended, endType, cancelFromTalpa)
  PROVE  \E S \in SUBSET {p \in ended : subscriptions[p] # "NONE"} :
            talpa' = [talpa EXCEPT !.subscriptions =
                   [p \in Permits |-> IF p \in S THEN "CANCELLED" ELSE talpa.subscriptions[p]]]
<1> DEFINE subscribed == {p \in ended : subscriptions[p] # "NONE"}
<1>0. PICK cancelled \in SUBSET subscribed :
        \E cancelledAtTalpa \in IF cancelFromTalpa THEN SUBSET cancelled ELSE {{}} :
            talpa' = [talpa EXCEPT !.subscriptions =
                    [p \in Permits |-> IF p \in cancelledAtTalpa THEN "CANCELLED" ELSE @[p]]]
  BY DEF EndPermits
<1>1. PICK cancelledAtTalpa \in IF cancelFromTalpa THEN SUBSET cancelled ELSE {{}} :
        talpa' = [talpa EXCEPT !.subscriptions =
                    [p \in Permits |-> IF p \in cancelledAtTalpa THEN "CANCELLED" ELSE @[p]]]
  BY <1>0
<1>2. cancelledAtTalpa \in SUBSET subscribed
  OBVIOUS
<1> HIDE DEF subscribed
<1> QED
  BY <1>1, <1>2 DEF subscribed

(* The items that Subscription.cancel refunds once more. *)
Again(ended, cancelled) == ItemsToRefund(cancelled, RefundedItems(ItemsToRefund(ended, Refunded)))

RefundsWith(items, again) ==
    [i \in Items |-> refunds[i] + (IF i \in items THEN 1 ELSE 0) + (IF i \in again THEN 1 ELSE 0)]

OrdersWith(items, again, cancelsOrder) ==
    [o \in Orders |->
        [orders[o] EXCEPT
            !.refunded = RefundedItems(items)[o] \union (IF o = 1 THEN {i[2] : i \in again} ELSE {}),
            !.status = IF o = 1 /\ cancelsOrder THEN "CANCELLED" ELSE @]]

LEMMA EndedItems ==
  ASSUME NEW ended, NEW endType, NEW cancelFromTalpa, EndPermits(ended, endType, cancelFromTalpa)
  PROVE  \E cancelled \in SUBSET ended, b \in BOOLEAN :
           /\ refunds' = RefundsWith(ItemsToRefund(ended, Refunded), Again(ended, cancelled))
           /\ orders' = OrdersWith(ItemsToRefund(ended, Refunded), Again(ended, cancelled), b)
           /\ subscriptions' = [p \in Permits |-> IF p \in cancelled THEN "CANCELLED" ELSE subscriptions[p]]
<1> DEFINE subscribed(cancelled) ==
              [p \in Permits |-> IF p \in cancelled THEN "CANCELLED" ELSE subscriptions[p]]
           hasEnded(cancelled) == cancelled # {} /\ ~HasSubscription(subscribed(cancelled))
<1>1. PICK cancelled \in SUBSET {p \in ended : subscriptions[p] # "NONE"} :
        \E cancelsOrder \in {FALSE, hasEnded(cancelled)} :
            /\ refunds' = RefundsWith(ItemsToRefund(ended, Refunded), Again(ended, cancelled))
            /\ orders' = OrdersWith(ItemsToRefund(ended, Refunded), Again(ended, cancelled),
                                    cancelsOrder)
            /\ subscriptions' = subscribed(cancelled)
  BY DEF EndPermits, Again, RefundsWith, OrdersWith
<1>2. cancelled \in SUBSET ended
  OBVIOUS
<1>3. hasEnded(cancelled) \in BOOLEAN
  OBVIOUS
<1> HIDE DEF hasEnded
<1> QED
  BY <1>1, <1>2, <1>3

LEMMA RefundedRows ==
  ASSUME NEW items, NEW o \in Orders
  PROVE  /\ RefundedItems(items)[o] = orders[o].refunded \union {p \in Permits : <<o, p>> \in items}
         /\ Refunded[o] = orders[o].refunded
  BY DEF RefundedItems, Refunded

LEMMA ItemsAreRefundable ==
  ASSUME NEW S \in SUBSET Permits, NEW refunded
  PROVE  /\ \A o, p : <<o, p>> \in ItemsToRefund(S, refunded) => p \in S /\ CanBeRefunded(p)
         /\ \A i \in ItemsToRefund(S, refunded) : i[2] \in S /\ CanBeRefunded(i[2])
  BY DEF ItemsToRefund

LEMMA EndedOrders ==
  ASSUME TypeOK, NEW ended \in SUBSET Permits, NEW endType, NEW cancelFromTalpa,
         EndPermits(ended, endType, cancelFromTalpa)
  PROVE  /\ orders' \in [Orders -> OrderRow]
         /\ \A o \in Orders :
              /\ orders'[o].permits = orders[o].permits
              /\ orders'[o].refunded \subseteq
                    orders[o].refunded \union {p \in ended : CanBeRefunded(p)}
              /\ orders'[o].status \in
                    {orders[o].status} \union (IF o = 1 THEN {"CANCELLED"} ELSE {})
<1> DEFINE items == ItemsToRefund(ended, Refunded)
<1>1. PICK cancelled \in SUBSET ended, b \in BOOLEAN :
        orders' = OrdersWith(items, Again(ended, cancelled), b)
  <2>1. \E cancelled \in SUBSET ended, b \in BOOLEAN :
          orders' = OrdersWith(ItemsToRefund(ended, Refunded), Again(ended, cancelled), b)
    BY EndedItems
  <2> QED
    BY <2>1
<1> DEFINE again == {i[2] : i \in Again(ended, cancelled)}
           more == {p \in ended : CanBeRefunded(p)}
<1>2. again \subseteq more
  <2>1. cancelled \in SUBSET Permits
    OBVIOUS
  <2> QED
    BY <2>1, ItemsAreRefundable DEF Again
<1>3. ASSUME NEW o \in Orders
      PROVE  RefundedItems(items)[o] \subseteq orders[o].refunded \union more
  <2>1. \A p \in Permits : <<o, p>> \in items => p \in more
    BY ItemsAreRefundable
  <2>2. RefundedItems(items)[o] = orders[o].refunded \union {p \in Permits : <<o, p>> \in items}
    BY RefundedRows
  <2> HIDE DEF items, more
  <2> QED
    BY <2>1, <2>2
<1>4. more \subseteq Permits
  OBVIOUS
<1> HIDE DEF items, again, more
<1>5. ASSUME NEW o \in Orders
      PROVE  /\ orders'[o] \in OrderRow
             /\ orders'[o].permits = orders[o].permits
             /\ orders'[o].refunded \subseteq orders[o].refunded \union more
             /\ orders'[o].status \in
                   {orders[o].status} \union (IF o = 1 THEN {"CANCELLED"} ELSE {})
  <2> DEFINE refunded == RefundedItems(items)[o] \union (IF o = 1 THEN again ELSE {})
             status == IF o = 1 /\ b THEN "CANCELLED" ELSE orders[o].status
  <2>1. orders[o] \in OrderRow
    BY DEF TypeOK, OrderRow
  <2>2. refunded \subseteq orders[o].refunded \union more
    BY <1>2, <1>3
  <2>3. refunded \subseteq Permits /\ status \in OrderStatus
    BY <1>4, <2>1, <2>2 DEF OrderRow, OrderStatus
  <2>4. orders'[o] = [orders[o] EXCEPT !.refunded = refunded, !.status = status]
    BY <1>1 DEF again, OrdersWith
  <2>5. status \in {orders[o].status} \union (IF o = 1 THEN {"CANCELLED"} ELSE {})
    OBVIOUS
  <2> HIDE DEF refunded, status
  <2>6. /\ orders'[o] \in OrderRow
        /\ orders'[o].permits = orders[o].permits
        /\ orders'[o].refunded = refunded
        /\ orders'[o].status = status
    BY <2>1, <2>3, <2>4 DEF OrderRow
  <2> QED
    BY <2>2, <2>5, <2>6
<1>6. orders' = [o \in Orders |-> orders'[o]]
  BY <1>1 DEF OrdersWith
<1> QED
  BY <1>5, <1>6 DEF more

LEMMA EndPermitsType ==
  ASSUME TypeOK, NEW ended \in SUBSET Permits,
         NEW endType \in {"IMMEDIATELY", "AFTER_CURRENT_PERIOD", "PREVIOUS_DAY_END"},
         endType = "PREVIOUS_DAY_END" => \A p \in ended : permits[p].end < now,
         NEW cancelFromTalpa, EndPermits(ended, endType, cancelFromTalpa)
  PROVE  TypeOK'
<1>1. permits' \in [Permits -> PermitRow]
  <2>1. ASSUME NEW p \in ended
        PROVE  [status |-> IF endType = "AFTER_CURRENT_PERIOD" THEN permits[p].status ELSE "CLOSED",
                end |-> EndOf(p, endType)] \in PermitRow
    <3>1. EndOf(p, endType) \in Months /\ permits[p] \in PermitRow
      BY EndOfType DEF TypeOK, PermitRow
    <3> QED
      BY <3>1 DEF PermitRow
  <2> QED
    BY <2>1, EndedRows DEF TypeOK, PermitRow
<1>2. orders' \in [Orders -> OrderRow]
  BY EndedOrders
<1>3. subscriptions' \in [Permits -> SubscriptionStatus]
  <2>1. PICK cancelled \in SUBSET ended :
          subscriptions' = [p \in Permits |-> IF p \in cancelled THEN "CANCELLED" ELSE subscriptions[p]]
    BY EndedItems
  <2> QED
    BY <2>1 DEF TypeOK, SubscriptionStatus
<1>4. refunds' \in [Items -> Nat]
  <2>1. PICK items, again : refunds' = RefundsWith(items, again)
    BY EndedItems
  <2>2. \A i \in Items : refunds[i] + (IF i \in items THEN 1 ELSE 0)
                                    + (IF i \in again THEN 1 ELSE 0) \in Nat
    BY DEF TypeOK
  <2> QED
    BY <2>1, <2>2 DEF RefundsWith
<1>5. talpa' \in TalpaState
  <2>1. PICK S : talpa' = [talpa EXCEPT !.subscriptions =
                   [p \in Permits |-> IF p \in S THEN "CANCELLED" ELSE talpa.subscriptions[p]]]
    BY EndedTalpa
  <2>2. [p \in Permits |-> IF p \in S THEN "CANCELLED" ELSE talpa.subscriptions[p]]
           \in [Permits -> {"NONE", "ACTIVE", "CANCELLED"}]
    BY DEF TypeOK
  <2> QED
    BY <2>1, <2>2 DEF TypeOK, TalpaState
<1>6. now' \in Months /\ repeated' \in SUBSET Orders /\ prolonged' \in SUBSET Permits
  BY EndedRows DEF TypeOK
<1> QED
  BY <1>1, <1>2, <1>3, <1>4, <1>5, <1>6 DEF TypeOK, PermitRow, OrderRow, TalpaState

LEMMA TalpaType ==
  ASSUME TypeOK
  PROVE  /\ MonthPasses => TypeOK'
         /\ \A o \in Orders : TalpaPays(o) => TypeOK'
         /\ \A p \in Permits : TalpaCancels(p) => TypeOK'
         /\ \A p \in Permits, o \in Orders : TalpaRenews(p, o) => TypeOK'
<1>1. ASSUME MonthPasses PROVE TypeOK'
  BY <1>1, BoundsAssumption DEF MonthPasses, TypeOK, Months, rows
<1>2. ASSUME NEW o \in Orders, TalpaPays(o) PROVE TypeOK'
  <2>1. talpa' \in TalpaState
    BY <1>2 DEF TalpaPays, TypeOK, TalpaState
  <2> QED
    BY <1>2, <2>1 DEF TalpaPays, TypeOK, TalpaState, rows
<1>3. ASSUME NEW p \in Permits, TalpaCancels(p) PROVE TypeOK'
  <2>1. talpa' \in TalpaState
    BY <1>3 DEF TalpaCancels, TypeOK, TalpaState
  <2> QED
    BY <1>3, <2>1 DEF TalpaCancels, TypeOK, TalpaState, rows
<1>4. ASSUME NEW p \in Permits, NEW o \in Orders, TalpaRenews(p, o) PROVE TypeOK'
  <2>1. talpa' \in TalpaState
    BY <1>4 DEF TalpaRenews, TypeOK, TalpaState
  <2> QED
    BY <1>4, <2>1 DEF TalpaRenews, TypeOK, TalpaState, rows
<1> QED
  BY <1>1, <1>2, <1>3, <1>4

LEMMA WebhookType ==
  ASSUME TypeOK
  PROVE  /\ \A o \in Orders : PaymentPaid(o) => TypeOK'
         /\ \A p \in Permits : SubscriptionCreated(p) => TypeOK'
         /\ \A o \in Orders : RenewalOrderCreated(o) => TypeOK'
<1>1. ASSUME NEW o \in Orders, PaymentPaid(o) PROVE TypeOK'
  <2>1. ASSUME NEW p \in orders[o].permits
        PROVE  [permits[p] EXCEPT !.status = "VALID", !.end = IF IsRenewal(o) THEN @ + 1 ELSE @]
                 \in PermitRow
    <3>1. permits[p] \in PermitRow
      BY DEF TypeOK, PermitRow, OrderRow
    <3>2. permits[p].end < MaxMonth - 1
      BY <1>1 DEF PaymentPaid
    <3>3. permits[p].end + 1 \in Months
      BY <3>1, <3>2, BoundsAssumption DEF PermitRow, Months
    <3> QED
      BY <3>1, <3>3 DEF PermitRow
  <2>2. permits' \in [Permits -> PermitRow]
    BY <1>1, <2>1 DEF PaymentPaid, TypeOK, PermitRow
  <2>3. orders' \in [Orders -> OrderRow]
    <3>1. orders[o] \in OrderRow
      BY DEF TypeOK, OrderRow
    <3>2. [orders[o] EXCEPT !.status = "CONFIRMED"] \in OrderRow
      BY <3>1 DEF OrderRow, OrderStatus
    <3> QED
      BY <1>1, <3>2 DEF PaymentPaid, TypeOK, OrderRow
  <2> QED
    BY <1>1, <2>2, <2>3 DEF PaymentPaid, TypeOK, PermitRow, OrderRow
<1>2. ASSUME NEW p \in Permits, SubscriptionCreated(p) PROVE TypeOK'
  BY <1>2 DEF SubscriptionCreated, TypeOK, SubscriptionStatus
<1>3. ASSUME NEW o \in Orders, RenewalOrderCreated(o) PROVE TypeOK'
  <2>1. orders' \in [Orders -> OrderRow]
    BY <1>3 DEF RenewalOrderCreated, TypeOK, OrderRow, OrderStatus, NoOrder
  <2> QED
    BY <1>3, <2>1 DEF RenewalOrderCreated, TypeOK, OrderRow
<1> QED
  BY <1>1, <1>2, <1>3

(* Every ending is one of end_permits, and the nightly job ends what is past its end. *)
EndsSome(ended, endType) ==
    /\ \E cancelFromTalpa \in BOOLEAN : EndPermits(ended, endType, cancelFromTalpa)
    /\ endType = "PREVIOUS_DAY_END" => \A p \in ended : permits[p].end < now

Ends ==
    \E ended \in SUBSET Permits,
       endType \in {"IMMEDIATELY", "AFTER_CURRENT_PERIOD", "PREVIOUS_DAY_END"} :
        EndsSome(ended, endType)

LEMMA EndingsEnd ==
  /\ \A endType \in {"IMMEDIATELY", "AFTER_CURRENT_PERIOD"} :
        /\ \A ended \in SUBSET Permits : CustomerEnds(ended, endType) => Ends
        /\ \A p \in Permits : ClerkEnds(p, endType) => Ends
  /\ \A p \in Permits, o \in Orders : SubscriptionCancelled(p, o) => Ends
  /\ \A p \in Permits : Expire(p) => Ends
<1>1. ASSUME NEW ended \in SUBSET Permits, NEW endType \in {"IMMEDIATELY", "AFTER_CURRENT_PERIOD"},
             CustomerEnds(ended, endType)
      PROVE  Ends
  <2>1. EndsSome(ended, endType)
    BY <1>1 DEF CustomerEnds, EndsSome
  <2> QED
    BY <2>1 DEF Ends
<1>2. ASSUME NEW p \in Permits, NEW endType \in {"IMMEDIATELY", "AFTER_CURRENT_PERIOD"},
             ClerkEnds(p, endType)
      PROVE  Ends
  <2>1. EndsSome({p}, endType)
    BY <1>2 DEF ClerkEnds, EndsSome
  <2> QED
    BY <2>1 DEF Ends
<1>3. ASSUME NEW p \in Permits, NEW o \in Orders, SubscriptionCancelled(p, o)
      PROVE  Ends
  <2>1. EndsSome({p}, "AFTER_CURRENT_PERIOD")
    BY <1>3 DEF SubscriptionCancelled, EndsSome
  <2> QED
    BY <2>1 DEF Ends
<1>4. ASSUME NEW p \in Permits, Expire(p)
      PROVE  Ends
  <2>1. EndsSome({p}, "PREVIOUS_DAY_END")
    BY <1>4 DEF Expire, EndsSome
  <2> QED
    BY <2>1 DEF Ends
<1> QED
  BY <1>1, <1>2, <1>3, <1>4

LEMMA StepType == TypeOK /\ [Next]_vars => TypeOK'
<1> SUFFICES ASSUME TypeOK, [Next]_vars PROVE TypeOK'
  OBVIOUS
<1>1. CASE UNCHANGED vars
  BY <1>1 DEF vars, rows, TypeOK
<1>2. Ends => TypeOK'
  BY EndPermitsType DEF Ends, EndsSome
<1> QED
  BY <1>1, <1>2, TalpaType, WebhookType, EndingsEnd DEF Next

\* Every row keeps its type; in particular no permit ends beyond the bound on the time.
THEOREM TypeCorrect == Spec => []TypeOK
<1> QED
  BY InitType, StepType, PTL DEF Spec

(***************************************************************************)
(* Refunds                                                                 *)
(***************************************************************************)
(* An item that was refunded is marked, and the mark is only lost with a row that does
   not exist yet. *)
RefundInv ==
    /\ TypeOK
    /\ orders[1].status # "NONE" /\ orders[1].permits = Permits
    /\ \A o \in Orders : orders[o].status = "NONE" => orders[o].refunded = {}
    /\ \A o \in Orders, p \in Permits :
        /\ refunds[<<o, p>>] <= 1
        /\ p \notin orders[o].refunded => refunds[<<o, p>>] = 0

LEMMA RefundInit == Init => RefundInv
<1> SUFFICES ASSUME Init PROVE RefundInv
  OBVIOUS
<1>1. \A o \in Orders, p \in Permits : refunds[<<o, p>>] = 0
  BY DEF Init, Items
<1>2. \A o \in Orders : orders[o].refunded = {}
  BY DEF Init, NoOrder
<1>3. orders[1].status = "DRAFT" /\ orders[1].permits = Permits
  BY OneIsOrder DEF Init, NoOrder
<1> QED
  BY <1>1, <1>2, <1>3, InitType DEF RefundInv

LEMMA LatestExistsFor ==
  ASSUME RefundInv, NEW p \in Permits
  PROVE  LatestOrder(p) \in Orders /\ orders[LatestOrder(p)].status # "NONE"
<1>1. 1 \in OrdersOf(p)
  BY OneIsOrder DEF RefundInv, OrdersOf
<1> QED
  BY <1>1, LatestIsOrder DEF OrdersOf

LEMMA ItemsAreOfOrders ==
  ASSUME RefundInv, NEW ended \in SUBSET Permits, NEW o \in Orders, NEW p \in Permits,
         <<o, p>> \in ItemsToRefund(ended, Refunded)
  PROVE  orders[o].status # "NONE" /\ p \notin orders[o].refunded
<1>1. o = LatestOrder(p) /\ p \notin Refunded[LatestOrder(p)]
  BY DEF ItemsToRefund
<1> QED
  BY <1>1, LatestExistsFor, RefundedRows

(* create_permit_refunds leaves nothing for Subscription.cancel to refund. *)
LEMMA NothingAgain ==
  ASSUME RefundInv, NEW ended \in SUBSET Permits, NEW cancelled \in SUBSET ended
  PROVE  Again(ended, cancelled) = {}
<1> DEFINE items == ItemsToRefund(ended, Refunded)
<1> SUFFICES ASSUME NEW p \in cancelled, CanBeRefunded(p), p \notin RefundedItems(items)[LatestOrder(p)]
             PROVE  FALSE
  BY DEF Again, ItemsToRefund
<1>1. LatestOrder(p) \in Orders
  BY LatestExistsFor
<1>2. p \notin orders[LatestOrder(p)].refunded /\ <<LatestOrder(p), p>> \notin items
  BY <1>1, RefundedRows
<1>3. p \notin Refunded[LatestOrder(p)]
  BY <1>1, <1>2, RefundedRows
<1> QED
  BY <1>2, <1>3 DEF ItemsToRefund

LEMMA EndedOnce ==
  ASSUME RefundInv, NEW ended \in SUBSET Permits, NEW endType, NEW cancelFromTalpa,
         EndPermits(ended, endType, cancelFromTalpa),
         NEW o \in Orders, NEW p \in Permits
  PROVE  LET items == ItemsToRefund(ended, Refunded)
         IN  /\ orders'[o].refunded = orders[o].refunded \union {q \in Permits : <<o, q>> \in items}
             /\ refunds'[<<o, p>>] = refunds[<<o, p>>] + (IF <<o, p>> \in items THEN 1 ELSE 0)
             /\ refunds[<<o, p>>] \in Nat
<1> DEFINE items == ItemsToRefund(ended, Refunded)
<1>1. PICK cancelled \in SUBSET ended, b \in BOOLEAN :
        /\ refunds' = RefundsWith(items, Again(ended, cancelled))
        /\ orders' = OrdersWith(items, Again(ended, cancelled), b)
  BY EndedItems
<1>2. Again(ended, cancelled) = {}
  BY NothingAgain
<1> HIDE DEF items
<1>3. orders[o] \in OrderRow /\ refunds[<<o, p>>] \in Nat /\ <<o, p>> \in Items
  BY DEF RefundInv, TypeOK, OrderRow, Items
<1>4. orders'[o] = [orders[o] EXCEPT
                !.refunded = RefundedItems(items)[o] \union
                             (IF o = 1 THEN {i[2] : i \in Again(ended, cancelled)} ELSE {}),
                !.status = IF o = 1 /\ b THEN "CANCELLED" ELSE @]
  BY <1>1 DEF OrdersWith
<1>5. RefundedItems(items)[o] \union
        (IF o = 1 THEN {i[2] : i \in Again(ended, cancelled)} ELSE {}) = RefundedItems(items)[o]
  BY <1>2
<1>6. orders'[o].refunded = RefundedItems(items)[o]
  BY <1>3, <1>4, <1>5 DEF OrderRow
<1>7. refunds'[<<o, p>>] = refunds[<<o, p>>] + (IF <<o, p>> \in items THEN 1 ELSE 0) + 0
  BY <1>1, <1>2, <1>3 DEF RefundsWith
<1> QED
  BY <1>3, <1>6, <1>7, RefundedRows DEF items

LEMMA EndsKeepRefunds ==
  ASSUME RefundInv, Ends
  PROVE  RefundInv'
<1>1. PICK ended \in SUBSET Permits,
           endType \in {"IMMEDIATELY", "AFTER_CURRENT_PERIOD", "PREVIOUS_DAY_END"} :
        EndsSome(ended, endType)
  BY DEF Ends
<1>0. PICK cancelFromTalpa \in BOOLEAN : EndPermits(ended, endType, cancelFromTalpa)
  BY <1>1 DEF EndsSome
<1> DEFINE items == ItemsToRefund(ended, Refunded)
<1>2. TypeOK /\ TypeOK'
  BY <1>0, <1>1, EndPermitsType DEF RefundInv, EndsSome
<1>3. \A o \in Orders :
        /\ orders'[o].permits = orders[o].permits
        /\ orders'[o].status \in {orders[o].status} \union (IF o = 1 THEN {"CANCELLED"} ELSE {})
  BY <1>0, <1>2, EndedOrders
<1>4. ASSUME NEW o \in Orders, NEW p \in Permits
      PROVE  /\ orders'[o].refunded = orders[o].refunded \union {q \in Permits : <<o, q>> \in items}
             /\ refunds'[<<o, p>>] = refunds[<<o, p>>] + (IF <<o, p>> \in items THEN 1 ELSE 0)
             /\ refunds[<<o, p>>] \in Nat
  BY <1>0, EndedOnce
<1>5. \A o \in Orders, p \in Permits :
        <<o, p>> \in items => orders[o].status # "NONE" /\ p \notin orders[o].refunded
  BY ItemsAreOfOrders
<1> HIDE DEF items
<1>6. ASSUME NEW o \in Orders, orders'[o].status = "NONE"
      PROVE  orders'[o].refunded = {}
  <2>1. orders[o].status = "NONE"
    BY <1>3, <1>6
  <2>2. orders[o].refunded = {} /\ \A p \in Permits : <<o, p>> \notin items
    BY <1>5, <2>1 DEF RefundInv
  <2>3. orders'[o].refunded = {p \in orders'[o].refunded : p \in Permits}
    BY <1>2 DEF TypeOK
  <2> QED
    BY <1>4, <2>2, <2>3
<1>7. \A o \in Orders, p \in Permits :
        /\ refunds'[<<o, p>>] <= 1
        /\ p \notin orders'[o].refunded => refunds'[<<o, p>>] = 0
  <2> SUFFICES ASSUME NEW o \in Orders, NEW p \in Permits
               PROVE  /\ refunds'[<<o, p>>] <= 1
                      /\ p \notin orders'[o].refunded => refunds'[<<o, p>>] = 0
    OBVIOUS
  <2>1. /\ refunds[<<o, p>>] <= 1
        /\ p \notin orders[o].refunded => refunds[<<o, p>>] = 0
    BY DEF RefundInv
  <2>2. CASE <<o, p>> \in items
    <3>1. p \notin orders[o].refunded /\ p \in orders'[o].refunded
      BY <1>4, <1>5, <2>2
    <3> QED
      BY <1>4, <2>1, <2>2, <3>1
  <2>3. CASE <<o, p>> \notin items
    <3>1. refunds'[<<o, p>>] = refunds[<<o, p>>]
      BY <1>4, <2>3
    <3> QED
      BY <1>4, <2>1, <3>1
  <2> QED
    BY <2>2, <2>3
<1> QED
  BY <1>2, <1>3, <1>6, <1>7, OneIsOrder DEF RefundInv

LEMMA WebhooksKeepRefunds ==
  ASSUME RefundInv, NEW o \in Orders, PaymentPaid(o) \/ RenewalOrderCreated(o)
  PROVE  RefundInv'
<1>1. TypeOK /\ TypeOK'
  BY WebhookType DEF RefundInv
<1>2. UNCHANGED refunds
  BY DEF PaymentPaid, RenewalOrderCreated
<1>3. \A k \in Orders \ {o} : orders'[k] = orders[k]
  BY <1>1 DEF PaymentPaid, RenewalOrderCreated, TypeOK
<1>4. CASE PaymentPaid(o)
  <2>1. /\ orders'[o].permits = orders[o].permits /\ orders'[o].refunded = orders[o].refunded
        /\ orders'[o].status = "CONFIRMED"
    <3>1. orders[o] \in OrderRow
      BY <1>1 DEF TypeOK, OrderRow
    <3>2. orders'[o] = [orders[o] EXCEPT !.status = "CONFIRMED"]
      BY <1>1, <1>4 DEF PaymentPaid, TypeOK
    <3> QED
      BY <3>1, <3>2 DEF OrderRow
  <2> QED
    BY <1>1, <1>2, <1>3, <2>1, OneIsOrder DEF RefundInv
<1>5. CASE RenewalOrderCreated(o)
  <2>1. o # 1 /\ orders[o].status = "NONE" /\ orders'[o].refunded = {}
    BY <1>1, <1>5 DEF RenewalOrderCreated, IsRenewal, TypeOK, NoOrder
  <2> QED
    BY <1>1, <1>2, <1>3, <2>1, OneIsOrder DEF RefundInv
<1> QED
  BY <1>4, <1>5

(* The other steps leave permits, orders, refunds and notifications alone. *)
OthersKeep == UNCHANGED <<permits, orders, refunds, repeated, prolonged>>

LEMMA Steps ==
  ASSUME [Next]_vars
  PROVE  \/ OthersKeep
         \/ \E o \in Orders : PaymentPaid(o) \/ RenewalOrderCreated(o)
         \/ Ends
  BY EndingsEnd DEF Next, OthersKeep, vars, rows, MonthPasses, TalpaPays, TalpaCancels,
     TalpaRenews, SubscriptionCreated

LEMMA StepRefunds == RefundInv /\ [Next]_vars => RefundInv'
<1> SUFFICES ASSUME RefundInv, [Next]_vars PROVE RefundInv'
  OBVIOUS
<1>1. TypeOK'
  BY StepType DEF RefundInv
<1>2. CASE OthersKeep
  BY <1>1, <1>2 DEF OthersKeep, RefundInv
<1> QED
  BY <1>2, Steps, WebhooksKeepRefunds, EndsKeepRefunds

\* No item of an order is refunded twice, however often the permits of the order are ended
\* after their period, expire or have their subscription cancelled.
THEOREM ItemsAreRefundedOnce == Spec => []RefundedOnce
<1>1. RefundInv => RefundedOnce
  BY DEF RefundInv, RefundedOnce, Items
<1> QED
  BY RefundInit, StepRefunds, <1>1, PTL DEF Spec

(***************************************************************************)
(* Months                                                                  *)
(***************************************************************************)
(* The renewals that have given p a month. *)
Renewed(p) == {o \in Orders \ {1} : p \in orders[o].permits /\ orders[o].status = "CONFIRMED"}

HasRefund(p) == \E o \in Orders : p \in orders[o].refunded

(* How many months of p are covered: a refund takes one back. *)
Covered(p) == Start + (IF HasRefund(p) THEN 0 ELSE 1) + Cardinality(Renewed(p))

MonthsInv ==
    /\ TypeOK
    /\ \A o \in Orders \ {1} :
        /\ orders[o].permits \subseteq talpa.orders[o]
        /\ orders[o].status = "CONFIRMED" => o \in talpa.paid
    /\ \A o \in repeated : orders[o].status # "NONE"
    /\ \A p \in Permits :
        IsRegular(p) => permits[p].end <= Covered(p)

LEMMA RenewedFinite ==
  ASSUME NEW p \in Permits
  PROVE  IsFiniteSet(Renewed(p)) /\ Cardinality(Renewed(p)) \in Nat
<1>1. IsFiniteSet(Orders)
  BY BoundsAssumption, FS_Interval DEF Orders
<1>2. Renewed(p) \in SUBSET Orders
  BY DEF Renewed
<1> QED
  BY <1>1, <1>2, FS_Subset, FS_CardinalityType

LEMMA MonthsInit == Init => MonthsInv
<1> SUFFICES ASSUME Init PROVE MonthsInv
  OBVIOUS
<1>1. \A o \in Orders \ {1} : orders[o].permits = {} /\ orders[o].status = "NONE"
  BY DEF Init, NoOrder
<1>2. \A p \in Permits : permits[p].end = Start + 1
  BY DEF Init
<1>3. \A p \in Permits : ~HasRefund(p)
  BY DEF Init, HasRefund, NoOrder
<1>4. \A p \in Permits : permits[p].end <= Covered(p)
  BY <1>2, <1>3, RenewedFinite DEF Covered, Start
<1> QED
  BY <1>1, <1>4, InitType DEF Init, MonthsInv

LEMMA CoveredInMonths ==
  ASSUME MonthsInv, NEW p \in Permits, IsRegular(p)
  PROVE  /\ permits[p].end \in Nat /\ now \in Nat
         /\ Cardinality(Renewed(p)) \in Nat
         /\ permits[p].end <= 2 + Cardinality(Renewed(p))
         /\ HasRefund(p) => permits[p].end <= 1 + Cardinality(Renewed(p))
<1>1. permits[p].end \in Nat /\ now \in Nat
  BY DEF MonthsInv, TypeOK, Months
<1> QED
  BY <1>1, RenewedFinite DEF MonthsInv, Covered, Start

(* What keeps the months of p covered: it gets no month that no renewal gives. *)
LEMMA CoveredStays ==
  ASSUME MonthsInv, NEW p \in Permits, IsRegular(p)' => IsRegular(p),
         Renewed(p)' = Renewed(p), HasRefund(p)' => HasRefund(p),
         permits'[p].end <= permits[p].end,
         permits'[p].end \in Nat
  PROVE  IsRegular(p)' => permits'[p].end <= Covered(p)'
<1>1. permits[p].end \in Nat
  BY DEF MonthsInv, TypeOK, Months
<1>2. Cardinality(Renewed(p)) \in Nat
  BY RenewedFinite
<1> QED
  BY <1>1, <1>2 DEF MonthsInv, Covered, Start

(* A refund goes with a month less. *)
LEMMA CoveredAfterRefund ==
  ASSUME MonthsInv, NEW p \in Permits, IsRegular(p)' => IsRegular(p),
         Renewed(p)' = Renewed(p),
         permits'[p].end \in Nat,
         permits'[p].end <= Start \/ permits'[p].end < permits[p].end
  PROVE  IsRegular(p)' => permits'[p].end <= Covered(p)'
<1>1. permits[p].end \in Nat
  BY DEF MonthsInv, TypeOK, Months
<1>2. Cardinality(Renewed(p)) \in Nat
  BY RenewedFinite
<1>3. Covered(p)' >= Start + Cardinality(Renewed(p))
  BY <1>2 DEF Covered, Start
<1>4. IsRegular(p)' => permits[p].end <= Start + 1 + Cardinality(Renewed(p))
  BY <1>1, <1>2 DEF MonthsInv, Covered, Start
<1>5. Covered(p)' \in Nat
  BY <1>2 DEF Covered, Start
<1> QED
  BY <1>1, <1>2, <1>3, <1>4, <1>5 DEF Start

LEMMA PaymentPaidCovers ==
  ASSUME MonthsInv, TypeOK', NEW o \in Orders, PaymentPaid(o)
  PROVE  MonthsInv'
<1>0. TypeOK
  BY DEF MonthsInv
<1>1. /\ orders'[o].status = "CONFIRMED" /\ orders'[o].permits = orders[o].permits
      /\ orders'[o].refunded = orders[o].refunded
      /\ \A k \in Orders \ {o} : orders'[k] = orders[k]
  <2>1. orders[o] \in OrderRow
    BY <1>0 DEF TypeOK, OrderRow
  <2>2. orders' = [orders EXCEPT ![o].status = "CONFIRMED"]
    BY DEF PaymentPaid
  <2> QED
    BY <1>0, <2>1, <2>2 DEF OrderRow, TypeOK
<1>2. /\ orders[o].status # "NONE" /\ o \in talpa.paid /\ UNCHANGED talpa
      /\ repeated' = IF orders[o].status = "DRAFT" THEN repeated ELSE repeated \union {o}
      /\ UNCHANGED prolonged
  BY DEF PaymentPaid
<1>3. \A k \in Orders \ {1} : /\ orders'[k].permits \subseteq talpa'.orders[k]
                              /\ orders'[k].status = "CONFIRMED" => k \in talpa'.paid
  BY <1>1, <1>2 DEF MonthsInv
<1>4. \A k \in repeated' : orders'[k].status # "NONE"
  <2>1. repeated' \subseteq repeated \union {o} /\ repeated \subseteq Orders
    BY <1>0, <1>2 DEF TypeOK
  <2> QED
    BY <1>1, <1>2, <2>1 DEF MonthsInv
<1>5. ASSUME NEW p \in Permits
      PROVE  IsRegular(p)' => permits'[p].end <= Covered(p)'
  <2>1. OrdersOf(p)' = OrdersOf(p)
    BY <1>1, <1>2 DEF OrdersOf
  <2>2. IsRegular(p)' => IsRegular(p)
    BY <1>2, <2>1 DEF IsRegular
  <2>3. permits'[p].end \in Nat
    BY DEF TypeOK, Months
  <2>6. HasRefund(p)' = HasRefund(p)
    BY <1>1 DEF HasRefund
  <2>4. CASE p \notin orders[o].permits \/ o = 1
    <3>1. permits'[p].end = permits[p].end
      <4>1. permits[p] \in PermitRow
        BY <1>0 DEF TypeOK, PermitRow
      <4>2. permits'[p] \in {permits[p], [permits[p] EXCEPT !.status = "VALID"],
                             [permits[p] EXCEPT !.status = "VALID", !.end = @]}
        BY <2>4 DEF PaymentPaid, IsRenewal
      <4> QED
        BY <4>1, <4>2 DEF PermitRow
    <3>2. Renewed(p)' = Renewed(p)
      BY <1>1, <2>4 DEF Renewed
    <3>3. permits[p].end \in Nat
      BY <1>0 DEF TypeOK, Months
    <3> QED
      BY <2>2, <2>3, <2>6, <3>1, <3>2, <3>3, CoveredStays
  <2>5. CASE p \in orders[o].permits /\ o # 1
    <3>1. permits'[p].end = permits[p].end + 1 /\ permits[p].end \in Nat
      <4>1. permits[p] \in PermitRow
        BY <1>0 DEF TypeOK, PermitRow
      <4>2. permits'[p] = [permits[p] EXCEPT !.status = "VALID", !.end = @ + 1]
        BY <2>5 DEF PaymentPaid, IsRenewal
      <4> QED
        BY <4>1, <4>2 DEF PermitRow, Months
    <3> SUFFICES ASSUME IsRegular(p)'
                 PROVE  permits'[p].end <= Covered(p)'
      OBVIOUS
    <3>2. o \notin repeated'
      BY <1>2, <2>1, <2>5 DEF IsRegular, OrdersOf
    <3>3. orders[o].status = "DRAFT"
      BY <1>2, <3>2
    <3>4. Renewed(p)' = Renewed(p) \union {o} /\ o \notin Renewed(p)
      BY <1>1, <2>5, <3>3 DEF Renewed
    <3>5. Cardinality(Renewed(p)') = Cardinality(Renewed(p)) + 1
      BY <3>4, RenewedFinite, FS_AddElement
    <3>6. permits[p].end <= Covered(p)
      BY <2>2 DEF MonthsInv
    <3> QED
      BY <2>6, <3>1, <3>5, <3>6, RenewedFinite DEF Covered, Start
  <2> QED
    BY <2>4, <2>5
<1> QED
  BY <1>3, <1>4, <1>5 DEF MonthsInv

LEMMA RenewalOrderCovers ==
  ASSUME MonthsInv, TypeOK', NEW o \in Orders, RenewalOrderCreated(o)
  PROVE  MonthsInv'
<1>0. TypeOK
  BY DEF MonthsInv
<1>1. /\ orders'[o].status = "DRAFT" /\ orders'[o].permits = talpa.orders[o]
      /\ orders'[o].refunded = {}
      /\ \A k \in Orders \ {o} : orders'[k] = orders[k]
  BY <1>0 DEF RenewalOrderCreated, NoOrder, TypeOK
<1>2. orders[o].status = "NONE" /\ UNCHANGED <<permits, repeated, prolonged, talpa>>
  BY DEF RenewalOrderCreated
<1>3. \A k \in Orders \ {1} : /\ orders'[k].permits \subseteq talpa'.orders[k]
                              /\ orders'[k].status = "CONFIRMED" => k \in talpa'.paid
  BY <1>1, <1>2 DEF MonthsInv
<1>4. \A k \in repeated' : orders'[k].status # "NONE"
  BY <1>0, <1>1, <1>2 DEF MonthsInv, TypeOK
<1>5. ASSUME NEW p \in Permits
      PROVE  IsRegular(p)' => permits'[p].end <= Covered(p)'
  <2>1. OrdersOf(p) \subseteq OrdersOf(p)'
    BY <1>1, <1>2 DEF OrdersOf
  <2>2. IsRegular(p)' => IsRegular(p)
    BY <1>2, <2>1 DEF IsRegular
  <2>3. Renewed(p)' = Renewed(p)
    BY <1>1, <1>2 DEF Renewed
  <2>4. permits'[p].end = permits[p].end /\ permits[p].end \in Nat
    BY <1>0, <1>2 DEF TypeOK, Months
  <2>5. HasRefund(p)' => HasRefund(p)
    BY <1>1 DEF HasRefund
  <2> QED
    BY <2>2, <2>3, <2>4, <2>5, CoveredStays
<1> QED
  BY <1>3, <1>4, <1>5 DEF MonthsInv

LEMMA EndsCover ==
  ASSUME MonthsInv, TypeOK', Ends
  PROVE  MonthsInv'
<1>0. TypeOK
  BY DEF MonthsInv
<1>1. PICK ended \in SUBSET Permits,
           endType \in {"IMMEDIATELY", "AFTER_CURRENT_PERIOD", "PREVIOUS_DAY_END"} :
        EndsSome(ended, endType)
  BY DEF Ends
<1>2. PICK cancelFromTalpa \in BOOLEAN : EndPermits(ended, endType, cancelFromTalpa)
  BY <1>1 DEF EndsSome
<1>3. \A o \in Orders :
        /\ orders'[o].permits = orders[o].permits
        /\ orders'[o].refunded \subseteq orders[o].refunded \union {p \in ended : CanBeRefunded(p)}
        /\ orders'[o].status \in {orders[o].status} \union (IF o = 1 THEN {"CANCELLED"} ELSE {})
  BY <1>0, <1>2, EndedOrders
<1>4. talpa'.orders = talpa.orders /\ talpa'.paid = talpa.paid
  BY <1>0, <1>2, EndedTalpa DEF TypeOK
<1>5. \A k \in Orders \ {1} : /\ orders'[k].permits \subseteq talpa'.orders[k]
                              /\ orders'[k].status = "CONFIRMED" => k \in talpa'.paid
  BY <1>3, <1>4 DEF MonthsInv
<1>6. /\ repeated' = repeated
      /\ prolonged' = prolonged \union {p \in ended : EndOf(p, endType) > permits[p].end}
  BY <1>2, EndedRows
<1>7. \A k \in repeated' : orders'[k].status # "NONE"
  BY <1>0, <1>3, <1>6 DEF MonthsInv, TypeOK
<1>8. ASSUME NEW p \in Permits
      PROVE  IsRegular(p)' => permits'[p].end <= Covered(p)'
  <2>1. OrdersOf(p) \subseteq OrdersOf(p)'
    BY <1>3 DEF OrdersOf
  <2>2. IsRegular(p)' => IsRegular(p)
    BY <1>6, <2>1 DEF IsRegular
  <2>3. Renewed(p)' = Renewed(p)
    BY <1>3 DEF Renewed
  <2>4. permits'[p].end \in Nat /\ permits[p].end \in Nat /\ now \in Nat
    BY <1>0 DEF TypeOK, Months
  <2>5. CASE p \notin ended
    <3>1. permits'[p] = permits[p]
      BY <1>2, <2>5, EndedRows
    <3>2. HasRefund(p)' => HasRefund(p)
      BY <1>3, <2>5 DEF HasRefund
    <3> QED
      BY <2>2, <2>3, <2>4, <3>1, <3>2, CoveredStays
  <2>6. CASE p \in ended
    <3>1. permits'[p].end = EndOf(p, endType)
      BY <1>2, <2>6, EndedRows
    <3>2. IsRegular(p)' => permits'[p].end <= permits[p].end
      BY <1>6, <2>4, <2>6, <3>1 DEF IsRegular
    <3>3. CASE HasRefund(p)' => HasRefund(p)
      BY <2>2, <2>3, <2>4, <3>2, <3>3, CoveredStays
    <3>4. CASE CanBeRefunded(p)
      <4>1. now < Start \/ permits[p].end > now + 1
        BY <3>4 DEF CanBeRefunded
      <4>2. endType = "PREVIOUS_DAY_END" => permits[p].end < now
        BY <1>1, <2>6 DEF EndsSome
      <4>3. permits'[p].end <= Start \/ permits'[p].end < permits[p].end
        BY <2>4, <3>1, <4>1, <4>2 DEF EndOf, Start
      <4> QED
        BY <2>2, <2>3, <2>4, <4>3, CoveredAfterRefund
    <3>5. (HasRefund(p)' => HasRefund(p)) \/ CanBeRefunded(p)
      BY <1>3 DEF HasRefund
    <3> QED
      BY <3>3, <3>4, <3>5
  <2> QED
    BY <2>5, <2>6
<1> QED
  BY <1>5, <1>7, <1>8 DEF MonthsInv

LEMMA TalpaGrows ==
  ASSUME TypeOK, [Next]_vars
  PROVE  talpa.paid \subseteq talpa'.paid /\ \A o \in Orders : talpa.orders[o] \subseteq talpa'.orders[o]
<1>1. CASE UNCHANGED talpa
  BY <1>1
<1>2. ASSUME NEW o \in Orders, TalpaPays(o)
      PROVE  talpa.paid \subseteq talpa'.paid /\ talpa'.orders = talpa.orders
  BY <1>2 DEF TalpaPays, TypeOK
<1>3. ASSUME NEW p \in Permits, TalpaCancels(p)
      PROVE  talpa'.paid = talpa.paid /\ talpa'.orders = talpa.orders
  BY <1>3 DEF TalpaCancels, TypeOK
<1>4. ASSUME NEW p \in Permits, NEW o \in Orders, TalpaRenews(p, o)
      PROVE  /\ talpa'.paid = talpa.paid
             /\ \A k \in Orders : talpa.orders[k] \subseteq talpa'.orders[k]
  BY <1>4 DEF TalpaRenews, TypeOK
<1>5. ASSUME Ends
      PROVE  talpa'.paid = talpa.paid /\ talpa'.orders = talpa.orders
  <2>1. PICK ended, endType, cancelFromTalpa : EndPermits(ended, endType, cancelFromTalpa)
    BY <1>5 DEF Ends, EndsSome
  <2> QED
    BY <2>1, EndedTalpa DEF TypeOK
<1>6. ASSUME MonthPasses \/ (\E o \in Orders : PaymentPaid(o) \/ RenewalOrderCreated(o))
             \/ \E p \in Permits : SubscriptionCreated(p)
      PROVE  UNCHANGED talpa
  BY <1>6 DEF MonthPasses, PaymentPaid, RenewalOrderCreated, SubscriptionCreated
<1> QED
  BY <1>1, <1>2, <1>3, <1>4, <1>5, <1>6, EndingsEnd DEF Next, vars

LEMMA OthersCover ==
  ASSUME MonthsInv, TypeOK', OthersKeep, [Next]_vars
  PROVE  MonthsInv'
<1>0. TypeOK
  BY DEF MonthsInv
<1>1. talpa.paid \subseteq talpa'.paid /\ \A o \in Orders : talpa.orders[o] \subseteq talpa'.orders[o]
  BY <1>0, TalpaGrows
<1>2. \A k \in Orders \ {1} : /\ orders'[k].permits \subseteq talpa'.orders[k]
                              /\ orders'[k].status = "CONFIRMED" => k \in talpa'.paid
  BY <1>1 DEF OthersKeep, MonthsInv
<1>3. \A p \in Permits : Covered(p)' = Covered(p) /\ IsRegular(p)' = IsRegular(p)
  BY DEF OthersKeep, Covered, HasRefund, Renewed, IsRegular, OrdersOf
<1> QED
  BY <1>2, <1>3 DEF OthersKeep, MonthsInv

LEMMA StepMonths == MonthsInv /\ [Next]_vars => MonthsInv'
<1> SUFFICES ASSUME MonthsInv, [Next]_vars PROVE MonthsInv'
  OBVIOUS
<1>1. TypeOK'
  BY StepType DEF MonthsInv
<1> QED
  BY <1>1, Steps, OthersCover, PaymentPaidCovers, RenewalOrderCovers, EndsCover

\* Every month of an open-ended permit was paid, if Talpa notifies every payment once and
\* no ending comes after the end: no order of renewals, late cancellations and endings
\* gives one away.
THEOREM MonthsArePaid == Spec => []MonthsArePaidFor
<1>1. MonthsInv => MonthsArePaidFor
  <2> SUFFICES ASSUME MonthsInv, NEW p \in Permits, IsRegular(p)
               PROVE  permits[p].end <= PaidUntil(p)
    BY DEF MonthsArePaidFor
  <2> DEFINE S == RenewalsAtTalpa(p) \cap talpa.paid
  <2>1. Renewed(p) \in SUBSET S
    BY DEF MonthsInv, Renewed, RenewalsAtTalpa
  <2>2. IsFiniteSet(S)
    <3>1. IsFiniteSet(Orders)
      BY BoundsAssumption, FS_Interval DEF Orders
    <3>2. S \in SUBSET Orders
      BY DEF RenewalsAtTalpa
    <3> HIDE DEF S
    <3> QED
      BY <3>1, <3>2, FS_Subset
  <2> HIDE DEF S
  <2>3. /\ Cardinality(Renewed(p)) <= Cardinality(S)
        /\ Cardinality(S) \in Nat
    BY <2>1, <2>2, FS_Subset, FS_CardinalityType
  <2>4. permits[p].end <= Start + 1 + Cardinality(Renewed(p)) /\ permits[p].end \in Nat
    BY CoveredInMonths DEF Start
  <2> QED
    BY <2>3, <2>4, RenewedFinite DEF PaidUntil, S, Start
<1> QED
  BY MonthsInit, StepMonths, <1>1, PTL DEF Spec

(***************************************************************************)
(* Payments behind the refunds                                             *)
(***************************************************************************)
(* Talpa renews what was paid, never earlier than in the last month that its orders
   cover, and a permit is valid only after the purchase was paid. *)
TalpaInv ==
    /\ \A p \in Permits : talpa.subscriptions[p] # "NONE" => 1 \in talpa.paid
    /\ \A p \in Permits : subscriptions[p] # "NONE" => 1 \in talpa.paid
    /\ \A o \in Orders \ {1} : talpa.orders[o] # {} => 1 \in talpa.paid
    /\ \A p \in Permits : permits[p].status = "VALID" => 1 \in talpa.paid
    /\ \A p \in Permits :
        RenewalsAtTalpa(p) = {} \/ now + 1 >= Start + Cardinality(RenewalsAtTalpa(p))

PaidInv == RefundInv /\ MonthsInv /\ TalpaInv /\ RefundedWasPaid

LEMMA RenewalsFinite ==
  ASSUME NEW p \in Permits
  PROVE  IsFiniteSet(RenewalsAtTalpa(p)) /\ Cardinality(RenewalsAtTalpa(p)) \in Nat
<1>1. IsFiniteSet(Orders)
  BY BoundsAssumption, FS_Interval DEF Orders
<1>2. RenewalsAtTalpa(p) \in SUBSET Orders
  BY DEF RenewalsAtTalpa
<1> QED
  BY <1>1, <1>2, FS_Subset, FS_CardinalityType

LEMMA PaidInit == Init => PaidInv
<1> SUFFICES ASSUME Init PROVE PaidInv
  OBVIOUS
<1>1. /\ \A p \in Permits : talpa.subscriptions[p] = "NONE" /\ permits[p].status # "VALID"
      /\ \A p \in Permits : subscriptions[p] = "NONE"
      /\ \A o \in Orders \ {1} : talpa.orders[o] = {}
  BY DEF Init
<1>2. \A p \in Permits : RenewalsAtTalpa(p) = {}
  BY <1>1 DEF RenewalsAtTalpa
<1>3. \A i \in Items : refunds[i] = 0
  BY DEF Init
<1> QED
  BY <1>1, <1>2, <1>3, RefundInit, MonthsInit DEF PaidInv, TalpaInv, RefundedWasPaid

(* The renewals a permit already has do not lose their time. *)
LEMMA TimeStays ==
  ASSUME TypeOK, TypeOK', TalpaInv, now' >= now, NEW p \in Permits,
         RenewalsAtTalpa(p)' = RenewalsAtTalpa(p)
  PROVE  RenewalsAtTalpa(p)' = {} \/ now' + 1 >= Start + Cardinality(RenewalsAtTalpa(p)')
<1>1. now \in Nat /\ now' \in Nat
  BY DEF TypeOK, Months
<1>2. Cardinality(RenewalsAtTalpa(p)) \in Nat
  BY RenewalsFinite
<1> QED
  BY <1>1, <1>2 DEF TalpaInv, Start

LEMMA TalpaStepsKeepTalpa ==
  ASSUME RefundInv, TalpaInv, TypeOK'
  PROVE  /\ \A o \in Orders : TalpaPays(o) => TalpaInv'
         /\ \A p \in Permits : TalpaCancels(p) => TalpaInv'
         /\ \A p \in Permits, o \in Orders : TalpaRenews(p, o) => TalpaInv'
<1>0. TypeOK /\ now \in Nat
  BY DEF RefundInv, TypeOK, Months
<1>1. ASSUME NEW o \in Orders, TalpaPays(o) PROVE TalpaInv'
  <2>1. /\ talpa'.paid = talpa.paid \union {o} /\ talpa'.orders = talpa.orders
        /\ o # 1 => talpa'.subscriptions = talpa.subscriptions
        /\ UNCHANGED <<now, permits, subscriptions>>
    BY <1>0, <1>1 DEF TalpaPays, TypeOK, rows
  <2>2. \A p \in Permits : RenewalsAtTalpa(p)' = RenewalsAtTalpa(p)
    BY <2>1 DEF RenewalsAtTalpa
  <2>3. \A p \in Permits :
          RenewalsAtTalpa(p)' = {} \/ now' + 1 >= Start + Cardinality(RenewalsAtTalpa(p)')
    BY <1>0, <2>1, <2>2, TimeStays
  <2> QED
    BY <2>1, <2>3 DEF TalpaInv
<1>2. ASSUME NEW p \in Permits, TalpaCancels(p) PROVE TalpaInv'
  <2>1. /\ talpa'.paid = talpa.paid /\ talpa'.orders = talpa.orders
        /\ talpa.subscriptions[p] = "ACTIVE"
        /\ \A q \in Permits \ {p} : talpa'.subscriptions[q] = talpa.subscriptions[q]
        /\ UNCHANGED <<now, permits, subscriptions>>
    BY <1>0, <1>2 DEF TalpaCancels, TypeOK, rows
  <2>2. \A q \in Permits : RenewalsAtTalpa(q)' = RenewalsAtTalpa(q)
    BY <2>1 DEF RenewalsAtTalpa
  <2>3. \A q \in Permits :
          RenewalsAtTalpa(q)' = {} \/ now' + 1 >= Start + Cardinality(RenewalsAtTalpa(q)')
    BY <1>0, <2>1, <2>2, TimeStays
  <2> QED
    BY <2>1, <2>3 DEF TalpaInv
<1>3. ASSUME NEW p \in Permits, NEW o \in Orders, TalpaRenews(p, o) PROVE TalpaInv'
  <2>1. /\ talpa'.paid = talpa.paid /\ talpa'.subscriptions = talpa.subscriptions
        /\ talpa.subscriptions[p] = "ACTIVE"
        /\ now >= Start + Cardinality(RenewalsAtTalpa(p))
        /\ talpa.orders[o] = {} /\ talpa'.orders[o] = {p}
        /\ \A k \in Orders \ {o} : talpa'.orders[k] = talpa.orders[k]
        /\ UNCHANGED <<now, permits, subscriptions>>
    BY <1>0, <1>3 DEF TalpaRenews, TypeOK, rows
  <2>2. 1 \in talpa.paid
    BY <2>1 DEF TalpaInv
  <2>3. ASSUME NEW q \in Permits
        PROVE  RenewalsAtTalpa(q)' = {} \/ now' + 1 >= Start + Cardinality(RenewalsAtTalpa(q)')
    <3>1. CASE q # p \/ o = 1
      <4>1. RenewalsAtTalpa(q)' = RenewalsAtTalpa(q)
        BY <2>1, <3>1 DEF RenewalsAtTalpa
      <4> QED
        BY <1>0, <2>1, <4>1, TimeStays
    <3>2. CASE q = p /\ o # 1
      <4>1. RenewalsAtTalpa(p)' = RenewalsAtTalpa(p) \union {o} /\ o \notin RenewalsAtTalpa(p)
        BY <2>1, <3>2 DEF RenewalsAtTalpa
      <4>2. Cardinality(RenewalsAtTalpa(p)') = Cardinality(RenewalsAtTalpa(p)) + 1
        BY <4>1, RenewalsFinite, FS_AddElement
      <4> QED
        BY <1>0, <2>1, <3>2, <4>2, RenewalsFinite DEF Start
    <3> QED
      BY <3>1, <3>2
  <2> QED
    BY <2>1, <2>2, <2>3 DEF TalpaInv
<1> QED
  BY <1>1, <1>2, <1>3

LEMMA StepTalpa ==
  ASSUME RefundInv, MonthsInv, TalpaInv, [Next]_vars
  PROVE  TalpaInv'
<1>0. TypeOK /\ TypeOK' /\ now \in Nat
  BY StepType DEF RefundInv, TypeOK, Months
<1>1. ASSUME UNCHANGED <<permits, talpa>>, now' >= now,
             \A p \in Permits : subscriptions'[p] # "NONE" => 1 \in talpa.paid
      PROVE  TalpaInv'
  <2>1. \A p \in Permits : RenewalsAtTalpa(p)' = RenewalsAtTalpa(p)
    BY <1>1 DEF RenewalsAtTalpa
  <2>2. \A p \in Permits :
          RenewalsAtTalpa(p)' = {} \/ now' + 1 >= Start + Cardinality(RenewalsAtTalpa(p)')
    BY <1>0, <1>1, <2>1, TimeStays
  <2> QED
    BY <1>1, <2>2 DEF TalpaInv
<1>2. ASSUME NEW o \in Orders, PaymentPaid(o) PROVE TalpaInv'
  <2>1. o \in talpa.paid /\ UNCHANGED <<now, subscriptions, talpa>>
    BY <1>2 DEF PaymentPaid
  <2>2. \A p \in Permits : p \notin orders[o].permits => permits'[p] = permits[p]
    BY <1>2 DEF PaymentPaid
  <2>3. orders[o].permits # {} => 1 \in talpa.paid
    BY <2>1 DEF MonthsInv, TalpaInv
  <2>4. \A p \in Permits : permits'[p].status = "VALID" => 1 \in talpa'.paid
    BY <2>1, <2>2, <2>3 DEF TalpaInv
  <2>5. \A p \in Permits : RenewalsAtTalpa(p)' = RenewalsAtTalpa(p)
    BY <2>1 DEF RenewalsAtTalpa
  <2> QED
    BY <2>1, <2>4, <2>5 DEF TalpaInv
<1>3. ASSUME Ends PROVE TalpaInv'
  <2>1. PICK ended \in SUBSET Permits,
             endType \in {"IMMEDIATELY", "AFTER_CURRENT_PERIOD", "PREVIOUS_DAY_END"},
             cancelFromTalpa \in BOOLEAN :
          EndPermits(ended, endType, cancelFromTalpa)
    BY <1>3 DEF Ends, EndsSome
  <2>2. UNCHANGED now
    BY <2>1, EndedRows
  <2>3. \A p \in Permits : permits'[p].status = "VALID" => permits[p].status = "VALID"
    BY <2>1, EndedRows
  <2>4. PICK S \in SUBSET {p \in ended : subscriptions[p] # "NONE"} :
          talpa' = [talpa EXCEPT !.subscriptions =
                   [p \in Permits |-> IF p \in S THEN "CANCELLED" ELSE talpa.subscriptions[p]]]
    BY <2>1, EndedTalpa
  <2>5. talpa'.orders = talpa.orders /\ talpa'.paid = talpa.paid
    BY <1>0, <2>4 DEF TypeOK
  <2>6. \A p \in Permits : RenewalsAtTalpa(p)' = RenewalsAtTalpa(p)
    BY <2>5 DEF RenewalsAtTalpa
  <2>7. \A p \in Permits :
          RenewalsAtTalpa(p)' = {} \/ now' + 1 >= Start + Cardinality(RenewalsAtTalpa(p)')
    BY <1>0, <2>2, <2>6, TimeStays
  <2>8. \A p \in Permits :
          /\ talpa'.subscriptions[p] # "NONE" =>
                talpa.subscriptions[p] # "NONE" \/ subscriptions[p] # "NONE"
          /\ subscriptions'[p] # "NONE" => subscriptions[p] # "NONE"
    <3>1. \A p \in Permits : subscriptions'[p] # "NONE" => subscriptions[p] # "NONE"
      BY <2>1 DEF EndPermits
    <3>2. \A p \in Permits : talpa'.subscriptions[p] =
            IF p \in S THEN "CANCELLED" ELSE talpa.subscriptions[p]
      BY <1>0, <2>4 DEF TypeOK
    <3> QED
      BY <3>1, <3>2
  <2> QED
    BY <2>3, <2>5, <2>7, <2>8 DEF TalpaInv
<1>4. MonthPasses => UNCHANGED <<permits, subscriptions, talpa>> /\ now' >= now
  BY <1>0 DEF MonthPasses, rows
<1>5. \A o \in Orders : RenewalOrderCreated(o) =>
        UNCHANGED <<permits, subscriptions, talpa>> /\ now' >= now
  BY <1>0 DEF RenewalOrderCreated
<1>6. ASSUME NEW p \in Permits, SubscriptionCreated(p) PROVE TalpaInv'
  <2>1. talpa.subscriptions[p] # "NONE" /\ UNCHANGED <<permits, talpa, now>>
    BY <1>6 DEF SubscriptionCreated, IsValidSubscription
  <2>2. \A q \in Permits : subscriptions'[q] # "NONE" => 1 \in talpa.paid
    BY <1>0, <1>6, <2>1 DEF SubscriptionCreated, TypeOK, TalpaInv
  <2> QED
    BY <1>0, <1>1, <2>1, <2>2
<1>7. UNCHANGED vars => UNCHANGED <<permits, subscriptions, talpa>> /\ now' >= now
  BY <1>0 DEF vars, rows
<1>8. UNCHANGED <<permits, subscriptions, talpa>> /\ now' >= now => TalpaInv'
  BY <1>1 DEF TalpaInv
<1> QED
  BY <1>0, <1>2, <1>3, <1>4, <1>5, <1>6, <1>7, <1>8, TalpaStepsKeepTalpa, EndingsEnd DEF Next

LEMMA RegularBefore ==
  ASSUME TypeOK, [Next]_vars, NEW p \in Permits, IsRegular(p)'
  PROVE  IsRegular(p)
<1>1. CASE OthersKeep
  BY <1>1 DEF OthersKeep, IsRegular, OrdersOf
<1>2. ASSUME NEW o \in Orders, PaymentPaid(o) PROVE IsRegular(p)
  <2>1. orders[o] \in OrderRow /\ orders' = [orders EXCEPT ![o].status = "CONFIRMED"]
    BY <1>2 DEF PaymentPaid, TypeOK, OrderRow
  <2>2. \A k \in Orders : /\ orders'[k].permits = orders[k].permits
                          /\ orders[k].status # "NONE" => orders'[k].status # "NONE"
    BY <2>1 DEF OrderRow, TypeOK
  <2>3. repeated \subseteq repeated' /\ prolonged' = prolonged
    BY <1>2 DEF PaymentPaid
  <2> QED
    BY <2>2, <2>3 DEF IsRegular, OrdersOf
<1>3. ASSUME NEW o \in Orders, RenewalOrderCreated(o) PROVE IsRegular(p)
  BY <1>3 DEF RenewalOrderCreated, TypeOK, IsRegular, OrdersOf
<1>4. CASE Ends
  <2>0. PICK ended \in SUBSET Permits : \E endType, cancelFromTalpa :
          EndPermits(ended, endType, cancelFromTalpa)
    BY <1>4 DEF Ends, EndsSome
  <2>1. PICK endType, cancelFromTalpa : EndPermits(ended, endType, cancelFromTalpa)
    BY <2>0
  <2>2. \A o \in Orders :
          /\ orders'[o].permits = orders[o].permits
          /\ orders'[o].status \in {orders[o].status} \union (IF o = 1 THEN {"CANCELLED"} ELSE {})
    BY <2>1, EndedOrders
  <2>3. repeated' = repeated /\ prolonged \subseteq prolonged'
    BY <2>1, EndedRows
  <2> QED
    BY <2>2, <2>3 DEF IsRegular, OrdersOf
<1> QED
  BY <1>1, <1>2, <1>3, <1>4, Steps

(* A permit can be refunded only while it is paid beyond the next month; a renewal that
   is not paid yet is never needed for that. *)
LEMMA RefundableIsPaid ==
  ASSUME PaidInv, NEW ended \in SUBSET Permits, NEW o \in Orders, NEW p \in Permits,
         <<o, p>> \in ItemsToRefund(ended, Refunded), IsRegular(p)
  PROVE  o \in talpa.paid
<1>0. /\ TypeOK /\ now \in Nat /\ permits[p].end \in Nat
  BY DEF PaidInv, RefundInv, TypeOK, Months
<1>1. o = LatestOrder(p) /\ CanBeRefunded(p)
  BY DEF ItemsToRefund
<1>2. 1 \in OrdersOf(p)
  BY OneIsOrder DEF PaidInv, RefundInv, OrdersOf
<1>3. o \in OrdersOf(p)
  BY <1>1, <1>2, LatestIsOrder
<1>4. CASE o = 1
  BY <1>1, <1>4 DEF CanBeRefunded, PaidInv, TalpaInv
<1>5. CASE o # 1
  <2> SUFFICES ASSUME o \notin talpa.paid PROVE FALSE
    OBVIOUS
  <2>1. o \in RenewalsAtTalpa(p)
    BY <1>3, <1>5 DEF OrdersOf, RenewalsAtTalpa, PaidInv, MonthsInv
  <2>2. now + 1 >= Start + Cardinality(RenewalsAtTalpa(p))
    BY <2>1 DEF PaidInv, TalpaInv
  <2>3. Renewed(p) \in SUBSET (RenewalsAtTalpa(p) \ {o})
    BY DEF Renewed, RenewalsAtTalpa, PaidInv, MonthsInv
  <2>4. /\ IsFiniteSet(RenewalsAtTalpa(p) \ {o})
        /\ Cardinality(RenewalsAtTalpa(p) \ {o}) = Cardinality(RenewalsAtTalpa(p)) - 1
    BY <2>1, RenewalsFinite, FS_RemoveElement
  <2>5. Cardinality(Renewed(p)) <= Cardinality(RenewalsAtTalpa(p)) - 1
    BY <2>3, <2>4, FS_Subset
  <2>6. permits[p].end <= Start + 1 + Cardinality(Renewed(p))
    BY CoveredInMonths DEF PaidInv, Start
  <2>7. now < Start \/ permits[p].end > now + 1
    BY <1>1 DEF CanBeRefunded
  <2> QED
    BY <1>0, <2>2, <2>5, <2>6, <2>7, RenewalsFinite, RenewedFinite DEF Start
<1> QED
  BY <1>4, <1>5

LEMMA StepRefundsPaid ==
  ASSUME PaidInv, [Next]_vars
  PROVE  RefundedWasPaid'
<1>0. TypeOK
  BY DEF PaidInv, RefundInv
<1> SUFFICES ASSUME NEW o \in Orders, NEW p \in Permits, refunds'[<<o, p>>] > 0, IsRegular(p)'
             PROVE  o \in talpa'.paid
  BY DEF RefundedWasPaid, Items
<1>1. talpa.paid \subseteq talpa'.paid /\ IsRegular(p)
  BY <1>0, TalpaGrows, RegularBefore
<1>2. <<o, p>> \in Items
  BY DEF Items
<1>3. refunds[<<o, p>>] > 0 => o \in talpa.paid
  BY <1>1, <1>2 DEF PaidInv, RefundedWasPaid
<1>4. CASE OthersKeep \/ \E k \in Orders : PaymentPaid(k) \/ RenewalOrderCreated(k)
  <2>1. refunds' = refunds
    BY <1>4 DEF OthersKeep, PaymentPaid, RenewalOrderCreated
  <2> QED
    BY <1>1, <1>3, <2>1
<1>5. CASE Ends
  <2>1. PICK ended \in SUBSET Permits,
             endType \in {"IMMEDIATELY", "AFTER_CURRENT_PERIOD", "PREVIOUS_DAY_END"},
             cancelFromTalpa \in BOOLEAN :
          EndPermits(ended, endType, cancelFromTalpa)
    BY <1>5 DEF Ends, EndsSome
  <2>2. refunds'[<<o, p>>] = refunds[<<o, p>>] +
            (IF <<o, p>> \in ItemsToRefund(ended, Refunded) THEN 1 ELSE 0)
    BY <2>1, EndedOnce DEF PaidInv
  <2>3. CASE <<o, p>> \in ItemsToRefund(ended, Refunded)
    BY <1>1, <2>3, RefundableIsPaid
  <2>4. CASE <<o, p>> \notin ItemsToRefund(ended, Refunded)
    <3>1. refunds[<<o, p>>] \in Nat
      BY <1>0, <1>2 DEF TypeOK
    <3> QED
      BY <1>1, <1>3, <2>2, <2>4, <3>1
  <2> QED
    BY <2>3, <2>4
<1> QED
  BY <1>4, <1>5, Steps

\* Nothing is refunded that was not paid, if Talpa notifies every payment once and no
\* ending comes after the end: Talpa makes
\* the order of the next month too late for an ending to refund it before it is charged.
THEOREM RefundsWerePaid == Spec => []RefundedWasPaid
<1>1. PaidInv /\ [Next]_vars => PaidInv'
  BY StepRefunds, StepMonths, StepTalpa, StepRefundsPaid DEF PaidInv
<1>2. PaidInv => RefundedWasPaid
  BY DEF PaidInv
<1> QED
  BY PaidInit, <1>1, <1>2, PTL DEF Spec

(***************************************************************************)
(* What an ending takes                                                    *)
(***************************************************************************)
LEMMA RefundedItemsFinite ==
  ASSUME NEW S \in SUBSET Orders
  PROVE  /\ IsFiniteSet(S) /\ Cardinality(S) \in Nat
         /\ \A o \in S : Cardinality(S) >= 1
<1>1. IsFiniteSet(Orders)
  BY BoundsAssumption, FS_Interval DEF Orders
<1>2. IsFiniteSet(S)
  BY <1>1, FS_Subset
<1> QED
  BY <1>2, FS_CardinalityType, FS_EmptySet

(* A permit paid ahead is so for one month, by its latest order, not refunded yet. *)
LEMMA PaidAhead ==
  ASSUME PaidInv, NEW p \in Permits, IsRegular(p), permits[p].end > now + 1
  PROVE  /\ permits[p].end = now + 2
         /\ ~HasRefund(p)
<1>1. /\ permits[p].end \in Nat /\ now \in Nat
      /\ Cardinality(Renewed(p)) \in Nat
      /\ permits[p].end <= 2 + Cardinality(Renewed(p))
      /\ HasRefund(p) => permits[p].end <= 1 + Cardinality(Renewed(p))
  BY CoveredInMonths DEF PaidInv
<1>2. Renewed(p) \in SUBSET RenewalsAtTalpa(p)
  BY DEF Renewed, RenewalsAtTalpa, PaidInv, MonthsInv
<1>3. /\ Cardinality(Renewed(p)) <= Cardinality(RenewalsAtTalpa(p))
      /\ Cardinality(RenewalsAtTalpa(p)) \in Nat
  BY <1>2, RenewalsFinite, FS_Subset
<1>4. RenewalsAtTalpa(p) = {} \/ now + 1 >= Start + Cardinality(RenewalsAtTalpa(p))
  BY DEF PaidInv, TalpaInv
<1>5. RenewalsAtTalpa(p) = {} => Cardinality(RenewalsAtTalpa(p)) = 0
  BY FS_EmptySet
<1>6. Cardinality(Renewed(p)) <= now
  BY <1>1, <1>3, <1>4, <1>5 DEF Start
<1> QED
  BY <1>1, <1>6

LEMMA EndsRefund ==
  ASSUME PaidInv, TypeOK', Ends, NEW p \in Permits, permits[p].status = "VALID", IsRegular(p)
  PROVE  LET refunded == {o \in Orders : refunds'[<<o, p>>] > refunds[<<o, p>>]}
             begun == IF permits'[p].status = "CLOSED" THEN 1 ELSE 0
         IN  permits'[p].end + Cardinality(refunded) + begun >= permits[p].end
<1> DEFINE refunded == {o \in Orders : refunds'[<<o, p>>] > refunds[<<o, p>>]}
           begun == IF permits'[p].status = "CLOSED" THEN 1 ELSE 0
<1>0. permits[p].end \in Nat /\ permits'[p].end \in Nat /\ now \in Nat
  BY DEF PaidInv, RefundInv, TypeOK, Months
<1>1. Cardinality(refunded) \in Nat /\ \A o \in refunded : Cardinality(refunded) >= 1
  BY RefundedItemsFinite
<1>2. PICK ended \in SUBSET Permits,
           endType \in {"IMMEDIATELY", "AFTER_CURRENT_PERIOD", "PREVIOUS_DAY_END"} :
        EndsSome(ended, endType)
  BY DEF Ends
<1>3. PICK cancelFromTalpa \in BOOLEAN : EndPermits(ended, endType, cancelFromTalpa)
  BY <1>2 DEF EndsSome
<1>4. CASE p \notin ended
  <2>1. permits'[p] = permits[p]
    BY <1>3, <1>4, EndedRows
  <2> HIDE DEF refunded
  <2> QED
    BY <1>0, <1>1, <2>1 DEF refunded
<1>5. CASE p \in ended
  <2>1. /\ permits'[p].end = EndOf(p, endType)
        /\ endType = "IMMEDIATELY" => permits'[p].status = "CLOSED"
    BY <1>3, <1>5, EndedRows
  <2>2. endType = "PREVIOUS_DAY_END" => permits[p].end < now
    BY <1>2, <1>5 DEF EndsSome
  <2>3. CASE permits[p].end <= now + 1
    <3>1. permits'[p].end + begun >= permits[p].end
      BY <1>0, <2>1, <2>2, <2>3 DEF EndOf, Start
    <3> HIDE DEF refunded
    <3> QED
      BY <1>0, <1>1, <3>1 DEF refunded
  <2>4. CASE permits[p].end > now + 1
    <3>1. permits[p].end = now + 2 /\ ~HasRefund(p)
      BY <2>4, PaidAhead
    <3>2. LatestOrder(p) \in Orders
      BY LatestExistsFor DEF PaidInv
    <3>3. p \notin Refunded[LatestOrder(p)]
      BY <3>1, <3>2, RefundedRows DEF HasRefund
    <3>4. CanBeRefunded(p)
      BY <2>4 DEF CanBeRefunded
    <3>5. <<LatestOrder(p), p>> \in ItemsToRefund(ended, Refunded)
      BY <1>5, <3>3, <3>4 DEF ItemsToRefund
    <3>6. /\ refunds'[<<LatestOrder(p), p>>] = refunds[<<LatestOrder(p), p>>] + 1
          /\ refunds[<<LatestOrder(p), p>>] \in Nat
      BY <1>3, <3>2, <3>5, EndedOnce DEF PaidInv
    <3>7. Cardinality(refunded) >= 1
      BY <1>1, <3>2, <3>6
    <3>8. permits'[p].end + begun >= now + 1
      BY <1>0, <2>1, <2>2, <2>4 DEF EndOf, Start
    <3>9. begun \in Nat
      OBVIOUS
    <3> HIDE DEF refunded, begun
    <3> QED
      BY <1>0, <1>1, <3>1, <3>7, <3>8, <3>9 DEF refunded, begun
  <2> QED
    BY <1>0, <2>3, <2>4
<1> QED
  BY <1>4, <1>5

LEMMA OthersTakeNothing ==
  ASSUME PaidInv, TypeOK', [Next]_vars, ~Ends, NEW p \in Permits
  PROVE  permits'[p].end >= permits[p].end
<1>0. TypeOK /\ permits[p].end \in Nat /\ permits[p] \in PermitRow
  BY DEF PaidInv, RefundInv, TypeOK, Months, PermitRow
<1>1. CASE OthersKeep
  BY <1>0, <1>1 DEF OthersKeep
<1>2. ASSUME NEW o \in Orders, PaymentPaid(o)
      PROVE  permits'[p].end >= permits[p].end
  <2> DEFINE end == IF IsRenewal(o) THEN permits[p].end + 1 ELSE permits[p].end
  <2>1. \/ permits'[p] = permits[p]
        \/ permits'[p] = [permits[p] EXCEPT !.status = "VALID", !.end = end]
    BY <1>2 DEF PaymentPaid
  <2>2. end >= permits[p].end
    BY <1>0
  <2> HIDE DEF end
  <2>3. permits'[p].end = permits[p].end \/ permits'[p].end = end
    BY <1>0, <2>1 DEF PermitRow
  <2> QED
    BY <1>0, <2>2, <2>3
<1>3. ASSUME NEW o \in Orders, RenewalOrderCreated(o)
      PROVE  permits'[p].end >= permits[p].end
  BY <1>0, <1>3 DEF RenewalOrderCreated
<1> QED
  BY <1>1, <1>2, <1>3, Steps

\* Whoever ends a VALID permit, however and when, what it loses is refunded except for the
\* month that has begun: whenever a permit reaches beyond the next month, it does so by one
\* month, paid with its latest order and not refunded yet.
THEOREM EndingsRefundWhatTheyTake == Spec => EndingRefundsWhatItTakes
<1>1. ASSUME PaidInv, [Next]_vars, NEW p \in Permits, permits[p].status = "VALID", IsRegular(p)
      PROVE  LET refunded == {o \in Orders : refunds'[<<o, p>>] > refunds[<<o, p>>]}
                 begun == IF permits'[p].status = "CLOSED" THEN 1 ELSE 0
             IN  permits'[p].end + Cardinality(refunded) + begun >= permits[p].end
  <2>1. TypeOK'
    BY <1>1, StepType DEF PaidInv, RefundInv
  <2>2. CASE Ends
    BY <1>1, <2>1, <2>2, EndsRefund
  <2>3. CASE ~Ends
    <3> DEFINE refunded == {o \in Orders : refunds'[<<o, p>>] > refunds[<<o, p>>]}
               begun == IF permits'[p].status = "CLOSED" THEN 1 ELSE 0
    <3>1. Cardinality(refunded) \in Nat /\ begun \in Nat
      BY RefundedItemsFinite
    <3>2. permits'[p].end >= permits[p].end
      BY <1>1, <2>1, <2>3, OthersTakeNothing
    <3>3. permits[p].end \in Nat /\ permits'[p].end \in Nat
      BY <1>1, <2>1 DEF PaidInv, RefundInv, TypeOK, Months
    <3> HIDE DEF refunded, begun
    <3>4. permits'[p].end + Cardinality(refunded) + begun >= permits[p].end
      BY <3>1, <3>2, <3>3
    <3> QED
      BY <3>4 DEF refunded, begun
  <2> QED
    BY <2>2, <2>3
<1>2. PaidInv /\ [Next]_vars => PaidInv'
  BY StepRefunds, StepMonths, StepTalpa, StepRefundsPaid DEF PaidInv
<1>3. PaidInv /\ [Next]_vars =>
        [\A p \in Permits : permits[p].status = "VALID" /\ IsRegular(p) =>
            LET refunded == {o \in Orders : refunds'[<<o, p>>] > refunds[<<o, p>>]}
                begun == IF permits'[p].status = "CLOSED" THEN 1 ELSE 0
            IN  permits'[p].end + Cardinality(refunded) + begun >= permits[p].end]_vars
  BY <1>1
<1> QED
  BY PaidInit, <1>2, <1>3, PTL DEF Spec, EndingRefundsWhatItTakes
================================================================================

------------------------------ MODULE PermitOrders ------------------------------
(***************************************************************************)
(* The purchase and the life of fixed-period permits: the customer, Talpa  *)
(* and the batch jobs over the same rows.  Spec is the whole system; the   *)
(* other specifications leave some of the activities out, for questions    *)
(* that do not concern them or that need more permits or orders than the   *)
(* whole system lets TLC explore.  Every one of them allows a subset of    *)
(* the behaviours of Spec, so a theorem about Spec covers them all.        *)
(***************************************************************************)
EXTENDS CustomerApi, TalpaWebhooks, Jobs

Next == CustomerNext \/ TalpaNext \/ JobsNext

Spec == Init /\ [][Next]_vars

\* Buying permits, changing their vehicle or address, paying, and the jobs that clean up
\* what is not paid.
PurchaseSpec ==
    Init /\ [][PurchaseNext \/ UpdateNext \/ ChangeNext \/ TalpaNext \/ UnpaidNext
               \/ CleanupNext]_vars

\* Ending permits, on request and by the nightly expiration.
EndSpec ==
    Init /\ [][PurchaseNext \/ UpdateNext \/ EndNext \/ TalpaNext \/ ExpiryNext
               \/ AbortExpiry]_vars

(***************************************************************************)
(* Fairness: the commands are scheduled again and again and each run that  *)
(* started finishes; time passes.  Nothing is assumed of the customer or   *)
(* of Talpa.                                                               *)
(***************************************************************************)
TimePasses == \A o \in Orders : WF_vars(PurchaseTimePasses(o))

UnpaidJobRuns == WF_vars(ReadUnpaid) /\ WF_vars(CancelUnpaid)

CleanupJobRuns == \A o \in Orders : WF_vars(CancelOldRequests({o}))

ExpiryJobRuns ==
    /\ WF_vars(ReadExpired)
    /\ \A p \in Permits : WF_vars(CancelOrdersOfExpired(p))
    /\ WF_vars(CloseExpired)
    /\ WF_vars(TidyExpired)

\* Extending and ending permits, on request or by the nightly expiration, and the jobs
\* that clean up what is not paid.
FairLifeSpec ==
    /\ Init
    /\ [][PurchaseNext \/ ExtendNext \/ EndNext \/ TalpaNext \/ UnpaidNext \/ CleanupNext
          \/ ExpiryNext \/ AbortExpiry]_vars
    /\ TimePasses /\ UnpaidJobRuns /\ CleanupJobRuns /\ ExpiryJobRuns

(***************************************************************************)
(* Safety                                                                  *)
(***************************************************************************)
\* One vehicle never has two live permits of the customer, although the check
\* in ParkingPermit.save() is bypassed by every bulk update and the vehicle of a
\* permit is decided long before its payment makes the permit live again.
NoDuplicateVehicle ==
    \A p, q \in Live : p # q => permits[p].vehicle # permits[q].vehicle

PaidFor(p) == \E o \in OrdersOf(p) : orders[o].paid

\* A permit is VALID only if Talpa took a payment for an order it belongs to,
\* whatever was cancelled, reopened or notified late in between.
ValidIsPaid == \A p \in Valid : PaidFor(p)

\* An order counts as CONFIRMED only once it is paid; the order of a dearer
\* vehicle, inserted as CONFIRMED, is the exception.
ConfirmedIsPaid ==
    \A o \in Orders : orders[o].status = "CONFIRMED" =>
        orders[o].paid \/ orders[o].type = "VEHICLE_CHANGED"

\* "there should not be draft permits with orders": deleting a draft never
\* removes something a customer can pay for.
DraftHasNoOrder == \A p \in Drafts : OrdersOf(p) = {}

\* Two requests to extend one permit are never open together, so no two orders
\* for the same months can both be turned into an extension.
OnePendingRequest ==
    \A p \in Permits : \A o, k \in OrdersOf(p) :
        orders[o].request = "PENDING" /\ orders[k].request = "PENDING" => o = k

\* A permit is extended only for money.
ApprovedIsPaid == \A o \in Orders : orders[o].request = "APPROVED" => orders[o].paid

\* A permit that was ended has no request left that a late payment would approve.
ClosedHasNoPendingRequest == \A p \in WithStatus({"CLOSED"}) : ~HasPendingRequest(p)

\* No sequence of address changes and payments leaves a permit without a zone.
ZoneSet == \A p \in Permits : permits[p].status # "NONE" => permits[p].zone # None

\* A VALID permit that was not asked to end has an order that is still CONFIRMED:
\* ending one permit of an order does not cancel the order under the other.
ValidHasConfirmedOrder ==
    \A p \in Valid : permits[p].endType = "IMMEDIATELY" /\ ~permits[p].due =>
        \E o \in OrdersOf(p) : orders[o].status = "CONFIRMED"

(***************************************************************************)
(* Action properties                                                       *)
(***************************************************************************)
\* A permit that waits for its payment is cancelled only if the time in which Talpa
\* would have accepted the payment of one of its orders is over, or a checkout was
\* given up.
PaymentTimeRespected ==
    [][\A p \in Permits :
        permits[p].status = "PAYMENT_IN_PROGRESS" /\ permits'[p].status = "CANCELLED" =>
            \E o \in OrdersOf(p) : orders[o].late \/ orders[o].cancelled]_vars

\* The permit seen by the abstract specification.
StageOf(status) ==
    CASE status = "NONE" -> "absent"
      [] status \in DraftStatuses -> "draft"
      [] status = "PAYMENT_IN_PROGRESS" -> "waiting"
      [] status = "VALID" -> "valid"
      [] OTHER -> "over"

Lifecycle ==
    INSTANCE PermitLifecycle WITH
        stage <- [p \in Permits |-> StageOf(permits[p].status)],
        paid <- {p \in Permits : PaidFor(p)}

\* The system implements PermitLifecycle: whatever runs interleaved, a permit is
\* deleted only while it is a draft, is no draft again once it left, and becomes
\* valid only after a payment for it.
ImplementsLifecycle == Lifecycle!Spec

(***************************************************************************)
(* Liveness                                                                *)
(***************************************************************************)
\* The order of a permit that timed out does not stay open for payment.  If the
\* permit is ended first, Talpa may refuse to cancel the order, and it does stay.
TimedOutOrderCloses ==
    \A p \in Permits, o \in Orders :
        TimedOutBy(p, o) ~> orders[o].status # "DRAFT" \/ permits[p].status = "CLOSED"

\* Every extension request is decided: paid, given up or cleaned up.
RequestIsDecided ==
    \A o \in Orders : orders[o].request = "PENDING" ~> orders[o].request # "PENDING"

DueEnds ==
    \A p \in Permits :
        permits[p].status = "VALID" /\ permits[p].due ~>
            ~(permits[p].status = "VALID" /\ permits[p].due)

\* From some time on no run of the expiration is cut short by an exception.
NotCutShort == <>[][~AbortExpiry]_vars

\* When the runs of the nightly expiration are no longer cut short, every permit whose
\* time is up ends, whatever the customer, Talpa and the other jobs do meanwhile.
DueEndsUncut == NotCutShort => DueEnds
================================================================================

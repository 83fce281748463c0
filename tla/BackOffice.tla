------------------------------ MODULE BackOffice ------------------------------
(***************************************************************************)
(* Customer service at work on the permits of a customer who uses the web  *)
(* shop at the same time.  A clerk creates, edits, extends and ends        *)
(* permits: the form of a draft stays open while the customer goes on, and *)
(* an edit stores whatever status the clerk gives, however old the form    *)
(* is.  Permits are also imported from the old system.  What a clerk sells *)
(* is paid at the counter, so Talpa does not know the order.  Refunds pass *)
(* from the clerks to those who accept them, outside any transaction.      *)
(***************************************************************************)
EXTENDS PermitOrders

CONSTANTS
    Refunds,        \* ids of Refund rows
    GivenStatuses,  \* the statuses a clerk gives to a new permit
    EditedStatuses, \* the statuses a clerk gives to a permit there is
    EndTypes        \* the end types a clerk chooses

ASSUME GivenAssumption == GivenStatuses \subseteq {"DRAFT", "PRELIMINARY", "VALID"}
ASSUME EditedAssumption == EditedStatuses \subseteq ParkingPermitStatus
ASSUME EndTypesAssumption == EndTypes \subseteq ParkingPermitEndType

VARIABLES
    counter,        \* the orders Talpa does not know
    opened,         \* the drafts a clerk has a form open of
    refunds         \* Refund table, with the statuses each row has had

office == <<counter, opened, refunds>>
allVars == <<vars, office>>

RefundStatus == {"OPEN", "REQUEST_FOR_APPROVAL", "ACCEPTED", "REJECTED"}
NoRefund == [status |-> "NONE", past |-> {}]
RefundRow == [status: RefundStatus \cup {"NONE"}, past: SUBSET RefundStatus]

OfficeTypeOK ==
    /\ TypeOK
    /\ counter \subseteq Orders
    /\ opened \subseteq Permits
    /\ refunds \in [Refunds -> RefundRow]

OfficeInit ==
    /\ Init
    /\ counter = {}
    /\ opened = {}
    /\ refunds = [r \in Refunds |-> NoRefund]

\* A form of a permit that no longer exists is of no use.
FormsLeft == {p \in opened : permits'[p].status # "NONE"}

CloseForm(p) == opened' = FormsLeft \ {p}

GivenStatus(refund, status) == [status |-> status, past |-> refund.past \cup {status}]

\* create_refund: a refund is OPEN until somebody asks for its approval.
CreateRefund ==
    \E r \in Refunds :
        /\ refunds[r].status = "NONE"
        /\ refunds' = [refunds EXCEPT ![r] = GivenStatus(@, "OPEN")]

\* Whether anything is left to pay back depends on dates and prices.
MayRefund == UNCHANGED refunds \/ CreateRefund

\* Mutant: the order of the permits S is not marked as paid.
OrderToBePaid(S, request) ==
    \E o \in Orders :
        /\ IsNextOrderId(o)
        /\ orders' = [orders EXCEPT ![o] = NewOrder("DRAFT", "CREATED", S, request)]
        /\ counter' = counter \cup {o}

\* An order of the permits S paid at the counter.
OrderAtCounter(S, request) ==
    \E o \in Orders :
        /\ IsNextOrderId(o)
        /\ orders' = [orders EXCEPT ![o] =
                        [NewOrder("CONFIRMED", "CREATED", S, request) EXCEPT !.paid = TRUE]]
        /\ counter' = counter \cup {o}

(***************************************************************************)
(* Permits                                                                 *)
(***************************************************************************)
\* The row a permit is written to: the draft of the vehicle if there is one,
\* else the draft the clerk opened, whatever became of it, else a new one.
IsTargetRow(p, vehicle) ==
    LET draftsOfVehicle == {q \in Drafts : permits[q].vehicle = vehicle}
    IN  IF draftsOfVehicle # {} THEN p \in draftsOfVehicle
        ELSE permits[p].status = "NONE" \/ p \in opened

\* resolve_create_resident_permit.  The end time is capped by that of the active
\* permit, which may be over.  The pre-existing row keeps its other columns.
CreateResidentPermit(p, vehicle, zone, status) ==
    /\ Cardinality(Active) < 2
    /\ \A q \in Active : permits[q].vehicle # vehicle /\ permits[q].zone = zone
    /\ IsTargetRow(p, vehicle)
    /\ \E due \in {FALSE, \E q \in Active : permits[q].due} :
        permits' = [permits EXCEPT ![p] =
            [@ EXCEPT !.status = status, !.vehicle = vehicle, !.zone = zone,
                      !.primary = (Active = {}), !.due = due]]
    /\ MaySave(permits', p)
    /\ IF status = "VALID" THEN OrderAtCounter({p}, "NONE") ELSE UNCHANGED <<orders, counter>>
    /\ CloseForm(p)
    /\ UNCHANGED <<unpaid, expiry, refunds>>

\* Bound: one form is open at a time.
OpenForm(p) ==
    /\ p \in Drafts
    /\ opened = {}
    /\ opened' = {p}
    /\ UNCHANGED <<vars, counter, refunds>>

\* Mutant: another vehicle of the customer may be given to the permit.
UpdatedUnchecked(p, vehicle, zone, status) ==
    ClearFlags([q \in Permits |->
        [permits[q] EXCEPT !.status = IF q = p THEN status ELSE @,
                           !.vehicle = IF q = p THEN vehicle ELSE @,
                           !.zone = IF q \in Active THEN zone ELSE @]], {p})

\* What an edit of p writes: every active permit moves, and p gets the vehicle and
\* the status of the input.  The flags of p are cleared.
Updated(p, vehicle, zone, status) ==
    {ps \in ClearFlags([q \in Permits |->
        [permits[q] EXCEPT !.status = IF q = p THEN status ELSE @,
                           !.vehicle = IF q = p THEN vehicle ELSE @,
                           !.zone = IF q \in Active THEN zone ELSE @]], {p}) :
     MaySave(ps, p)}

\* The permits whose price a change is calculated for; a CLOSED one has no time left.
Repriced(p, vehicle, zone) ==
    IF permits[p].zone # zone /\ Active # {} THEN Active
    ELSE {q \in {p} : permits[q].vehicle # vehicle /\ permits[q].status # "CLOSED"}

\* resolve_update_resident_permit: a lower price is refunded, for a higher one an
\* order over all VALID permits is paid at the counter.  Nothing is asked of the status
\* the permit has, nor of the one it gets.
UpdateResidentPermit(p, vehicle, zone, status) ==
    LET repriced == Repriced(p, vehicle, zone)
    IN  /\ permits[p].status # "NONE"
        /\ \A q \in Active \ {p} : permits[q].vehicle # vehicle
        /\ permits' \in Updated(p, vehicle, zone, status)
        /\ \/ UNCHANGED <<orders, counter, refunds>>
           \/ /\ repriced # {}
              /\ \A q \in repriced : OrdersOf(q) # {}
              /\ CreateRefund
              /\ UNCHANGED <<orders, counter>>
           \/ LET valid == {q \in Permits : permits'[q].status = "VALID"}
              IN  /\ repriced # {}
                  /\ valid # {}
                  /\ OrderAtCounter(valid, "NONE")
                  /\ UNCHANGED refunds
        /\ UNCHANGED <<unpaid, expiry, opened>>

\* resolve_extend_parking_permit of the admin API: approved at once.
ExtendByOffice(p) ==
    /\ permits[p].status = "VALID"
    /\ ~HasPendingRequest(p)
    /\ OrderAtCounter({p}, "APPROVED")
    /\ permits' \in ClearFlags(permits, {p})
    /\ UNCHANGED <<unpaid, expiry, opened, refunds>>

\* resolve_end_permit of the admin API.
EndByOffice(p, endType) ==
    LET toCancel == OrdersToCancel({p}, endType)
    IN  /\ permits[p].status # "NONE"
        /\ ~(Cardinality(Active) > 1 /\ permits[p].primary)
        /\ MayEnd({p}, endType)
        /\ \E refused \in SUBSET toCancel : \E told \in SUBSET (toCancel \ refused) :
            orders' = CancelPending(CancelOrders(toCancel, refused, told), OrdersOf(p))
        /\ permits' = EndPermits(permits, {p}, endType)
        /\ IF permits[p].status = "VALID" THEN MayRefund ELSE UNCHANGED refunds
        /\ UNCHANGED <<unpaid, expiry, counter, opened>>

\* import_pasi_csv: a running permit of the old system, always a primary one.
ImportPermit(p, vehicle, zone) ==
    /\ permits[p].status = "NONE"
    /\ \A q \in Active : permits[q].vehicle # vehicle
    /\ permits' = [permits EXCEPT ![p] =
            [NoPermit EXCEPT !.status = "VALID", !.vehicle = vehicle, !.zone = zone,
                             !.primary = TRUE]]
    /\ MaySave(permits', p)
    /\ OrderAtCounter({p}, "NONE")
    /\ UNCHANGED <<unpaid, expiry, opened, refunds>>

(***************************************************************************)
(* Refunds                                                                 *)
(***************************************************************************)
\* One UPDATE of those of the ids that have one of the statuses before.  Both resolvers
\* then query the ids by the new status and write to the customers of what they find: no
\* row changes any more, and what another clerk did in between decides who is written to.
GiveStatus(ids, before, status) ==
    /\ refunds' = [r \in Refunds |->
            IF r \in ids /\ refunds[r].status \in before
            THEN GivenStatus(refunds[r], status) ELSE refunds[r]]
    /\ UNCHANGED <<vars, counter, opened>>

RequestForApproval(ids) == GiveStatus(ids, {"OPEN"}, "REQUEST_FOR_APPROVAL")

\* Mutant: a refund can be accepted before its approval was asked for.
AcceptAnyRefunds(ids) == GiveStatus(ids, RefundStatus, "ACCEPTED")

AcceptRefunds(ids) == GiveStatus(ids, {"REQUEST_FOR_APPROVAL"}, "ACCEPTED")

\* resolve_update_refund reads the row and then writes all of it, outside any
\* transaction: the status becomes again what it was at some earlier time.
UpdateRefund(r) ==
    /\ \E status \in refunds[r].past :
        refunds' = [refunds EXCEPT ![r] = GivenStatus(@, status)]
    /\ UNCHANGED <<vars, counter, opened>>

(***************************************************************************)
(* The whole                                                               *)
(***************************************************************************)
OfficeNext ==
    \/ \E p \in Permits, vehicle \in Vehicles, zone \in Zones :
        \/ \E status \in GivenStatuses :
            CreateResidentPermit(p, vehicle, zone, status)
        \/ \E status \in EditedStatuses :
            UpdateResidentPermit(p, vehicle, zone, status)
        \/ ImportPermit(p, vehicle, zone)
    \/ \E p \in Permits :
        \/ OpenForm(p)
        \/ ExtendByOffice(p)
        \/ \E endType \in EndTypes : EndByOffice(p, endType)
    \/ \E ids \in SUBSET Refunds \ {{}} : RequestForApproval(ids) \/ AcceptRefunds(ids)
    \/ \E r \in Refunds : UpdateRefund(r)

\* The foreign keys of order items protect a permit from being deleted.
DeletesNoOrder ==
    \A p \in Permits :
        permits[p].status # "NONE" /\ permits'[p].status = "NONE" => OrdersOf(p) = {}

\* The customer buys, pays and extends; Talpa tells of the orders it knows.  Orders
\* that time out or are cancelled at Talpa are left to the other specifications.
ShopNext ==
    /\ \/ PurchaseNext \/ ExtendNext
       \/ \E o \in Orders \ counter :
            TalpaPays(o) \/ PaymentPaid(o) \/ PaymentFailed(o)
    /\ DeletesNoOrder
    /\ opened' = FormsLeft
    /\ UNCHANGED <<counter, refunds>>

OfficeSpec == OfficeInit /\ [][OfficeNext \/ ShopNext]_allVars

(***************************************************************************)
(* Properties                                                              *)
(***************************************************************************)
EditMadeValid(p) ==
    \E vehicle \in Vehicles, zone \in Zones : UpdateResidentPermit(p, vehicle, zone, "VALID")

\* Nothing but a clerk's edit makes a permit VALID that nobody paid for: neither a draft
\* granted from an old form, nor an import, nor a payment Talpa tells of while clerks
\* rewrite the status of its permits.
OnlyEditsAreUnpaid ==
    [][\A p \in Permits :
        permits[p].status # "VALID" /\ permits'[p].status = "VALID" =>
            PaidFor(p)' \/ EditMadeValid(p)]_allVars

\* No refund is accepted unless its approval was asked for at some time, although a save
\* that read the row earlier, outside any transaction, may undo any step of the approval.
AcceptedWasAsked ==
    \A r \in Refunds :
        refunds[r].status = "ACCEPTED" => "REQUEST_FOR_APPROVAL" \in refunds[r].past
================================================================================

------------------------------ MODULE CustomerApi ------------------------------
(***************************************************************************)
(* The GraphQL mutations and the permit query of the web shop.  Each runs  *)
(* in one database transaction; an exception rolls it back, which leaves   *)
(* the state as it was, so a handler is an action guarded by the checks    *)
(* that let it finish.  Talpa, Traficom and Parkkihubi refusing a call     *)
(* raise exceptions too and need no action of their own.                   *)
(***************************************************************************)
EXTENDS PermitState

\* resolve_create_parking_permit: a new DRAFT permit.  The limit is compared
\* with the permits that exist before this one.
MayBuyForAddress(zone) ==
    /\ Cardinality(Live) <= MaxAllowed
    /\ Live # {} =>
        /\ \E primary \in Primaries :
            /\ Primaries = {primary}
            /\ permits[primary].zone = zone \/ permits[primary].status = "DRAFT"
        /\ Cardinality(Live \ Primaries) <= 1

CreatePermit(p, vehicle, zone) ==
    /\ permits[p].status = "NONE"
    /\ \A q \in Live : permits[q].vehicle # vehicle
    /\ MayBuyForAddress(zone)
    /\ permits' = [permits EXCEPT ![p] =
            [NoPermit EXCEPT !.status = "DRAFT", !.vehicle = vehicle,
                             !.zone = zone, !.primary = (Live = {})]]
    /\ UNCHANGED <<orders, unpaid, expiry>>

\* Mutant: a permit waiting for its payment can be deleted too.
DeleteLivePermit(p) ==
    /\ p \in Live \ Valid
    /\ permits' = Delete(permits, {p})
    /\ UNCHANGED <<orders, unpaid, expiry>>

\* resolve_delete_parking_permit: some permit that is left becomes primary.
DeletePermit(p) ==
    /\ p \in Drafts
    /\ IF Live = {p}
       THEN permits' = Delete(permits, {p})
       ELSE \E q \in Live \ {p} :
                permits' = [Delete(permits, {p}) EXCEPT ![q].primary = TRUE]
    /\ UNCHANGED <<orders, unpaid, expiry>>

\* resolve_update_parking_permit with primary_vehicle: swaps the two permits.
TogglePrimary ==
    /\ \E p \in Live, s \in Live :
        /\ Primaries = {p}
        /\ Live \ Primaries = {s}
        /\ permits' = [permits EXCEPT ![p].primary = FALSE, ![s].primary = TRUE]
    /\ UNCHANGED <<orders, unpaid, expiry>>

\* resolve_update_parking_permit with address_id: moves every draft.
UpdateDraftAddress(zone) ==
    /\ MayBuyForAddress(zone)
    /\ permits' = [p \in Permits |-> IF p \in Drafts THEN [permits[p] EXCEPT !.zone = zone]
                                                    ELSE permits[p]]
    /\ UNCHANGED <<orders, unpaid, expiry>>

\* resolve_create_order: one order for all drafts, at most two.
CreateOrder ==
    /\ Drafts # {}
    /\ Cardinality(Drafts) <= 2
    /\ \E o \in Orders :
        /\ IsNextOrderId(o)
        /\ orders' = [orders EXCEPT ![o] = NewOrder("DRAFT", "CREATED", Drafts, "NONE")]
    /\ permits' = SetStatus(permits, Drafts, "PAYMENT_IN_PROGRESS")
    /\ UNCHANGED <<unpaid, expiry>>

\* resolve_extend_parking_permit: an order with a pending extension request.
RequestExtension(p) ==
    /\ permits[p].status = "VALID"
    /\ ~HasPendingRequest(p)
    /\ \E o \in Orders :
        /\ IsNextOrderId(o)
        /\ orders' = [orders EXCEPT ![o] = NewOrder("DRAFT", "CREATED", {p}, "PENDING")]
    /\ UNCHANGED <<permits, unpaid, expiry>>

\* resolve_update_permit_vehicle when the price does not rise: the vehicle is
\* replaced at once, whatever the status of the permit.
ChangeVehicle(p, vehicle) ==
    /\ permits[p].status # "NONE"
    /\ permits' \in ClearFlags([permits EXCEPT ![p].vehicle = vehicle], {p})
    /\ MaySave(permits', p)
    /\ UNCHANGED <<orders, unpaid, expiry>>

\* resolve_update_permit_vehicle when the price rises: the permit waits for the
\* payment of an order over all VALID permits; the order is inserted CONFIRMED.
\* A CLOSED permit has no time left, so its price cannot rise.
ChangeToDearerVehicle(p, vehicle) ==
    /\ permits[p].status \notin {"NONE", "CLOSED"}
    /\ \A q \in Live \ {p} : permits[q].vehicle # vehicle
    /\ Valid # {}
    /\ \E o \in Orders :
        /\ IsNextOrderId(o)
        /\ orders' = [orders EXCEPT ![o] =
                        NewOrder("CONFIRMED", "VEHICLE_CHANGED", Valid, "NONE")]
    /\ permits' \in ClearFlags(
            [permits EXCEPT ![p] = [@ EXCEPT !.nextVehicle = vehicle,
                                             !.status = "PAYMENT_IN_PROGRESS"]], {p})
    /\ MaySave(permits', p)
    /\ UNCHANGED <<unpaid, expiry>>

SameZone(S) == \A p, q \in S : permits[p].zone = permits[q].zone

\* resolve_change_address when the price does not rise.
ChangeAddress(zone) ==
    /\ Active # {}
    /\ SameZone(Active)
    /\ permits' \in ClearFlags(
            [p \in Permits |-> IF p \in Active THEN [permits[p] EXCEPT !.zone = zone]
                                               ELSE permits[p]], Active)
    /\ UNCHANGED <<orders, unpaid, expiry>>

\* resolve_change_address when the price rises: every active permit waits, the
\* order is for the VALID ones only.
ChangeToDearerAddress(zone) ==
    /\ Valid # {}
    /\ SameZone(Active)
    /\ \A p \in Active : permits[p].zone # zone
    /\ \E o \in Orders :
        /\ IsNextOrderId(o)
        /\ orders' = [orders EXCEPT ![o] = NewOrder("DRAFT", "ADDRESS_CHANGED", Valid, "NONE")]
    /\ permits' \in ClearFlags(
            [p \in Permits |->
                IF p \in Active
                THEN [permits[p] EXCEPT !.nextZone = zone, !.status = "PAYMENT_IN_PROGRESS"]
                ELSE permits[p]], Active)
    /\ UNCHANGED <<unpaid, expiry>>

\* The check of ParkingPermit.end_permit(): a primary permit does not end before
\* another active permit.
MayEnd(S, endType) ==
    endType = "IMMEDIATELY" =>
        \A p \in S \cap Primaries :
            \A q \in Active \ ((S \ Primaries) \cup {p}) : permits[q].due

\* resolve_end_permit: ends the live permits among S, then deletes the drafts.
EndPermitsOfCustomer(S, endType) ==
    LET ending == S \cap Live
        toCancel == OrdersToCancel(ending, endType)
        ended == EndPermits(permits, ending, endType)
    IN  /\ MayEnd(ending, endType)
        /\ \E refused \in SUBSET toCancel : \E told \in SUBSET (toCancel \ refused) :
            orders' = CancelPending(CancelOrders(toCancel, refused, told),
                                    OrdersOfAny(ending))
        /\ permits' = Delete(ended, DraftRows(ended))
        /\ UNCHANGED <<unpaid, expiry>>

\* resolve_customer_permits, CustomerPermit.get(): deletes drafts of earlier
\* days, then goes through the permits one by one.  Once the first permit of an
\* order has timed out, the order is CANCELLED and the others no longer do.
GetPermits(old, cancelled) ==
    /\ \A p \in cancelled : TimedOut(p)
    /\ \A o \in Orders : (\E p \in Permits : TimedOutBy(p, o)) =>
            \E p \in cancelled : {q \in cancelled : TimedOutBy(q, o)} = {p}
    /\ permits' = SetStatus(Delete(permits, old), cancelled, "CANCELLED")
    /\ orders' = [o \in Orders |->
            IF \E p \in cancelled : TimedOutBy(p, o)
            THEN [orders[o] EXCEPT !.status = "CANCELLED"] ELSE orders[o]]
    /\ UNCHANGED <<unpaid, expiry>>

(***************************************************************************)
(* The handlers, grouped by what the customer is doing                     *)
(***************************************************************************)
PurchaseNext ==
    \/ \E p \in Permits, vehicle \in Vehicles, zone \in Zones : CreatePermit(p, vehicle, zone)
    \/ \E p \in Permits : DeletePermit(p)
    \/ CreateOrder
    \/ \E old \in SUBSET DraftRows(permits), cancelled \in SUBSET Permits :
            GetPermits(old, cancelled)

UpdateNext ==
    \/ TogglePrimary
    \/ \E zone \in Zones : UpdateDraftAddress(zone)

ExtendNext == \E p \in Permits : RequestExtension(p)

ChangeNext ==
    \/ \E p \in Permits, vehicle \in Vehicles :
            ChangeVehicle(p, vehicle) \/ ChangeToDearerVehicle(p, vehicle)
    \/ \E zone \in Zones : ChangeAddress(zone) \/ ChangeToDearerAddress(zone)

EndNext ==
    \E S \in SUBSET Permits, endType \in {"IMMEDIATELY", "AFTER_CURRENT_PERIOD"} :
        EndPermitsOfCustomer(S, endType)

CustomerNext == PurchaseNext \/ UpdateNext \/ ExtendNext \/ ChangeNext \/ EndNext
================================================================================

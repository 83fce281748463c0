--------------------------------- MODULE Jobs ---------------------------------
(***************************************************************************)
(* The management commands run by cron.  None of them runs in a            *)
(* transaction of its own, so what one of them read may be stale when it   *)
(* writes: cancel_old_unpaid_permits is a read and a write,                *)
(* automatic_expiration_of_permits a read and three steps per permit.      *)
(***************************************************************************)
EXTENDS PermitState

\* The end time of a permit passes, or the day after it was flagged begins.
BecomesDue(p) ==
    /\ permits[p].status = "VALID"
    /\ ~permits[p].due
    /\ permits' = [permits EXCEPT ![p].due = TRUE]
    /\ UNCHANGED <<orders, unpaid, expiry>>

(***************************************************************************)
(* cancel_old_unpaid_permits                                               *)
(***************************************************************************)
ReadUnpaid ==
    /\ unpaid = {}
    /\ unpaid' = {row \in Permits \X Orders : TimedOutBy(row[1], row[2])}
    /\ unpaid' # {}
    /\ UNCHANGED <<permits, orders, expiry>>

\* Mutant: the orders are not written back.
CancelUnpaidPermitsOnly ==
    /\ unpaid # {}
    /\ permits' = SetStatus(permits, {p \in Permits : \E o \in Orders : <<p, o>> \in unpaid},
                            "CANCELLED")
    /\ unpaid' = {}
    /\ UNCHANGED <<orders, expiry>>

\* bulk_update() writes the status of every row that was read.
CancelUnpaid ==
    /\ unpaid # {}
    /\ permits' = SetStatus(permits, {p \in Permits : \E o \in Orders : <<p, o>> \in unpaid},
                            "CANCELLED")
    /\ orders' = [o \in Orders |-> IF \E p \in Permits : <<p, o>> \in unpaid
                                   THEN [orders[o] EXCEPT !.status = "CANCELLED"]
                                   ELSE orders[o]]
    /\ unpaid' = {}
    /\ UNCHANGED expiry

(***************************************************************************)
(* delete_draft_permits                                                    *)
(***************************************************************************)
\* Drafts, or preliminary permits, old enough and without orders.
DeleteOldDrafts(S) ==
    /\ S \subseteq Drafts
    /\ \A p \in S : OrdersOf(p) = {}
    /\ permits' = Delete(permits, S)
    /\ UNCHANGED <<orders, unpaid, expiry>>

\* Mutant: only the requests of orders that are still drafts are looked for.
CancelOldDraftRequests(S) ==
    /\ \A o \in S : /\ orders[o].request = "PENDING" /\ orders[o].late
                    /\ orders[o].status = "DRAFT"
    /\ orders' = CancelPending(orders, S)
    /\ UNCHANGED <<permits, unpaid, expiry>>

\* Requests are cancelled later (30 minutes) than their order may be paid (15).
CancelOldRequests(S) ==
    /\ \A o \in S : orders[o].request = "PENDING" /\ orders[o].late
    /\ orders' = CancelPending(orders, S)
    /\ UNCHANGED <<permits, unpaid, expiry>>

(***************************************************************************)
(* automatic_expiration_of_permits                                         *)
(***************************************************************************)
\* Mutant: a permit that the customer already asked to end is left out.
ReadExpiredUnasked ==
    LET toEnd == {p \in Valid : permits[p].due /\ permits[p].endType = "IMMEDIATELY"}
    IN  /\ expiry.step = "idle"
        /\ toEnd # {}
        /\ expiry' = [IdleExpiry EXCEPT !.todo = toEnd, !.step = "picked"]
        /\ UNCHANGED <<permits, orders, unpaid>>

ReadExpired ==
    /\ expiry.step = "idle"
    /\ \E p \in Valid : permits[p].due
    /\ expiry' = [IdleExpiry EXCEPT !.todo = {p \in Valid : permits[p].due},
                                    !.step = "picked"]
    /\ UNCHANGED <<permits, orders, unpaid>>

\* CustomerPermit.end(): the permit is read again, but only to see that it is
\* live; a permit that no longer is is passed over.
CancelOrdersOfExpired(p) ==
    LET toCancel == IF p \in Live THEN OrdersToCancel({p}, "PREVIOUS_DAY_END") ELSE {}
    IN  /\ expiry.step = "picked"
        /\ p \in expiry.todo
        /\ \E refused \in SUBSET toCancel : \E told \in SUBSET (toCancel \ refused) :
            orders' = CancelOrders(toCancel, refused, told)
        /\ expiry' = [todo |-> expiry.todo \ {p}, current |-> p,
                      row |-> IF p \in Live THEN permits[p] ELSE NoPermit,
                      step |-> IF p \in Live THEN "orders" ELSE "closed"]
        /\ UNCHANGED <<permits, unpaid>>

\* save() writes the whole row as it was read, whatever happened to it since.
CloseExpired ==
    /\ expiry.step = "orders"
    /\ permits' = [permits EXCEPT ![expiry.current] =
            [expiry.row EXCEPT !.endType = "PREVIOUS_DAY_END", !.status = "CLOSED"]]
    /\ orders' = CancelPending(orders, OrdersOf(expiry.current))
    /\ expiry' = [expiry EXCEPT !.row = NoPermit, !.step = "closed"]
    /\ UNCHANGED unpaid

\* The drafts are deleted and a permit left alone becomes primary.
TidyExpired ==
    /\ expiry.step = "closed"
    /\ permits' = [p \in Permits |->
            IF p \in DraftRows(permits) THEN NoPermit
            ELSE IF Active = {p} THEN [permits[p] EXCEPT !.primary = TRUE]
            ELSE permits[p]]
    /\ expiry' = IF expiry.todo = {} THEN IdleExpiry
                 ELSE [expiry EXCEPT !.current = None, !.step = "picked"]
    /\ UNCHANGED <<orders, unpaid>>

\* The process dies, or Parkkihubi refuses a permit: the run ends where it is.
AbortExpiry ==
    /\ expiry.step # "idle"
    /\ expiry' = IdleExpiry
    /\ UNCHANGED <<permits, orders, unpaid>>

UnpaidNext == ReadUnpaid \/ CancelUnpaid

CleanupNext ==
    \/ \E S \in SUBSET Permits : DeleteOldDrafts(S)
    \/ \E S \in SUBSET Orders : CancelOldRequests(S)

ExpiryNext ==
    \/ \E p \in Permits : BecomesDue(p)
    \/ ReadExpired
    \/ \E p \in Permits : CancelOrdersOfExpired(p)
    \/ CloseExpired
    \/ TidyExpired

JobsNext == UnpaidNext \/ CleanupNext \/ ExpiryNext \/ AbortExpiry
================================================================================

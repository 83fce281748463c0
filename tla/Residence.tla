-------------------------------- MODULE Residence -------------------------------
(***************************************************************************)
(* Where the holder of a permit lives.  The population register (DVV) has  *)
(* the addresses, the service copies them when the customer logs in, a     *)
(* query of the permits marks a permit whose address is no longer one of   *)
(* them, and the expiration of a later day ends a marked permit.           *)
(*                                                                         *)
(* There is one customer with one open-ended permit, which no date ends.   *)
(* An address lies in a parking zone, in none (Unzoned) or, where polygons *)
(* overlap, in two of them (Overlapping).                                  *)
(***************************************************************************)
CONSTANTS
    Addresses,
    Elsewhere,      \* the addresses outside Helsinki
    Unzoned,
    Overlapping,
    None

ASSUME AddressAssumption ==
    /\ Elsewhere \cup Unzoned \cup Overlapping \subseteq Addresses
    /\ None \notin Addresses

VARIABLES
    registered,     \* the addresses DVV has of the person
    moved,          \* whether they ever changed
    listed,         \* the addresses that KAMI, the address service, finds
    table,          \* the addresses that have a row
    profile,        \* the addresses of the Customer row
    permit,
    ran             \* the expiration of today, at 00:22, has run

vars == <<registered, moved, listed, table, profile, permit, ran>>

Homes == [primary : Addresses \cup {None}, other : Addresses \cup {None}]

NoPermit == [status |-> "NONE", address |-> None, marked |-> "no", old |-> FALSE]

TypeOK ==
    /\ registered \in Homes /\ profile \in Homes
    /\ listed \subseteq Addresses /\ table \subseteq Addresses
    /\ permit.status \in {"NONE", "DRAFT", "PAYMENT_IN_PROGRESS", "VALID", "CANCELLED", "CLOSED"}
    /\ permit.address \in Addresses \cup {None}
    /\ permit.marked \in {"no", "today", "earlier"}
    /\ moved \in BOOLEAN /\ permit.old \in BOOLEAN /\ ran \in BOOLEAN
    /\ permit.status = "NONE" \/ permit.address # None

Init ==
    /\ registered \in Homes
    /\ moved = FALSE
    /\ listed = Addresses
    /\ table = {}
    /\ profile = [primary |-> None, other |-> None]
    /\ permit = NoPermit
    /\ ran = FALSE

(***************************************************************************)
(* The outside world                                                       *)
(***************************************************************************)
PersonMoves ==
    /\ registered' \in Homes
    /\ moved' = TRUE
    /\ UNCHANGED <<listed, table, profile, permit, ran>>

ListingChanges ==
    /\ listed' \in {Addresses \ {a} : a \in Addresses} \cup {Addresses}
    /\ UNCHANGED <<registered, moved, table, profile, permit, ran>>

(***************************************************************************)
(* The profile                                                             *)
(***************************************************************************)
InHelsinki(a) == a # None /\ a \notin Elsewhere

\* An address that KAMI does not find may still have a row; overlapping zones make
\* the look-up fail.  One address that cannot be placed fails the whole profile.
CanBePlaced(a) == a \in listed \cup table /\ a \notin Overlapping

KeptIfListed(a) == IF InHelsinki(a) /\ a \in listed THEN a ELSE None

Kept(a) == IF InHelsinki(a) THEN a ELSE None

ResolveUserProfile ==
    /\ \A a \in {registered.primary, registered.other} : InHelsinki(a) => CanBePlaced(a)
    /\ profile' = [primary |-> Kept(registered.primary), other |-> Kept(registered.other)]
    /\ table' = table \cup ({profile'.primary, profile'.other} \ {None})
    /\ UNCHANGED <<registered, moved, listed, permit, ran>>

IsCustomerAddress(a) == a \in {profile.primary, profile.other} \ {None}

\* A permit cannot be saved without a zone.
MayHavePermit(a) == IsCustomerAddress(a) /\ a \notin Unzoned \cup Overlapping

(***************************************************************************)
(* The permit                                                              *)
(***************************************************************************)
CreatePermit(a) ==
    /\ permit.status \notin {"DRAFT", "PAYMENT_IN_PROGRESS", "VALID"}
    /\ MayHavePermit(a)
    /\ permit' = [NoPermit EXCEPT !.status = "DRAFT", !.address = a]
    /\ UNCHANGED <<registered, moved, listed, table, profile, ran>>

UpdateDraftAddress(a) ==
    /\ permit.status = "DRAFT"
    /\ MayHavePermit(a)
    /\ permit' = [permit EXCEPT !.address = a]
    /\ UNCHANGED <<registered, moved, listed, table, profile, ran>>

CreateOrder ==
    /\ permit.status = "DRAFT"
    /\ permit' = [permit EXCEPT !.status = "PAYMENT_IN_PROGRESS"]
    /\ UNCHANGED <<registered, moved, listed, table, profile, ran>>

PaymentPaid ==
    /\ permit.status = "PAYMENT_IN_PROGRESS"
    /\ permit' = [permit EXCEPT !.status = "VALID"]
    /\ UNCHANGED <<registered, moved, listed, table, profile, ran>>

\* An open-ended permit moves at once: its next renewal has the new price.
ChangeAddress(a) ==
    /\ permit.status = "VALID"
    /\ MayHavePermit(a)
    /\ permit' = [permit EXCEPT !.address = a, !.marked = "no"]
    /\ UNCHANGED <<registered, moved, listed, table, profile, ran>>

HasAddressChanged == permit.address \notin {profile.primary, profile.other}

\* Drafts of earlier days are deleted; whatever else lives is marked, today, if its
\* address is not the customer's; a purchase may have timed out.
GetPermits ==
    /\ permit.status \in {"DRAFT", "PAYMENT_IN_PROGRESS", "VALID"}
    /\ IF permit.status = "DRAFT" /\ permit.old
       THEN permit' = NoPermit
       ELSE \E status \in {permit.status}
                \cup (IF permit.status = "PAYMENT_IN_PROGRESS" THEN {"CANCELLED"} ELSE {}) :
            permit' = [permit EXCEPT
                !.status = status,
                !.marked = IF HasAddressChanged THEN "today" ELSE @]
    /\ UNCHANGED <<registered, moved, listed, table, profile, ran>>

(***************************************************************************)
(* The days                                                                *)
(***************************************************************************)
\* Mutant: the marks of today are taken instead of those of earlier days.
IsEndingToday == permit.status = "VALID" /\ permit.marked = "today"

IsEnding == permit.status = "VALID" /\ permit.marked = "earlier"

AutomaticExpiration ==
    /\ ~ran
    /\ ran' = TRUE
    /\ permit' = IF IsEnding THEN [permit EXCEPT !.status = "CLOSED"] ELSE permit
    /\ UNCHANGED <<registered, moved, listed, table, profile>>

\* Midnight.  The expiration runs 22 minutes later, and once on each day.
DayPasses ==
    /\ ran
    /\ ran' = FALSE
    /\ permit' = [permit EXCEPT !.marked = IF @ = "today" THEN "earlier" ELSE @,
                                !.old = permit.status = "DRAFT"]
    /\ UNCHANGED <<registered, moved, listed, table, profile>>

Next ==
    \/ PersonMoves \/ ListingChanges \/ ResolveUserProfile
    \/ \E a \in Addresses : CreatePermit(a) \/ UpdateDraftAddress(a) \/ ChangeAddress(a)
    \/ CreateOrder \/ PaymentPaid \/ GetPermits
    \/ AutomaticExpiration \/ DayPasses

Spec == Init /\ [][Next]_vars

\* The days pass and the command is scheduled; nothing is asked of the customer.
FairSpec == Spec /\ WF_vars(AutomaticExpiration) /\ WF_vars(DayPasses)

(***************************************************************************)
(* Properties                                                              *)
(***************************************************************************)
Marked == permit.status = "VALID" /\ permit.marked # "no"

\* Who has not moved is never marked, whatever of his addresses the services
\* failed to find at one login or another.
MarkedHasMoved == permit.marked # "no" => moved

\* From some night on the customer does not ask for his permits between midnight and the
\* expiration.  He may ask on every day: a mark of yesterday is read before it is renewed.
LetsExpirationRun == <>[][GetPermits => ran]_vars

\* A marked permit ends, unless its holder moves it to an address of his own or renews
\* the mark just before each expiration, which takes the marks of earlier days only.
MarkedPermitEnds == LetsExpirationRun => (Marked ~> ~Marked)
================================================================================

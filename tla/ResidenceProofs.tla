---------------------------- MODULE ResidenceProofs ----------------------------
(***************************************************************************)
(* Proofs about Residence, for every set of addresses.                     *)
(***************************************************************************)
EXTENDS Residence, TLAPS

Statuses == {"NONE", "DRAFT", "PAYMENT_IN_PROGRESS", "VALID", "CANCELLED", "CLOSED"}

PermitRow == [status : Statuses, address : Addresses \cup {None},
              marked : {"no", "today", "earlier"}, old : BOOLEAN]

(* The conjuncts of TypeOK say what the fields are, this one that there are no others. *)
Rows == permit \in PermitRow

(* Who has not moved has, since the first login, exactly the addresses that the *)
(* register has of him in Helsinki; and a permit is for one of them.            *)
Settled ==
    /\ profile = [primary |-> Kept(registered.primary), other |-> Kept(registered.other)]
        \/ (profile = [primary |-> None, other |-> None] /\ permit.status = "NONE")
    /\ permit.status # "NONE" => permit.address \in {profile.primary, profile.other}
    /\ permit.marked = "no"

IInv == TypeOK /\ Rows /\ (~moved => Settled)

LEMMA NoPermitType ==
  /\ NoPermit \in PermitRow
  /\ NoPermit.status = "NONE" /\ NoPermit.address = None /\ NoPermit.marked = "no"
  /\ NoPermit.old = FALSE
  BY DEF NoPermit, PermitRow, Statuses

LEMMA KeptIsHome ==
  ASSUME NEW a \in Addresses \cup {None}
  PROVE  Kept(a) \in Addresses \cup {None}
  BY DEF Kept, InHelsinki

LEMMA InitInv == Init => IInv
<1> SUFFICES ASSUME Init PROVE IInv
  OBVIOUS
<1>1. permit \in PermitRow /\ permit.status = "NONE" /\ permit.address = None
      /\ permit.marked = "no" /\ permit.old = FALSE
  BY NoPermitType DEF Init
<1>2. profile \in Homes
  BY DEF Init, Homes
<1> QED
  BY <1>1, <1>2 DEF Init, IInv, TypeOK, Rows, Settled

LEMMA NextInv == IInv /\ [Next]_vars => IInv'
<1> SUFFICES ASSUME IInv, [Next]_vars PROVE IInv'
  OBVIOUS
<1> USE AddressAssumption
<1> USE DEF IInv, TypeOK, Rows
<1>1. CASE PersonMoves
  BY <1>1 DEF PersonMoves
<1>2. CASE ListingChanges
  BY <1>2 DEF ListingChanges, Settled
<1>3. CASE ResolveUserProfile
  <2>1. profile' = [primary |-> Kept(registered.primary), other |-> Kept(registered.other)]
    BY <1>3 DEF ResolveUserProfile
  <2>2. registered.primary \in Addresses \cup {None} /\ registered.other \in Addresses \cup {None}
    BY DEF Homes
  <2>3. profile' \in Homes
    BY <2>1, <2>2, KeptIsHome DEF Homes
  <2>4. table' \subseteq Addresses
    BY <1>3, <2>3 DEF ResolveUserProfile, Homes
  <2>5. ~moved => Settled'
    BY <1>3, <2>1 DEF ResolveUserProfile, Settled, Kept, InHelsinki
  <2> QED
    BY <1>3, <2>3, <2>4, <2>5 DEF ResolveUserProfile
<1>4. ASSUME NEW a \in Addresses, CreatePermit(a) PROVE IInv'
  <2>1. permit' = [NoPermit EXCEPT !.status = "DRAFT", !.address = a]
    BY <1>4 DEF CreatePermit
  <2>2. Rows' /\ permit'.status = "DRAFT" /\ permit'.address = a /\ permit'.marked = "no"
    BY <2>1, NoPermitType DEF NoPermit, PermitRow, Statuses
  <2>3. a \in {profile.primary, profile.other}
        /\ profile # [primary |-> None, other |-> None]
    BY <1>4 DEF CreatePermit, MayHavePermit, IsCustomerAddress
  <2> QED
    BY <1>4, <2>2, <2>3 DEF CreatePermit, Settled, PermitRow, Statuses
<1>5. ASSUME NEW a \in Addresses, UpdateDraftAddress(a) PROVE IInv'
  <2>1. permit' = [permit EXCEPT !.address = a]
    BY <1>5 DEF UpdateDraftAddress
  <2>2. Rows' /\ permit'.status = "DRAFT" /\ permit'.address = a /\ permit'.marked = permit.marked
    BY <1>5, <2>1 DEF UpdateDraftAddress, PermitRow, Statuses
  <2>3. a \in {profile.primary, profile.other}
    BY <1>5 DEF UpdateDraftAddress, MayHavePermit, IsCustomerAddress
  <2> QED
    BY <1>5, <2>2, <2>3 DEF UpdateDraftAddress, Settled, PermitRow, Statuses
<1>6. ASSUME NEW a \in Addresses, ChangeAddress(a) PROVE IInv'
  <2>1. permit' = [permit EXCEPT !.address = a, !.marked = "no"]
    BY <1>6 DEF ChangeAddress
  <2>2. Rows' /\ permit'.status = "VALID" /\ permit'.address = a /\ permit'.marked = "no"
    BY <1>6, <2>1 DEF ChangeAddress, PermitRow, Statuses
  <2>3. a \in {profile.primary, profile.other}
    BY <1>6 DEF ChangeAddress, MayHavePermit, IsCustomerAddress
  <2> QED
    BY <1>6, <2>2, <2>3 DEF ChangeAddress, Settled, PermitRow, Statuses
<1>7. CASE CreateOrder
  <2>1. Rows' /\ permit'.status # "NONE" /\ permit'.address = permit.address
        /\ permit'.marked = permit.marked /\ permit.status # "NONE"
    BY <1>7 DEF CreateOrder, PermitRow, Statuses
  <2> QED
    BY <1>7, <2>1 DEF CreateOrder, Settled, PermitRow
<1>8. CASE PaymentPaid
  <2>1. Rows' /\ permit'.status # "NONE" /\ permit'.address = permit.address
        /\ permit'.marked = permit.marked /\ permit.status # "NONE"
    BY <1>8 DEF PaymentPaid, PermitRow, Statuses
  <2> QED
    BY <1>8, <2>1 DEF PaymentPaid, Settled, PermitRow
<1>9. CASE GetPermits
  <2>1. CASE permit' = NoPermit
    <3>1. Rows' /\ permit'.status = "NONE" /\ permit'.address = None
          /\ permit'.marked = "no" /\ permit'.old = FALSE
      BY <2>1, NoPermitType
    <3>2. permit.status # "NONE"
      BY <1>9 DEF GetPermits
    <3> QED
      BY <1>9, <3>1, <3>2 DEF GetPermits, Settled
  <2>2. ASSUME NEW status \in {permit.status, "CANCELLED"},
               permit' = [permit EXCEPT !.status = status,
                              !.marked = IF HasAddressChanged THEN "today" ELSE @]
        PROVE  IInv'
    <3>1. Rows' /\ permit'.status # "NONE" /\ permit'.address = permit.address
          /\ permit'.marked = (IF HasAddressChanged THEN "today" ELSE permit.marked)
          /\ permit.status # "NONE"
      BY <1>9, <2>2 DEF GetPermits, PermitRow, Statuses
    <3>2. ~moved => ~HasAddressChanged
      BY <3>1 DEF Settled, HasAddressChanged
    <3>3. ~moved => permit'.marked = permit.marked
      BY <3>1, <3>2
    <3>4. UNCHANGED <<registered, moved, listed, table, profile, ran>>
      BY <1>9 DEF GetPermits
    <3>5. TypeOK'
      BY <3>1, <3>4 DEF PermitRow, Statuses
    <3> QED
      BY <3>1, <3>3, <3>4, <3>5 DEF Settled
  <2> QED
    BY <1>9, <2>1, <2>2 DEF GetPermits
<1>10. CASE AutomaticExpiration
  <2>1. Rows' /\ (permit'.status = "NONE" <=> permit.status = "NONE")
        /\ permit'.address = permit.address /\ permit'.marked = permit.marked
    BY <1>10 DEF AutomaticExpiration, IsEnding, PermitRow, Statuses
  <2> QED
    BY <1>10, <2>1 DEF AutomaticExpiration, Settled, PermitRow, Statuses
<1>11. CASE DayPasses
  <2>1. Rows' /\ permit'.status = permit.status /\ permit'.address = permit.address
        /\ permit'.marked = (IF permit.marked = "today" THEN "earlier" ELSE permit.marked)
    BY <1>11 DEF DayPasses, PermitRow, Statuses
  <2> QED
    BY <1>11, <2>1 DEF DayPasses, Settled, PermitRow, Statuses
<1>12. CASE UNCHANGED vars
  BY <1>12 DEF vars, Settled
<1> QED
  BY <1>1, <1>2, <1>3, <1>4, <1>5, <1>6, <1>7, <1>8, <1>9, <1>10, <1>11, <1>12 DEF Next

(* No login, query or job writes a value a column cannot hold. *)
THEOREM TypeCorrect == Spec => []TypeOK
<1>1. IInv => TypeOK
  BY DEF IInv
<1> QED
  BY InitInv, NextInv, <1>1, PTL DEF Spec

(* Who has not moved is never marked, whatever of his addresses the services failed to *)
(* find: customer_permit.py, get(), compares with what every login copied in full.     *)
THEOREM OnlyMoversAreMarked == Spec => []MarkedHasMoved
<1>1. IInv => MarkedHasMoved
  BY DEF IInv, Settled, MarkedHasMoved
<1> QED
  BY InitInv, NextInv, <1>1, PTL DEF Spec
================================================================================

----------------------------- MODULE MCTalpaCatalog -----------------------------
(***************************************************************************)
(* TalpaCatalog for TLC.  Accountings and sales have only the products in  *)
(* common, and each is explored without the other: accountings with two    *)
(* requests and one offer, sales with one request open at a time, products *)
(* without an accounting and two zones.  Requests are interchangeable.     *)
(***************************************************************************)
EXTENDS TalpaCatalog, TLC

CONSTANTS z1, z2

VARIABLE scope

FirstOffer == [zone |-> z1, months |-> {0}]

\* The zones differ in whether they still have a product after the first month.
SomeOffers == {FirstOffer, [zone |-> z2, months |-> {0, 1}]}

WithinScope ==
    IF scope = "accountings"
    THEN /\ \A p \in Permits : permits[p].zone = z1
         /\ \A a \in Products : products[a].offer \in {None, FirstOffer}
         /\ \A r \in Requests : updates[r].row.offer \in {None, FirstOffer}
    ELSE Cardinality({r \in Requests : IsOpen(r)}) <= 1

MCInit == Init /\ scope \in {"accountings", "sales"} /\ WithinScope

MCNext ==
    /\ \/ ProductsNext
       \/ scope = "accountings" /\ AccountingsNext
       \/ scope = "sales" /\ SalesNext
    /\ UNCHANGED scope
    /\ WithinScope'

MCSpec == MCInit /\ [][MCNext]_<<vars, scope>>

Symmetry == Permutations(Requests)
================================================================================

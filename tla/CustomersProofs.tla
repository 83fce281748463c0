---------------------------- MODULE CustomersProofs ----------------------------
(***************************************************************************)
(* Proofs about Customers, for every set of people and every bound on the  *)
(* rows and on the time.                                                   *)
(***************************************************************************)
EXTENDS Customers, FiniteSetTheorems, SequenceTheorems, WellFoundedInduction, TLAPS

(***************************************************************************)
(* The numbers that are given out                                          *)
(***************************************************************************)
\* A least counterexample stands in for an induction over the size of the set.
LEMMA FiniteHasMax ==
  ASSUME NEW T, IsFiniteSet(T), T \subseteq Nat, T # {}
  PROVE  \E x \in T : \A y \in T : x >= y
<1> DEFINE HasMax(U) == \E x \in U : \A y \in U : x >= y
           Bad(n) == \E U \in SUBSET T : U # {} /\ Cardinality(U) = n /\ ~HasMax(U)
           R == OpToRel(<, Nat)
           B == {n \in Nat : Bad(n)}
<1>0. \A U \in SUBSET T : IsFiniteSet(U) /\ Cardinality(U) \in Nat
  BY FS_Subset, FS_CardinalityType
<1> SUFFICES ASSUME B # {} PROVE FALSE
  <2>1. B = {} => ~Bad(Cardinality(T))
    BY <1>0
  <2> QED
    BY <2>1
<1>1. PICK n \in B : \A k \in B : <<k, n>> \notin R
  <2>1. IsWellFoundedOn(R, Nat) /\ B \subseteq Nat
    BY NatLessThanWellFounded
  <2> HIDE DEF R, B
  <2> QED
    BY <2>1, WFMin
<1>2. PICK U \in SUBSET T : U # {} /\ Cardinality(U) = n /\ ~HasMax(U)
  OBVIOUS
<1>3. PICK x \in U : TRUE
  BY <1>2
<1> DEFINE V == U \ {x}
<1>4. IsFiniteSet(U) /\ Cardinality(V) = n - 1 /\ V \in SUBSET T
  BY <1>0, <1>2, <1>3, FS_RemoveElement
<1>5. Cardinality(V) \in Nat
  BY <1>0, <1>4
<1>6. CASE V = {}
  <2>1. \A y \in U : x >= y
    BY <1>2, <1>3, <1>6
  <2> QED
    BY <1>2, <1>3, <2>1
<1>7. CASE V # {}
  <2>1. <<n - 1, n>> \in R
    BY <1>4, <1>5 DEF OpToRel
  <2>2. n - 1 \notin B
    BY <1>1, <2>1
  <2>3. HasMax(V)
    BY <1>4, <1>5, <1>7, <2>2
  <2>4. PICK z \in V : \A y \in V : z >= y
    BY <2>3
  <2>5. z \in Nat /\ x \in Nat /\ U \subseteq Nat
    BY <1>2, <1>3, <2>4
  <2>6. CASE z >= x
    <3>1. \A y \in U : z >= y
      BY <2>4, <2>6
    <3> QED
      BY <1>2, <2>4, <3>1
  <2>7. CASE ~(z >= x)
    <3>1. \A y \in U : x >= y
      BY <2>4, <2>5, <2>7
    <3> QED
      BY <1>2, <1>3, <3>1
  <2> QED
    BY <2>6, <2>7
<1> QED
  BY <1>6, <1>7

(***************************************************************************)
(* Type correctness                                                        *)
(***************************************************************************)
Nins == ({"real"} \X (Persons \union CoOwners)) \union ({"XX", "XX-ANON"} \X Nat)

CustomerRow ==
    [nin : Nins, modified : Nat, user : BOOLEAN, anonymized : BOOLEAN,
     person : Persons \union Visitors \union {Nobody}]

PermitRow ==
    [status : {"NONE", "VALID", "CLOSED"}, end : Nat, modified : Nat, vehicle : BOOLEAN,
     subscribed : BOOLEAN]

CandidateRow ==
    [nin : Nins, modified : Nat, user : BOOLEAN, anonymized : BOOLEAN,
     person : Persons \union Visitors \union {Nobody}, permit : PermitRow]

TypeOK ==
    /\ now \in Nat
    /\ customers \in Seq(CustomerRow) /\ Len(customers) <= MaxCustomers
    /\ permits \in [Keys -> PermitRow]
    /\ vehicleUsers \subseteq [nin : Nins, customer : Keys, own : BOOLEAN]
    /\ job \in [Keys -> CandidateRow \union {NoCandidate}]

LEMMA NoPermitType == NoPermit \in PermitRow
  BY DEF NoPermit, PermitRow

LEMMA RowType ==
  ASSUME TypeOK, NEW c \in DOMAIN customers
  PROVE  customers[c] \in CustomerRow /\ c \in Keys
  BY CustomersAssumption DEF TypeOK, Keys

LEMMA NumbersAreFinite ==
  ASSUME TypeOK, NEW kind \in {"XX", "XX-ANON"}
  PROVE  IsFiniteSet(NumbersOf(kind)) /\ NumbersOf(kind) \subseteq Nat
<1> DEFINE C == {c \in DOMAIN customers : customers[c].nin[1] = kind}
           f == [c \in C |-> customers[c].nin[2]]
<1>1. NumbersOf(kind) = {f[c] : c \in C}
  BY DEF NumbersOf
<1>2. IsFiniteSet(C)
  <2>1. DOMAIN customers = 1..Len(customers) /\ Len(customers) \in Nat
    BY DEF TypeOK
  <2>2. IsFiniteSet(1..Len(customers))
    BY <2>1, FS_Interval
  <2> QED
    BY <2>1, <2>2, FS_Subset
<1>3. f \in Surjection(C, NumbersOf(kind))
  BY <1>1, Zenon DEF Surjection
<1>4. \A c \in C : f[c] \in Nat
  BY RowType DEF CustomerRow, Nins
<1> QED
  BY <1>1, <1>2, <1>3, <1>4, FS_Surjection

LEMMA GeneratedNinType ==
  ASSUME TypeOK
  PROVE  \E n \in Nat : GeneratedNin = Generated(n)
<1>1. ASSUME NEW kind \in {"XX", "XX-ANON"}, NumbersOf(kind) # {}
      PROVE  Max(NumbersOf(kind)) \in Nat
  <2>1. \E x \in NumbersOf(kind) : \A y \in NumbersOf(kind) : x >= y
    BY <1>1, NumbersAreFinite, FiniteHasMax
  <2>2. Max(NumbersOf(kind)) \in NumbersOf(kind)
    BY <2>1 DEF Max
  <2> QED
    BY <2>2, NumbersAreFinite
<1> QED
  BY <1>1 DEF GeneratedNin

(***************************************************************************)
(* How a step may change the rows                                          *)
(***************************************************************************)
AnonymousNumber ==
    \A c \in DOMAIN customers : customers[c].anonymized = TRUE => customers[c].nin[1] = "XX-ANON"

\* Every row keeps its number, and an anonymized one stays as it is.
RowsKept ==
    /\ customers' \in Seq(CustomerRow) /\ Len(customers') <= MaxCustomers
    /\ DOMAIN customers \subseteq DOMAIN customers'
    /\ \A c \in DOMAIN customers :
        /\ customers'[c].nin = customers[c].nin
        /\ customers'[c].anonymized = customers[c].anonymized
        /\ customers[c].anonymized = TRUE => customers'[c] = customers[c]
    /\ \A c \in DOMAIN customers' \ DOMAIN customers : customers'[c].anonymized = FALSE

LEMMA AppendedRow ==
  ASSUME NEW S, NEW s \in Seq(S), NEW e \in S
  PROVE  LET t == Append(s, e)
         IN  /\ t \in Seq(S) /\ Len(t) = Len(s) + 1 /\ DOMAIN t = 1..(Len(s) + 1)
             /\ \A c \in 1..Len(s) : t[c] = s[c]
             /\ t[Len(s) + 1] = e
  OBVIOUS

LEMMA NewRowKeepsRows ==
  ASSUME TypeOK, NEW e \in CustomerRow, e.anonymized = FALSE,
         Len(customers) < MaxCustomers, customers' = Append(customers, e)
  PROVE  RowsKept
<1>0. /\ DOMAIN customers = 1..Len(customers) /\ Len(customers) \in Nat
      /\ customers \in Seq(CustomerRow)
  BY DEF TypeOK
<1>1. /\ customers' \in Seq(CustomerRow) /\ Len(customers') = Len(customers) + 1
      /\ DOMAIN customers' = 1..(Len(customers) + 1)
      /\ \A c \in 1..Len(customers) : customers'[c] = customers[c]
      /\ customers'[Len(customers) + 1] = e
  BY <1>0, AppendedRow
<1>2. Len(customers') <= MaxCustomers
  BY <1>0, <1>1, CustomersAssumption
<1>3. \A c \in DOMAIN customers' \ DOMAIN customers : customers'[c].anonymized = FALSE
  BY <1>0, <1>1
<1>4. DOMAIN customers \subseteq DOMAIN customers'
  BY <1>0, <1>1
<1>5. \A c \in DOMAIN customers : customers'[c] = customers[c]
  BY <1>0, <1>1
<1> QED
  BY <1>1, <1>2, <1>3, <1>4, <1>5 DEF RowsKept

LEMMA WrittenRows ==
  ASSUME TypeOK, AnonymousNumber, NEW nin \in Nins, nin[1] # "XX-ANON",
         NEW W \in [CustomerRow -> CustomerRow],
         \A row \in CustomerRow : W[row].nin = row.nin /\ W[row].anonymized = row.anonymized,
         LET found == {c \in DOMAIN customers : customers[c].nin = nin}
             new == [nin |-> nin, modified |-> now, user |-> FALSE, anonymized |-> FALSE,
                     person |-> Nobody]
         IN  \/ customers' = [c \in DOMAIN customers |-> IF c \in found THEN W[customers[c]]
                                                                        ELSE customers[c]]
             \/ Len(customers) < MaxCustomers /\ customers' = Append(customers, W[new])
  PROVE  RowsKept
<1> DEFINE found == {c \in DOMAIN customers : customers[c].nin = nin}
           new == [nin |-> nin, modified |-> now, user |-> FALSE, anonymized |-> FALSE,
                   person |-> Nobody]
           Old(c) == IF c \in found THEN W[customers[c]] ELSE customers[c]
<1>0. /\ DOMAIN customers = 1..Len(customers) /\ Len(customers) \in Nat
      /\ customers \in Seq(CustomerRow) /\ Len(customers) <= MaxCustomers
  BY DEF TypeOK
<1>1. CASE customers' = [c \in DOMAIN customers |-> Old(c)]
  <2>1. \A c \in DOMAIN customers : Old(c) \in CustomerRow
    BY RowType
  <2>2. customers' \in Seq(CustomerRow)
    BY <1>0, <1>1, <2>1
  <2>3. DOMAIN customers' = DOMAIN customers /\ Len(customers') = Len(customers)
    BY <1>0, <1>1, <2>2
  <2>4. ASSUME NEW c \in DOMAIN customers
        PROVE  /\ customers'[c].nin = customers[c].nin
               /\ customers'[c].anonymized = customers[c].anonymized
               /\ customers[c].anonymized = TRUE => customers'[c] = customers[c]
    <3>1. customers'[c] = Old(c) /\ customers[c] \in CustomerRow
      BY <1>1, RowType
    <3>2. customers[c].anonymized = TRUE => c \notin found
      BY DEF AnonymousNumber
    <3> QED
      BY <3>1, <3>2
  <2> QED
    BY <1>0, <2>2, <2>3, <2>4 DEF RowsKept
<1>2. CASE Len(customers) < MaxCustomers /\ customers' = Append(customers, W[new])
  <2>1. new \in CustomerRow /\ new.anonymized = FALSE
    BY DEF CustomerRow, TypeOK
  <2>2. W[new] \in CustomerRow /\ W[new].anonymized = FALSE
    BY <2>1
  <2> HIDE DEF new
  <2> QED
    BY <1>2, <2>2, NewRowKeepsRows
<1> QED
  BY <1>1, <1>2

LEMMA LoginRows ==
  ASSUME TypeOK, AnonymousNumber, NEW p \in Persons, Login(p)
  PROVE  RowsKept
<1> DEFINE W == [row \in CustomerRow |-> [row EXCEPT !.modified = now, !.user = TRUE, !.person = p]]
<1>1. Real(p) \in Nins /\ Real(p)[1] # "XX-ANON"
  BY DEF Real, Nins
<1>2. /\ W \in [CustomerRow -> CustomerRow]
      /\ \A row \in CustomerRow : W[row].nin = row.nin /\ W[row].anonymized = row.anonymized
  BY DEF CustomerRow, TypeOK
<1>3. \A c \in DOMAIN customers : customers[c] \in CustomerRow
  BY RowType
<1>4. [nin |-> Real(p), modified |-> now, user |-> FALSE, anonymized |-> FALSE, person |-> Nobody]
        \in CustomerRow
  BY <1>1 DEF CustomerRow, TypeOK
<1>5. LET found == {c \in DOMAIN customers : customers[c].nin = Real(p)}
          new == [nin |-> Real(p), modified |-> now, user |-> FALSE, anonymized |-> FALSE,
                  person |-> Nobody]
      IN  \/ customers' = [c \in DOMAIN customers |-> IF c \in found THEN W[customers[c]]
                                                                     ELSE customers[c]]
          \/ Len(customers) < MaxCustomers /\ customers' = Append(customers, W[new])
  BY <1>3, <1>4 DEF Login, UpdateOrCreate
<1> HIDE DEF W
<1> QED
  BY <1>1, <1>2, <1>5, WrittenRows

LEMMA AdminCreatesCustomerRows ==
  ASSUME TypeOK, AnonymousNumber, NEW person \in Persons \union Visitors,
         AdminCreatesCustomer(person)
  PROVE  RowsKept
<1> DEFINE W == [row \in CustomerRow |-> [row EXCEPT !.modified = now, !.person = person]]
           nin == Nin(person)
<1>1. nin \in Nins /\ nin[1] # "XX-ANON"
  <2>1. CASE person \in Persons
    BY <2>1 DEF Nin, Real, Nins
  <2>2. CASE person \notin Persons
    BY <2>2, GeneratedNinType DEF Nin, Generated, Nins
  <2> QED
    BY <2>1, <2>2
<1>2. /\ W \in [CustomerRow -> CustomerRow]
      /\ \A row \in CustomerRow : W[row].nin = row.nin /\ W[row].anonymized = row.anonymized
  BY DEF CustomerRow, TypeOK
<1>3. \A c \in DOMAIN customers : customers[c] \in CustomerRow
  BY RowType
<1>4. [nin |-> nin, modified |-> now, user |-> FALSE, anonymized |-> FALSE, person |-> Nobody]
        \in CustomerRow
  BY <1>1 DEF CustomerRow, TypeOK
<1> HIDE DEF nin
<1>5. LET found == {c \in DOMAIN customers : customers[c].nin = nin}
          new == [nin |-> nin, modified |-> now, user |-> FALSE, anonymized |-> FALSE,
                  person |-> Nobody]
      IN  \/ customers' = [c \in DOMAIN customers |-> IF c \in found THEN W[customers[c]]
                                                                     ELSE customers[c]]
          \/ Len(customers) < MaxCustomers /\ customers' = Append(customers, W[new])
  BY <1>3, <1>4 DEF AdminCreatesCustomer, UpdateOrCreate, nin
<1> HIDE DEF W
<1> QED
  BY <1>1, <1>2, <1>5, WrittenRows

(***************************************************************************)
(* The inductive invariant                                                 *)
(***************************************************************************)
\* What the job still has to write is the number that the row has, unless the customer
\* has meanwhile asked to be forgotten.
JobIsRow ==
    \A c \in Keys : job[c] # NoCandidate =>
        /\ c \in DOMAIN customers
        /\ customers[c].nin = job[c].nin \/ customers[c].anonymized = TRUE

\* The number of a buyer is kept only as long as the customer has a permit with a vehicle.
UsersHavePermit ==
    \A u \in vehicleUsers : u.own = TRUE =>
        /\ u.customer \in DOMAIN customers
        /\ customers[u.customer].nin = u.nin
        /\ permits[u.customer].vehicle = TRUE

Forgotten ==
    \A c \in DOMAIN customers : customers[c].anonymized = TRUE =>
        /\ customers[c].person = Nobody /\ customers[c].user = FALSE
        /\ permits[c].vehicle = FALSE

CInv == TypeOK /\ AnonymousNumber /\ JobIsRow /\ UsersHavePermit /\ Forgotten

LEMMA InitCInv == Init => CInv
<1> SUFFICES ASSUME Init PROVE CInv
  OBVIOUS
<1>1. customers = <<>> /\ Len(customers) = 0 /\ DOMAIN customers = {}
  BY DEF Init
<1>2. TypeOK
  BY <1>1, NoPermitType, CustomersAssumption DEF Init, TypeOK
<1> QED
  BY <1>1, <1>2 DEF Init, CInv, AnonymousNumber, JobIsRow, UsersHavePermit, Forgotten

\* The permits of the customers after a step: a vehicle is forgotten by anonymizing only.
VehiclesKept ==
    /\ permits' \in [Keys -> PermitRow]
    /\ \A c \in Keys : permits'[c].vehicle = permits[c].vehicle

LEMMA RowsKeptCInv ==
  ASSUME CInv, RowsKept, UNCHANGED <<now, permits, vehicleUsers, job>>
  PROVE  CInv'
<1>0. \A c \in DOMAIN customers : customers[c] \in CustomerRow /\ c \in Keys
  BY RowType DEF CInv
<1>1. TypeOK'
  BY DEF CInv, TypeOK, RowsKept, Keys
<1>2. AnonymousNumber'
  BY DEF CInv, AnonymousNumber, RowsKept
<1>3. JobIsRow'
  BY DEF CInv, JobIsRow, RowsKept, Keys
<1>4. UsersHavePermit'
  BY DEF CInv, UsersHavePermit, RowsKept
<1>5. Forgotten'
  BY DEF CInv, Forgotten, RowsKept
<1> QED
  BY <1>1, <1>2, <1>3, <1>4, <1>5 DEF CInv

LEMMA VehiclesKeptCInv ==
  ASSUME CInv, VehiclesKept, UNCHANGED <<customers, vehicleUsers, job>>, now' \in Nat
  PROVE  CInv'
<1>0. \A c \in DOMAIN customers : customers[c] \in CustomerRow /\ c \in Keys
  BY RowType DEF CInv
<1>1. TypeOK'
  BY DEF CInv, TypeOK, VehiclesKept, Keys
<1>2. AnonymousNumber' /\ JobIsRow'
  BY DEF CInv, AnonymousNumber, JobIsRow, Keys
<1>3. UsersHavePermit'
  BY <1>0 DEF CInv, UsersHavePermit, VehiclesKept
<1>4. Forgotten'
  BY <1>0 DEF CInv, Forgotten, VehiclesKept
<1> QED
  BY <1>1, <1>2, <1>3, <1>4 DEF CInv

LEMMA NewPermitCInv ==
  ASSUME CInv, NEW c \in DOMAIN customers, NEW end \in Nat, NEW subscribed \in BOOLEAN,
         Permit(c, end, subscribed), customers[c].anonymized = FALSE,
         NEW others \in SUBSET CoOwners,
         vehicleUsers' \in {vehicleUsers, vehicleUsers \union UsersNamed(c, others)},
         UNCHANGED <<now, customers, job>>
  PROVE  CInv'
<1>0. \A d \in DOMAIN customers : customers[d] \in CustomerRow /\ d \in Keys
  BY RowType DEF CInv
<1>1. /\ permits' \in [Keys -> PermitRow]
      /\ permits'[c].vehicle = TRUE
      /\ \A d \in Keys \ {c} : permits'[d] = permits[d]
  BY <1>0 DEF Permit, CInv, TypeOK, PermitRow
<1>2. /\ vehicleUsers' \subseteq [nin : Nins, customer : Keys, own : BOOLEAN]
      /\ \A u \in vehicleUsers' \ vehicleUsers :
            u.own = TRUE => u.customer = c /\ u.nin = customers[c].nin
  <2>1. \A p \in CoOwners : Real(p) \in Nins
    BY DEF Real, Nins
  <2>2. customers[c].nin \in Nins /\ c \in Keys
    BY <1>0 DEF CustomerRow
  <2>3. /\ UsersNamed(c, others) \subseteq [nin : Nins, customer : Keys, own : BOOLEAN]
        /\ \A u \in UsersNamed(c, others) :
              u.own = TRUE => u.customer = c /\ u.nin = customers[c].nin
    <3> SUFFICES ASSUME NEW u \in UsersNamed(c, others)
                 PROVE  /\ u \in [nin : Nins, customer : Keys, own : BOOLEAN]
                        /\ u.own = TRUE => u.customer = c /\ u.nin = customers[c].nin
      OBVIOUS
    <3>1. \/ u = [nin |-> customers[c].nin, customer |-> c, own |-> TRUE]
          \/ \E p \in OthersThan(c, others) :
                u = [nin |-> Real(p), customer |-> c, own |-> FALSE]
      <4> DEFINE Other(p) == [nin |-> Real(p), customer |-> c, own |-> FALSE]
                 Buyer == [nin |-> customers[c].nin, customer |-> c, own |-> TRUE]
      <4>1. UsersNamed(c, others) = {Buyer} \union {Other(p) : p \in OthersThan(c, others)}
        BY Zenon DEF UsersNamed
      <4> HIDE DEF Other, Buyer
      <4>2. u = Buyer \/ \E p \in OthersThan(c, others) : u = Other(p)
        BY <4>1
      <4> QED
        BY <4>2 DEF Other, Buyer
    <3>2. OthersThan(c, others) \subseteq CoOwners
      BY DEF OthersThan
    <3>3. ASSUME NEW p \in OthersThan(c, others),
                 u = [nin |-> Real(p), customer |-> c, own |-> FALSE]
          PROVE  u \in [nin : Nins, customer : Keys, own : BOOLEAN] /\ u.own # TRUE
      <4>1. Real(p) \in Nins
        BY <2>1, <3>2
      <4> QED
        BY <2>2, <3>3, <4>1
    <3>4. CASE u = [nin |-> customers[c].nin, customer |-> c, own |-> TRUE]
      BY <2>2, <3>4
    <3> QED
      BY <3>1, <3>3, <3>4
  <2> QED
    BY <2>3 DEF CInv, TypeOK
<1>3. TypeOK'
  BY <1>1, <1>2 DEF CInv, TypeOK, Keys
<1>4. AnonymousNumber' /\ JobIsRow'
  BY DEF CInv, AnonymousNumber, JobIsRow, Keys
<1>5. UsersHavePermit'
  BY <1>0, <1>1, <1>2 DEF CInv, UsersHavePermit
<1>6. Forgotten'
  BY <1>0, <1>1 DEF CInv, Forgotten
<1> QED
  BY <1>3, <1>4, <1>5, <1>6 DEF CInv

LEMMA AnonymizeCInv ==
  ASSUME CInv, NEW c \in DOMAIN customers, NEW row \in CustomerRow,
         row.nin = customers[c].nin \/ customers[c].anonymized = TRUE,
         Anonymize(c, row),
         job' = job \/ job' = [job EXCEPT ![c] = NoCandidate]
  PROVE  CInv'
<1>0. \A d \in DOMAIN customers : customers[d] \in CustomerRow /\ d \in Keys
  BY RowType DEF CInv
<1>1. Anonymous(c) \in Nins /\ Anonymous(c)[1] = "XX-ANON"
  <2>1. c \in Nat
    BY <1>0 DEF Keys
  <2> QED
    BY <2>1 DEF Anonymous, Nins
<1>2. /\ AnonymizedRow(c, row) \in CustomerRow
      /\ AnonymizedRow(c, row).nin = Anonymous(c)
      /\ AnonymizedRow(c, row).anonymized = TRUE
      /\ AnonymizedRow(c, row).person = Nobody
      /\ AnonymizedRow(c, row).user = FALSE
  BY <1>1 DEF AnonymizedRow, CustomerRow, CInv, TypeOK
<1>3. customers' = [customers EXCEPT ![c] = AnonymizedRow(c, row)]
  BY DEF Anonymize
<1>4. /\ customers' \in Seq(CustomerRow) /\ Len(customers') = Len(customers)
      /\ DOMAIN customers' = DOMAIN customers
      /\ customers'[c] = AnonymizedRow(c, row)
      /\ \A d \in DOMAIN customers \ {c} : customers'[d] = customers[d]
  BY <1>2, <1>3 DEF CInv, TypeOK
<1>5. /\ permits' \in [Keys -> PermitRow]
      /\ permits'[c].vehicle = FALSE
      /\ \A d \in Keys \ {c} : permits'[d] = permits[d]
  BY <1>0 DEF Anonymize, CInv, TypeOK, PermitRow
<1>6. /\ vehicleUsers' \subseteq vehicleUsers
      /\ permits[c].vehicle = TRUE =>
           \A u \in vehicleUsers' : u.customer = c => u.nin # row.nin
  <2>1. permits[c].vehicle \in BOOLEAN
    BY <1>0 DEF CInv, TypeOK, PermitRow
  <2> QED
    BY <2>1 DEF Anonymize, OtherVehicleUsers, UsersWithout
<1>7. job' \in [Keys -> CandidateRow \union {NoCandidate}]
      /\ \A d \in Keys : job'[d] = job[d] \/ job'[d] = NoCandidate
  BY DEF CInv, TypeOK
<1>8. TypeOK'
  BY <1>4, <1>5, <1>6, <1>7 DEF CInv, TypeOK, Anonymize, Keys
<1>9. AnonymousNumber'
  BY <1>1, <1>2, <1>4 DEF CInv, AnonymousNumber
<1>10. JobIsRow'
  BY <1>2, <1>4, <1>7 DEF CInv, JobIsRow, Keys
<1>11. UsersHavePermit'
  <2> SUFFICES ASSUME NEW u \in vehicleUsers', u.own = TRUE
               PROVE  /\ u.customer \in DOMAIN customers'
                      /\ customers'[u.customer].nin = u.nin
                      /\ permits'[u.customer].vehicle = TRUE
    BY DEF UsersHavePermit
  <2>1. u \in vehicleUsers
    BY <1>6
  <2>2. /\ u.customer \in DOMAIN customers
        /\ customers[u.customer].nin = u.nin
        /\ permits[u.customer].vehicle = TRUE
    BY <2>1 DEF CInv, UsersHavePermit
  <2>3. CASE u.customer = c
    <3>1. customers[c].anonymized # TRUE
      BY <2>2, <2>3 DEF CInv, Forgotten
    <3> QED
      BY <1>6, <2>2, <2>3, <3>1
  <2>4. CASE u.customer # c
    BY <1>0, <1>4, <1>5, <2>2, <2>4
  <2> QED
    BY <2>3, <2>4
<1>12. Forgotten'
  BY <1>0, <1>2, <1>4, <1>5 DEF CInv, Forgotten
<1> QED
  BY <1>8, <1>9, <1>10, <1>11, <1>12 DEF CInv

LEMMA CustomerCInv ==
  ASSUME CInv, CustomerNext
  PROVE  CInv'
<1>0. \A c \in DOMAIN customers : customers[c] \in CustomerRow /\ c \in Keys
  BY RowType DEF CInv
<1>1. ASSUME NEW p \in Persons, Login(p) PROVE CInv'
  BY <1>1, LoginRows, RowsKeptCInv DEF CInv, Login
<1>2. ASSUME NEW person \in Persons \union Visitors, AdminCreatesCustomer(person) PROVE CInv'
  BY <1>2, AdminCreatesCustomerRows, RowsKeptCInv DEF CInv, AdminCreatesCustomer
<1>3. ASSUME NEW c \in DOMAIN customers, NEW end \in {now, now + 1}, NEW subscribed \in BOOLEAN,
             NEW others \in SUBSET CoOwners, Buy(c, end, subscribed, others)
      PROVE  CInv'
  <2>1. customers[c].anonymized \in BOOLEAN /\ customers[c].user = TRUE
    BY <1>0, <1>3 DEF Buy, CustomerRow
  <2>2. customers[c].anonymized = FALSE
    BY <2>1 DEF CInv, Forgotten
  <2>3. end \in Nat
    BY DEF CInv, TypeOK
  <2> QED
    BY <1>3, <2>2, <2>3, NewPermitCInv DEF Buy
<1>4. ASSUME NEW c \in DOMAIN customers, NEW end \in {now, now + 1}, AdminCreatesPermit(c, end)
      PROVE  CInv'
  <2>1. customers[c].anonymized = FALSE
    BY <1>0, <1>4 DEF AdminCreatesPermit, CustomerRow
  <2>2. end \in Nat
    BY DEF CInv, TypeOK
  <2> QED
    BY <1>4, <2>1, <2>2, NewPermitCInv DEF AdminCreatesPermit
<1>5. ASSUME NEW c \in DOMAIN customers, NEW subscribed \in BOOLEAN, PermitCloses(c, subscribed)
      PROVE  CInv'
  <2>1. VehiclesKept
    <3> DEFINE new == [permits[c] EXCEPT !.status = "CLOSED", !.end = now, !.modified = now,
                                         !.subscribed = subscribed]
    <3>1. permits[c] \in PermitRow /\ permits \in [Keys -> PermitRow] /\ now \in Nat
      BY <1>0 DEF CInv, TypeOK
    <3>2. new \in PermitRow /\ new.vehicle = permits[c].vehicle
      BY <3>1 DEF PermitRow
    <3>3. permits' = [permits EXCEPT ![c] = new]
      BY <1>0, <1>5, <3>1 DEF PermitCloses
    <3> HIDE DEF new
    <3> QED
      BY <1>0, <3>1, <3>2, <3>3 DEF VehiclesKept
  <2> QED
    BY <1>5, <2>1, VehiclesKeptCInv DEF PermitCloses, CInv, TypeOK
<1>6. ASSUME NEW c \in DOMAIN customers, SubscriptionEnds(c) PROVE CInv'
  <2>1. VehiclesKept
    BY <1>0, <1>6 DEF SubscriptionEnds, VehiclesKept, CInv, TypeOK, PermitRow
  <2> QED
    BY <1>6, <2>1, VehiclesKeptCInv DEF SubscriptionEnds, CInv, TypeOK
<1>7. ASSUME NEW c \in DOMAIN customers, GdprDelete(c) PROVE CInv'
  BY <1>0, <1>7, AnonymizeCInv DEF GdprDelete
<1> QED
  BY <1>1, <1>2, <1>3, <1>4, <1>5, <1>6, <1>7 DEF CustomerNext

LEMMA JobCInv ==
  ASSUME CInv, JobNext
  PROVE  CInv'
<1>0. \A c \in DOMAIN customers : customers[c] \in CustomerRow /\ c \in Keys
  BY RowType DEF CInv
<1>1. CASE JobReads
  <2>1. job' = [c \in Keys |-> IF c \in Candidates THEN Candidate(c) ELSE NoCandidate]
    BY <1>1 DEF JobReads
  <2>2. ASSUME NEW c \in Candidates
        PROVE  /\ c \in DOMAIN customers /\ Candidate(c) \in CandidateRow
               /\ Candidate(c).nin = customers[c].nin
    <3>1. c \in DOMAIN customers
      BY DEF Candidates
    <3>2. permits[c] \in PermitRow
      BY <1>0, <3>1 DEF CInv, TypeOK
    <3> QED
      BY <1>0, <3>1, <3>2 DEF Candidate, Row, CandidateRow, CustomerRow
  <2>3. TypeOK'
    BY <1>1, <2>1, <2>2 DEF CInv, TypeOK, JobReads, Keys
  <2>4. JobIsRow'
    BY <1>1, <2>1, <2>2 DEF JobIsRow, JobReads, Keys
  <2> QED
    BY <1>1, <2>3, <2>4 DEF CInv, AnonymousNumber, UsersHavePermit, Forgotten, JobReads
<1>2. ASSUME NEW c \in Keys, JobAnonymizes(c) PROVE CInv'
  <2>1. c \in Remaining /\ job' = [job EXCEPT ![c] = NoCandidate] /\ Anonymize(c, RowOf(job[c]))
    BY <1>2 DEF JobAnonymizes, Processed
  <2>2. job[c] # NoCandidate /\ job[c] \in CandidateRow
    BY <2>1 DEF Remaining, CInv, TypeOK
  <2>3. RowOf(job[c]) \in CustomerRow /\ RowOf(job[c]).nin = job[c].nin
    BY <2>2 DEF RowOf, CandidateRow, CustomerRow
  <2>4. /\ c \in DOMAIN customers
        /\ RowOf(job[c]).nin = customers[c].nin \/ customers[c].anonymized = TRUE
    BY <2>2, <2>3 DEF CInv, JobIsRow
  <2> QED
    BY <2>1, <2>3, <2>4, AnonymizeCInv
<1>3. ASSUME NEW c \in Keys, JobSkips(c) PROVE CInv'
  <2>1. job' \in [Keys -> CandidateRow \union {NoCandidate}]
        /\ \A d \in Keys : job'[d] = job[d] \/ job'[d] = NoCandidate
    BY <1>3 DEF JobSkips, Processed, CInv, TypeOK
  <2>2. UNCHANGED <<now, customers, permits, vehicleUsers>>
    BY <1>3 DEF JobSkips
  <2> QED
    BY <2>1, <2>2 DEF CInv, TypeOK, AnonymousNumber, JobIsRow, UsersHavePermit, Forgotten, Keys
<1> QED
  BY <1>1, <1>2, <1>3 DEF JobNext

LEMMA StepCInv == CInv /\ [Next]_vars => CInv'
<1> SUFFICES ASSUME CInv, [Next]_vars PROVE CInv'
  OBVIOUS
<1>1. CASE TimePasses
  <2>1. VehiclesKept
    BY <1>1 DEF TimePasses, VehiclesKept, CInv, TypeOK
  <2> QED
    BY <1>1, <2>1, VehiclesKeptCInv DEF TimePasses, CInv, TypeOK
<1>2. CASE UNCHANGED vars
  BY <1>2 DEF vars, CInv, TypeOK, AnonymousNumber, JobIsRow, UsersHavePermit, Forgotten, Keys
<1> QED
  BY <1>1, <1>2, CustomerCInv, JobCInv DEF Next

LEMMA CustomersInvariant == Spec => []CInv
<1> QED
  BY InitCInv, StepCInv, PTL DEF Spec

\* Every row keeps its type: the number given to a visitor is one more than a number that
\* is there, so it is one.
THEOREM TypeCorrect == Spec => []TypeOK
<1>1. CInv => TypeOK
  BY DEF CInv
<1> QED
  BY <1>1, CustomersInvariant, PTL

\* An anonymized row stays nobody's: the job writes a row that it read long ago, but the
\* number of the row is no longer one that anybody could come back with, and only a row
\* with a user or that was never anonymized is given a permit.
THEOREM AnonymizedStaysNobody == Spec => []AnonymizedIsNobody
<1>1. CInv => AnonymizedIsNobody
  BY DEF CInv, Forgotten, AnonymizedIsNobody
<1> QED
  BY <1>1, CustomersInvariant, PTL

\* No buyer's number outlives the customer at the vehicle of a permit, although the job
\* removes the number it has read and the customer may have been anonymized meanwhile.
THEOREM BuyersStayForgotten == Spec => []BuyersAreForgotten
<1>1. CInv => BuyersAreForgotten
  BY DEF CInv, TypeOK, UsersHavePermit, BuyersAreForgotten
<1> QED
  BY <1>1, CustomersInvariant, PTL
================================================================================

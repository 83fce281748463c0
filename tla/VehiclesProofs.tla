----------------------------- MODULE VehiclesProofs -----------------------------
(***************************************************************************)
(* Proofs about Vehicles, for every set of criteria, whatever list of      *)
(* consumption figures the register answers with, and however often rows,  *)
(* criteria and licences change.                                           *)
(***************************************************************************)
EXTENDS Vehicles, WellFoundedInduction, TLAPS

(***************************************************************************)
(* First and last indexes                                                  *)
(***************************************************************************)
\* A least counterexample stands in for an induction.
LEMMA MinExists ==
  ASSUME NEW T \in SUBSET Nat, T # {}
  PROVE  Min(T) \in T /\ \A x \in T : Min(T) <= x
<1> DEFINE R == OpToRel(<, Nat)
<1>1. IsWellFoundedOn(R, Nat)
  BY NatLessThanWellFounded
<1>2. PICK m \in T : \A x \in T : <<x, m>> \notin R
  <2> HIDE DEF R
  <2> QED
    BY <1>1, WFMin
<1>3. ASSUME NEW x \in T PROVE m <= x
  <2>1. x < m => <<x, m>> \in R
    BY DEF OpToRel
  <2>2. ~(x < m)
    BY <1>2, <2>1
  <2> QED
    BY <2>2
<1> QED
  BY <1>2, <1>3 DEF Min

LEMMA MaxExists ==
  ASSUME NEW n \in Nat, NEW T \in SUBSET (1..n), T # {}
  PROVE  Max(T) \in T /\ \A x \in T : Max(T) >= x
<1> DEFINE U == {n - x : x \in T}
<1>1. U \in SUBSET Nat /\ U # {}
  <2>1. \A x \in T : n - x \in Nat
    OBVIOUS
  <2> QED
    BY <2>1
<1>2. Min(U) \in U /\ \A u \in U : Min(U) <= u
  <2> HIDE DEF U
  <2> QED
    BY <1>1, MinExists
<1>3. PICK m \in T : Min(U) = n - m
  BY <1>2
<1>4. \A x \in T : m >= x
  <2> SUFFICES ASSUME NEW x \in T PROVE m >= x
    OBVIOUS
  <2>1. n - m <= n - x
    BY <1>2, <1>3
  <2> QED
    BY <2>1
<1>5. \E y \in T : \A x \in T : y >= x
  BY <1>4
<1> HIDE DEF U
<1> QED
  BY <1>5 DEF Max

(***************************************************************************)
(* What is saved of an answer                                              *)
(***************************************************************************)
LEMMA FigureIndexesAreIndexes ==
  ASSUME NEW a \in Answers
  PROVE  /\ a.entries \in Seq([type : EmissionTypes \cup {"other"}, half : Nat])
         /\ Len(a.entries) \in Nat
         /\ FigureIndexes(a) \in SUBSET (1..Len(a.entries))
         /\ WithinIndexes(a) \in SUBSET FigureIndexes(a)
         /\ \A i \in FigureIndexes(a) :
                a.entries[i].type \in EmissionTypes /\ a.entries[i].half \in Nat
<1>1. a.entries \in Seq([type : EmissionTypes \cup {"other"}, half : Nat])
  BY AnswersAssumption
<1>2. DOMAIN a.entries = 1..Len(a.entries) /\ Len(a.entries) \in Nat
  BY <1>1
<1> DEFINE Entry == [type : EmissionTypes \cup {"other"}, half : Nat]
<1>3. ASSUME NEW i \in DOMAIN a.entries PROVE a.entries[i].half \in Nat
  <2>1. a.entries[i] \in Entry
    <3> HIDE DEF Entry
    <3>1. a.entries \in Seq(Entry)
      BY <1>1 DEF Entry
    <3> QED
      BY <1>2, <1>3, <3>1
  <2> QED
    BY <2>1
<1>4. WithinIndexes(a) \in SUBSET FigureIndexes(a)
  BY DEF WithinIndexes
<1> QED
  BY <1>1, <1>2, <1>3, <1>4 DEF FigureIndexes

\* The figure that is saved is one of the answer, within a limit if any of them is.
LEMMA SavedFigure ==
  ASSUME NEW a \in Answers, FigureIndexes(a) # {}
  PROVE  /\ EmissionData(a) \in FiguresOf(a)
         /\ (\E f \in FiguresOf(a) : Within(f)) => Within(EmissionData(a))
<1>1. CASE WithinIndexes(a) = {}
  <2>1. Max(FigureIndexes(a)) \in FigureIndexes(a)
    BY FigureIndexesAreIndexes, MaxExists
  <2>2. EmissionData(a) = a.entries[Max(FigureIndexes(a))]
    BY <1>1 DEF EmissionData, LastFigure
  <2>3. ~\E f \in FiguresOf(a) : Within(f)
    BY <1>1 DEF WithinIndexes, FiguresOf
  <2> QED
    BY <2>1, <2>2, <2>3 DEF FiguresOf
<1>2. CASE WithinIndexes(a) # {}
  <2>1. WithinIndexes(a) \in SUBSET Nat
    BY FigureIndexesAreIndexes
  <2>2. Min(WithinIndexes(a)) \in WithinIndexes(a)
    BY <1>2, <2>1, MinExists
  <2>3. EmissionData(a) = a.entries[Min(WithinIndexes(a))]
    BY <1>2 DEF EmissionData
  <2> QED
    BY <2>2, <2>3 DEF WithinIndexes, FiguresOf
<1> QED
  BY <1>1, <1>2

LEMMA FiguresAreTyped ==
  ASSUME NEW a \in Answers, NEW e \in FiguresOf(a)
  PROVE  e.type \in EmissionTypes /\ e.half \in Nat
BY FigureIndexesAreIndexes DEF FiguresOf

\* What a fetch under the criteria in K leaves in the row of a vehicle.
MadeFrom(row, a, K) ==
    \/ FigureIndexes(a) = {} /\ row.emission = 0
    \/ \E e \in FiguresOf(a) :
        /\ row.type = e.type /\ row.emission = e.half \div 2 /\ row.euro = 6
        /\ (\E f \in FiguresOf(a), c \in K : f.half <= 2 * LimitOf(c, f.type))
               => \E c \in K : e.half <= 2 * LimitOf(c, e.type)

LEMMA RowIsMadeFromAnswer ==
  ASSUME NEW a \in Answers
  PROVE  RowOf(a) \in VehicleRow /\ MadeFrom(RowOf(a), a, criteria)
<1>0. a.electric \in BOOLEAN
  BY AnswersAssumption
<1>1. CASE FigureIndexes(a) = {}
  <2>1. EmissionData(a) = NoFigure
    BY <1>1 DEF EmissionData, LastFigure, WithinIndexes
  <2>2. RowOf(a) = [electric |-> a.electric, type |-> "NEDC", emission |-> 0, euro |-> 5]
    BY <1>1, <2>1 DEF RowOf, NoFigure
  <2> QED
    BY <1>0, <1>1, <2>2 DEF VehicleRow, EmissionTypes, MadeFrom
<1>2. CASE FigureIndexes(a) # {}
  <2> DEFINE e == EmissionData(a)
  <2>1. e \in FiguresOf(a) /\ ((\E f \in FiguresOf(a) : Within(f)) => Within(e))
    BY <1>2, SavedFigure
  <2>2. e.type \in EmissionTypes /\ e.half \in Nat
    BY <2>1, FiguresAreTyped
  <2>3. RowOf(a) = [electric |-> a.electric, type |-> e.type, emission |-> e.half \div 2, euro |-> 6]
    BY <1>2 DEF RowOf
  <2> HIDE DEF e
  <2>4. e.half \div 2 \in Nat
    BY <2>2
  <2> QED
    BY <1>0, <2>1, <2>2, <2>3, <2>4 DEF VehicleRow, MadeFrom, Within
<1> QED
  BY <1>1, <1>2

(***************************************************************************)
(* The inductive invariant                                                 *)
(***************************************************************************)
TypeOK ==
    /\ criteria \in SUBSET Criteria
    /\ rows \in [Vehicles -> VehicleRow \cup {None}]
    /\ DOMAIN fetched = Vehicles
    /\ held \in [Customers -> SUBSET Licences]
    /\ licences \in [Customers -> (SUBSET Licences) \cup {None}]

\* A fetched row is, until it is fetched or typed in again, what its answer gave
\* under the criteria of that moment, whatever happened to the criteria since.
RowsAreOfAnswers ==
    \A v \in Vehicles : fetched[v] # None =>
        /\ rows[v] \in VehicleRow
        /\ fetched[v].answer \in Answers
        /\ MadeFrom(rows[v], fetched[v].answer, fetched[v].criteria)

VInv == TypeOK /\ RowsAreOfAnswers

LEMMA InitVInv == Init => VInv
<1> SUFFICES ASSUME Init PROVE VInv
  OBVIOUS
<1>1. TypeOK
  <2>1. criteria \in SUBSET Criteria /\ rows \in [Vehicles -> VehicleRow \cup {None}]
    BY DEF Init
  <2>2. DOMAIN fetched = Vehicles /\ held \in [Customers -> SUBSET Licences]
    BY DEF Init
  <2>3. licences \in [Customers -> (SUBSET Licences) \cup {None}]
    BY DEF Init
  <2> QED
    BY <2>1, <2>2, <2>3 DEF TypeOK
<1>2. RowsAreOfAnswers
  BY DEF Init, RowsAreOfAnswers
<1> QED
  BY <1>1, <1>2 DEF VInv

LEMMA FetchKeepsRows ==
  ASSUME VInv, NEW v \in Vehicles, NEW a \in Answers, Fetch(v, a)
  PROVE  /\ rows' \in [Vehicles -> VehicleRow \cup {None}]
         /\ DOMAIN fetched' = Vehicles
         /\ RowsAreOfAnswers'
<1>1. RowOf(a) \in VehicleRow /\ MadeFrom(RowOf(a), a, criteria)
  BY RowIsMadeFromAnswer
<1>2. /\ rows' = [rows EXCEPT ![v] = RowOf(a)]
      /\ fetched' = [fetched EXCEPT ![v] = [answer |-> a, criteria |-> criteria]]
  BY DEF Fetch
<1>3. rows' \in [Vehicles -> VehicleRow \cup {None}] /\ DOMAIN fetched' = Vehicles
  BY <1>1, <1>2 DEF VInv, TypeOK
<1>4. ASSUME NEW w \in Vehicles, fetched'[w] # None
      PROVE  /\ rows'[w] \in VehicleRow
             /\ fetched'[w].answer \in Answers
             /\ MadeFrom(rows'[w], fetched'[w].answer, fetched'[w].criteria)
  <2>1. CASE w = v
    <3>1. rows'[w] = RowOf(a) /\ fetched'[w].answer = a /\ fetched'[w].criteria = criteria
      BY <1>2, <2>1 DEF VInv, TypeOK
    <3> QED
      BY <1>1, <3>1
  <2>2. CASE w # v
    <3>1. rows'[w] = rows[w] /\ fetched'[w] = fetched[w]
      BY <1>2, <2>2 DEF VInv, TypeOK
    <3> QED
      BY <1>4, <3>1 DEF VInv, RowsAreOfAnswers
  <2> QED
    BY <2>1, <2>2
<1> QED
  BY <1>3, <1>4 DEF RowsAreOfAnswers, MadeFrom

LEMMA ForgetKeepsRows ==
  ASSUME VInv, NEW v \in Vehicles, NEW row \in VehicleRow,
         rows' = [rows EXCEPT ![v] = row], fetched' = [fetched EXCEPT ![v] = None]
  PROVE  /\ rows' \in [Vehicles -> VehicleRow \cup {None}]
         /\ DOMAIN fetched' = Vehicles
         /\ RowsAreOfAnswers'
<1>1. rows' \in [Vehicles -> VehicleRow \cup {None}] /\ DOMAIN fetched' = Vehicles
  BY DEF VInv, TypeOK
<1>2. ASSUME NEW w \in Vehicles, fetched'[w] # None
      PROVE  w # v /\ rows'[w] = rows[w] /\ fetched'[w] = fetched[w]
  BY <1>2 DEF VInv, TypeOK
<1> QED
  BY <1>1, <1>2 DEF VInv, RowsAreOfAnswers, MadeFrom

LEMMA CreateKeeps ==
  ASSUME VInv, NEW c \in Customers, NEW v \in Vehicles, NEW a \in Answers,
         CreatePermit(c, v, a)
  PROVE  VInv'
<1>1. /\ rows' \in [Vehicles -> VehicleRow \cup {None}]
      /\ DOMAIN fetched' = Vehicles
      /\ RowsAreOfAnswers'
  BY FetchKeepsRows DEF CreatePermit
<1>2. /\ criteria' = criteria /\ held' = held
      /\ licences' = [licences EXCEPT ![c] = held[c]]
  BY DEF CreatePermit
<1>3. licences' \in [Customers -> (SUBSET Licences) \cup {None}]
  BY <1>2 DEF VInv, TypeOK
<1> QED
  BY <1>1, <1>2, <1>3 DEF VInv, TypeOK

LEMMA NextVInv == VInv /\ [Next]_vars => VInv'
<1> SUFFICES ASSUME VInv, [Next]_vars PROVE VInv'
  OBVIOUS
<1>1. ASSUME NEW c \in Customers, LicenceChanges(c) PROVE VInv'
  <2>1. /\ \E classes \in SUBSET Licences : held' = [held EXCEPT ![c] = classes]
        /\ UNCHANGED <<criteria, rows, fetched, licences>>
    BY <1>1 DEF LicenceChanges
  <2>2. held' \in [Customers -> SUBSET Licences]
    BY <2>1 DEF VInv, TypeOK
  <2> QED
    BY <2>1, <2>2 DEF VInv, TypeOK, RowsAreOfAnswers, MadeFrom
<1>2. CASE ChangeCriteria
  BY <1>2 DEF ChangeCriteria, VInv, TypeOK, RowsAreOfAnswers, MadeFrom
<1>3. ASSUME NEW c \in Customers, NEW v \in Vehicles, NEW a \in Answers, CreatePermit(c, v, a)
      PROVE  VInv'
  BY <1>3, CreateKeeps
<1>4. ASSUME NEW v \in Vehicles, NEW a \in Answers, Fetch(v, a),
             UNCHANGED <<criteria, held, licences>>
      PROVE  VInv'
  BY <1>4, FetchKeepsRows DEF VInv, TypeOK
<1>5. ASSUME NEW v \in Vehicles, NEW a \in Answers, AddRefusedVehicle(v, a) PROVE VInv'
  <2> DEFINE row == IF rows[v] = None THEN UnknownVehicle ELSE [rows[v] EXCEPT !.electric = FALSE]
  <2>1. row \in VehicleRow
    <3>1. UnknownVehicle \in VehicleRow
      BY DEF UnknownVehicle, VehicleRow, EmissionTypes
    <3>2. rows[v] # None => [rows[v] EXCEPT !.electric = FALSE] \in VehicleRow
      BY DEF VInv, TypeOK, VehicleRow
    <3> QED
      BY <3>1, <3>2
  <2>2. /\ rows' = [rows EXCEPT ![v] = row] /\ fetched' = [fetched EXCEPT ![v] = None]
        /\ UNCHANGED <<criteria, held, licences>>
    BY <1>5 DEF AddRefusedVehicle
  <2> HIDE DEF row
  <2> QED
    BY <2>1, <2>2, ForgetKeepsRows DEF VInv, TypeOK
<1>6. ASSUME NEW v \in Vehicles, SaveVehicle(v) PROVE VInv'
  <2>1. PICK row \in SavedByHand :
            /\ rows' = [rows EXCEPT ![v] = row] /\ fetched' = [fetched EXCEPT ![v] = None]
            /\ UNCHANGED <<criteria, held, licences>>
    BY <1>6 DEF SaveVehicle
  <2>2. row \in VehicleRow
    BY RowsAssumption
  <2> QED
    BY <2>1, <2>2, ForgetKeepsRows DEF VInv, TypeOK
<1>7. CASE UNCHANGED vars
  BY <1>7 DEF vars, VInv, TypeOK, RowsAreOfAnswers, MadeFrom
<1> QED
  BY <1>1, <1>2, <1>3, <1>4, <1>5, <1>6, <1>7
     DEF Next, GetVehicleInformation, LookUpTemporaryVehicle, LookUpVehicle

THEOREM VInvHolds == Spec => []VInv
BY InitVInv, NextVInv, PTL DEF Spec

(***************************************************************************)
(* What follows                                                            *)
(***************************************************************************)
\* A discount has a ground in the register, under whatever criteria the row was
\* fetched and however they changed since.
THEOREM DiscountHasAGround == Spec => []LowEmissionIsRegistered
<1>1. VInv => LowEmissionIsRegistered
  <2> SUFFICES ASSUME VInv, NEW v \in Vehicles, FromTraficom(v), IsLowEmission(rows[v])
               PROVE  \E e \in FiguresOf(fetched[v].answer), c \in criteria :
                          e.half \div 2 <= LimitOf(c, e.type)
    BY DEF LowEmissionIsRegistered
  <2>1. PICK c \in criteria : rows[v].emission # 0 /\ rows[v].emission <= LimitOf(c, rows[v].type)
    BY DEF IsLowEmission, FromTraficom
  <2>2. MadeFrom(rows[v], fetched[v].answer, fetched[v].criteria)
    BY DEF VInv, RowsAreOfAnswers, FromTraficom
  <2>3. PICK e \in FiguresOf(fetched[v].answer) :
            rows[v].type = e.type /\ rows[v].emission = e.half \div 2
    BY <2>1, <2>2 DEF MadeFrom
  <2> QED
    BY <2>1, <2>3
<1> QED
  BY <1>1, VInvHolds, PTL

\* One figure within its limit is enough, wherever the register lists it.
THEOREM EligibleVehiclesGetTheDiscount == Spec => []EligibleIsLowEmission
<1>1. VInv => EligibleIsLowEmission
  <2> SUFFICES ASSUME VInv, NEW v \in Vehicles, FromTraficom(v), fetched[v].criteria = criteria,
                      \A e \in FiguresOf(fetched[v].answer) : e.half >= 2,
                      \E e \in FiguresOf(fetched[v].answer) : Within(e),
                      \A c \in criteria : c.euro <= 6
               PROVE  IsLowEmission(rows[v])
    BY DEF EligibleIsLowEmission
  <2> DEFINE a == fetched[v].answer
  <2>1. MadeFrom(rows[v], a, criteria) /\ a \in Answers
    BY DEF VInv, RowsAreOfAnswers, FromTraficom
  <2>2. FigureIndexes(a) # {}
    BY DEF FiguresOf
  <2>3. PICK e \in FiguresOf(a) :
            /\ rows[v].type = e.type /\ rows[v].emission = e.half \div 2 /\ rows[v].euro = 6
            /\ \E c \in criteria : e.half <= 2 * LimitOf(c, e.type)
    BY <2>1, <2>2 DEF MadeFrom, Within
  <2>4. PICK c \in criteria : e.half <= 2 * LimitOf(c, e.type)
    BY <2>3
  <2>5. e.half \in Nat /\ e.half >= 2
    BY <2>1, FiguresAreTyped
  <2>6. LimitOf(c, e.type) \in Nat
    BY CriteriaAssumption DEF VInv, TypeOK, LimitOf
  <2>7. e.half \div 2 # 0 /\ e.half \div 2 <= LimitOf(c, e.type)
    BY <2>4, <2>5, <2>6
  <2> QED
    BY <2>3, <2>7 DEF IsLowEmission
<1> QED
  BY <1>1, VInvHolds, PTL
================================================================================

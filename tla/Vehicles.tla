-------------------------------- MODULE Vehicles --------------------------------
(***************************************************************************)
(* What Traficom's registers say of vehicles and licences, what of it the  *)
(* service saves, and what it decides from the saved rows: who may buy a   *)
(* permit for a vehicle, and whether the vehicle is a low-emission one,    *)
(* which halves the price.  The registers change at any time; an answer is *)
(* an element of the constant Answers.  Emissions are in half grams: the   *)
(* register gives decimals, the column keeps whole grams.  The settings    *)
(* are the defaults: TRAFICOM_CHECK is on and TRAFICOM_MOCK is off.        *)
(***************************************************************************)
EXTENDS Integers, Sequences, FiniteSets, SequencesExt

CONSTANTS
    Customers,
    Vehicles,
    Criteria,       \* low-emission criteria: [nedc, wltp: grams, euro: class]
    Answers,        \* what Traficom may answer about a vehicle
    Licences,       \* driving licence classes a person may hold
    SavedByHand,    \* the rows a clerk may type in
    None

VARIABLES
    criteria,       \* the criteria in force today
    rows,           \* the Vehicle table
    fetched,        \* per vehicle: the answer and the criteria its row was made from
    held,           \* the licence classes each customer holds in Traficom's register
    licences        \* the DrivingLicence table

vars == <<criteria, rows, fetched, held, licences>>

EmissionTypes == {"NEDC", "WLTP"}

AllowedVehicleClasses == [
    AM121 |-> {"L6eB"},
    A1    |-> {"L3eA1"},
    A2    |-> {"L3eA1", "L3eA2"},
    A     |-> {"L3eA1", "L3eA2", "L3eA3"},
    B     |-> {"M1", "M1G", "N1", "N1G", "L6eB"},
    C     |-> {"N2", "N2G"},
    D     |-> {"M2", "M2G"}]

VehicleClasses ==
    UNION {AllowedVehicleClasses[l] : l \in DOMAIN AllowedVehicleClasses}
        \cup {"L4e", "L5eA", "L5eB", "L6eBP", "L6eBU"}

ASSUME CriteriaAssumption == Criteria \subseteq [nedc : Nat, wltp : Nat, euro : Nat]

VehicleRow == [electric : BOOLEAN, type : EmissionTypes, emission : Nat, euro : Nat]

ASSUME RowsAssumption == SavedByHand \subseteq VehicleRow

ASSUME LicencesAssumption == Licences \subseteq DOMAIN AllowedVehicleClasses

\* Consumption figures that are neither NEDC nor WLTP have the type "other"; power
\* is in kilowatts, 0 if the register has none; owners are those who do not withhold
\* their data; refused are vehicles not found, decommissioned or of four tons.
ASSUME AnswersAssumption == \A a \in Answers :
    /\ DOMAIN a = {"entries", "electric", "class", "power", "owners", "refused"}
    /\ a.entries \in Seq([type : EmissionTypes \cup {"other"}, half : Nat])
    /\ a.power \in Nat /\ a.electric \in BOOLEAN /\ a.refused \in BOOLEAN

Init ==
    /\ criteria \in SUBSET Criteria /\ Cardinality(criteria) <= 1
    /\ rows = [v \in Vehicles |-> None]
    /\ fetched = [v \in Vehicles |-> None]
    /\ held = [c \in Customers |-> {}]
    /\ licences = [c \in Customers |-> None]

(***************************************************************************)
(* Reading an answer                                                       *)
(***************************************************************************)
\* Motorcycles that the register does not class are classed by their power.
VehicleClass(a) ==
    IF a.class # "L3" THEN a.class
    ELSE IF a.power <= 11 THEN "L3eA1"
    ELSE IF a.power <= 35 THEN "L3eA2" ELSE "L3eA3"

LimitOf(c, type) == IF type = "WLTP" THEN c.wltp ELSE c.nedc

\* The loop over the consumption figures stops at the first one within the limit
\* of its type; without one, or without criteria, the last figure is left.
Within(e) == \E c \in criteria : e.half <= 2 * LimitOf(c, e.type)

NoFigure == [type |-> "NEDC", half |-> 0]

FigureIndexes(a) == {i \in DOMAIN a.entries : a.entries[i].type \in EmissionTypes}

WithinIndexes(a) == {i \in FigureIndexes(a) : Within(a.entries[i])}

LastFigure(a) ==
    IF FigureIndexes(a) = {} THEN NoFigure ELSE a.entries[Max(FigureIndexes(a))]

EmissionDataUntyped(a) ==
    LET i == IF WithinIndexes(a) = {} THEN Max(FigureIndexes(a)) ELSE Min(WithinIndexes(a))
    IN  IF FigureIndexes(a) = {} THEN NoFigure ELSE [a.entries[i] EXCEPT !.type = "NEDC"]

EmissionData(a) ==
    IF WithinIndexes(a) = {} THEN LastFigure(a) ELSE a.entries[Min(WithinIndexes(a))]

\* Two criteria in force at once make every fetch fail, and so do an unsupported
\* class and owners who all withhold their data.
MayFetch(a) ==
    /\ ~a.refused
    /\ VehicleClass(a) \in VehicleClasses
    /\ a.owners # {}
    /\ Cardinality(criteria) <= 1

\* The column is an integer: a decimal figure loses its fraction.  The class and
\* the owners are saved too, but every check of them comes right after a fetch.
RowOf(a) == [
    electric |-> a.electric,
    type     |-> EmissionData(a).type,
    emission |-> EmissionData(a).half \div 2,
    euro     |-> IF FigureIndexes(a) = {} THEN 5 ELSE 6]

Fetch(v, a) ==
    /\ MayFetch(a)
    /\ rows' = [rows EXCEPT ![v] = RowOf(a)]
    /\ fetched' = [fetched EXCEPT ![v] = [answer |-> a, criteria |-> criteria]]

\* What a price depends on, whenever it is computed.
IsLowEmission(row) ==
    \/ row.electric
    \/ \E c \in criteria :
        /\ row.euro >= c.euro
        /\ row.emission # 0
        /\ row.emission <= LimitOf(c, row.type)

(***************************************************************************)
(* Licences                                                                *)
(***************************************************************************)
Drivable(classes) == UNION {AllowedVehicleClasses[l] : l \in classes}

\* Without a valid licence the request fails and the saved licence stays.
MayFetchLicence(c) == held[c] # {}

HasValidLicence(c, saved, class) == saved[c] # None /\ class \in Drivable(saved[c])

(***************************************************************************)
(* The outside world and the administrators                                *)
(***************************************************************************)
LicenceChanges(c) ==
    \E classes \in SUBSET Licences :
        /\ held' = [held EXCEPT ![c] = classes]
        /\ UNCHANGED <<criteria, rows, fetched, licences>>

\* Criteria are created, changed and deleted, and come into force and lapse by
\* date; nothing keeps two of them from being in force together.
ChangeCriteria ==
    /\ criteria' \in SUBSET Criteria
    /\ UNCHANGED <<rows, fetched, held, licences>>

(***************************************************************************)
(* The customer                                                            *)
(***************************************************************************)
\* The licence is fetched again, then the vehicle; whatever fails undoes both.
CreatePermit(c, v, a) ==
    /\ MayFetchLicence(c)
    /\ licences' = [licences EXCEPT ![c] = held[c]]
    /\ Fetch(v, a)
    /\ c \in a.owners
    /\ HasValidLicence(c, licences', VehicleClass(a))
    /\ UNCHANGED <<criteria, held>>

\* Before a change of vehicle, and for a temporary vehicle (whose owner does not
\* matter): the licence is the saved one.
GetVehicleInformation(c, v, a) ==
    /\ Fetch(v, a)
    /\ c \in a.owners
    /\ HasValidLicence(c, licences, VehicleClass(a))
    /\ UNCHANGED <<criteria, held, licences>>

LookUpTemporaryVehicle(c, v, a) ==
    /\ Fetch(v, a)
    /\ HasValidLicence(c, licences, VehicleClass(a))
    /\ UNCHANGED <<criteria, held, licences>>

(***************************************************************************)
(* The clerk                                                               *)
(***************************************************************************)
\* The row is written before the owner is compared and stays if he is another.
LookUpVehicle(v, a) ==
    /\ Fetch(v, a)
    /\ UNCHANGED <<criteria, held, licences>>

\* The permit form overwrites whatever the register gave.
SaveVehicle(v) ==
    \E row \in SavedByHand :
        /\ row.electric \/ Cardinality(criteria) <= 1
        /\ rows' = [rows EXCEPT ![v] = row]
        /\ fetched' = [fetched EXCEPT ![v] = None]
        /\ UNCHANGED <<criteria, held, licences>>

\* A temporary vehicle that Traficom does not give out is taken for a petrol car;
\* what an earlier fetch saved of it stays otherwise.
UnknownVehicle == [electric |-> FALSE, type |-> "WLTP", emission |-> 0, euro |-> 0]

AddRefusedVehicle(v, a) ==
    /\ a.refused \/ VehicleClass(a) \notin VehicleClasses \/ a.owners = {}
    /\ Cardinality(criteria) <= 1
    /\ rows' = [rows EXCEPT ![v] =
           IF rows[v] = None THEN UnknownVehicle ELSE [rows[v] EXCEPT !.electric = FALSE]]
    /\ fetched' = [fetched EXCEPT ![v] = None]
    /\ UNCHANGED <<criteria, held, licences>>

Next ==
    \/ \E c \in Customers : LicenceChanges(c)
    \/ ChangeCriteria
    \/ \E c \in Customers, v \in Vehicles, a \in Answers :
        \/ CreatePermit(c, v, a)
        \/ GetVehicleInformation(c, v, a)
        \/ LookUpTemporaryVehicle(c, v, a)
    \/ \E v \in Vehicles, a \in Answers : LookUpVehicle(v, a) \/ AddRefusedVehicle(v, a)
    \/ \E v \in Vehicles : SaveVehicle(v)

Spec == Init /\ [][Next]_vars

(***************************************************************************)
(* Properties                                                              *)
(***************************************************************************)
FiguresOf(a) == {a.entries[i] : i \in FigureIndexes(a)}

FromTraficom(v) == fetched[v] # None /\ ~rows[v].electric

\* The discount has a ground in the register: however often the criteria and the
\* row changed since, some figure Traficom gave is, in whole grams, within the
\* limit of its own type that is in force now.
LowEmissionIsRegistered ==
    \A v \in Vehicles : FromTraficom(v) /\ IsLowEmission(rows[v]) =>
        \E e \in FiguresOf(fetched[v].answer), c \in criteria : e.half \div 2 <= LimitOf(c, e.type)

\* Conversely, "the emission type and value that makes the vehicle eligible for
\* low emissions pricing should be saved to db": while the criteria are those the
\* row was fetched under, one figure within its limit is enough, in whatever
\* order the register lists them.  Figures below one gram count as none.
EligibleIsLowEmission ==
    \A v \in Vehicles :
        FromTraficom(v) /\ fetched[v].criteria = criteria
            /\ (\A e \in FiguresOf(fetched[v].answer) : e.half >= 2)
            /\ (\E e \in FiguresOf(fetched[v].answer) : Within(e))
            /\ (\A c \in criteria : c.euro <= 6)
        => IsLowEmission(rows[v])
================================================================================

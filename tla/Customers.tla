------------------------------- MODULE Customers -------------------------------
(***************************************************************************)
(* The rows of the customers: how a person comes to have one, and how it is *)
(* anonymized, by a nightly job or by a request to the GDPR API, once the   *)
(* person and the permits have not been touched for two years.              *)
(*                                                                         *)
(* Time is counted in years.  A customer has one permit, which stands for   *)
(* the latest.  A person who has no national identification number is given *)
(* a generated one by the customer service.                                 *)
(***************************************************************************)
EXTENDS Integers, FiniteSets, FiniteSetsExt, Sequences

CONSTANTS
    Persons,        \* people with a national identification number
    Visitors,       \* people without one
    CoOwners,       \* people the register may name beside the buyer of a permit
    MaxCustomers,   \* bound on the customer rows
    MaxYear,        \* bound on the time
    Nobody

ASSUME RetentionFits == MaxYear >= 2
ASSUME CustomersAssumption == MaxCustomers \in Nat

VARIABLES
    now,
    customers,      \* the Customer rows in the order of their keys
    permits,        \* the latest ParkingPermit of each of them
    vehicleUsers,   \* the numbers kept with the vehicles of the permits that each has bought
    job             \* the candidates the job has still to come to, as it read them

vars == <<now, customers, permits, vehicleUsers, job>>

Keys == 1..MaxCustomers

(***************************************************************************)
(* National identification numbers                                         *)
(***************************************************************************)
Real(p) == <<"real", p>>
Generated(n) == <<"XX", n>>
Anonymous(key) == <<"XX-ANON", key>>

NumbersOf(kind) == {customers[c].nin[2] : c \in {c \in DOMAIN customers : customers[c].nin[1] = kind}}

\* generate_ssn: one more than the number that sorts last; letters sort after digits.
GeneratedNin ==
    IF NumbersOf("XX-ANON") # {} THEN Generated(Max(NumbersOf("XX-ANON")) + 1)
    ELSE IF NumbersOf("XX") # {} THEN Generated(Max(NumbersOf("XX")) + 1)
    ELSE Generated(1)

(***************************************************************************)
(* Rows                                                                    *)
(***************************************************************************)
NoPermit == [status |-> "NONE", end |-> 0, modified |-> 0, vehicle |-> FALSE, subscribed |-> FALSE]

NoCandidate == [nin |-> <<"none", 0>>, modified |-> 0, user |-> FALSE, anonymized |-> TRUE,
                person |-> Nobody, permit |-> NoPermit]

Init ==
    /\ now = 0
    /\ customers = <<>>
    /\ permits = [c \in Keys |-> NoPermit]
    /\ vehicleUsers = {}
    /\ job = [c \in Keys |-> NoCandidate]

TimePasses ==
    /\ now < MaxYear
    /\ now' = now + 1
    /\ UNCHANGED <<customers, permits, vehicleUsers, job>>

\* Customer.objects.update_or_create: the row that has the number is written over.
UpdateOrCreate(nin, Written(_)) ==
    LET found == {c \in DOMAIN customers : customers[c].nin = nin}
        new == [nin |-> nin, modified |-> now, user |-> FALSE, anonymized |-> FALSE, person |-> Nobody]
    IN  IF found # {}
        THEN customers' = [c \in DOMAIN customers |-> IF c \in found THEN Written(customers[c])
                                                                     ELSE customers[c]]
        ELSE /\ Len(customers) < MaxCustomers
             /\ customers' = Append(customers, Written(new))

\* resolve_user_profile
Login(p) ==
    /\ UpdateOrCreate(Real(p), LAMBDA row : [row EXCEPT !.modified = now, !.user = TRUE, !.person = p])
    /\ UNCHANGED <<now, permits, vehicleUsers, job>>

Nin(person) == IF person \in Persons THEN Real(person) ELSE GeneratedNin

\* resolve_create_resident_permit up to the permit: a user that the row has stays.
AdminCreatesCustomer(person) ==
    /\ UpdateOrCreate(Nin(person), LAMBDA row : [row EXCEPT !.modified = now, !.person = person])
    /\ UNCHANGED <<now, permits, vehicleUsers, job>>

\* A permit becomes VALID: bought by the customer, whose vehicle the register knows, or
\* created by the customer service.
Permit(c, end, subscribed) ==
    /\ permits[c].status # "VALID"
    /\ permits' = [permits EXCEPT ![c] = [status |-> "VALID", end |-> end, modified |-> now,
                                          vehicle |-> TRUE, subscribed |-> subscribed]]

\* The register names everyone who owns or holds the vehicle: VehicleUser rows, of customers
\* or not.
OthersThan(c, others) == {p \in others : Real(p) # customers[c].nin}

UsersNamed(c, others) ==
    {[nin |-> customers[c].nin, customer |-> c, own |-> TRUE]}
        \union {[nin |-> Real(p), customer |-> c, own |-> FALSE] : p \in OthersThan(c, others)}

Buy(c, end, subscribed, others) ==
    /\ customers[c].user
    /\ Permit(c, end, subscribed)
    /\ vehicleUsers' = vehicleUsers \union UsersNamed(c, others)
    /\ UNCHANGED <<now, customers, job>>

AdminCreatesPermit(c, end) ==
    /\ ~customers[c].anonymized
    /\ Permit(c, end, FALSE)
    /\ UNCHANGED <<now, customers, vehicleUsers, job>>

\* The permit is ended or expires; a subscription may outlive it.
PermitCloses(c, subscribed) ==
    /\ permits[c].status = "VALID"
    /\ subscribed => permits[c].subscribed
    /\ permits' = [permits EXCEPT ![c].status = "CLOSED", ![c].end = now, ![c].modified = now,
                                  ![c].subscribed = subscribed]
    /\ UNCHANGED <<now, customers, vehicleUsers, job>>

SubscriptionEnds(c) ==
    /\ permits[c].subscribed
    /\ permits' = [permits EXCEPT ![c].subscribed = FALSE]
    /\ UNCHANGED <<now, customers, vehicleUsers, job>>

(***************************************************************************)
(* Anonymization                                                           *)
(***************************************************************************)
IsOld(time) == time + 2 <= now

\* can_be_anonymized
CanBeAnonymized(row, permit) ==
    /\ ~row.anonymized /\ IsOld(row.modified)
    /\ permit.status # "VALID" /\ ~permit.subscribed
    /\ permit.status # "NONE" => IsOld(permit.modified) /\ IsOld(permit.end)

\* Mutant: the number stays.
NamelessRow(c, row) ==
    [row EXCEPT !.modified = now, !.user = FALSE, !.anonymized = TRUE, !.person = Nobody]

AnonymizedRow(c, row) ==
    [row EXCEPT !.nin = Anonymous(c), !.modified = now, !.user = FALSE, !.anonymized = TRUE,
                !.person = Nobody]

\* The VehicleUser row of the number is deleted, from every vehicle that has it, if a
\* vehicle of the customer's permits has it.
UsersWithout(c, nin) ==
    IF permits[c].vehicle /\ \E u \in vehicleUsers : u.customer = c /\ u.nin = nin
    THEN {u \in vehicleUsers : u.nin # nin} ELSE vehicleUsers

\* Mutant: the number is looked for when the row has already lost it.
LaterVehicleUsers(c, row) == UsersWithout(c, AnonymizedRow(c, row).nin)

\* _remove_vehicle_users_related_by_national_id_number
OtherVehicleUsers(c, row) == UsersWithout(c, row.nin)

\* anonymize_all_data of a row as it was read; the permits are updated where they are.
Anonymize(c, row) ==
    /\ vehicleUsers' = OtherVehicleUsers(c, row)
    /\ customers' = [customers EXCEPT ![c] = AnonymizedRow(c, row)]
    /\ permits' = [permits EXCEPT ![c].vehicle = FALSE]
    /\ UNCHANGED now

\* ParkingPermitsGDPRAPIView.delete; a dry run is rolled back.
GdprDelete(c) ==
    /\ customers[c].user
    /\ CanBeAnonymized(customers[c], permits[c])
    /\ Anonymize(c, customers[c])
    /\ UNCHANGED job

Row(c) == customers[c]

Candidate(c) ==
    [nin |-> Row(c).nin, modified |-> Row(c).modified, user |-> Row(c).user,
     anonymized |-> Row(c).anonymized, person |-> Row(c).person, permit |-> permits[c]]

\* Mutant: customers that ever had a permit are left out.
NewCandidates == {c \in DOMAIN customers : ~Row(c).anonymized /\ IsOld(Row(c).modified)
                                           /\ permits[c].status = "NONE"}

\* get_anonymization_candidates
Candidates == {c \in DOMAIN customers : ~Row(c).anonymized /\ IsOld(Row(c).modified)
                                        /\ permits[c].status # "VALID"}

Remaining == {c \in Keys : job[c] # NoCandidate}

JobReads ==
    /\ Remaining = {}
    /\ Candidates # {}
    /\ job' = [c \in Keys |-> IF c \in Candidates THEN Candidate(c) ELSE NoCandidate]
    /\ UNCHANGED <<now, customers, permits, vehicleUsers>>

Processed(c) ==
    /\ c \in Remaining
    /\ job' = [job EXCEPT ![c] = NoCandidate]

RowOf(candidate) ==
    [nin |-> candidate.nin, modified |-> candidate.modified, user |-> candidate.user,
     anonymized |-> candidate.anonymized, person |-> candidate.person]

JobAnonymizes(c) ==
    /\ Processed(c)
    /\ CanBeAnonymized(job[c], job[c].permit)
    /\ Anonymize(c, RowOf(job[c]))

\* CustomerCannotBeAnonymizedError
JobSkips(c) ==
    /\ Processed(c)
    /\ ~CanBeAnonymized(job[c], job[c].permit)
    /\ UNCHANGED <<now, customers, permits, vehicleUsers>>

CustomerNext ==
    \/ \E p \in Persons : Login(p)
    \/ \E person \in Persons \union Visitors : AdminCreatesCustomer(person)
    \/ \E c \in DOMAIN customers :
        \/ \E end \in {now, now + 1}, subscribed \in BOOLEAN, others \in SUBSET CoOwners :
            Buy(c, end, subscribed, others)
        \/ \E end \in {now, now + 1} : AdminCreatesPermit(c, end)
        \/ \E subscribed \in BOOLEAN : PermitCloses(c, subscribed)
        \/ SubscriptionEnds(c)
        \/ GdprDelete(c)

JobNext == JobReads \/ \E c \in Keys : JobAnonymizes(c) \/ JobSkips(c)

Next == TimePasses \/ CustomerNext \/ JobNext

Spec == Init /\ [][Next]_vars

\* The job runs every night and comes to every candidate.
Fairness == WF_job(JobReads) /\ \A c \in Keys : WF_job(Processed(c))

FairSpec == Spec /\ Fairness

-----------------------------------------------------------------------------
\* Nothing personal comes back to an anonymized row: nobody's name, no user, no vehicle of
\* a permit, also when the person returns, or had returned after the job read the row.
AnonymizedIsNobody ==
    \A c \in DOMAIN customers :
        customers[c].anonymized => /\ customers[c].person = Nobody /\ ~customers[c].user
                                   /\ ~permits[c].vehicle

\* What is kept with the vehicle of a permit of the number of who bought it is the number
\* of a customer: anonymizing the customer forgets it there too, also when the job removes
\* what it read before the customer was anonymized otherwise.
BuyersAreForgotten ==
    \A u \in vehicleUsers : u.own => customers[u.customer].nin = u.nin

Obsolete(c) ==
    /\ c \in DOMAIN customers
    /\ ~customers[c].anonymized
    /\ customers[c].modified + 2 <= now
    /\ permits[c].status # "VALID" /\ ~permits[c].subscribed
    /\ permits[c].status # "NONE" => permits[c].modified + 2 <= now /\ permits[c].end + 2 <= now

\* Whoever has become obsolete is anonymized, or comes back.
ObsoleteIsForgotten == \A c \in Keys : Obsolete(c) ~> ~Obsolete(c)
================================================================================

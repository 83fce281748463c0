------------------------------ MODULE Parkkihubi ------------------------------
(***************************************************************************)
(* What Parkkihubi, the system the parking inspectors look at, knows of    *)
(* the permits.  Most handlers send a change in their transaction, some    *)
(* write it and send nothing; a half-hourly job deactivates temporary      *)
(* vehicles whose time is over and sends the permits that were never sent. *)
(* A request may be refused, or be carried out while its answer is lost:   *)
(* what Parkkihubi has is then not known until the next one is answered,   *)
(* and is not followed.  Neither is a copy that was left behind by a       *)
(* handler that sends nothing.                                             *)
(*                                                                         *)
(* Every permit starts at time 0.                                          *)
(***************************************************************************)
EXTENDS Integers, FiniteSets, SequencesExt

CONSTANTS
    Permits,
    Details,        \* a permit's own vehicle and its area, which the request repeats
    Horizon,        \* bound on the time
    MaxTemps,       \* bound on the active temporary vehicles of a permit
    Stale           \* what Parkkihubi has of a permit that was never sent, whose last
                    \* request failed, or that was changed and not sent since

VARIABLES
    now,
    permits,        \* the ParkingPermit rows with their active temporary vehicles
    remote,         \* the subjects Parkkihubi has of each permit
    job             \* the loop the job is in and the rows it read for it

vars == <<now, permits, remote, job>>

Times == 0..Horizon

Least(a, b) == IF a < b THEN a ELSE b
Greatest(a, b) == IF a > b THEN a ELSE b

(***************************************************************************)
(* The subjects of a permit                                                *)
(***************************************************************************)
Subject(from, to, vehicle) == [from |-> from, to |-> to, vehicle |-> vehicle]

\* The query fixes no order of those that start together; one is chosen.
OrderedByStart(temps) ==
    CHOOSE s \in [1..Cardinality(temps) -> temps] :
        /\ \A t \in temps : \E i \in DOMAIN s : s[i] = t
        /\ \A i, j \in DOMAIN s : i < j => s[i].from <= s[j].from

\* The temporary vehicles after the permit's own vehicle.
Planned(row) ==
    LET temps == OrderedByStart({t \in row.temps : t.from <= row.end})
    IN  <<Subject(0, row.end, row.details)>> \o
        [i \in 1..Len(temps) |-> Subject(temps[i].from, Least(temps[i].to, row.end), "temporary")]

\* Each subject ends where the next one starts at the latest.
Shortened(row) ==
    LET planned == Planned(row)
    IN  [i \in 1..Len(planned) |->
            IF i < Len(planned) /\ planned[i].to > planned[i + 1].from
            THEN [planned[i] EXCEPT !.to = planned[i + 1].from] ELSE planned[i]]

LatestEnd(subjects) ==
    CHOOSE t \in {subjects[i].to : i \in 1..Len(subjects)} :
        \A i \in 1..Len(subjects) : subjects[i].to <= t

\* get_subjects: the permit's own vehicle fills the gaps and the rest.
Subjects(row) ==
    LET subjects == Shortened(row)
        gaps == {i \in 1..(Len(subjects) - 1) : subjects[i + 1].from > subjects[i].to}
        last == LatestEnd(subjects)
    IN  ToSet(subjects)
        \union {Subject(subjects[i].to, subjects[i + 1].from, row.details) : i \in gaps}
        \union (IF last < row.end THEN {Subject(last, row.end, row.details)} ELSE {})

(***************************************************************************)
(* The rows                                                                *)
(***************************************************************************)
NoRow == [status |-> "NONE", details |-> "none", end |-> 0, temps |-> {}, synced |-> FALSE]

Idle == [loop |-> "idle", rows |-> [p \in Permits |-> NoRow]]

\* Drafts are not sent and not modelled.
Statuses == {"PAYMENT_IN_PROGRESS", "VALID", "CLOSED", "CANCELLED"}

\* An imported permit, a purchase that is not paid, and any permit older than the flag, was never sent.
Init ==
    /\ now = 0
    /\ permits \in [Permits -> [status : Statuses, details : Details, end : 1..Horizon,
                               temps : {{}}, synced : BOOLEAN]]
    /\ remote = [p \in Permits |-> IF permits[p].synced THEN Subjects(permits[p]) ELSE Stale]
    /\ job = Idle

TimePasses ==
    /\ now < Horizon
    /\ now' = now + 1
    /\ UNCHANGED <<permits, remote, job>>

\* handle_response
Synced(row, answered) == IF answered THEN [row EXCEPT !.synced = TRUE] ELSE row

\* A transaction that changes rows and sends them one after the other.  The first
\* "sent" of them reach Parkkihubi; unless every one is also answered, the transaction
\* is rolled back and Parkkihubi may have what it sent.
Transaction(order, Changed(_)) ==
    \E sent \in 1..Len(order), answered \in BOOLEAN :
        LET reached == {order[i] : i \in 1..sent}
            committed == sent = Len(order) /\ answered
        IN  /\ remote' = [p \in Permits |-> IF p \notin reached THEN remote[p]
                                            ELSE IF committed THEN Subjects(Changed(p)) ELSE Stale]
            /\ permits' = [p \in Permits |-> IF committed /\ p \in reached THEN Synced(Changed(p), TRUE)
                                             ELSE permits[p]]
            /\ UNCHANGED <<now, job>>

(***************************************************************************)
(* Handlers that send what they change                                     *)
(***************************************************************************)
IsValid(p) == permits[p].status = "VALID"

\* What a customer's requests find.
IsCurrent(p) == permits[p].status \in {"VALID", "PAYMENT_IN_PROGRESS"}

Orderings(ps) == SetToSeqs(ps)

\* end_permits at once or as of an earlier day: temporary vehicles end with their permit.
EndPermits(ps, end) ==
    /\ ps # {}
    /\ \A p \in ps : IsCurrent(p)
    /\ end <= now
    /\ \E order \in Orderings(ps) :
        Transaction(order, LAMBDA p : [permits[p] EXCEPT !.status = "CLOSED", !.end = end, !.temps = {}])

\* end_permits after the current period: the permit and its temporary vehicles stay.
EndAfterPeriod(p, end) ==
    /\ IsCurrent(p)
    /\ now < end /\ end <= permits[p].end
    /\ Transaction(<<p>>, LAMBDA q : [permits[q] EXCEPT !.end = end])

Payments == [Permits -> [end : Times, details : Details]]

PaidFor(p, paid) ==
    [permits[p] EXCEPT !.status = "VALID", !.end = paid[p].end, !.details = paid[p].details]

\* Mutant: nothing is sent.
PaidUnsent(ps, paid) ==
    /\ \A p \in ps : paid[p].end \in {permits[p].end, permits[p].end + 1}
    /\ permits' = [p \in Permits |-> IF p \in ps THEN PaidFor(p, paid) ELSE permits[p]]
    /\ UNCHANGED <<now, remote, job>>

\* PAYMENT_PAID makes the permits of the order VALID whatever they were: a purchase, a
\* renewal or an extension by one month, a change of vehicle or of address.
PaymentPaid(ps, paid) ==
    /\ ps # {}
    /\ \A p \in ps : paid[p].end \in {permits[p].end, permits[p].end + 1}
    /\ \E order \in Orderings(ps) : Transaction(order, LAMBDA p : PaidFor(p, paid))

\* The clerk's form: any status.  A customer's change that costs nothing keeps it.
UpdatePermit(p, status, d) ==
    Transaction(<<p>>, LAMBDA q : [permits[q] EXCEPT !.status = status, !.details = d])

\* parse_temporary_vehicle_times: from now on, for an hour at least, until the permit
\* ends at most.
TemporaryVehicles(row) ==
    {[from |-> from, to |-> Least(Greatest(to, from + 1), row.end)] : from, to \in now..Horizon}

\* A clerk adds and removes them for a permit of any status.  The yearly limit of two is a
\* bound here: it is the customer's only.
AddTemporaryVehicle(p, v) ==
    /\ Cardinality(permits[p].temps) < MaxTemps
    /\ Transaction(<<p>>, LAMBDA q : [permits[q] EXCEPT !.temps = @ \union {v}])

RemoveTemporaryVehicle(p) ==
    Transaction(<<p>>, LAMBDA q : [permits[q] EXCEPT !.temps = {}])

(***************************************************************************)
(* Handlers that send nothing                                              *)
(***************************************************************************)
\* A change that has to be paid for is written at its payment; an order of a permit that
\* is not paid in time, or that Talpa cancels, takes the permit with it.
PaymentStarts(p) ==
    /\ IsValid(p)
    /\ permits' = [permits EXCEPT ![p].status = "PAYMENT_IN_PROGRESS"]
    /\ UNCHANGED <<now, remote, job>>

PaymentCancelled(p) ==
    /\ IsCurrent(p)
    /\ permits' = [permits EXCEPT ![p].status = "CANCELLED"]
    /\ UNCHANGED <<now, remote, job>>

\* The primary and the secondary permit change places, and both end a month after the
\* primary one's start.
ToggledEnd(p, end) ==
    /\ IsCurrent(p)
    /\ permits' = [permits EXCEPT ![p].end = end]
    /\ remote' = [remote EXCEPT ![p] = Stale]
    /\ UNCHANGED <<now, job>>

\* A fixed-period permit moves to a cheaper zone, or a clerk moves the other permits of
\* the customer.
MovedUnsent(p, d) ==
    /\ IsCurrent(p)
    /\ permits' = [permits EXCEPT ![p].details = d]
    /\ remote' = [remote EXCEPT ![p] = Stale]
    /\ UNCHANGED <<now, job>>

\* Mutant: whoever is still to come is taken for over.
IsToCome(t) == now < t.to

IsOver(t) == t.to < now

\* CustomerPermit.get deactivates the temporary vehicles whose time is over.  One that
\* overlapped another may so give its time back: only then is the copy left behind.
LookAtPermit(p) ==
    LET active == {t \in permits[p].temps : ~IsOver(t)}
    IN  /\ IsCurrent(p)
        /\ permits' = [permits EXCEPT ![p].temps = active]
        /\ remote' = [remote EXCEPT ![p] = IF active \in {{}, permits[p].temps} THEN @ ELSE Stale]
        /\ UNCHANGED <<now, job>>

(***************************************************************************)
(* The job: automatic_syncing_of_permits_to_parkkihubi                     *)
(***************************************************************************)
\* Temporary vehicles are rows of their own, read as the request is made.
ReadRows(loop, ps) ==
    [loop |-> loop,
     rows |-> [p \in Permits |->
                  IF p \in ps THEN [permits[p] EXCEPT !.temps = {}, !.synced = FALSE] ELSE NoRow]]

Remaining == {p \in Permits : job.rows[p] # NoRow}

ReadTemporaryVehicles ==
    /\ job.loop = "idle"
    /\ job' = ReadRows("temps", {p \in Permits : IsValid(p) /\ \E t \in permits[p].temps : IsOver(t)})
    /\ UNCHANGED <<now, permits, remote>>

\* Mutant: closed permits are not sent.
ValidStatuses == {"VALID"}

StatusesToSync == {"VALID", "CLOSED"}

ReadUnsynced ==
    /\ job.loop = "temps"
    /\ Remaining = {}
    /\ job' = ReadRows("sync", {p \in Permits : ~permits[p].synced /\ permits[p].status \in StatusesToSync})
    /\ UNCHANGED <<now, permits, remote>>

\* sync_with_parkkihubi outside a transaction: a success writes the row back as it was
\* read, a failure ends the job.
Processed(p) ==
    /\ p \in Remaining
    /\ job' = [job EXCEPT !.rows[p] = NoRow]

Answered(p, temps) ==
    LET row == [job.rows[p] EXCEPT !.temps = temps]
    IN  /\ remote' = [remote EXCEPT ![p] = Subjects(row)]
        /\ permits' = [permits EXCEPT ![p] = Synced(row, TRUE)]
        /\ Processed(p)
        /\ UNCHANGED now

Failed(p, temps) ==
    /\ remote' = [remote EXCEPT ![p] = Stale]
    /\ permits' = [permits EXCEPT ![p].temps = temps]
    /\ job' = Idle
    /\ UNCHANGED now

\* remove_temporary_vehicle deactivates them all.
DeactivateTemporaryVehicle(p) ==
    /\ job.loop = "temps"
    /\ Answered(p, {})

SendUnsynced(p) ==
    /\ job.loop = "sync"
    /\ Answered(p, permits[p].temps)

\* What a loop did to the rows before the request that failed stays done.
FailToSend(p) ==
    /\ p \in Remaining
    /\ \/ job.loop = "temps" /\ Failed(p, {})
       \/ job.loop = "sync" /\ Failed(p, permits[p].temps)

JobEnds ==
    /\ job.loop = "sync"
    /\ Remaining = {}
    /\ job' = Idle
    /\ UNCHANGED <<now, permits, remote>>

SendingNext ==
    \/ \E ps \in SUBSET Permits, end \in Times : EndPermits(ps, end)
    \/ \E p \in Permits, end \in Times : EndAfterPeriod(p, end)
    \/ \E ps \in SUBSET Permits, paid \in Payments : PaymentPaid(ps, paid)
    \/ \E p \in Permits, status \in Statuses, d \in Details : UpdatePermit(p, status, d)
    \/ \E p \in Permits : RemoveTemporaryVehicle(p)
    \/ \E p \in Permits : \E v \in TemporaryVehicles(permits[p]) : AddTemporaryVehicle(p, v)

UnsentNext ==
    \/ \E p \in Permits : PaymentStarts(p) \/ PaymentCancelled(p) \/ LookAtPermit(p)
    \/ \E p \in Permits, end \in Times : ToggledEnd(p, end)
    \/ \E p \in Permits, d \in Details : MovedUnsent(p, d)

HandlerNext == SendingNext \/ UnsentNext

JobNext ==
    \/ ReadTemporaryVehicles \/ ReadUnsynced \/ JobEnds
    \/ \E p \in Permits : DeactivateTemporaryVehicle(p) \/ SendUnsynced(p) \/ FailToSend(p)

Next == TimePasses \/ HandlerNext \/ JobNext

\* The job runs every half an hour, and a request about a permit that it repeats for
\* ever is answered sooner or later.
Fairness ==
    /\ WF_vars(ReadTemporaryVehicles \/ ReadUnsynced \/ JobEnds)
    /\ \A p \in Permits, loop \in {"temps", "sync"} : SF_job(job.loop = loop /\ Processed(p))

Spec == Init /\ [][Next]_vars

FairSpec == Spec /\ Fairness

-----------------------------------------------------------------------------
Covers(subject, t) == subject.from <= t /\ t < subject.to

SeenAt(subjects, t) == {s.vehicle : s \in {s \in subjects : Covers(s, t)}}

\* What the inspectors see of a permit from now on is what its row says, unless the last
\* request about it failed, a toggle rewrote its end, a move its area, or a query ended one
\* of several temporary vehicles: the job's write of a stale row sends that same row, and
\* the vehicles a query ends without sending it were not seen any more.
InspectorsSeeTheRow ==
    \A p \in Permits :
        remote[p] # Stale
        => \A t \in now..Horizon : SeenAt(remote[p], t) = SeenAt(Subjects(permits[p]), t)

\* get_subjects: as long as every temporary vehicle starts before it ends, exactly one
\* vehicle may park at each moment of the permit and none afterwards, however temporary
\* vehicles overlap, nest, or outlast the permit.
OneVehicleAtATime ==
    \A p \in Permits :
        (\A v \in permits[p].temps : v.from <= v.to)
        => \A t \in Times : Cardinality({s \in Subjects(permits[p]) : Covers(s, t)}) =
                             IF t < permits[p].end THEN 1 ELSE 0

IsToSync(p) == ~permits[p].synced /\ permits[p].status \in {"VALID", "CLOSED"}

\* A permit that was never sent is sent in the end as long as it stays VALID or CLOSED,
\* however often requests fail and whatever else handlers do to it meanwhile.
UnsentIsSent == \A p \in Permits : IsToSync(p) ~> ~IsToSync(p)

HasPastVehicle(p) == IsValid(p) /\ \E v \in permits[p].temps : v.to < now

\* A temporary vehicle whose time is over does not stay active on a permit that stays VALID.
PastVehiclesEnd == \A p \in Permits : HasPastVehicle(p) ~> ~HasPastVehicle(p)
================================================================================

---------------------------- MODULE ParkkihubiProofs ----------------------------
(***************************************************************************)
(* Proofs about Parkkihubi, for every number of permits, of temporary      *)
(* vehicles and every horizon.                                             *)
(***************************************************************************)
EXTENDS Parkkihubi, FiniteSetTheorems, SequenceTheorems, WellFoundedInduction, TLAPS

TemporaryVehicle == [from : Nat, to : Nat]

VehicleSets == {temps \in SUBSET TemporaryVehicle : IsFiniteSet(temps)}

AnyStatus == Statuses \union {"NONE"}

AnyDetails == Details \union {"none"}

Row == [status : AnyStatus, details : AnyDetails, end : Nat, temps : VehicleSets, synced : BOOLEAN]

TypeOK ==
    /\ now \in Nat
    /\ permits \in [Permits -> Row]
    /\ remote = [p \in Permits |-> remote[p]]
    /\ job = [loop |-> job.loop, rows |-> job.rows]
    /\ job.rows \in [Permits -> Row]

Past(temps, time) == \A v \in temps : v.to < time

(* What Parkkihubi has of a permit is what was sent of its row: the row itself, or the *)
(* row with the temporary vehicles, all over, that a query deactivated since.          *)
WasSent(row, subjects, time) ==
    \E over \in VehicleSets :
        /\ Past(over, time)
        /\ over = {} \/ row.temps = {}
        /\ subjects = Subjects([row EXCEPT !.temps = @ \union over])

IInv ==
    /\ TypeOK
    /\ \A p \in Permits : remote[p] # Stale => WasSent(permits[p], remote[p], now)

LEMMA SmallerVehicleSets ==
  /\ {} \in VehicleSets
  /\ \A temps \in VehicleSets, v \in TemporaryVehicle : temps \union {v} \in VehicleSets
  /\ \A temps \in VehicleSets : \A some \in SUBSET temps : some \in VehicleSets
BY FS_EmptySet, FS_AddElement, FS_Subset DEF VehicleSets

LEMMA StatusesAndDetails ==
  /\ "VALID" \in AnyStatus /\ "CLOSED" \in AnyStatus /\ "NONE" \in AnyStatus
  /\ Statuses \subseteq AnyStatus
  /\ "none" \in AnyDetails /\ Details \subseteq AnyDetails
BY DEF AnyStatus, AnyDetails, Statuses

LEMMA ChangedRow ==
  ASSUME NEW row \in Row, NEW status \in AnyStatus, NEW end \in Nat, NEW temps \in VehicleSets
  PROVE  [row EXCEPT !.status = status, !.end = end, !.temps = temps] \in Row
BY DEF Row

LEMMA PaidRow ==
  ASSUME NEW row \in Row, NEW status \in AnyStatus, NEW end \in Nat, NEW details \in AnyDetails
  PROVE  [row EXCEPT !.status = status, !.end = end, !.details = details] \in Row
BY DEF Row

LEMMA UpdatedRow ==
  ASSUME NEW row \in Row, NEW status \in AnyStatus, NEW details \in AnyDetails
  PROVE  [row EXCEPT !.status = status, !.details = details] \in Row
BY DEF Row

LEMMA RowAsRead ==
  ASSUME NEW row \in Row, NEW temps \in VehicleSets
  PROVE  [row EXCEPT !.temps = temps, !.synced = FALSE] \in Row
BY DEF Row

(* The subjects of a row say nothing of its status or its flag. *)
LEMMA SubjectsOfSame ==
  ASSUME NEW row, NEW other, row.temps = other.temps, row.end = other.end, row.details = other.details
  PROVE  Subjects(row) = Subjects(other)
<1>1. Planned(row) = Planned(other)
  BY DEF Planned
<1>2. Shortened(row) = Shortened(other)
  BY <1>1 DEF Shortened
<1> QED
  BY <1>2 DEF Subjects

LEMMA SyncedRow ==
  ASSUME NEW row \in Row
  PROVE  Synced(row, TRUE) \in Row /\ \A time : WasSent(Synced(row, TRUE), Subjects(row), time)
<1> DEFINE synced == Synced(row, TRUE)
<1>1. synced \in Row
      /\ synced.temps = row.temps /\ synced.end = row.end /\ synced.details = row.details
  BY DEF Synced, Row
<1> HIDE DEF synced
<1> DEFINE same == [synced EXCEPT !.temps = @ \union {}]
<1>2. same.temps = row.temps /\ same.end = row.end /\ same.details = row.details
  BY <1>1 DEF Row
<1> HIDE DEF same
<1>3. Subjects(same) = Subjects(row)
  BY <1>2, SubjectsOfSame
<1>4. \A time : Past({}, time)
  BY DEF Past
<1>5. \A time : WasSent(synced, Subjects(row), time)
  BY <1>3, <1>4, SmallerVehicleSets DEF WasSent, same
<1> QED
  BY <1>1, <1>5 DEF synced

(* A later look at a row of which only the status changed. *)
LEMMA StillWasSent ==
  ASSUME NEW row \in Row, NEW other \in Row, NEW subjects, NEW time \in Nat, NEW later \in Nat,
         time <= later, WasSent(row, subjects, time),
         other.temps = row.temps, other.end = row.end, other.details = row.details
  PROVE  WasSent(other, subjects, later)
<1>1. PICK over \in VehicleSets :
        /\ Past(over, time)
        /\ over = {} \/ row.temps = {}
        /\ subjects = Subjects([row EXCEPT !.temps = @ \union over])
  BY DEF WasSent
<1> DEFINE sent == [row EXCEPT !.temps = @ \union over]
           same == [other EXCEPT !.temps = @ \union over]
<1>2. same.temps = sent.temps /\ same.end = sent.end /\ same.details = sent.details
  BY DEF Row
<1> HIDE DEF sent, same
<1>3. Subjects(same) = Subjects(sent)
  BY <1>2, SubjectsOfSame
<1>4. Past(over, later)
  <2>1. \A v \in over : v.to \in Nat
    BY DEF VehicleSets, TemporaryVehicle
  <2> QED
    BY <1>1, <2>1 DEF Past
<1> QED
  BY <1>1, <1>3, <1>4 DEF WasSent, sent, same

(* A query deactivates every temporary vehicle, all of them over. *)
LEMMA LookedAt ==
  ASSUME NEW row \in Row, NEW subjects, NEW time \in Nat,
         WasSent(row, subjects, time), Past(row.temps, time)
  PROVE  WasSent([row EXCEPT !.temps = {}], subjects, time)
<1>1. PICK over \in VehicleSets :
        /\ Past(over, time)
        /\ over = {} \/ row.temps = {}
        /\ subjects = Subjects([row EXCEPT !.temps = @ \union over])
  BY DEF WasSent
<1> DEFINE all == row.temps \union over
           looked == [row EXCEPT !.temps = {}]
           sent == [row EXCEPT !.temps = @ \union over]
           same == [looked EXCEPT !.temps = @ \union all]
<1>2. all \in VehicleSets /\ Past(all, time) /\ looked.temps = {}
  BY <1>1 DEF Past, Row
<1>3. same.temps = sent.temps /\ same.end = sent.end /\ same.details = sent.details
  BY DEF Row
<1> HIDE DEF sent, same
<1>4. Subjects(same) = Subjects(sent)
  BY <1>3, SubjectsOfSame
<1> QED
  BY <1>1, <1>2, <1>4 DEF WasSent, sent, same

LEMMA NoRowType == NoRow \in Row
  BY SmallerVehicleSets, StatusesAndDetails DEF NoRow, Row

(* What one step may do to a permit and to what Parkkihubi has of it: nothing but to the *)
(* status, a change that is not followed, a row that is both saved and sent, or a query. *)
StatusOnly(p) ==
    /\ permits'[p] \in Row
    /\ permits'[p].temps = permits[p].temps /\ permits'[p].end = permits[p].end
    /\ permits'[p].details = permits[p].details
    /\ remote'[p] = remote[p]

LeftBehind(p) == permits'[p] \in Row /\ remote'[p] = Stale

SavedAndSent(p) ==
    \E row \in Row : permits'[p] = Synced(row, TRUE) /\ remote'[p] = Subjects(row)

Looked(p) ==
    /\ now' = now
    /\ Past(permits[p].temps, now)
    /\ permits'[p] = [permits[p] EXCEPT !.temps = {}]
    /\ remote'[p] = remote[p]

Moves ==
    /\ permits' = [p \in Permits |-> permits'[p]]
    /\ remote' = [p \in Permits |-> remote'[p]]
    /\ now' \in Nat /\ now <= now'
    /\ \A p \in Permits : StatusOnly(p) \/ LeftBehind(p) \/ SavedAndSent(p) \/ Looked(p)

LEMMA MovesKeepInv ==
  ASSUME IInv, Moves,
         job' = [loop |-> job'.loop, rows |-> job'.rows], job'.rows \in [Permits -> Row]
  PROVE  IInv'
<1>1. ASSUME NEW p \in Permits
      PROVE  permits'[p] \in Row /\ (remote'[p] # Stale => WasSent(permits'[p], remote'[p], now'))
  <2>0. permits[p] \in Row /\ now \in Nat
    BY DEF IInv, TypeOK
  <2>1. CASE StatusOnly(p)
    BY <2>0, <2>1, StillWasSent DEF StatusOnly, IInv, Moves
  <2>2. CASE LeftBehind(p)
    BY <2>2 DEF LeftBehind
  <2>3. CASE SavedAndSent(p)
    BY <2>3, SyncedRow DEF SavedAndSent
  <2>4. CASE Looked(p)
    <3>1. permits'[p] \in Row
      BY <2>0, <2>4, SmallerVehicleSets DEF Looked, Row
    <3> QED
      BY <2>0, <2>4, <3>1, LookedAt DEF Looked, IInv
  <2> QED
    BY <1>1, <2>1, <2>2, <2>3, <2>4 DEF Moves
<1>2. permits' \in [Permits -> Row]
  BY <1>1 DEF Moves
<1>3. TypeOK'
  BY <1>2 DEF Moves, TypeOK
<1> QED
  BY <1>1, <1>3 DEF IInv

LEMMA Unchanged ==
  ASSUME IInv, NEW p \in Permits, permits'[p] = permits[p], remote'[p] = remote[p]
  PROVE  StatusOnly(p)
BY DEF StatusOnly, IInv, TypeOK

(* A transaction that writes the rows "changed". *)
LEMMA CommitsOrIsCut ==
  ASSUME IInv, NEW order, NEW changed \in [Permits -> Row],
         Transaction(order, LAMBDA p : changed[p])
  PROVE  IInv'
<1>1. PICK sent \in 1..Len(order), answered \in BOOLEAN :
        LET reached == {order[i] : i \in 1..sent}
            committed == sent = Len(order) /\ answered
        IN  /\ remote' = [p \in Permits |-> IF p \notin reached THEN remote[p]
                                            ELSE IF committed THEN Subjects(changed[p]) ELSE Stale]
            /\ permits' = [p \in Permits |-> IF committed /\ p \in reached THEN Synced(changed[p], TRUE)
                                             ELSE permits[p]]
            /\ UNCHANGED <<now, job>>
  BY DEF Transaction
<1> DEFINE reached == {order[i] : i \in 1..sent}
           committed == sent = Len(order) /\ answered
<1>2. /\ remote' = [p \in Permits |-> IF p \notin reached THEN remote[p]
                                      ELSE IF committed THEN Subjects(changed[p]) ELSE Stale]
      /\ permits' = [p \in Permits |-> IF committed /\ p \in reached THEN Synced(changed[p], TRUE)
                                       ELSE permits[p]]
      /\ job' = job /\ now' = now
  BY <1>1
<1> HIDE DEF reached, committed
<1>3. ASSUME NEW p \in Permits PROVE StatusOnly(p) \/ LeftBehind(p) \/ SavedAndSent(p)
  <2>1. CASE p \notin reached
    BY <1>2, <2>1, Unchanged
  <2>2. CASE p \in reached /\ committed
    BY <1>2, <2>2 DEF SavedAndSent
  <2>3. CASE p \in reached /\ ~committed
    BY <1>2, <2>3 DEF LeftBehind, IInv, TypeOK
  <2> QED
    BY <2>1, <2>2, <2>3
<1>4. Moves
  BY <1>2, <1>3 DEF Moves, IInv, TypeOK
<1> QED
  BY <1>2, <1>4, MovesKeepInv DEF IInv, TypeOK

LEMMA InitInv == Init => IInv
<1> SUFFICES ASSUME Init PROVE IInv
  OBVIOUS
<1>1. permits \in [Permits -> Row]
  <2>1. \A end \in 1..Horizon : end \in Nat
    OBVIOUS
  <2> QED
    BY <2>1, SmallerVehicleSets, StatusesAndDetails DEF Init, Row
<1>2. now \in Nat /\ job = Idle /\ Idle.rows \in [Permits -> Row] /\ Idle = [loop |-> Idle.loop, rows |-> Idle.rows]
  BY NoRowType DEF Init, Idle
<1>3. ASSUME NEW p \in Permits, remote[p] # Stale PROVE WasSent(permits[p], remote[p], now)
  <2>1. permits[p] \in Row /\ permits[p].synced /\ remote[p] = Subjects(permits[p])
    BY <1>1, <1>3 DEF Init
  <2>2. Synced(permits[p], TRUE) = permits[p]
    BY <2>1 DEF Synced, Row
  <2> QED
    BY <2>1, <2>2, SyncedRow
<1>4. remote = [p \in Permits |-> remote[p]]
  BY DEF Init
<1> QED
  BY <1>1, <1>2, <1>3, <1>4 DEF IInv, TypeOK

LEMMA SendingInv == IInv /\ SendingNext => IInv'
<1> SUFFICES ASSUME IInv, SendingNext PROVE IInv'
  OBVIOUS
<1>0. /\ permits \in [Permits -> Row]
      /\ \A p \in Permits : permits[p] \in Row
      /\ \A end \in Times : end \in Nat
  BY DEF IInv, TypeOK, Times
<1>1. ASSUME NEW ps \in SUBSET Permits, NEW end \in Times, EndPermits(ps, end)
      PROVE  IInv'
  <2> DEFINE change(q) == [permits[q] EXCEPT !.status = "CLOSED", !.end = end, !.temps = {}]
         changed == [q \in Permits |-> change(q)]
  <2>1. PICK order : Transaction(order, LAMBDA q : change(q))
    BY <1>1 DEF EndPermits
  <2>2. ASSUME NEW q \in Permits PROVE change(q) \in Row
    BY <1>0, ChangedRow, SmallerVehicleSets, StatusesAndDetails
  <2> HIDE DEF change
  <2>3. Transaction(order, LAMBDA q : changed[q])
    BY <2>1 DEF Transaction
  <2>4. changed \in [Permits -> Row]
    BY <2>2
  <2> HIDE DEF changed
  <2> QED
    BY <2>3, <2>4, CommitsOrIsCut
<1>2. ASSUME NEW p \in Permits, NEW end \in Times, EndAfterPeriod(p, end)
      PROVE  IInv'
  <2> DEFINE change(q) == [permits[q] EXCEPT !.end = end]
         changed == [q \in Permits |-> change(q)]
  <2>1. PICK order : Transaction(order, LAMBDA q : change(q))
    BY <1>2 DEF EndAfterPeriod
  <2>2. ASSUME NEW q \in Permits PROVE change(q) \in Row
    BY <1>0, SmallerVehicleSets, StatusesAndDetails DEF Row
  <2> HIDE DEF change
  <2>3. Transaction(order, LAMBDA q : changed[q])
    BY <2>1 DEF Transaction
  <2>4. changed \in [Permits -> Row]
    BY <2>2
  <2> HIDE DEF changed
  <2> QED
    BY <2>3, <2>4, CommitsOrIsCut
<1>3. ASSUME NEW ps \in SUBSET Permits, NEW paid \in Payments, PaymentPaid(ps, paid)
      PROVE  IInv'
  <2> DEFINE changed == [q \in Permits |-> PaidFor(q, paid)]
  <2>1. PICK order : Transaction(order, LAMBDA q : PaidFor(q, paid))
    BY <1>3 DEF PaymentPaid
  <2>2. ASSUME NEW q \in Permits PROVE PaidFor(q, paid) \in Row
    <3>1. paid[q].end \in Nat /\ paid[q].details \in AnyDetails
      BY <1>0, StatusesAndDetails DEF Payments
    <3> QED
      BY <1>0, <3>1, PaidRow, StatusesAndDetails DEF PaidFor
  <2>3. Transaction(order, LAMBDA q : changed[q])
    BY <2>1 DEF Transaction
  <2>4. changed \in [Permits -> Row]
    BY <2>2
  <2> HIDE DEF changed
  <2> QED
    BY <2>3, <2>4, CommitsOrIsCut
<1>4. ASSUME NEW p \in Permits, NEW status \in Statuses, NEW d \in Details, UpdatePermit(p, status, d)
      PROVE  IInv'
  <2> DEFINE change(q) == [permits[q] EXCEPT !.status = status, !.details = d]
         changed == [q \in Permits |-> change(q)]
  <2>1. PICK order : Transaction(order, LAMBDA q : change(q))
    BY <1>4 DEF UpdatePermit
  <2>2. ASSUME NEW q \in Permits PROVE change(q) \in Row
    BY <1>0, UpdatedRow, StatusesAndDetails
  <2> HIDE DEF change
  <2>3. Transaction(order, LAMBDA q : changed[q])
    BY <2>1 DEF Transaction
  <2>4. changed \in [Permits -> Row]
    BY <2>2
  <2> HIDE DEF changed
  <2> QED
    BY <2>3, <2>4, CommitsOrIsCut
<1>5. ASSUME NEW p \in Permits, RemoveTemporaryVehicle(p)
      PROVE  IInv'
  <2> DEFINE change(q) == [permits[q] EXCEPT !.temps = {}]
         changed == [q \in Permits |-> change(q)]
  <2>1. PICK order : Transaction(order, LAMBDA q : change(q))
    BY <1>5 DEF RemoveTemporaryVehicle
  <2>2. ASSUME NEW q \in Permits PROVE change(q) \in Row
    BY <1>0, SmallerVehicleSets, StatusesAndDetails DEF Row
  <2> HIDE DEF change
  <2>3. Transaction(order, LAMBDA q : changed[q])
    BY <2>1 DEF Transaction
  <2>4. changed \in [Permits -> Row]
    BY <2>2
  <2> HIDE DEF changed
  <2> QED
    BY <2>3, <2>4, CommitsOrIsCut
<1>6. ASSUME NEW p \in Permits, NEW v \in TemporaryVehicles(permits[p]), AddTemporaryVehicle(p, v)
      PROVE  IInv'
  <2>0. v \in TemporaryVehicle
    <3>1. PICK from, to \in now..Horizon :
            v = [from |-> from, to |-> Least(Greatest(to, from + 1), permits[p].end)]
      BY DEF TemporaryVehicles
    <3>2. permits[p].end \in Nat /\ from \in Nat /\ to \in Nat
      BY <1>0 DEF Row, IInv, TypeOK
    <3> QED
      BY <3>1, <3>2 DEF Least, Greatest, TemporaryVehicle
  <2> DEFINE change(q) == [permits[q] EXCEPT !.temps = @ \union {v}]
         changed == [q \in Permits |-> change(q)]
  <2>1. PICK order : Transaction(order, LAMBDA q : change(q))
    BY <1>6 DEF AddTemporaryVehicle
  <2>2. ASSUME NEW q \in Permits PROVE change(q) \in Row
    BY <1>0, <2>0, SmallerVehicleSets DEF Row
  <2> HIDE DEF change
  <2>3. Transaction(order, LAMBDA q : changed[q])
    BY <2>1 DEF Transaction
  <2>4. changed \in [Permits -> Row]
    BY <2>2
  <2> HIDE DEF changed
  <2> QED
    BY <2>3, <2>4, CommitsOrIsCut
<1> QED
  BY <1>1, <1>2, <1>3, <1>4, <1>5, <1>6 DEF SendingNext

(* A step that changes one permit. *)
LEMMA OneIsChanged ==
  ASSUME IInv, NEW p \in Permits, now' = now,
         job' = [loop |-> job'.loop, rows |-> job'.rows], job'.rows \in [Permits -> Row],
         permits' = [permits EXCEPT ![p] = permits'[p]], remote' = [remote EXCEPT ![p] = remote'[p]],
         StatusOnly(p) \/ LeftBehind(p) \/ SavedAndSent(p) \/ Looked(p)
  PROVE  IInv'
<1>1. ASSUME NEW q \in Permits, q # p PROVE StatusOnly(q)
  <2>1. permits'[q] = permits[q] /\ remote'[q] = remote[q]
    BY <1>1 DEF IInv, TypeOK
  <2> QED
    BY <2>1, Unchanged
<1>2. permits' = [q \in Permits |-> permits'[q]] /\ remote' = [q \in Permits |-> remote'[q]]
  BY DEF IInv, TypeOK
<1>3. Moves
  BY <1>1, <1>2 DEF Moves, IInv, TypeOK
<1> QED
  BY <1>3, MovesKeepInv

LEMMA UnsentInv == IInv /\ UnsentNext => IInv'
<1> SUFFICES ASSUME IInv, UnsentNext PROVE IInv'
  OBVIOUS
<1>0. permits \in [Permits -> Row] /\ remote = [p \in Permits |-> remote[p]]
  BY DEF IInv, TypeOK
<1>1. ASSUME NEW p \in Permits, PaymentStarts(p) \/ PaymentCancelled(p) PROVE IInv'
  <2>1. PICK status \in Statuses : permits' = [permits EXCEPT ![p].status = status]
    BY <1>1 DEF PaymentStarts, PaymentCancelled, Statuses
  <2>2. UNCHANGED <<now, remote, job>>
    BY <1>1 DEF PaymentStarts, PaymentCancelled
  <2>3. permits' = [permits EXCEPT ![p] = permits'[p]] /\ remote' = [remote EXCEPT ![p] = remote'[p]]
    BY <1>0, <2>1, <2>2
  <2>4. StatusOnly(p)
    BY <1>0, <2>1, <2>2, StatusesAndDetails DEF StatusOnly, Row
  <2> QED
    BY <2>2, <2>3, <2>4, OneIsChanged DEF IInv, TypeOK
<1>2. ASSUME NEW p \in Permits, NEW end \in Times, ToggledEnd(p, end) PROVE IInv'
  <2>1. permits' = [permits EXCEPT ![p] = permits'[p]] /\ remote' = [remote EXCEPT ![p] = remote'[p]]
    BY <1>0, <1>2 DEF ToggledEnd
  <2>2. LeftBehind(p)
    BY <1>0, <1>2 DEF ToggledEnd, LeftBehind, Row, Times
  <2> QED
    BY <1>2, <2>1, <2>2, OneIsChanged DEF ToggledEnd, IInv, TypeOK
<1>3. ASSUME NEW p \in Permits, NEW d \in Details, MovedUnsent(p, d) PROVE IInv'
  <2>1. permits' = [permits EXCEPT ![p] = permits'[p]] /\ remote' = [remote EXCEPT ![p] = remote'[p]]
    BY <1>0, <1>3, StatusesAndDetails DEF MovedUnsent
  <2>2. LeftBehind(p)
    BY <1>0, <1>3, StatusesAndDetails DEF MovedUnsent, LeftBehind, Row
  <2> QED
    BY <1>3, <2>1, <2>2, OneIsChanged DEF MovedUnsent, IInv, TypeOK
<1>4. ASSUME NEW p \in Permits, LookAtPermit(p) PROVE IInv'
  <2> DEFINE active == {t \in permits[p].temps : ~IsOver(t)}
  <2>1. /\ permits' = [permits EXCEPT ![p].temps = active]
        /\ remote' = [remote EXCEPT ![p] = IF active \in {{}, permits[p].temps} THEN @ ELSE Stale]
        /\ UNCHANGED <<now, job>>
    BY <1>4 DEF LookAtPermit
  <2>2. permits' = [permits EXCEPT ![p] = permits'[p]] /\ remote' = [remote EXCEPT ![p] = remote'[p]]
    BY <1>0, <2>1
  <2>3. permits[p] \in Row /\ active \in VehicleSets
    <3>1. active \in SUBSET permits[p].temps
      OBVIOUS
    <3> HIDE DEF active
    <3> QED
      BY <1>0, <3>1, SmallerVehicleSets DEF Row
  <2>4. CASE active = {}
    <3>1. Past(permits[p].temps, now)
      BY <2>4 DEF Past, IsOver
    <3>2. Looked(p)
      BY <1>0, <2>1, <2>4, <3>1 DEF Looked
    <3> QED
      BY <2>1, <2>2, <3>2, OneIsChanged DEF IInv, TypeOK
  <2>5. CASE active # {} /\ active = permits[p].temps
    <3> HIDE DEF active
    <3>1. StatusOnly(p)
      BY <1>0, <2>1, <2>3, <2>5 DEF StatusOnly, Row
    <3> QED
      BY <2>1, <2>2, <3>1, OneIsChanged DEF IInv, TypeOK
  <2>6. CASE active # {} /\ active # permits[p].temps
    <3> HIDE DEF active
    <3>1. LeftBehind(p)
      BY <1>0, <2>1, <2>3, <2>6 DEF LeftBehind, Row
    <3> QED
      BY <2>1, <2>2, <3>1, OneIsChanged DEF IInv, TypeOK
  <2> QED
    BY <2>4, <2>5, <2>6
<1> QED
  BY <1>1, <1>2, <1>3, <1>4 DEF UnsentNext

LEMMA AnsweredInv ==
  ASSUME IInv, NEW p \in Permits, NEW temps \in VehicleSets, Answered(p, temps)
  PROVE  IInv'
<1> DEFINE row == [job.rows[p] EXCEPT !.temps = temps]
<1>1. row \in Row
  BY DEF IInv, TypeOK, Row
<1>2. /\ remote' = [remote EXCEPT ![p] = Subjects(row)]
      /\ permits' = [permits EXCEPT ![p] = Synced(row, TRUE)]
      /\ job' = [job EXCEPT !.rows[p] = NoRow]
      /\ now' = now
  BY DEF Answered, Processed
<1> HIDE DEF row
<1>3. SavedAndSent(p)
  BY <1>1, <1>2 DEF SavedAndSent, IInv, TypeOK
<1>4. permits' = [permits EXCEPT ![p] = permits'[p]] /\ remote' = [remote EXCEPT ![p] = remote'[p]]
  BY <1>2 DEF IInv, TypeOK
<1>5. job' = [loop |-> job'.loop, rows |-> job'.rows] /\ job'.rows \in [Permits -> Row]
  BY <1>2, NoRowType DEF IInv, TypeOK
<1> QED
  BY <1>2, <1>3, <1>4, <1>5, OneIsChanged

LEMMA FailedInv ==
  ASSUME IInv, NEW p \in Permits, NEW temps \in VehicleSets, Failed(p, temps)
  PROVE  IInv'
<1>1. /\ remote' = [remote EXCEPT ![p] = Stale]
      /\ permits' = [permits EXCEPT ![p].temps = temps]
      /\ job' = Idle
      /\ now' = now
  BY DEF Failed
<1>2. LeftBehind(p)
  BY <1>1 DEF LeftBehind, IInv, TypeOK, Row
<1>3. permits' = [permits EXCEPT ![p] = permits'[p]] /\ remote' = [remote EXCEPT ![p] = remote'[p]]
  BY <1>1 DEF IInv, TypeOK
<1>4. job' = [loop |-> job'.loop, rows |-> job'.rows] /\ job'.rows \in [Permits -> Row]
  BY <1>1, NoRowType DEF Idle
<1> QED
  BY <1>1, <1>2, <1>3, <1>4, OneIsChanged

LEMMA JobInv == IInv /\ JobNext => IInv'
<1> SUFFICES ASSUME IInv, JobNext PROVE IInv'
  OBVIOUS
<1>1. \A p \in Permits : permits[p].temps \in VehicleSets
  BY DEF IInv, TypeOK, Row
<1>2. CASE ReadTemporaryVehicles \/ ReadUnsynced \/ JobEnds
  <2>1. UNCHANGED <<now, permits, remote>>
    BY <1>2 DEF ReadTemporaryVehicles, ReadUnsynced, JobEnds
  <2>2. ASSUME NEW loop, NEW ps PROVE
          /\ ReadRows(loop, ps) = [loop |-> ReadRows(loop, ps).loop, rows |-> ReadRows(loop, ps).rows]
          /\ ReadRows(loop, ps).rows \in [Permits -> Row]
    <3>1. ASSUME NEW p \in Permits PROVE [permits[p] EXCEPT !.temps = {}, !.synced = FALSE] \in Row
      <4>1. permits[p] \in Row
        BY DEF IInv, TypeOK
      <4> QED
        BY <4>1, RowAsRead, SmallerVehicleSets
    <3> QED
      BY <3>1, NoRowType DEF ReadRows
  <2>3. Idle = [loop |-> Idle.loop, rows |-> Idle.rows] /\ Idle.rows \in [Permits -> Row]
    BY NoRowType DEF Idle
  <2>4. job' = Idle \/ \E loop, ps : job' = ReadRows(loop, ps)
    BY <1>2 DEF ReadTemporaryVehicles, ReadUnsynced, JobEnds
  <2>5. job' = [loop |-> job'.loop, rows |-> job'.rows] /\ job'.rows \in [Permits -> Row]
    BY <2>2, <2>3, <2>4
  <2>6. Moves
    <3>1. \A p \in Permits : StatusOnly(p)
      BY <2>1, Unchanged
    <3> QED
      BY <2>1, <3>1 DEF Moves, IInv, TypeOK
  <2> QED
    BY <2>5, <2>6, MovesKeepInv
<1>3. ASSUME NEW p \in Permits, DeactivateTemporaryVehicle(p) \/ SendUnsynced(p) \/ FailToSend(p)
      PROVE  IInv'
  BY <1>1, <1>3, SmallerVehicleSets, AnsweredInv, FailedInv DEF DeactivateTemporaryVehicle, SendUnsynced, FailToSend
<1> QED
  BY <1>2, <1>3 DEF JobNext

(* What Parkkihubi has of a permit, if it is followed, was sent of its row, save for     *)
(* temporary vehicles that are over; and the rows, those the job holds included, have    *)
(* finitely many temporary vehicles.                                                     *)
THEOREM InvariantHolds == Spec => []IInv
<1>1. IInv /\ [Next]_vars => IInv'
  <2> SUFFICES ASSUME IInv, [Next]_vars PROVE IInv'
    OBVIOUS
  <2>1. CASE TimePasses \/ UNCHANGED vars
    <3>1. UNCHANGED <<permits, remote, job>> /\ now' \in Nat /\ now <= now'
      BY <2>1 DEF TimePasses, vars, IInv, TypeOK
    <3>2. \A p \in Permits : StatusOnly(p)
      BY <3>1, Unchanged
    <3>3. Moves
      BY <3>1, <3>2 DEF Moves, IInv, TypeOK
    <3> QED
      BY <3>1, <3>3, MovesKeepInv DEF IInv, TypeOK
  <2> QED
    BY <2>1, SendingInv, UnsentInv, JobInv DEF Next, HandlerNext
<1> QED
  BY InitInv, <1>1, PTL DEF Spec

(***************************************************************************)
(* One vehicle at a time                                                   *)
(***************************************************************************)
(* A least counterexample stands in for an induction. *)
LEMMA LeastExists ==
  ASSUME NEW T \in SUBSET Nat, T # {}
  PROVE  \E m \in T : \A x \in T : m <= x
<1> DEFINE R == OpToRel(<, Nat)
<1>1. IsWellFoundedOn(R, Nat)
  BY NatLessThanWellFounded
<1>2. PICK m \in T : \A x \in T : <<x, m>> \notin R
  <2> HIDE DEF R
  <2> QED
    BY <1>1, WFMin
<1>3. ASSUME NEW x \in T PROVE m <= x
  <2>1. x < m => <<x, m>> \in R
    BY DEF OpToRel
  <2>2. ~(x < m)
    BY <1>2, <2>1
  <2> QED
    BY <2>2
<1> QED
  BY <1>2, <1>3

LEMMA GreatestExists ==
  ASSUME NEW n \in Nat, NEW T \in SUBSET (0..n), T # {}
  PROVE  \E m \in T : \A x \in T : x <= m
<1> DEFINE U == {n - x : x \in T}
<1>1. U \in SUBSET Nat /\ U # {}
  <2>1. \A x \in T : n - x \in Nat
    OBVIOUS
  <2> QED
    BY <2>1
<1>2. PICK k \in U : \A u \in U : k <= u
  <2> HIDE DEF U
  <2> QED
    BY <1>1, LeastExists
<1>3. PICK m \in T : k = n - m
  OBVIOUS
<1>4. ASSUME NEW x \in T PROVE x <= m
  <2>1. n - m <= n - x
    BY <1>2, <1>3
  <2> QED
    BY <2>1
<1> QED
  BY <1>4

(* What order_by("start_time") promises. *)
IsOrdering(s, temps) ==
    /\ s \in [1..Cardinality(temps) -> temps]
    /\ \A t \in temps : \E i \in 1..Cardinality(temps) : s[i] = t
    /\ \A i, j \in 1..Cardinality(temps) : i < j => s[i].from <= s[j].from

(* One more vehicle that starts after all the others. *)
LEMMA OneMoreVehicle ==
  ASSUME NEW U, IsFiniteSet(U), NEW x \in U, U \in SUBSET TemporaryVehicle,
         \A t \in U : t.from <= x.from,
         \E s : IsOrdering(s, U \ {x})
  PROVE  \E s : IsOrdering(s, U)
<1> DEFINE n == Cardinality(U)
           V == U \ {x}
<1>1. n \in Nat /\ n > 0 /\ Cardinality(V) = n - 1
  <2>1. Cardinality(V) = n - 1 /\ IsFiniteSet(V)
    BY FS_RemoveElement
  <2> QED
    BY <2>1, FS_CardinalityType
<1>2. PICK s : IsOrdering(s, V)
  OBVIOUS
<1> HIDE DEF n
<1> DEFINE t == [i \in 1..n |-> IF i = n THEN x ELSE s[i]]
<1>3. \A i \in 1..n : i = n \/ i \in 1..(n - 1)
  BY <1>1
<1>4. /\ \A i \in 1..(n - 1) : s[i] \in V
      /\ \A v \in V : \E i \in 1..(n - 1) : s[i] = v
      /\ \A i, j \in 1..(n - 1) : i < j => s[i].from <= s[j].from
  BY <1>1, <1>2 DEF IsOrdering
<1>5. t \in [1..n -> U]
  BY <1>3, <1>4
<1>6. ASSUME NEW v \in U PROVE \E i \in 1..n : t[i] = v
  <2>1. CASE v = x
    BY <1>1, <2>1
  <2>2. CASE v # x
    <3>1. PICK i \in 1..(n - 1) : s[i] = v
      BY <1>4, <2>2
    <3>2. i \in 1..n /\ i # n
      BY <1>1
    <3> QED
      BY <3>1, <3>2
  <2> QED
    BY <2>1, <2>2
<1>7. ASSUME NEW i \in 1..n, NEW j \in 1..n, i < j PROVE t[i].from <= t[j].from
  <2>1. i \in 1..(n - 1) /\ t[i] = s[i] /\ s[i] \in U
    BY <1>1, <1>4, <1>7
  <2>2. CASE j = n
    BY <2>1, <2>2
  <2>3. CASE j # n
    <3>1. j \in 1..(n - 1) /\ t[j] = s[j]
      BY <1>1, <2>3
    <3> QED
      BY <1>4, <1>7, <2>1, <3>1
  <2> QED
    BY <2>2, <2>3
<1> HIDE DEF t
<1> QED
  BY <1>5, <1>6, <1>7 DEF IsOrdering, n

LEMMA OrderingExists ==
  ASSUME NEW T \in VehicleSets, NEW end \in Nat, \A t \in T : t.from <= end
  PROVE  \E s : IsOrdering(s, T)
<1> DEFINE Bad(n) == \E U \in SUBSET T : Cardinality(U) = n /\ ~\E s : IsOrdering(s, U)
           B == {n \in Nat : Bad(n)}
<1>0. /\ \A U \in SUBSET T : IsFiniteSet(U) /\ Cardinality(U) \in Nat
      /\ T \in SUBSET TemporaryVehicle
  BY FS_Subset, FS_CardinalityType DEF VehicleSets
<1> SUFFICES ASSUME B # {} PROVE FALSE
  <2>1. B = {} => ~Bad(Cardinality(T))
    BY <1>0
  <2> QED
    BY <2>1
<1>1. PICK n \in B : \A k \in B : n <= k
  <2>1. B \in SUBSET Nat
    OBVIOUS
  <2> HIDE DEF B
  <2> QED
    BY <2>1, LeastExists
<1>2. PICK U \in SUBSET T : Cardinality(U) = n /\ ~\E s : IsOrdering(s, U)
  OBVIOUS
<1>3. U # {}
  <2>1. ASSUME U = {} PROVE IsOrdering([i \in 1..0 |-> 0], U)
    <3>1. Cardinality(U) = 0
      BY <2>1, FS_EmptySet
    <3>2. 1..0 = {}
      OBVIOUS
    <3> QED
      BY <2>1, <3>1, <3>2 DEF IsOrdering
  <2> QED
    BY <1>2, <2>1
<1>4. PICK x \in U : \A t \in U : t.from <= x.from
  <2> DEFINE starts == {t.from : t \in U}
  <2>1. starts \in SUBSET (0..end) /\ starts # {}
    <3>1. \A t \in U : t.from \in 0..end
      BY <1>0 DEF TemporaryVehicle
    <3> QED
      BY <1>3, <3>1
  <2>2. PICK m \in starts : \A k \in starts : k <= m
    <3> HIDE DEF starts
    <3> QED
      BY <2>1, GreatestExists
  <2> QED
    BY <2>2
<1>5. Cardinality(U \ {x}) = n - 1 /\ n - 1 \in Nat /\ U \ {x} \in SUBSET T
  <2>1. Cardinality(U \ {x}) = n - 1
    BY <1>0, <1>2, FS_RemoveElement
  <2> QED
    BY <1>0, <2>1
<1>6. \E s : IsOrdering(s, U \ {x})
  <2>1. n - 1 \notin B
    BY <1>1, <1>5
  <2> QED
    BY <1>5, <2>1
<1> QED
  BY <1>0, <1>2, <1>4, <1>6, OneMoreVehicle

LEMMA OrderedByStartIsOrdering ==
  ASSUME NEW T \in VehicleSets, NEW end \in Nat, \A t \in T : t.from <= end
  PROVE  IsOrdering(OrderedByStart(T), T)
<1>1. PICK s : IsOrdering(s, T)
  BY OrderingExists
<1>2. \E r \in [1..Cardinality(T) -> T] :
        /\ \A t \in T : \E i \in DOMAIN r : r[i] = t
        /\ \A i, j \in DOMAIN r : i < j => r[i].from <= r[j].from
  BY <1>1 DEF IsOrdering
<1> QED
  BY <1>2 DEF IsOrdering, OrderedByStart

(* The subjects before and after they are shortened: in order, and within the permit. *)
SubjectRow == [from : Nat, to : Nat, vehicle : AnyDetails \union {"temporary"}]

LEMMA PlannedInOrder ==
  ASSUME NEW row \in Row
  PROVE  LET planned == Planned(row)
             N == Len(planned)
         IN  /\ planned \in Seq(SubjectRow) /\ N \in Nat /\ N >= 1
             /\ planned[1] = Subject(0, row.end, row.details)
             /\ \A i \in 1..N : planned[i].from <= row.end /\ planned[i].to <= row.end
             /\ \A i \in 1..N : i > 1 => \E v \in row.temps : planned[i].to <= v.to
             /\ (\A v \in row.temps : v.from <= v.to) => \A i \in 1..N : planned[i].from <= planned[i].to
             /\ \A i, j \in 1..N : i < j => planned[i].from <= planned[j].from
<1> DEFINE T == {t \in row.temps : t.from <= row.end}
           n == Cardinality(T)
           s == OrderedByStart(T)
           own == <<Subject(0, row.end, row.details)>>
           rest == [i \in 1..n |-> Subject(s[i].from, Least(s[i].to, row.end), "temporary")]
           planned == Planned(row)
<1>1. /\ row.end \in Nat /\ T \in VehicleSets /\ n \in Nat /\ T \in SUBSET TemporaryVehicle
      /\ row.details \in AnyDetails
  <2>1. row.temps \in VehicleSets /\ row.end \in Nat /\ row.details \in AnyDetails
    BY DEF Row
  <2>2. IsFiniteSet(T)
    BY <2>1, FS_Subset DEF VehicleSets
  <2> QED
    BY <2>1, <2>2, FS_CardinalityType DEF VehicleSets
<1>2. IsOrdering(s, T)
  <2>1. \A t \in T : t.from <= row.end
    OBVIOUS
  <2> HIDE DEF T
  <2> QED
    BY <1>1, <2>1, OrderedByStartIsOrdering
<1>3. \A i \in 1..n : s[i] \in T
  BY <1>2 DEF IsOrdering
<1>4. /\ s \in Seq(T) /\ Len(s) = n
  <2> HIDE DEF s, T
  <2>1. s \in [1..n -> T]
    BY <1>2 DEF IsOrdering
  <2> HIDE DEF n
  <2> QED
    BY <1>1, <2>1
<1>5. planned = own \o rest
  <2> HIDE DEF T
  <2>1. planned = own \o [i \in 1..Len(s) |-> Subject(s[i].from, Least(s[i].to, row.end), "temporary")]
    BY DEF Planned, T
  <2> QED
    BY <1>4, <2>1
<1> HIDE DEF s, n, planned
<1>6. ASSUME NEW i \in 1..n
      PROVE  /\ rest[i] \in SubjectRow /\ rest[i].from = s[i].from
             /\ rest[i].from <= row.end /\ rest[i].to <= row.end /\ rest[i].to <= s[i].to
             /\ s[i].from <= s[i].to => rest[i].from <= rest[i].to
  <2>1. s[i].from \in Nat /\ s[i].to \in Nat /\ s[i].from <= row.end
    BY <1>1, <1>3 DEF TemporaryVehicle
  <2> QED
    BY <1>1, <2>1 DEF Subject, SubjectRow, Least
<1>7. /\ own \in Seq(SubjectRow) /\ Len(own) = 1
      /\ own[1] = Subject(0, row.end, row.details) /\ own[1].from = 0 /\ own[1].to = row.end
  BY <1>1 DEF Subject, SubjectRow
<1>8. rest \in Seq(SubjectRow) /\ Len(rest) = n
  <2>1. rest \in [1..n -> SubjectRow]
    BY <1>6
  <2> HIDE DEF rest
  <2> QED
    BY <1>1, <2>1
<1> HIDE DEF own, rest
<1>9. /\ planned \in Seq(SubjectRow) /\ Len(planned) = n + 1
      /\ \A i \in 1..(n + 1) : planned[i] = IF i <= 1 THEN own[i] ELSE rest[i - 1]
  <2>1. /\ own \o rest \in Seq(SubjectRow) /\ Len(own \o rest) = Len(own) + Len(rest)
        /\ \A i \in 1..(Len(own) + Len(rest)) :
              (own \o rest)[i] = IF i <= Len(own) THEN own[i] ELSE rest[i - Len(own)]
    BY <1>7, <1>8, ConcatProperties
  <2>2. Len(own) + Len(rest) = n + 1 /\ Len(own) = 1
    BY <1>1, <1>7, <1>8
  <2> QED
    BY <1>5, <2>1, <2>2
<1>10. ASSUME NEW i \in 1..(n + 1)
       PROVE  \/ i = 1 /\ planned[i] = own[1]
              \/ i > 1 /\ i - 1 \in 1..n /\ planned[i] = rest[i - 1]
  BY <1>1, <1>9
<1>11. ASSUME NEW i \in 1..(n + 1)
       PROVE  planned[i].from <= row.end /\ planned[i].to <= row.end
  BY <1>1, <1>6, <1>7, <1>10
<1>12. ASSUME NEW i \in 1..(n + 1), NEW j \in 1..(n + 1), i < j
       PROVE  planned[i].from <= planned[j].from
  <2>1. j > 1 /\ j - 1 \in 1..n /\ planned[j] = rest[j - 1]
    BY <1>10, <1>12
  <2>2. CASE i = 1
    <3>1. planned[i].from = 0 /\ rest[j - 1].from \in Nat
      BY <1>6, <1>7, <1>10, <2>1, <2>2, SMTT(30) DEF SubjectRow
    <3> QED
      BY <2>1, <3>1
  <2>3. CASE i # 1
    <3>1. i - 1 \in 1..n /\ planned[i] = rest[i - 1] /\ i - 1 < j - 1
      BY <1>10, <1>12, <2>3
    <3>2. s[i - 1].from <= s[j - 1].from
      BY <1>2, <2>1, <3>1 DEF IsOrdering, n
    <3> QED
      BY <1>6, <2>1, <3>1, <3>2
  <2> QED
    BY <2>2, <2>3
<1>13. planned[1] = Subject(0, row.end, row.details)
  BY <1>1, <1>7, <1>9
<1>14. ASSUME NEW i \in 1..(n + 1), i > 1
       PROVE  \E v \in row.temps : planned[i].to <= v.to
  <2>1. i - 1 \in 1..n /\ planned[i] = rest[i - 1]
    BY <1>10, <1>14
  <2>2. s[i - 1] \in row.temps
    BY <1>3, <2>1
  <2> QED
    BY <1>6, <2>1, <2>2
<1>15. ASSUME \A v \in row.temps : v.from <= v.to, NEW i \in 1..(n + 1)
       PROVE  planned[i].from <= planned[i].to
  <2>1. CASE i = 1
    BY <1>1, <1>7, <1>10, <2>1
  <2>2. CASE i > 1
    <3>1. i - 1 \in 1..n /\ planned[i] = rest[i - 1]
      BY <1>10, <2>2
    <3>2. s[i - 1].from <= s[i - 1].to
      BY <1>3, <1>15, <3>1
    <3> QED
      BY <1>6, <3>1, <3>2
  <2> QED
    BY <1>1, <2>1, <2>2
<1> QED
  BY <1>1, <1>9, <1>11, <1>12, <1>13, <1>14, <1>15 DEF planned

LEMMA ShortenedInOrder ==
  ASSUME NEW row \in Row
  PROVE  LET subjects == Shortened(row)
             N == Len(subjects)
         IN  /\ subjects \in Seq(SubjectRow) /\ N \in Nat /\ N >= 1
             /\ subjects[1].from = 0 /\ subjects[1].vehicle = row.details
             /\ subjects[1].to = IF N = 1 THEN row.end ELSE subjects[2].from
             /\ \A i \in 1..N : subjects[i].from <= row.end /\ subjects[i].to <= row.end
             /\ \A i \in 1..N : i > 1 => \E v \in row.temps : subjects[i].to <= v.to
             /\ (\A v \in row.temps : v.from <= v.to) => \A i \in 1..N : subjects[i].from <= subjects[i].to
             /\ \A i, j \in 1..N : i < j => subjects[i].to <= subjects[j].from
             /\ \A i, j \in 1..N : i < j => subjects[i].from <= subjects[j].from
<1> DEFINE planned == Planned(row)
           N == Len(planned)
           subjects == Shortened(row)
           sound == \A v \in row.temps : v.from <= v.to
<1>1. /\ planned \in Seq(SubjectRow) /\ N \in Nat /\ N >= 1
      /\ planned[1] = Subject(0, row.end, row.details)
      /\ \A i \in 1..N : planned[i].from <= row.end /\ planned[i].to <= row.end
      /\ \A i \in 1..N : i > 1 => \E v \in row.temps : planned[i].to <= v.to
      /\ sound => \A i \in 1..N : planned[i].from <= planned[i].to
      /\ \A i, j \in 1..N : i < j => planned[i].from <= planned[j].from
  BY PlannedInOrder
<1>2. subjects = [i \in 1..N |->
                    IF i < N /\ planned[i].to > planned[i + 1].from
                    THEN [planned[i] EXCEPT !.to = planned[i + 1].from] ELSE planned[i]]
  BY DEF Shortened
<1> HIDE DEF planned, subjects, sound
<1>3. \A i \in 1..N : planned[i] \in SubjectRow
  BY <1>1
<1> HIDE DEF N
<1>4. ASSUME NEW i \in 1..N
      PROVE  /\ subjects[i] \in SubjectRow /\ subjects[i].from = planned[i].from
             /\ subjects[i].vehicle = planned[i].vehicle
             /\ subjects[i].to <= planned[i].to
             /\ sound => subjects[i].from <= subjects[i].to
             /\ i < N => /\ i + 1 \in 1..N
                        /\ subjects[i].to = Least(planned[i].to, planned[i + 1].from)
             /\ ~(i < N) => subjects[i] = planned[i]
  <2>1. CASE i < N
    <3>1. i + 1 \in 1..N /\ i < i + 1
      BY <1>1, <2>1
    <3>2. planned[i] \in SubjectRow /\ planned[i + 1] \in SubjectRow
      BY <1>3, <3>1
    <3>3. planned[i].from <= planned[i + 1].from /\ (sound => planned[i].from <= planned[i].to)
      BY <1>1, <3>1
    <3>4. CASE planned[i].to > planned[i + 1].from
      <4>1. subjects[i] = [planned[i] EXCEPT !.to = planned[i + 1].from]
        BY <1>2, <2>1, <3>4
      <4> QED
        BY <2>1, <3>1, <3>2, <3>3, <3>4, <4>1 DEF SubjectRow, Least
    <3>5. CASE ~(planned[i].to > planned[i + 1].from)
      <4>1. subjects[i] = planned[i]
        BY <1>2, <3>5
      <4> QED
        BY <2>1, <3>1, <3>2, <3>3, <3>5, <4>1 DEF SubjectRow, Least
    <3> QED
      BY <3>4, <3>5
  <2>2. CASE ~(i < N)
    <3>1. subjects[i] = planned[i] /\ planned[i] \in SubjectRow /\ (sound => planned[i].from <= planned[i].to)
      BY <1>1, <1>2, <1>3, <2>2
    <3> QED
      BY <2>2, <3>1 DEF SubjectRow
  <2> QED
    BY <2>1, <2>2
<1>5. subjects \in Seq(SubjectRow) /\ Len(subjects) = N
  <2>1. subjects \in [1..N -> SubjectRow]
    BY <1>2, <1>4
  <2> QED
    BY <1>1, <2>1
<1>6. ASSUME NEW i \in 1..N
      PROVE  /\ subjects[i].from \in Nat /\ subjects[i].to \in Nat
             /\ planned[i].from \in Nat /\ planned[i].to \in Nat
  BY <1>3, <1>4 DEF SubjectRow
<1>7. ASSUME NEW i \in 1..N, NEW j \in 1..N, i < j
      PROVE  subjects[i].to <= subjects[j].from /\ subjects[i].from <= subjects[j].from
  <2>1. i < N /\ i + 1 \in 1..N /\ subjects[i].to <= planned[i + 1].from
    BY <1>1, <1>4, <1>6, <1>7 DEF Least
  <2>2. planned[i + 1].from <= planned[j].from
    <3>1. i + 1 = j \/ i + 1 < j
      BY <1>7
    <3> QED
      BY <1>1, <1>6, <2>1, <3>1
  <2>3. planned[i].from <= planned[j].from
    BY <1>1, <1>7
  <2> QED
    BY <1>4, <1>6, <2>1, <2>2, <2>3
<1>8. subjects[1].from = 0 /\ subjects[1].vehicle = row.details /\ planned[1].to = row.end
  BY <1>1, <1>4 DEF Subject
<1>9. subjects[1].to = IF N = 1 THEN row.end ELSE subjects[2].from
  <2>1. CASE N = 1
    BY <1>1, <1>4, <1>8, <2>1
  <2>2. CASE N # 1
    <3>1. 1 \in 1..N /\ 2 \in 1..N /\ 1 < N /\ 1 + 1 = 2
      BY <1>1, <2>2
    <3>2. subjects[1].to = Least(planned[1].to, planned[2].from) /\ subjects[2].from = planned[2].from
      BY <1>4, <3>1
    <3>3. planned[2].from <= row.end /\ row.end \in Nat /\ planned[2].from \in Nat
      BY <1>1, <1>6, <3>1 DEF Row
    <3> QED
      BY <1>8, <2>2, <3>2, <3>3 DEF Least
  <2> QED
    BY <2>1, <2>2
<1>10. ASSUME NEW i \in 1..N
       PROVE  /\ subjects[i].from <= row.end /\ subjects[i].to <= row.end
              /\ i > 1 => \E v \in row.temps : subjects[i].to <= v.to
  <2>1. subjects[i].from = planned[i].from /\ subjects[i].to <= planned[i].to /\ row.end \in Nat
    BY <1>4 DEF Row
  <2>2. \A v \in row.temps : v.to \in Nat
    BY DEF Row, VehicleSets, TemporaryVehicle
  <2> QED
    BY <1>1, <1>6, <2>1, <2>2
<1> QED
  BY <1>1, <1>4, <1>5, <1>7, <1>8, <1>9, <1>10 DEF subjects, sound

(* Which subjects there are: the shortened ones, the gaps, and the rest. *)
LEMMA LatestEndIsMax ==
  ASSUME NEW subjects \in Seq(SubjectRow), Len(subjects) >= 1, NEW end \in Nat,
         \A i \in 1..Len(subjects) : subjects[i].to <= end
  PROVE  /\ \E i \in 1..Len(subjects) : LatestEnd(subjects) = subjects[i].to
         /\ \A i \in 1..Len(subjects) : subjects[i].to <= LatestEnd(subjects)
<1> DEFINE T == {subjects[i].to : i \in 1..Len(subjects)}
<1>1. T \in SUBSET (0..end) /\ T # {}
  <2>1. \A i \in 1..Len(subjects) : subjects[i].to \in 0..end
    <3>1. \A i \in 1..Len(subjects) : subjects[i] \in SubjectRow
      OBVIOUS
    <3> QED
      BY <3>1 DEF SubjectRow
  <2> QED
    BY <2>1
<1>2. \E m \in T : \A x \in T : x <= m
  <2> HIDE DEF T
  <2> QED
    BY <1>1, GreatestExists
<1>3. \E m \in T : \A i \in 1..Len(subjects) : subjects[i].to <= m
  BY <1>2
<1>4. LatestEnd(subjects) \in T /\ \A i \in 1..Len(subjects) : subjects[i].to <= LatestEnd(subjects)
  BY <1>3 DEF LatestEnd
<1> QED
  BY <1>4

(* Which subjects a row has: the shortened ones, the gaps between them, and the rest. *)
IsSubject(s, row) ==
    LET subjects == Shortened(row)
        N == Len(subjects)
    IN  \/ \E i \in 1..N : s = subjects[i]
        \/ \E i \in 1..(N - 1) :
              /\ subjects[i + 1].from > subjects[i].to
              /\ s = Subject(subjects[i].to, subjects[i + 1].from, row.details)
        \/ /\ LatestEnd(subjects) < row.end
           /\ s = Subject(LatestEnd(subjects), row.end, row.details)

LEMMA SubjectsAre ==
  ASSUME NEW row \in Row
  PROVE  \A s : s \in Subjects(row) <=> IsSubject(s, row)
<1> DEFINE subjects == Shortened(row)
           N == Len(subjects)
           last == LatestEnd(subjects)
           gap(i) == Subject(subjects[i].to, subjects[i + 1].from, row.details)
           rest == Subject(last, row.end, row.details)
<1>1. subjects \in Seq(SubjectRow)
  BY ShortenedInOrder
<1>2. Subjects(row) =
        ToSet(subjects)
          \union {gap(i) : i \in {i \in 1..(N - 1) : subjects[i + 1].from > subjects[i].to}}
          \union (IF last < row.end THEN {rest} ELSE {})
  BY DEF Subjects
<1>3. ToSet(subjects) = {subjects[i] : i \in 1..N}
  <2> HIDE DEF subjects
  <2> QED
    BY <1>1 DEF ToSet
<1>4. \A s : IsSubject(s, row) <=>
         \/ \E i \in 1..N : s = subjects[i]
         \/ \E i \in 1..(N - 1) : subjects[i + 1].from > subjects[i].to /\ s = gap(i)
         \/ last < row.end /\ s = rest
  BY DEF IsSubject
<1> HIDE DEF subjects, N, last, rest
<1> QED
  BY <1>2, <1>3, <1>4

LEMMA OneAtATime ==
  ASSUME NEW row \in Row, \A v \in row.temps : v.from <= v.to, NEW t \in Nat
  PROVE  Cardinality({s \in Subjects(row) : Covers(s, t)}) = IF t < row.end THEN 1 ELSE 0
<1> DEFINE subjects == Shortened(row)
           N == Len(subjects)
           last == LatestEnd(subjects)
           gap(i) == Subject(subjects[i].to, subjects[i + 1].from, row.details)
           rest == Subject(last, row.end, row.details)
           covering == {s \in Subjects(row) : Covers(s, t)}
<1>1. /\ subjects \in Seq(SubjectRow) /\ N \in Nat /\ N >= 1
      /\ subjects[1].from = 0
      /\ \A i \in 1..N : subjects[i].from <= subjects[i].to /\ subjects[i].to <= row.end
      /\ \A i, j \in 1..N : i < j => subjects[i].to <= subjects[j].from
  BY ShortenedInOrder
<1>2. row.end \in Nat
  BY DEF Row
<1>3. /\ \E i \in 1..N : last = subjects[i].to
      /\ \A i \in 1..N : subjects[i].to <= last
  BY <1>1, <1>2, LatestEndIsMax
<1>4. \A s : s \in Subjects(row) <=>
         \/ \E i \in 1..N : s = subjects[i]
         \/ \E i \in 1..(N - 1) : subjects[i + 1].from > subjects[i].to /\ s = gap(i)
         \/ last < row.end /\ s = rest
  BY SubjectsAre DEF IsSubject
<1> HIDE DEF subjects, N
<1>5. \A i \in 1..N : subjects[i].from \in Nat /\ subjects[i].to \in Nat
  <2>1. \A i \in 1..N : subjects[i] \in SubjectRow
    BY <1>1 DEF N
  <2> QED
    BY <2>1 DEF SubjectRow
<1>7. /\ \A i \in 1..(N - 1) : /\ i \in 1..N /\ i + 1 \in 1..N /\ i < i + 1
                             /\ gap(i).from = subjects[i].to /\ gap(i).to = subjects[i + 1].from
      /\ rest.from = last /\ rest.to = row.end /\ last \in Nat
  BY <1>1, <1>3, <1>5 DEF Subject
<1> HIDE DEF gap, rest, last
<1>8. CASE t >= row.end
  <2> SUFFICES ASSUME NEW s \in Subjects(row), Covers(s, t) PROVE FALSE
    <3>1. covering = {} => Cardinality(covering) = 0
      BY FS_EmptySet
    <3> QED
      BY <1>2, <1>8, <3>1
  <2>1. CASE \E i \in 1..N : s = subjects[i]
    BY <1>1, <1>2, <1>5, <1>8, <2>1 DEF Covers
  <2>2. CASE \E i \in 1..(N - 1) : subjects[i + 1].from > subjects[i].to /\ s = gap(i)
    <3>1. PICK i \in 1..(N - 1) : s = gap(i)
      BY <2>2
    <3>2. i + 1 \in 1..N /\ s.to = subjects[i + 1].from
      BY <1>7, <3>1
    <3>3. s.to <= row.end /\ s.to \in Nat
      BY <1>1, <1>2, <1>5, <3>2
    <3> QED
      BY <1>2, <1>8, <3>3 DEF Covers
  <2>3. CASE last < row.end /\ s = rest
    BY <1>2, <1>7, <1>8, <2>3 DEF Covers
  <2> QED
    BY <1>4, <2>1, <2>2, <2>3
<1>9. CASE t < row.end
  <2> SUFFICES \E s : s \in covering /\ \A r \in covering : r = s
    <3>1. \A s : Cardinality({s}) = 1
      BY FS_Singleton
    <3>2. ASSUME NEW s, s \in covering, \A r \in covering : r = s PROVE covering = {s}
      BY <3>2
    <3> HIDE DEF covering
    <3> QED
      BY <1>9, <3>1, <3>2 DEF covering
\* The subject that began last.
  <2> DEFINE begun == {i \in 1..N : subjects[i].from <= t}
  <2>1. PICK k \in begun : \A i \in begun : i <= k
    <3>1. 1 \in begun /\ begun \in SUBSET (0..N)
      BY <1>1
    <3> HIDE DEF begun
    <3> QED
      BY <1>1, <3>1, GreatestExists
  <2>2. /\ k \in 1..N /\ subjects[k].from <= t
        /\ \A i \in 1..N : i > k => subjects[i].from > t /\ subjects[i].to > t
        /\ \A i \in 1..N : i < k => subjects[i].from <= t /\ subjects[i].to <= t
    <3>1. k \in 1..N /\ subjects[k].from <= t
      BY <2>1
    <3>2. ASSUME NEW i \in 1..N, i > k PROVE subjects[i].from > t /\ subjects[i].to > t
      <4>1. ~(subjects[i].from <= t)
        BY <2>1, <3>2
      <4> QED
        BY <1>1, <1>5, <4>1
    <3>3. ASSUME NEW i \in 1..N, i < k PROVE subjects[i].from <= t /\ subjects[i].to <= t
      BY <1>1, <1>5, <3>1, <3>3
    <3> QED
      BY <3>1, <3>2, <3>3
  <2> HIDE DEF begun
\* What covers the moment is the subject that began last, or what fills the time after it.
  <2>3. ASSUME NEW i \in 1..N, Covers(subjects[i], t) PROVE i = k /\ t < subjects[k].to
    BY <1>5, <2>2, <2>3 DEF Covers
  <2>4. ASSUME NEW i \in 1..(N - 1), Covers(gap(i), t) PROVE i = k /\ t >= subjects[k].to
    <3>1. subjects[i].to <= t /\ t < subjects[i + 1].from /\ i + 1 \in 1..N /\ i \in 1..N
      BY <1>7, <2>4 DEF Covers
    <3>2. ~(i > k)
      BY <1>5, <2>2, <3>1
    <3>3. ~(i < k)
      <4>1. ~(i + 1 < k) /\ i + 1 # k
        BY <1>5, <2>2, <3>1
      <4> QED
        BY <2>2, <4>1
    <3>4. i = k
      BY <2>2, <3>2, <3>3
    <3> QED
      BY <1>5, <3>1, <3>4
  <2>5. ASSUME Covers(rest, t) PROVE k = N /\ t >= subjects[k].to
    <3>1. last <= t
      BY <1>7, <2>5 DEF Covers
    <3>2. \A i \in 1..N : subjects[i].to <= t
      BY <1>3, <1>5, <1>7, <3>1
    <3>3. ~(k < N)
      <4> SUFFICES ASSUME k < N PROVE FALSE
        OBVIOUS
      <4>1. k + 1 \in 1..N /\ k + 1 > k
        BY <1>1, <2>2
      <4>2. subjects[k + 1].to > t /\ subjects[k + 1].to <= t /\ subjects[k + 1].to \in Nat
        BY <1>5, <2>2, <3>2, <4>1
      <4> QED
        BY <4>2
    <3> QED
      BY <1>1, <1>5, <2>2, <3>2, <3>3
  <2>6. CASE t < subjects[k].to
    <3>1. subjects[k] \in covering
      BY <1>4, <2>2, <2>6 DEF Covers
    <3>2. ASSUME NEW r \in covering PROVE r = subjects[k]
      <4>1. ~(t >= subjects[k].to)
        BY <1>5, <2>2, <2>6
      <4> QED
        BY <1>4, <2>3, <2>4, <2>5, <3>2, <4>1
    <3> HIDE DEF covering
    <3> QED
      BY <3>1, <3>2
  <2>7. CASE t >= subjects[k].to /\ k < N
    <3>0. k \in 1..(N - 1) /\ k + 1 \in 1..N /\ k + 1 > k
      BY <1>1, <2>2, <2>7
    <3>1. gap(k) \in covering
      <4>1. t < subjects[k + 1].from /\ subjects[k + 1].from > subjects[k].to
        BY <1>5, <2>2, <2>7, <3>0
      <4>2. Covers(gap(k), t)
        BY <1>7, <2>7, <3>0, <4>1 DEF Covers
      <4> QED
        BY <1>4, <3>0, <4>1, <4>2
    <3>2. ASSUME NEW r \in covering PROVE r = gap(k)
      <4>1. ~(t < subjects[k].to) /\ k # N
        BY <1>1, <1>5, <2>2, <2>7
      <4> QED
        BY <1>4, <2>3, <2>4, <2>5, <3>2, <4>1
    <3> HIDE DEF covering
    <3> QED
      BY <3>1, <3>2
  <2>8. CASE t >= subjects[k].to /\ k = N
    <3>1. rest \in covering
      <4>1. \A i \in 1..N : subjects[i].to <= t
        <5> SUFFICES ASSUME NEW i \in 1..N PROVE subjects[i].to <= t
          OBVIOUS
        <5>1. i < k \/ i = k
          BY <1>1, <2>2, <2>8
        <5> QED
          BY <1>5, <2>2, <2>8, <5>1
      <4>2. last <= t
        BY <1>3, <4>1
      <4>3. Covers(rest, t) /\ last < row.end
        BY <1>2, <1>7, <1>9, <4>2 DEF Covers
      <4> QED
        BY <1>4, <4>3
    <3>2. ASSUME NEW r \in covering PROVE r = rest
      <4>1. ~(t < subjects[k].to) /\ k \notin 1..(N - 1)
        BY <1>1, <1>5, <2>2, <2>8
      <4> QED
        BY <1>4, <2>3, <2>4, <2>5, <3>2, <4>1
    <3> HIDE DEF covering
    <3> QED
      BY <3>1, <3>2
  <2> QED
    BY <1>1, <1>5, <2>2, <2>6, <2>7, <2>8
<1> QED
  BY <1>2, <1>8, <1>9

(* A permit whose temporary vehicles are all over shows its own vehicle from now on. *)
LEMMA OnlyPastSeen ==
  ASSUME NEW row \in Row, NEW time \in Nat, Past(row.temps, time), NEW t \in Nat, time <= t
  PROVE  SeenAt(Subjects(row), t) = IF t < row.end THEN {row.details} ELSE {}
<1> DEFINE subjects == Shortened(row)
           N == Len(subjects)
           last == LatestEnd(subjects)
           gap(i) == Subject(subjects[i].to, subjects[i + 1].from, row.details)
           rest == Subject(last, row.end, row.details)
<1>1. /\ subjects \in Seq(SubjectRow) /\ N \in Nat /\ N >= 1
      /\ subjects[1].from = 0 /\ subjects[1].vehicle = row.details
      /\ subjects[1].to = IF N = 1 THEN row.end ELSE subjects[2].from
      /\ \A i \in 1..N : subjects[i].from <= row.end /\ subjects[i].to <= row.end
      /\ \A i \in 1..N : i > 1 => \E v \in row.temps : subjects[i].to <= v.to
      /\ \A i, j \in 1..N : i < j => subjects[i].from <= subjects[j].from
  BY ShortenedInOrder
<1>2. row.end \in Nat /\ \A v \in row.temps : v.to \in Nat /\ v.to < t
  BY DEF Row, VehicleSets, TemporaryVehicle, Past
<1>3. /\ \E i \in 1..N : last = subjects[i].to
      /\ \A i \in 1..N : subjects[i].to <= last
  BY <1>1, <1>2, LatestEndIsMax
<1>4. \A s : s \in Subjects(row) <=>
         \/ \E i \in 1..N : s = subjects[i]
         \/ \E i \in 1..(N - 1) : subjects[i + 1].from > subjects[i].to /\ s = gap(i)
         \/ last < row.end /\ s = rest
  BY SubjectsAre DEF IsSubject
<1> HIDE DEF subjects
<1>5. \A i \in 1..N : subjects[i].from \in Nat /\ subjects[i].to \in Nat
  <2>1. \A i \in 1..N : subjects[i] \in SubjectRow
    BY <1>1
  <2> QED
    BY <2>1 DEF SubjectRow
<1> HIDE DEF N
<1>6. /\ \A i \in 1..(N - 1) : /\ i \in 1..N /\ i + 1 \in 1..N
                             /\ gap(i).from = subjects[i].to /\ gap(i).to = subjects[i + 1].from
                             /\ gap(i).vehicle = row.details
      /\ rest.from = last /\ rest.to = row.end /\ rest.vehicle = row.details /\ last \in Nat
  BY <1>1, <1>3, <1>5 DEF Subject
<1> HIDE DEF gap, rest, last
\* The shortened subjects of the temporary vehicles are over.
<1>7. \A i \in 1..N : i > 1 => subjects[i].to < t
  BY <1>1, <1>2, <1>5
<1>8. ASSUME NEW s \in Subjects(row), Covers(s, t)
      PROVE  t < row.end /\ s.vehicle = row.details
  <2>1. CASE \E i \in 1..N : s = subjects[i]
    <3>1. PICK i \in 1..N : s = subjects[i]
      BY <2>1
    <3>2. ~(i > 1)
      BY <1>5, <1>7, <1>8, <3>1 DEF Covers
    <3>3. i = 1
      BY <1>1, <3>2
    <3> QED
      BY <1>1, <1>2, <1>5, <1>8, <3>1, <3>3 DEF Covers
  <2>2. CASE \E i \in 1..(N - 1) : s = gap(i)
    <3>1. PICK i \in 1..(N - 1) : s = gap(i)
      BY <2>2
    <3>2. i + 1 \in 1..N /\ s.to = subjects[i + 1].from /\ s.vehicle = row.details
      BY <1>6, <3>1
    <3>3. s.to <= row.end /\ s.to \in Nat
      BY <1>1, <1>5, <3>2
    <3> QED
      BY <1>2, <1>8, <3>2, <3>3 DEF Covers
  <2>3. CASE s = rest
    BY <1>6, <1>8, <2>3 DEF Covers
  <2> QED
    BY <1>4, <2>1, <2>2, <2>3
<1>9. ASSUME t < row.end
      PROVE  \E s \in Subjects(row) : Covers(s, t) /\ s.vehicle = row.details
  <2>1. CASE N = 1 \/ (N # 1 /\ t < subjects[2].from)
    <3>1. 1 \in 1..N /\ subjects[1] \in Subjects(row)
      BY <1>1, <1>4
    <3>2. Covers(subjects[1], t)
      BY <1>1, <1>9, <2>1 DEF Covers
    <3> QED
      BY <1>1, <3>1, <3>2
  <2>2. CASE N # 1 /\ ~(t < subjects[2].from)
    <3> DEFINE begun == {i \in 1..N : subjects[i].from <= t}
    <3>1. 2 \in 1..N /\ 2 \in begun
      BY <1>1, <1>5, <2>2
    <3>2. PICK k \in begun : \A i \in begun : i <= k
      <4>1. begun \in SUBSET (0..N) /\ begun # {}
        BY <3>1
      <4> HIDE DEF begun
      <4> QED
        BY <1>1, <4>1, GreatestExists
    <3>3. k \in 1..N /\ k > 1 /\ subjects[k].to < t
      BY <1>7, <3>1, <3>2
    <3>4. CASE k < N
      <4>1. k \in 1..(N - 1) /\ k + 1 \in 1..N
        BY <1>1, <3>3, <3>4
      <4>2. ~(k + 1 \in begun)
        BY <1>1, <3>2, <3>3
      <4>3. subjects[k + 1].from > t /\ subjects[k + 1].from > subjects[k].to
        BY <1>5, <3>3, <4>1, <4>2
      <4>4. gap(k) \in Subjects(row) /\ gap(k).vehicle = row.details
        BY <1>4, <1>6, <4>1, <4>3
      <4>5. Covers(gap(k), t)
        BY <1>5, <1>6, <3>3, <4>1, <4>3 DEF Covers
      <4> QED
        BY <4>4, <4>5
    <3>5. CASE k = N
      <4>1. subjects[1].to <= t
        <5>1. subjects[1].to = subjects[2].from
          BY <1>1, <2>2
        <5> QED
          BY <1>5, <2>2, <3>1, <5>1
      <4>2. \A i \in 1..N : subjects[i].to <= t
        BY <1>5, <1>7, <4>1
      <4>3. last <= t /\ last < row.end
        BY <1>2, <1>3, <1>6, <1>9, <4>2
      <4>4. rest \in Subjects(row) /\ Covers(rest, t)
        BY <1>4, <1>6, <1>9, <4>3 DEF Covers
      <4> QED
        BY <1>6, <4>4
    <3> QED
      BY <1>1, <3>3, <3>4, <3>5
  <2> QED
    BY <2>1, <2>2
<1> QED
  BY <1>8, <1>9 DEF SeenAt

(* What the inspectors see of a permit from now on is what its row says, in whatever   *)
(* order handlers, those that send nothing included, refused requests and the job with *)
(* rows it read earlier follow each other: sync_with_parkkihubi and CustomerPermit.get.*)
THEOREM InspectorsAlwaysSeeTheRow == Spec => []InspectorsSeeTheRow
<1>1. IInv => InspectorsSeeTheRow
  <2> SUFFICES ASSUME IInv, NEW p \in Permits, remote[p] # Stale, NEW t \in now..Horizon
               PROVE  SeenAt(remote[p], t) = SeenAt(Subjects(permits[p]), t)
    BY DEF InspectorsSeeTheRow
  <2>1. permits[p] \in Row /\ now \in Nat /\ t \in Nat /\ now <= t
    BY DEF IInv, TypeOK
  <2>2. PICK over \in VehicleSets :
          /\ Past(over, now)
          /\ over = {} \/ permits[p].temps = {}
          /\ remote[p] = Subjects([permits[p] EXCEPT !.temps = @ \union over])
    BY DEF IInv, WasSent
  <2> DEFINE sent == [permits[p] EXCEPT !.temps = @ \union over]
  <2>3. /\ sent.temps = permits[p].temps \union over
        /\ sent.end = permits[p].end /\ sent.details = permits[p].details
    BY <2>1 DEF Row
  <2>4. CASE over = {}
    <3>1. sent.temps = permits[p].temps
      BY <2>3, <2>4
    <3> HIDE DEF sent
    <3>2. Subjects(sent) = Subjects(permits[p])
      BY <2>3, <3>1, SubjectsOfSame
    <3> QED
      BY <2>2, <3>2 DEF sent
  <2>5. CASE permits[p].temps = {}
    <3>1. sent.temps = over /\ Past(permits[p].temps, now)
      BY <2>3, <2>5 DEF Past
    <3>2. sent \in Row
      BY <2>1, <2>3, <2>5 DEF Row
    <3> HIDE DEF sent
    <3>3. SeenAt(Subjects(sent), t) = IF t < sent.end THEN {sent.details} ELSE {}
      BY <2>1, <2>2, <3>1, <3>2, OnlyPastSeen
    <3>4. SeenAt(Subjects(permits[p]), t) = IF t < permits[p].end THEN {permits[p].details} ELSE {}
      BY <2>1, <3>1, OnlyPastSeen
    <3> QED
      BY <2>2, <2>3, <3>3, <3>4 DEF sent
  <2> QED
    BY <2>2, <2>4, <2>5
<1> QED
  BY InvariantHolds, <1>1, PTL

(* However many temporary vehicles a permit has and however they overlap, nest or     *)
(* outlast it, the inspectors see one vehicle at each moment of it: get_subjects.     *)
THEOREM OneVehicleAlways == Spec => []OneVehicleAtATime
<1>1. IInv => OneVehicleAtATime
  <2> SUFFICES ASSUME IInv, NEW p \in Permits, \A v \in permits[p].temps : v.from <= v.to,
                      NEW t \in Times
               PROVE  Cardinality({s \in Subjects(permits[p]) : Covers(s, t)}) =
                         IF t < permits[p].end THEN 1 ELSE 0
    BY DEF OneVehicleAtATime
  <2>1. permits[p] \in Row /\ t \in Nat
    BY DEF IInv, TypeOK, Times
  <2> QED
    BY <2>1, OneAtATime
<1> QED
  BY <1>1, InvariantHolds, PTL
================================================================================

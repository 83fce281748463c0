--------------------------- MODULE PermitMoneyProofs ---------------------------
(***************************************************************************)
(* Proofs about PermitMoney: when a permit ends that is renewed any number *)
(* of times; and that the months of a permit, the months its orders charge *)
(* for, what would be refunded of them and the prices shown agree, for any *)
(* catalog whose prices change with months, any number of months and any   *)
(* number of extensions.                                                   *)
(*                                                                         *)
(* Orders are compared with the months of their permit by positions: the   *)
(* j-th item is for the months from c[j] to c[j + 1] (Tiles), the i-th     *)
(* order for those from b[i] to b[i + 1] (OrderTiles). What would be an    *)
(* induction over a list is a least counterexample (LeastNumber).          *)
(***************************************************************************)
EXTENDS PermitMoney, TLAPS, FiniteSetTheorems, WellFoundedInduction

(***************************************************************************)
(* Dates                                                                   *)
(***************************************************************************)
\* A date by its month and its day; the month need not have that day.
IsDate(date, month, day) ==
    month \in Nat /\ day \in 1..31 /\ date = 31 * month + day - 1

LEMMA DateParts ==
  ASSUME NEW date, NEW month, NEW day, IsDate(date, month, day)
  PROVE  date \in Nat /\ MonthOf(date) = month /\ DayOf(date) = day
BY DEF IsDate, MonthOf, DayOf

LEMMA EveryDateHasParts ==
  ASSUME NEW date \in Nat
  PROVE  IsDate(date, MonthOf(date), DayOf(date))
BY DEF IsDate, MonthOf, DayOf

LEMMA MonthLengths ==
  ASSUME NEW month \in Nat
  PROVE  DaysIn(month) \in 28..31
BY DEF DaysIn

LEMMA MonthsLater ==
  ASSUME NEW date, NEW month, NEW day, IsDate(date, month, day), NEW n \in Nat
  PROVE  IsDate(AddMonths(date, n), month + n, Least(day, DaysIn(month + n)))
<1>1. MonthOf(date) = month /\ DayOf(date) = day
  BY DateParts
<1>2. month + n \in Nat /\ DaysIn(month + n) \in 28..31 /\ day \in 1..31
  BY MonthLengths DEF IsDate
<1> QED
  BY <1>1, <1>2 DEF AddMonths, Least, IsDate

LEMMA DaysLater ==
  ASSUME NEW date, NEW month, NEW day, IsDate(date, month, day), day <= DaysIn(month),
         NEW n \in 0..5
  PROVE  /\ day + n > DaysIn(month) => IsDate(AddDays(date, n), month + 1, day + n - DaysIn(month))
         /\ day + n <= DaysIn(month) => IsDate(AddDays(date, n), month, day + n)
<1>1. MonthOf(date) = month /\ DayOf(date) = day
  BY DateParts
<1>2. DaysIn(month) \in 28..31 /\ day \in 1..31 /\ month \in Nat
  BY MonthLengths DEF IsDate
<1> QED
  BY <1>1, <1>2 DEF AddDays, IsDate

LEMMA DayBefore ==
  ASSUME NEW date, NEW month, NEW day, IsDate(date, month, day), day <= DaysIn(month), month > 0
  PROVE  /\ day = 1 => IsDate(AddDays(date, -1), month - 1, DaysIn(month - 1))
         /\ day > 1 => IsDate(AddDays(date, -1), month, day - 1)
<1>1. MonthOf(date) = month /\ DayOf(date) = day
  BY DateParts
<1>2. /\ DaysIn(month) \in 28..31 /\ DaysIn(month - 1) \in 28..31
      /\ day \in 1..31 /\ month \in Nat
  BY MonthLengths DEF IsDate
<1> QED
  BY <1>1, <1>2 DEF AddDays, IsDate

(***************************************************************************)
(* Moments                                                                 *)
(***************************************************************************)
LEMMA MomentParts ==
  ASSUME NEW date \in Nat, NEW hour \in 0..23
  PROVE  At(date, hour) \in Nat /\ DateIn(At(date, hour)) = date /\ HourIn(At(date, hour)) = hour
BY DEF At, DateIn, HourIn

LEMMA EveryMomentHasParts ==
  ASSUME NEW moment \in Nat
  PROVE  DateIn(moment) \in Nat /\ HourIn(moment) \in 0..23
         /\ moment = At(DateIn(moment), HourIn(moment))
BY DEF At, DateIn, HourIn

LEMMA MomentsAreOrdered ==
  ASSUME NEW d \in Nat, NEW h \in 0..23, NEW e \in Nat, NEW i \in 0..23, d < e
  PROVE  At(d, h) < At(e, i)
BY DEF At

LEMMA HelsinkiIsAhead ==
  ASSUME NEW moment, NEW hour
  PROVE  HoursAhead(moment, hour) \in {2, 3}
BY DEF HoursAhead

\* The last hour of a day in Helsinki is in the evening of that day in UTC.
LEMMA EveningInUTC ==
  ASSUME NEW date \in Nat
  PROVE  \E hour \in {20, 21} : EndOfDay(date) = At(date, hour)
<1> DEFINE ahead == HoursAhead(At(date, 23), 4)
<1>1. ahead \in {2, 3}
  BY HelsinkiIsAhead
<1> HIDE DEF ahead
<1>2. DateIn(At(date, 23)) = date /\ HourIn(At(date, 23)) = 23
  BY MomentParts
<1>3. EndOfDay(date) = AddHours(At(date, 23), -ahead)
  BY DEF EndOfDay, FromLocal, ahead
<1>4. AddHours(At(date, 23), -ahead) = At(date, 23 - ahead)
  BY <1>1, <1>2 DEF AddHours
<1> QED
  BY <1>1, <1>3, <1>4

\* The day in Helsinki is the day in UTC, or late in the evening the next one.
LEMMA LocalDay ==
  ASSUME NEW moment \in Nat
  PROVE  LocalDate(moment) \in {DateIn(moment), AddDays(DateIn(moment), 1)}
<1> DEFINE ahead == HoursAhead(moment, 1)
           u == DateIn(moment)
<1>1. ahead \in {2, 3}
  BY HelsinkiIsAhead
<1>2. u \in Nat /\ HourIn(moment) \in 0..23
  BY EveryMomentHasParts
<1>3. LocalDate(moment) = DateIn(AddHours(moment, ahead))
  BY DEF LocalDate, ToLocal
<1> HIDE DEF ahead
<1>4. IsDate(u, MonthOf(u), DayOf(u))
  BY <1>2, EveryDateHasParts
<1>5. CASE HourIn(moment) + ahead > 23
  <2>1. AddHours(moment, ahead) = At(AddDays(u, 1), HourIn(moment) + ahead - 24)
    BY <1>1, <1>2, <1>5 DEF AddHours
  <2>2. AddDays(u, 1) \in Nat
    BY <1>4, MonthLengths DEF AddDays, IsDate
  <2>3. HourIn(moment) + ahead - 24 \in 0..23
    BY <1>1, <1>2, <1>5
  <2> QED
    BY <1>3, <2>1, <2>2, <2>3, MomentParts
<1>6. CASE HourIn(moment) + ahead <= 23
  <2>1. AddHours(moment, ahead) = At(u, HourIn(moment) + ahead)
    BY <1>1, <1>2, <1>6 DEF AddHours
  <2>2. HourIn(moment) + ahead \in 0..23
    BY <1>1, <1>2, <1>6
  <2> QED
    BY <1>2, <1>3, <2>1, <2>2, MomentParts
<1> QED
  BY <1>1, <1>2, <1>5, <1>6

(***************************************************************************)
(* Renewing                                                                *)
(***************************************************************************)
\* Five days after "last" is a day by which the months up to m have passed since a day
\* du, and the months up to m + 1 have not.
Between(last, m, du) ==
    /\ last \in Nat
    /\ \E month \in Nat, day \in Nat :
        /\ IsDate(AddDays(last, 5), month, day)
        /\ \/ month = m /\ Least(du, DaysIn(m)) < day
           \/ month = m + 1 /\ day < Least(du, DaysIn(m + 1))

LEMMA AfterTheDayBefore ==
  ASSUME NEW m \in Nat, m > 0, NEW date, NEW x, IsDate(date, m, x), x <= DaysIn(m),
         NEW du \in 1..31, Least(du, DaysIn(m)) <= x, du >= x - 1
  PROVE  Between(AddDays(date, -1), m, du)
<1> DEFINE last == AddDays(date, -1)
<1>1. /\ DaysIn(m) \in 28..31 /\ DaysIn(m - 1) \in 28..31 /\ DaysIn(m + 1) \in 28..31
      /\ x \in 1..31
  BY MonthLengths DEF IsDate
<1>2. CASE x = 1
  <2> DEFINE y == DaysIn(m - 1)
  <2>1. IsDate(last, m - 1, y)
    BY <1>2, DayBefore
  <2>2. y <= DaysIn(m - 1) /\ y + 5 > DaysIn(m - 1) /\ y + 5 - DaysIn(m - 1) = 5 /\ m - 1 + 1 = m
    BY <1>1
  <2> HIDE DEF y, last
  <2>3. IsDate(AddDays(last, 5), m - 1 + 1, y + 5 - DaysIn(m - 1))
    BY <2>1, <2>2, DaysLater
  <2>4. IsDate(AddDays(last, 5), m, 5) /\ last \in Nat
    BY <2>1, <2>2, <2>3, DateParts
  <2>5. Least(du, DaysIn(m)) < 5
    BY <1>1, <1>2 DEF Least
  <2> QED
    BY <2>4, <2>5 DEF Between, last
<1>3. CASE x > 1
  <2> DEFINE y == x - 1
  <2>1. IsDate(last, m, y)
    BY <1>3, DayBefore
  <2>2. y \in Nat /\ y <= DaysIn(m) /\ x = y + 1
    BY <1>1, <1>3
  <2> HIDE DEF y, last
  <2>3. CASE y + 5 > DaysIn(m)
    <3>1. IsDate(AddDays(last, 5), m + 1, y + 5 - DaysIn(m))
      BY <2>1, <2>2, <2>3, DaysLater
    <3>2. y + 5 - DaysIn(m) \in Nat /\ y + 5 - DaysIn(m) < Least(du, DaysIn(m + 1))
      BY <1>1, <2>2, <2>3 DEF Least
    <3>3. last \in Nat
      BY <2>1, DateParts
    <3> QED
      BY <3>1, <3>2, <3>3 DEF Between, last
  <2>4. CASE y + 5 <= DaysIn(m)
    <3>1. IsDate(AddDays(last, 5), m, y + 5)
      BY <2>1, <2>2, <2>4, DaysLater
    <3>2. Least(du, DaysIn(m)) < y + 5
      BY <1>1, <2>2 DEF Least
    <3>3. last \in Nat
      BY <2>1, DateParts
    <3> QED
      BY <2>2, <3>1, <3>2, <3>3 DEF Between, last
  <2> QED
    BY <1>1, <2>2, <2>3, <2>4
<1> QED
  BY <1>1, <1>2, <1>3

\* Five days after the end of n months, n months have passed and n + 1 have not.
LEMMA EndIsBetween ==
  ASSUME NEW start \in Nat, DayOf(DateIn(start)) <= DaysIn(MonthOf(DateIn(start))),
         NEW n \in Nat, n > 0
  PROVE  Between(AddDays(AddMonths(LocalDate(start), n), -1),
                 MonthOf(DateIn(start)) + n, DayOf(DateIn(start)))
<1> DEFINE u == DateIn(start)
           mu == MonthOf(u)
           du == DayOf(u)
           d == LocalDate(start)
           m == mu + n
<1>1. IsDate(u, mu, du) /\ mu \in Nat /\ du \in 1..31
  BY EveryMomentHasParts, EveryDateHasParts DEF IsDate
<1>2. d \in {u, AddDays(u, 1)} /\ du <= DaysIn(mu)
  BY LocalDay
<1> HIDE DEF u, mu, du, d
<1>3. m \in Nat /\ m > 0 /\ m = mu + n
  BY <1>1
<1> HIDE DEF m
<1>4. DaysIn(mu) \in 28..31 /\ DaysIn(m) \in 28..31 /\ DaysIn(m + 1) \in 28..31
  BY <1>1, <1>3, MonthLengths
<1> SUFFICES Between(AddDays(AddMonths(d, n), -1), m, du)
  BY DEF m, d, mu, du, u
<1>5. CASE d = u
  <2> DEFINE x == Least(du, DaysIn(m))
  <2>1. IsDate(AddMonths(d, n), m, x)
    BY <1>1, <1>3, <1>5, MonthsLater
  <2>2. x <= DaysIn(m) /\ Least(du, DaysIn(m)) <= x /\ du >= x - 1
    BY <1>1, <1>4 DEF Least
  <2> HIDE DEF x
  <2> QED
    BY <1>1, <1>3, <2>1, <2>2, AfterTheDayBefore
<1>6. CASE d = AddDays(u, 1) /\ du < DaysIn(mu)
  <2> DEFINE dd == du + 1
             x == Least(dd, DaysIn(m))
  <2>1. IsDate(d, mu, dd)
    BY <1>1, <1>4, <1>6, DaysLater
  <2>2. IsDate(AddMonths(d, n), m, x)
    <3> HIDE DEF dd
    <3> QED
      BY <1>3, <2>1, MonthsLater
  <2>3. x <= DaysIn(m) /\ Least(du, DaysIn(m)) <= x /\ du >= x - 1
    BY <1>1, <1>4 DEF Least
  <2> HIDE DEF x
  <2> QED
    BY <1>1, <1>3, <2>2, <2>3, AfterTheDayBefore
<1>7. CASE d = AddDays(u, 1) /\ du = DaysIn(mu)
  <2> DEFINE last == AddDays(AddMonths(d, n), -1)
             y == DaysIn(m)
  <2>1. IsDate(d, mu + 1, 1)
    <3>1. du + 1 > DaysIn(mu) /\ du + 1 - DaysIn(mu) = 1
      BY <1>4, <1>7
    <3>2. IsDate(AddDays(u, 1), mu + 1, du + 1 - DaysIn(mu))
      BY <1>1, <1>2, <3>1, DaysLater
    <3> QED
      BY <1>7, <3>1, <3>2
  <2>2. IsDate(AddMonths(d, n), m + 1, 1)
    <3>1. mu + 1 + n = m + 1 /\ Least(1, DaysIn(m + 1)) = 1
      BY <1>1, <1>3, <1>4 DEF Least
    <3>2. IsDate(AddMonths(d, n), mu + 1 + n, Least(1, DaysIn(mu + 1 + n)))
      BY <2>1, MonthsLater
    <3> QED
      BY <3>1, <3>2
  <2>3. IsDate(last, m, y)
    <3> DEFINE next == m + 1
    <3>1. 1 <= DaysIn(next) /\ next > 0 /\ next - 1 = m /\ IsDate(AddMonths(d, n), next, 1)
      BY <1>3, <1>4, <2>2
    <3> HIDE DEF next
    <3>2. IsDate(last, next - 1, DaysIn(next - 1))
      BY <3>1, DayBefore
    <3> QED
      BY <3>1, <3>2
  <2>4. y <= DaysIn(m) /\ y + 5 > DaysIn(m) /\ y + 5 - DaysIn(m) = 5
    BY <1>4
  <2> HIDE DEF y, last
  <2>5. IsDate(AddDays(last, 5), m + 1, y + 5 - DaysIn(m))
    BY <2>3, <2>4, DaysLater
  <2>6. IsDate(AddDays(last, 5), m + 1, 5) /\ last \in Nat
    BY <2>3, <2>4, <2>5, DateParts
  <2>7. 5 < Least(du, DaysIn(m + 1))
    BY <1>4, <1>7 DEF Least
  <2>8. Between(last, m, du)
    BY <1>3, <2>6, <2>7 DEF Between
  <2> QED
    BY <2>8 DEF last
<1> QED
  BY <1>1, <1>2, <1>4, <1>5, <1>6, <1>7

\* The tolerance makes up for the days that the shorter months do not have.
LEMMA TolerantMonths ==
  ASSUME NEW start \in Nat, DayOf(DateIn(start)) <= DaysIn(MonthOf(DateIn(start))),
         NEW n \in Nat, n > 0
  PROVE  LET end == GetEndTime(start, n)
         IN  DiffMonthsFloor(start, At(AddDays(DateIn(end), 5), HourIn(end))) = n
<1> DEFINE u == DateIn(start)
           mu == MonthOf(u)
           du == DayOf(u)
           hu == HourIn(start)
           m == mu + n
           last == AddDays(AddMonths(LocalDate(start), n), -1)
           later == AddDays(last, 5)
           end == GetEndTime(start, n)
           tolerant == At(AddDays(DateIn(end), 5), HourIn(end))
<1>1. /\ u \in Nat /\ hu \in 0..23 /\ start = At(u, hu)
      /\ IsDate(u, mu, du) /\ mu \in Nat /\ du \in 1..31
  BY EveryMomentHasParts, EveryDateHasParts DEF IsDate
<1>2. Between(last, m, du)
  BY EndIsBetween
<1>3. end = EndOfDay(last)
  BY DEF GetEndTime
<1> HIDE DEF last, mu, du, hu, u, end
<1>4. m \in Nat /\ m > 0 /\ m = mu + n
  BY <1>1
<1> HIDE DEF m
<1>5. PICK month \in Nat, day \in Nat :
          /\ IsDate(later, month, day)
          /\ \/ month = m /\ Least(du, DaysIn(m)) < day
             \/ month = m + 1 /\ day < Least(du, DaysIn(m + 1))
  BY <1>2 DEF Between
<1>6. last \in Nat /\ later \in Nat /\ MonthOf(later) = month
  BY <1>2, <1>5, DateParts DEF Between
<1>7. PICK hour \in 0..23 : end = At(last, hour)
  BY <1>3, <1>6, EveningInUTC
<1>8. DateIn(end) = last /\ HourIn(end) = hour
  BY <1>6, <1>7, MomentParts
<1>9. tolerant = At(later, hour)
  BY <1>8
<1> HIDE DEF later, tolerant
<1>10. DateIn(tolerant) = later
  BY <1>6, <1>9, MomentParts
\* The start as many months later as the month of the end is.
<1> DEFINE k == month - mu
           there == AddMonths(u, k)
<1>11. k \in Nat /\ mu + k = month
  BY <1>1, <1>4, <1>5
<1>12. IsDate(there, month, Least(du, DaysIn(month)))
  <2> HIDE DEF k
  <2> QED
    BY <1>1, <1>11, MonthsLater
<1>13. AddMonthsTo(start, k) = At(there, hu) /\ there \in Nat
  BY <1>12, DateParts DEF AddMonthsTo, u, hu
<1> HIDE DEF there
<1>14. MonthOf(DateIn(tolerant)) - MonthOf(DateIn(start)) = k
  BY <1>6, <1>10 DEF mu, u
<1>15. start < tolerant
  <2>1. u < later
    BY <1>1, <1>4, <1>5 DEF IsDate
  <2> QED
    BY <1>1, <1>6, <1>7, <1>9, <2>1, MomentsAreOrdered
<1>16. tolerant \in Nat /\ AddMonthsTo(start, k) \in Nat
  BY <1>1, <1>6, <1>7, <1>9, <1>13, MomentParts
<1>17. CASE month = m
  <2>1. there < later
    BY <1>5, <1>12, <1>17 DEF IsDate
  <2>2. AddMonthsTo(start, k) < tolerant
    BY <1>1, <1>6, <1>7, <1>9, <1>13, <2>1, MomentsAreOrdered
  <2>3. ~(AddMonthsTo(start, k) > tolerant) /\ ~(start > tolerant) /\ k = n
    BY <1>1, <1>4, <1>15, <1>16, <1>17, <2>2
  <2> HIDE DEF k
  <2>4. DiffMonthsFloor(start, tolerant) = n
    BY <1>14, <2>3 DEF DiffMonthsFloor, WholeMonths
  <2> QED
    BY <2>4 DEF tolerant, end
<1>18. CASE month = m + 1
  <2>1. later < there
    BY <1>5, <1>12, <1>18 DEF IsDate
  <2>2. tolerant < AddMonthsTo(start, k)
    BY <1>1, <1>6, <1>7, <1>9, <1>13, <2>1, MomentsAreOrdered
  <2>3. AddMonthsTo(start, k) > tolerant /\ ~(start > tolerant) /\ k - 1 = n
    BY <1>1, <1>4, <1>15, <1>16, <1>18, <2>2
  <2> HIDE DEF k
  <2>4. DiffMonthsFloor(start, tolerant) = n
    BY <1>14, <2>3 DEF DiffMonthsFloor, WholeMonths
  <2> QED
    BY <2>4 DEF tolerant, end
<1> QED
  BY <1>5, <1>17, <1>18

\* A renewal moves the end by exactly a month, counted from the start.
LEMMA RenewalAddsAMonth ==
  ASSUME NEW start \in Nat, DayOf(DateIn(start)) <= DaysIn(MonthOf(DateIn(start))),
         NEW n \in Nat, n > 0
  PROVE  IncrementEndTime(start, GetEndTime(start, n), 1) = GetEndTime(start, n + 1)
BY TolerantMonths DEF IncrementEndTime

(***************************************************************************)
(* Open-ended permits                                                      *)
(***************************************************************************)
Elements(s) == {s[i] : i \in DOMAIN s}

IsSequence(s) == s \in Seq(Elements(s))

LEMMA AppendIsSequence ==
  ASSUME NEW s, IsSequence(s), NEW e
  PROVE  /\ IsSequence(Append(s, e))
         /\ Len(s) \in Nat /\ Len(Append(s, e)) = Len(s) + 1
         /\ \A i \in 1..Len(s) : Append(s, e)[i] = s[i]
         /\ Append(s, e)[Len(s) + 1] = e
<1> DEFINE U == Elements(s) \cup {e}
           t == Append(s, e)
<1>1. s \in Seq(U)
  <2>1. \A i \in 1..Len(s) : s[i] \in U
    BY DEF IsSequence, Elements
  <2> HIDE DEF U
  <2>2. s = [i \in 1..Len(s) |-> s[i]] /\ Len(s) \in Nat
    BY DEF IsSequence
  <2> QED
    BY <2>1, <2>2
<1> HIDE DEF U
<1>2. /\ t \in Seq(U) /\ Len(s) \in Nat /\ Len(t) = Len(s) + 1
      /\ \A i \in 1..Len(s) : t[i] = s[i]
      /\ t[Len(s) + 1] = e
  <2>1. e \in U
    BY DEF U
  <2> QED
    BY <1>1, <2>1
<1> HIDE DEF t
<1>3. t \in Seq(Elements(t))
  <2>1. t = [i \in 1..Len(t) |-> t[i]] /\ Len(t) \in Nat /\ DOMAIN t = 1..Len(t)
    BY <1>2
  <2>2. \A i \in 1..Len(t) : t[i] \in Elements(t)
    BY <2>1 DEF Elements
  <2> QED
    BY <2>1, <2>2
<1> QED
  BY <1>2, <1>3 DEF IsSequence, t

OrderFields == {"extension", "status", "items"}

\* Only what the end time of an open-ended permit depends on: the items of the
\* orders and the sums are left open.
RenewedInStep ==
    /\ DOMAIN permit = DOMAIN NoPermit
    /\ IsSequence(orders)
    /\ \A i \in 1..Len(orders) : DOMAIN orders[i] = OrderFields
    /\ IsValid(permit) => permit.start \in Starts /\ Len(orders) > 0
    /\ OpenEndedEndsInStep

LEMMA InitRenewedInStep == Init => RenewedInStep
BY DEF Init, RenewedInStep, NoPermit, IsSequence, Elements, IsValid, OpenEndedEndsInStep, NotEnded

LEMMA BuyKeeps ==
  ASSUME RenewedInStep, NEW contract \in ContractType, NEW start \in Starts, NEW months,
         NEW zone, NEW lowEmission, NEW primary,
         Buy(contract, start, months, zone, lowEmission, primary)
  PROVE  RenewedInStep'
<1> DEFINE count == MonthCountForPrimary(contract, months)
           bought == [contract |-> contract, status |-> "VALID", start |-> start,
                      end |-> GetEndTime(start, count), months |-> count, zone |-> zone,
                      lowEmission |-> lowEmission, primary |-> primary]
           order == Order(FALSE, PurchaseItems(bought))
<1>1. permit' = bought /\ orders' = <<order>>
  BY DEF Buy
<1>2. contract = "OPEN_ENDED" => count = 1
  BY DEF MonthCountForPrimary
<1> HIDE DEF count, order
<1>3. /\ DOMAIN permit' = DOMAIN NoPermit
      /\ permit'.start = start /\ permit'.contract = contract
      /\ permit'.end = GetEndTime(start, count)
  BY <1>1 DEF NoPermit
<1> HIDE DEF bought
<1>4. /\ IsSequence(orders') /\ Len(orders') = 1
      /\ \A i \in 1..Len(orders') : DOMAIN orders'[i] = OrderFields
  <2>1. DOMAIN order = OrderFields
    BY DEF order, Order, OrderFields
  <2> QED
    BY <1>1, <2>1 DEF IsSequence, Elements
<1> QED
  BY <1>2, <1>3, <1>4 DEF RenewedInStep, OpenEndedEndsInStep, IsOpenEnded

LEMMA OneMoreOrder ==
  ASSUME RenewedInStep, NEW order, DOMAIN order = OrderFields, orders' = Append(orders, order)
  PROVE  /\ IsSequence(orders') /\ Len(orders) \in Nat /\ Len(orders') = Len(orders) + 1
         /\ \A i \in 1..Len(orders') : DOMAIN orders'[i] = OrderFields
<1>1. /\ IsSequence(orders') /\ Len(orders) \in Nat /\ Len(orders') = Len(orders) + 1
      /\ \A i \in 1..Len(orders) : orders'[i] = orders[i]
      /\ orders'[Len(orders) + 1] = order
  BY AppendIsSequence DEF RenewedInStep
<1>2. ASSUME NEW i \in 1..Len(orders') PROVE DOMAIN orders'[i] = OrderFields
  <2>1. i \in 1..Len(orders) \/ i = Len(orders) + 1
    BY <1>1
  <2> QED
    BY <1>1, <2>1 DEF RenewedInStep
<1> QED
  BY <1>1, <1>2

LEMMA RenewKeeps ==
  ASSUME RenewedInStep, Renew
  PROVE  RenewedInStep'
<1>1. /\ IsOpenEnded(permit) /\ IsValid(permit) /\ orders[1].status = "CONFIRMED"
      /\ permit' = RenewOpenEndedPermit(permit)
      /\ \E order : orders' = Append(orders, order) /\ DOMAIN order = OrderFields
  BY DEF Renew, Order, OrderFields
<1>2. /\ IsSequence(orders') /\ Len(orders) \in Nat /\ Len(orders') = Len(orders) + 1
      /\ \A i \in 1..Len(orders') : DOMAIN orders'[i] = OrderFields
  BY <1>1, OneMoreOrder
<1>3. /\ permit.start \in Starts /\ Len(orders) > 0
      /\ permit.end = GetEndTime(permit.start, Len(orders))
  BY <1>1 DEF RenewedInStep, OpenEndedEndsInStep, NotEnded
<1>4. permit'.end = GetEndTime(permit.start, Len(orders) + 1)
  <2>1. permit'.end = IncrementEndTime(permit.start, permit.end, 1)
    BY <1>1 DEF RenewOpenEndedPermit, RenewedInStep, NoPermit
  <2> QED
    BY <1>2, <1>3, <2>1, RenewalAddsAMonth, StartsAssumption
<1>5. DOMAIN permit' = DOMAIN NoPermit /\ permit'.start = permit.start
  BY <1>1 DEF RenewOpenEndedPermit, RenewedInStep, NoPermit
<1> QED
  BY <1>2, <1>3, <1>4, <1>5 DEF RenewedInStep, OpenEndedEndsInStep

\* Steps of a fixed-period permit.
LEMMA FixedKeeps ==
  ASSUME RenewedInStep, IsFixedPeriod(permit), IsValid(permit),
         DOMAIN permit' = DOMAIN permit, permit'.contract = permit.contract,
         permit'.start = permit.start,
         \/ orders' = orders
         \/ \E order : orders' = Append(orders, order) /\ DOMAIN order = OrderFields
  PROVE  RenewedInStep'
<1>1. /\ IsSequence(orders') /\ Len(orders') > 0
      /\ \A i \in 1..Len(orders') : DOMAIN orders'[i] = OrderFields
  <2>1. CASE orders' = orders
    BY <2>1 DEF RenewedInStep, IsSequence, Elements
  <2>2. CASE \E order : orders' = Append(orders, order) /\ DOMAIN order = OrderFields
    BY <2>2, OneMoreOrder
  <2> QED
    BY <2>1, <2>2
<1>2. ~IsOpenEnded(permit')
  BY DEF IsOpenEnded, IsFixedPeriod
<1> QED
  BY <1>1, <1>2 DEF RenewedInStep, OpenEndedEndsInStep, IsOpenEnded

LEMMA EndKeeps ==
  ASSUME RenewedInStep, NEW endType, End(endType)
  PROVE  RenewedInStep'
<1>1. IsValid(permit) /\ orders' = OrdersAfterEnd /\ permit' = EndPermit(permit, endType, now)
  <2>1. IsValid(permit)
    BY DEF End, CanEndImmediately, CanEndAfterCurrentPeriod
  <2> QED
    BY <2>1 DEF End
<1>2. DOMAIN permit' = DOMAIN NoPermit /\ permit'.start = permit.start
  BY <1>1 DEF EndPermit, RenewedInStep, NoPermit
<1>3. Len(orders) \in Nat /\ Len(orders) > 0 /\ DOMAIN orders = 1..Len(orders)
  BY <1>1 DEF RenewedInStep, IsSequence
<1>4. /\ orders' = [i \in 1..Len(orders) |-> orders'[i]]
      /\ \A i \in 1..Len(orders) :
            DOMAIN orders'[i] = OrderFields /\ orders'[i].status = "CANCELLED"
  <2>1. ASSUME NEW order, DOMAIN order = OrderFields, NEW items
        PROVE  LET ended == [order EXCEPT !.status = "CANCELLED", !.items = items]
               IN  DOMAIN ended = OrderFields /\ ended.status = "CANCELLED"
    BY <2>1 DEF OrderFields
  <2>2. /\ orders' = [i \in 1..Len(orders) |-> orders'[i]]
        /\ \A i \in 1..Len(orders) : \E items :
              orders'[i] = [orders[i] EXCEPT !.status = "CANCELLED", !.items = items]
    BY <1>1 DEF OrdersAfterEnd
  <2>3. ASSUME NEW i \in 1..Len(orders)
        PROVE  DOMAIN orders'[i] = OrderFields /\ orders'[i].status = "CANCELLED"
    <3>1. PICK items : orders'[i] = [orders[i] EXCEPT !.status = "CANCELLED", !.items = items]
      BY <2>2
    <3>2. DOMAIN orders[i] = OrderFields
      BY DEF RenewedInStep
    <3> QED
      BY <2>1, <3>1, <3>2
  <2> QED
    BY <2>2, <2>3
<1>5. IsSequence(orders') /\ Len(orders') = Len(orders)
  <2>1. DOMAIN orders' = 1..Len(orders)
    BY <1>4
  <2>2. \A i \in 1..Len(orders) : orders'[i] \in Elements(orders')
    BY <2>1 DEF Elements
  <2> QED
    BY <1>3, <1>4, <2>1, <2>2 DEF IsSequence
<1> QED
  BY <1>1, <1>2, <1>4, <1>5 DEF RenewedInStep, OpenEndedEndsInStep, NotEnded

LEMMA NextRenewedInStep == RenewedInStep /\ [Next]_vars => RenewedInStep'
<1> SUFFICES ASSUME RenewedInStep, [Next]_vars PROVE RenewedInStep'
  OBVIOUS
<1>1. CASE PassTime
  BY <1>1 DEF PassTime, RenewedInStep, IsSequence, Elements, OpenEndedEndsInStep, NotEnded
<1>2. ASSUME NEW months, NEW dateRestriction, Extend(months, dateRestriction)
      PROVE  RenewedInStep'
  <2>1. /\ IsFixedPeriod(permit) /\ IsValid(permit) /\ permit' = ExtendPermit(permit, months)
        /\ \E order : orders' = Append(orders, order) /\ DOMAIN order = OrderFields
    BY <1>2 DEF Extend, CanExtend, Order, OrderFields
  <2>2. /\ DOMAIN permit' = DOMAIN permit /\ permit'.contract = permit.contract
        /\ permit'.start = permit.start
    BY <2>1 DEF ExtendPermit, RenewedInStep, NoPermit
  <2> QED
    BY <2>1, <2>2, FixedKeeps
<1>3. ASSUME NEW zone, NEW lowEmission, Change(zone, lowEmission) PROVE RenewedInStep'
  <2>1. /\ IsFixedPeriod(permit) /\ IsValid(permit) /\ permit' = Changed(zone, lowEmission)
        /\ \/ orders' = orders
           \/ \E order : orders' = Append(orders, order) /\ DOMAIN order = OrderFields
    BY <1>3 DEF Change, Order, OrderFields
  <2>2. /\ DOMAIN permit' = DOMAIN permit /\ permit'.contract = permit.contract
        /\ permit'.start = permit.start
    BY <2>1 DEF Changed, RenewedInStep, NoPermit
  <2> QED
    BY <2>1, <2>2, FixedKeeps
<1>4. CASE UNCHANGED vars
  BY <1>4 DEF vars, RenewedInStep, IsSequence, Elements, OpenEndedEndsInStep, NotEnded
<1> QED
  BY <1>1, <1>2, <1>3, <1>4, BuyKeeps, RenewKeeps, EndKeeps DEF Next

\* However short the months in between, an open-ended permit that starts on any day and
\* was renewed any number of times ends so many months and one after its start.
THEOREM RenewalsKeepStep == Spec => []OpenEndedEndsInStep
<1>1. RenewedInStep => OpenEndedEndsInStep
  BY DEF RenewedInStep
<1> QED
  BY <1>1, InitRenewedInStep, NextRenewedInStep, PTL DEF Spec

(***************************************************************************)
(* Numbers and lists                                                       *)
(***************************************************************************)
\* What stands in for an induction: the least number that a claim fails for.
LEMMA LeastNumber ==
  ASSUME NEW S \in SUBSET Nat, S # {}
  PROVE  \E x \in S : \A y \in S : x <= y
<1> DEFINE R == OpToRel(<, Nat)
<1>1. IsWellFoundedOn(R, Nat)
  BY NatLessThanWellFounded
<1>2. PICK x \in S : \A y \in S : <<y, x>> \notin R
  <2> HIDE DEF R
  <2> QED
    BY <1>1, WFMin
<1>3. \A y \in S : ~(y < x)
  BY <1>2 DEF OpToRel
<1> QED
  BY <1>3

LEMMA FirstFailure ==
  ASSUME NEW n \in Nat, NEW B \in SUBSET (0..n), 0 \notin B, B # {}
  PROVE  \E i \in 1..n : i \in B /\ i - 1 \in 0..n /\ i - 1 \notin B
<1>1. PICK i \in B : \A k \in B : i <= k
  <2>1. B \in SUBSET Nat
    OBVIOUS
  <2> QED
    BY <2>1, LeastNumber
<1>2. i \in 1..n /\ i - 1 \in 0..n /\ ~(i <= i - 1)
  <2>1. i \in 0..n /\ i # 0
    OBVIOUS
  <2> QED
    BY <2>1
<1> QED
  BY <1>1, <1>2

\* Each value is made from the one before.
IsRecursion(f, n, a, G) == f[0] = a /\ \A k \in 1..n : f[k] = G[k][f[k - 1]]
HasRecursion(n, S, a, G) == \E f \in [0..n -> S] : IsRecursion(f, n, a, G)

\* The function that a recursion over the numbers up to n defines exists.
LEMMA RecursionExists ==
  ASSUME NEW n \in Nat, NEW S, NEW a \in S, NEW G \in [1..n -> [S -> S]]
  PROVE  HasRecursion(n, S, a, G)
<1> USE DEF IsRecursion, HasRecursion
<1> DEFINE Good(m) == \E f \in [0..m -> S] : f[0] = a /\ \A k \in 1..m : f[k] = G[k][f[k - 1]]
           B == {m \in 0..n : ~Good(m)}
<1>1. SUFFICES ASSUME B # {} PROVE FALSE
  <2>1. n \notin B
    BY <1>1
  <2> QED
    BY <2>1
<1>2. 0 \notin B
  <2> DEFINE f == [k \in 0..0 |-> a]
  <2>1. f \in [0..0 -> S] /\ f[0] = a /\ \A k \in 1..0 : f[k] = G[k][f[k - 1]]
    OBVIOUS
  <2>2. Good(0)
    BY <2>1
  <2> QED
    BY <2>2
<1>3. PICK m \in 1..n : m \in B /\ m - 1 \in 0..n /\ m - 1 \notin B
  <2>1. B \in SUBSET (0..n)
    OBVIOUS
  <2> HIDE DEF B
  <2> QED
    BY <1>1, <1>2, <2>1, FirstFailure
<1>4. Good(m - 1)
  BY <1>3
<1>5. PICK g \in [0..(m - 1) -> S] : g[0] = a /\ \A k \in 1..(m - 1) : g[k] = G[k][g[k - 1]]
  BY <1>4
<1> DEFINE f == [k \in 0..m |-> IF k < m THEN g[k] ELSE G[m][g[m - 1]]]
<1>7. g[m - 1] \in S /\ G[m][g[m - 1]] \in S
  BY <1>3
<1>8. f \in [0..m -> S]
  BY <1>3, <1>7
<1>9. f[0] = a
  BY <1>5, <1>3
<1>10. ASSUME NEW k \in 1..m PROVE f[k] = G[k][f[k - 1]]
  <2>1. CASE k < m
    BY <1>5, <2>1
  <2>2. CASE k = m
    BY <1>3, <2>2
  <2> QED
    BY <1>3, <2>1, <2>2
<1>11. Good(m)
  <2> HIDE DEF f
  <2> QED
    BY <1>8, <1>9, <1>10
<1> QED
  BY <1>3, <1>11

LEMMA TotalSteps ==
  ASSUME NEW q \in Seq(Int)
  PROVE  \E t \in [0..Len(q) -> Int] :
            /\ t[0] = 0
            /\ \A i \in 1..Len(q) : t[i] = t[i - 1] + q[i]
            /\ Total(q) = t[Len(q)]
<1> DEFINE n == Len(q)
           Def(t) == t = [i \in 0..n |-> IF i = 0 THEN 0 ELSE t[i - 1] + q[i]]
           total == CHOOSE t : Def(t)
<1>1. n \in Nat /\ \A i \in 1..n : q[i] \in Int
  OBVIOUS
<1>2. Total(q) = total[n]
  BY DEF Total
<1>3. \E t : Def(t)
  <2> DEFINE G == [i \in 1..n |-> [y \in Int |-> y + q[i]]]
  <2>1. G \in [1..n -> [Int -> Int]]
    BY <1>1
  <2>2. \A i \in 1..n, y \in Int : G[i][y] = y + q[i]
    OBVIOUS
  <2> HIDE DEF G
  <2>3. \E f \in [0..n -> Int] : f[0] = 0 /\ \A k \in 1..n : f[k] = G[k][f[k - 1]]
    <3> HIDE DEF n
    <3>1. n \in Nat
      BY <1>1
    <3> DEFINE Z == Int
    <3>2. 0 \in Z /\ G \in [1..n -> [Z -> Z]]
      BY <2>1
    <3>3. HasRecursion(n, Z, 0, G)
      <4> HIDE DEF Z
      <4> QED
        BY <3>1, <3>2, RecursionExists
    <3> QED
      BY <3>3 DEF HasRecursion, IsRecursion
  <2>4. PICK f \in [0..n -> Int] : f[0] = 0 /\ \A k \in 1..n : f[k] = G[k][f[k - 1]]
    BY <2>3
  <2>5. ASSUME NEW k \in 1..n PROVE f[k] = f[k - 1] + q[k]
    <3>1. k - 1 \in 0..n
      BY <1>1
    <3> QED
      BY <2>2, <2>4, <3>1
  <2>6. Def(f)
    BY <1>1, <2>4, <2>5
  <2> QED
    BY <2>6
<1>4. Def(total)
  BY <1>3
<1> HIDE DEF total
<1>5. total[0] = 0 /\ \A i \in 1..n : total[i] = total[i - 1] + q[i]
  BY <1>1, <1>4
<1>6. \A i \in 0..n : total[i] \in Int
  <2> DEFINE B == {i \in 0..n : total[i] \notin Int}
  <2>1. SUFFICES ASSUME B # {} PROVE FALSE
    OBVIOUS
  <2>2. PICK i \in 1..n : i \in B /\ i - 1 \in 0..n /\ i - 1 \notin B
    <3>1. B \in SUBSET (0..n) /\ 0 \notin B
      BY <1>5
    <3> HIDE DEF n, B
    <3> QED
      BY <1>1, <2>1, <3>1, FirstFailure
  <2>3. total[i - 1] \in Int /\ q[i] \in Int /\ total[i] = total[i - 1] + q[i]
    BY <1>1, <1>5, <2>2
  <2> QED
    BY <2>2, <2>3
<1>7. total \in [0..n -> Int]
  BY <1>4, <1>6
<1> QED
  BY <1>2, <1>5, <1>7

\* A list of differences adds up to the last number less the first.
LEMMA Telescope ==
  ASSUME NEW q \in Seq(Int), NEW c \in [1..(Len(q) + 1) -> Int],
         \A i \in 1..Len(q) : q[i] = c[i + 1] - c[i]
  PROVE  Total(q) = c[Len(q) + 1] - c[1]
<1> DEFINE n == Len(q)
<1>1. n \in Nat
  OBVIOUS
<1>2. PICK t \in [0..n -> Int] :
        t[0] = 0 /\ (\A i \in 1..n : t[i] = t[i - 1] + q[i]) /\ Total(q) = t[n]
  BY TotalSteps
<1> HIDE DEF n
<1> DEFINE B == {i \in 0..n : t[i] # c[i + 1] - c[1]}
<1>3. B = {}
  <2>1. SUFFICES ASSUME B # {} PROVE FALSE
    OBVIOUS
  <2>2. 0 \notin B
    <3>1. c[1] \in Int /\ c[0 + 1] - c[1] = 0
      BY <1>1 DEF n
    <3> QED
      BY <1>2, <3>1
  <2>3. PICK i \in 1..n : i \in B /\ i - 1 \in 0..n /\ i - 1 \notin B
    <3>1. B \in SUBSET (0..n)
      OBVIOUS
    <3> HIDE DEF B
    <3> QED
      BY <1>1, <2>1, <2>2, <3>1, FirstFailure
  <2>5. t[i - 1] = c[i] - c[1] /\ t[i] = t[i - 1] + q[i] /\ q[i] = c[i + 1] - c[i]
    BY <1>2, <2>3 DEF n
  <2>6. c[i] \in Int /\ c[i + 1] \in Int /\ c[1] \in Int
    <3>1. i \in 1..(Len(q) + 1) /\ i + 1 \in 1..(Len(q) + 1) /\ 1 \in 1..(Len(q) + 1)
      BY <1>1 DEF n
    <3> QED
      BY <3>1
  <2> QED
    BY <2>3, <2>5, <2>6
<1>4. t[n] = c[n + 1] - c[1]
  <2>1. \A i \in 0..n : t[i] = c[i + 1] - c[1]
    BY <1>3
  <2>2. n \in 0..n
    BY <1>1
  <2> HIDE DEF B
  <2> QED
    BY <2>1, <2>2
<1> QED
  BY <1>2, <1>4 DEF n

LEMMA TotalOfOneMore ==
  ASSUME NEW q \in Seq(Int), NEW r \in Seq(Int), Len(r) = Len(q) + 1,
         \A i \in 1..Len(q) : r[i] = q[i]
  PROVE  Total(r) = Total(q) + r[Len(r)] /\ Total(q) \in Int
<1> DEFINE n == Len(q)
<1>1. n \in Nat /\ Len(r) = n + 1 /\ \A i \in 1..(n + 1) : r[i] \in Int
  OBVIOUS
<1>2. PICK t \in [0..n -> Int] :
        t[0] = 0 /\ (\A i \in 1..n : t[i] = t[i - 1] + q[i]) /\ Total(q) = t[n]
  BY TotalSteps
<1> DEFINE c == [i \in 1..(n + 2) |-> IF i <= n + 1 THEN t[i - 1] ELSE t[n] + r[n + 1]]
<1>3. c \in [1..(Len(r) + 1) -> Int]
  <2>1. ASSUME NEW i \in 1..(n + 2)
        PROVE  (IF i <= n + 1 THEN t[i - 1] ELSE t[n] + r[n + 1]) \in Int
    <3>1. (i <= n + 1 => i - 1 \in 0..n) /\ n \in 0..n /\ n + 1 \in 1..(n + 1)
      BY <1>1
    <3> HIDE DEF n
    <3>2. (i <= n + 1 => t[i - 1] \in Int) /\ t[n] \in Int
      BY <3>1
    <3>3. r[n + 1] \in Int
      BY <1>1, <3>1
    <3>4. t[n] + r[n + 1] \in Int
      BY <3>2, <3>3
    <3> QED
      BY <3>2, <3>4
  <2> QED
    BY <1>1, <2>1
<1>4. ASSUME NEW i \in 1..Len(r) PROVE r[i] = c[i + 1] - c[i]
  <2>1. CASE i <= n
    <3>1. i \in 1..n /\ r[i] = q[i] /\ c[i + 1] = t[i] /\ c[i] = t[i - 1] /\ q[i] \in Int
      BY <1>1, <2>1
    <3>2. t[i - 1] \in Int /\ t[i] = t[i - 1] + q[i]
      <4>1. i - 1 \in 0..n
        BY <1>1, <3>1
      <4> QED
        BY <1>2, <3>1, <4>1
    <3> QED
      BY <3>1, <3>2
  <2>2. CASE i = n + 1
    <3>1. c[i + 1] = t[n] + r[n + 1] /\ c[i] = t[n] /\ t[n] \in Int
      BY <1>1, <2>2
    <3> QED
      BY <1>1, <2>2, <3>1
  <2> QED
    BY <1>1, <2>1, <2>2
<1>5. c[Len(r) + 1] = t[n] + r[n + 1] /\ c[1] = 0 /\ t[n] \in Int
  BY <1>1, <1>2
<1> HIDE DEF c, n
<1>6. Total(r) = c[Len(r) + 1] - c[1]
  BY <1>3, <1>4, Telescope
<1> QED
  BY <1>1, <1>2, <1>5, <1>6

(***************************************************************************)
(* The n-th smallest of a set of positions                                 *)
(***************************************************************************)
UpTo(numbers, i) == {j \in numbers : j <= i}

LEMMA UpToIsFinite ==
  ASSUME NEW m \in Nat, NEW P \in SUBSET (1..m), NEW i
  PROVE  /\ IsFiniteSet(P) /\ Cardinality(P) \in 0..m
         /\ IsFiniteSet(UpTo(P, i)) /\ Cardinality(UpTo(P, i)) \in Nat
<1>1. IsFiniteSet(1..m) /\ Cardinality(1..m) = m
  BY FS_Interval
<1>2. IsFiniteSet(P) /\ Cardinality(P) <= m /\ Cardinality(P) \in Nat
  BY <1>1, FS_Subset, FS_CardinalityType
<1>3. UpTo(P, i) \in SUBSET P
  BY DEF UpTo
<1> QED
  BY <1>2, <1>3, FS_Subset, FS_CardinalityType

LEMMA UpToIs ==
  ASSUME NEW m \in Nat, NEW P \in SUBSET (1..m)
  PROVE  /\ UpTo(P, 0) = {}
         /\ UpTo(P, m) = P
         /\ \A i \in 1..m : i \notin P => UpTo(P, i) = UpTo(P, i - 1)
         /\ \A i \in P : UpTo(P, i) = UpTo(P, i - 1) \cup {i} /\ i \notin UpTo(P, i - 1)
         /\ \A i, k \in P : i <= k => UpTo(P, i) \in SUBSET UpTo(P, k)
<1>1. \A j \in P : j \in Nat /\ 1 <= j /\ j <= m
  OBVIOUS
<1>2. UpTo(P, 0) = {}
  <2>1. \A j \in P : ~(j <= 0)
    BY <1>1
  <2> QED
    BY <2>1 DEF UpTo
<1>3. UpTo(P, m) = P
  BY <1>1 DEF UpTo
<1>4. ASSUME NEW i \in 1..m, i \notin P PROVE UpTo(P, i) = UpTo(P, i - 1)
  <2>1. \A j \in P : j <= i <=> j <= i - 1
    BY <1>1, <1>4
  <2> QED
    BY <2>1 DEF UpTo
<1>5. ASSUME NEW i \in P
      PROVE  UpTo(P, i) = UpTo(P, i - 1) \cup {i} /\ i \notin UpTo(P, i - 1)
  <2>1. \A j \in P : j <= i <=> j <= i - 1 \/ j = i
    BY <1>1
  <2>2. ~(i <= i - 1) /\ i <= i
    BY <1>1
  <2> QED
    BY <2>1, <2>2 DEF UpTo
<1>6. ASSUME NEW i \in P, NEW k \in P, i <= k PROVE UpTo(P, i) \in SUBSET UpTo(P, k)
  <2>1. \A j \in P : j <= i => j <= k
    BY <1>1, <1>6
  <2> QED
    BY <2>1 DEF UpTo
<1> QED
  BY <1>2, <1>3, <1>4, <1>5, <1>6

LEMMA NthExists ==
  ASSUME NEW m \in Nat, NEW P \in SUBSET (1..m), NEW n \in 1..Cardinality(P)
  PROVE  Nth(P, n) \in P /\ Cardinality(UpTo(P, Nth(P, n))) = n
<1> DEFINE B == {i \in 0..m : Cardinality(UpTo(P, i)) >= n}
<1>1. n \in Nat /\ n >= 1 /\ Cardinality(P) \in 0..m /\ n <= Cardinality(P)
  BY UpToIsFinite
<1>2. 0 \notin B
  <2>1. UpTo(P, 0) = {}
    BY UpToIs
  <2> QED
    BY <1>1, <2>1, FS_EmptySet
<1>3. m \in B
  <2>1. UpTo(P, m) = P
    BY UpToIs
  <2> QED
    BY <1>1, <2>1
<1>4. PICK i \in 1..m : i \in B /\ i - 1 \in 0..m /\ i - 1 \notin B
  <2>1. B \in SUBSET (0..m) /\ B # {}
    BY <1>3
  <2> HIDE DEF B
  <2> QED
    BY <1>2, <2>1, FirstFailure
<1> DEFINE before == UpTo(P, i - 1)
<1>5. Cardinality(before) < n /\ Cardinality(UpTo(P, i)) >= n /\ Cardinality(before) \in Nat
      /\ IsFiniteSet(before)
  BY <1>1, <1>4, UpToIsFinite
<1>6. i \in P
  <2>1. SUFFICES ASSUME i \notin P PROVE FALSE
    OBVIOUS
  <2>2. UpTo(P, i) = before
    <3>1. \A j \in 1..m : j \notin P => UpTo(P, j) = UpTo(P, j - 1)
      BY UpToIs
    <3> QED
      BY <2>1, <3>1
  <2> QED
    BY <1>1, <1>5, <2>2
<1>7. Cardinality(UpTo(P, i)) = n
  <2>1. UpTo(P, i) = before \cup {i} /\ i \notin before
    BY <1>6, UpToIs
  <2>2. Cardinality(UpTo(P, i)) = Cardinality(before) + 1
    <3> HIDE DEF before
    <3> QED
      BY <1>5, <2>1, FS_AddElement
  <2> QED
    BY <1>1, <1>5, <2>2
<1>8. \E j \in P : Cardinality(UpTo(P, j)) = n
  BY <1>6, <1>7
<1>9. Nth(P, n) = CHOOSE j \in P : Cardinality(UpTo(P, j)) = n
  BY DEF Nth, UpTo
<1> QED
  BY <1>8, <1>9

LEMMA NthIncreases ==
  ASSUME NEW m \in Nat, NEW P \in SUBSET (1..m), NEW n \in 1..Cardinality(P),
         NEW k \in 1..Cardinality(P), n < k
  PROVE  Nth(P, n) < Nth(P, k)
<1> DEFINE x == Nth(P, n)
           y == Nth(P, k)
<1>1. /\ x \in P /\ Cardinality(UpTo(P, x)) = n
      /\ y \in P /\ Cardinality(UpTo(P, y)) = k
  BY NthExists
<1> HIDE DEF x, y
<1>0. x \in 1..m /\ y \in 1..m /\ n \in Nat /\ k \in Nat
  BY <1>1, UpToIsFinite
<1>2. SUFFICES ASSUME y <= x PROVE FALSE
  BY <1>0 DEF x, y
<1>3. UpTo(P, y) \in SUBSET UpTo(P, x)
  BY <1>1, <1>2, UpToIs
<1>4. k <= n
  BY <1>1, <1>3, UpToIsFinite, FS_Subset
<1> QED
  BY <1>0, <1>4

\* The first and the last one.
LEMMA NthEnds ==
  ASSUME NEW m \in Nat, NEW P \in SUBSET (1..m), Cardinality(P) > 0
  PROVE  /\ \A j \in P : j >= Nth(P, 1) /\ j <= Nth(P, Cardinality(P))
         /\ 1 \in P => Nth(P, 1) = 1
<1> DEFINE c == Cardinality(P)
           x == Nth(P, 1)
           y == Nth(P, c)
<1>1. c \in Nat /\ 1 \in 1..c /\ c \in 1..c /\ IsFiniteSet(P)
  BY UpToIsFinite
<1>2. /\ x \in P /\ Cardinality(UpTo(P, x)) = 1
      /\ y \in P /\ Cardinality(UpTo(P, y)) = c
  <2> HIDE DEF c
  <2> QED
    BY <1>1, NthExists DEF c
<1> HIDE DEF x, y
<1>3. ASSUME NEW j \in P PROVE j >= x
  <2>1. SUFFICES ASSUME j < x PROVE FALSE
    BY <1>2
  <2>2. j \in UpTo(P, x) /\ x \in UpTo(P, x) /\ j # x
    BY <1>2, <2>1 DEF UpTo
  <2>3. \E z : UpTo(P, x) = {z}
    BY <1>2, UpToIsFinite, FS_Singleton
  <2> QED
    BY <2>2, <2>3
<1>4. ASSUME NEW j \in P PROVE j <= y
  <2>1. UpTo(P, y) \in SUBSET P
    BY DEF UpTo
  <2>2. UpTo(P, y) = P
    BY <1>1, <1>2, <2>1, FS_Subset
  <2> QED
    BY <2>2 DEF UpTo
<1>5. 1 \in P => x = 1
  BY <1>2, <1>3
<1> QED
  BY <1>3, <1>4, <1>5 DEF x, y

LEMMA NthOfInterval ==
  ASSUME NEW lo \in Nat \ {0}, NEW hi \in Nat, lo <= hi + 1
  PROVE  /\ Cardinality(lo..hi) = hi - lo + 1
         /\ \A n \in 1..(hi - lo + 1) : Nth(lo..hi, n) = lo + n - 1
<1> DEFINE P == lo..hi
<1>1. Cardinality(P) = hi - lo + 1 /\ hi - lo + 1 \in Nat /\ P \in SUBSET (1..hi)
  <2>1. Cardinality(P) = IF lo > hi THEN 0 ELSE hi - lo + 1
    BY FS_Interval
  <2>2. (IF lo > hi THEN 0 ELSE hi - lo + 1) = hi - lo + 1 /\ hi - lo + 1 \in Nat
    OBVIOUS
  <2>3. P \in SUBSET (1..hi)
    OBVIOUS
  <2> QED
    BY <2>1, <2>2, <2>3
<1>2. ASSUME NEW n \in 1..(hi - lo + 1) PROVE Nth(P, n) = lo + n - 1
  <2> DEFINE x == Nth(P, n)
  <2>1. x \in P /\ Cardinality(UpTo(P, x)) = n
    <3> HIDE DEF P
    <3> QED
      BY <1>1, NthExists
  <2> HIDE DEF x
  <2>2. UpTo(P, x) = lo..x /\ x \in Int /\ lo <= x
    BY <2>1 DEF UpTo
  <2>3. Cardinality(lo..x) = x - lo + 1
    BY <2>2, FS_Interval
  <2>4. x = lo + n - 1
    BY <2>1, <2>2, <2>3
  <2> QED
    BY <2>4 DEF x
<1> QED
  BY <1>1, <1>2

LEMMA NeverDecreases ==
  ASSUME NEW n \in Nat, NEW f \in [1..n -> Int], \A i \in 1..(n - 1) : f[i] <= f[i + 1],
         NEW i \in 1..n, NEW k \in 1..n, i <= k
  PROVE  f[i] <= f[k]
<1> DEFINE m == n - i
           B == {j \in 0..m : f[i + j] < f[i]}
<1>1. m \in Nat
  OBVIOUS
<1>2. SUFFICES ASSUME B # {} PROVE FALSE
  <2>1. k - i \in 0..m /\ i + (k - i) = k
    OBVIOUS
  <2>2. \A j \in 0..m : ~(f[i + j] < f[i])
    BY <1>2
  <2>3. ~(f[k] < f[i])
    <3> HIDE DEF B, m
    <3> QED
      BY <2>1, <2>2
  <2> QED
    BY <2>3
<1>3. 0 \notin B
  OBVIOUS
<1>4. PICK j \in 1..m : j \in B /\ j - 1 \in 0..m /\ j - 1 \notin B
  <2>1. B \in SUBSET (0..m)
    OBVIOUS
  <2> HIDE DEF B, m
  <2> QED
    BY <1>1, <1>2, <1>3, <2>1, FirstFailure
<1>5. f[i + j] < f[i] /\ f[i + (j - 1)] >= f[i]
  BY <1>4
<1>6. i + (j - 1) \in 1..(n - 1) /\ (i + (j - 1)) + 1 = i + j
  BY <1>4
<1>7. f[i + (j - 1)] <= f[i + j]
  <2> DEFINE l == i + (j - 1)
  <2>1. l \in 1..(n - 1) /\ l + 1 = i + j
    BY <1>6
  <2> HIDE DEF l
  <2>2. f[l] <= f[l + 1]
    BY <2>1
  <2> QED
    BY <2>1, <2>2 DEF l
<1>8. f[i + j] \in Int /\ f[i + (j - 1)] \in Int /\ f[i] \in Int
  BY <1>4, <1>6
<1> QED
  BY <1>5, <1>7, <1>8

LEMMA AlwaysIncreases ==
  ASSUME NEW n \in Nat, NEW f \in [1..n -> Int], \A i \in 1..(n - 1) : f[i] < f[i + 1],
         NEW i \in 1..n, NEW k \in 1..n, i < k
  PROVE  f[i] < f[k]
<1>1. ASSUME NEW j \in 1..(n - 1) PROVE f[j] <= f[j + 1]
  <2>1. j \in 1..n /\ j + 1 \in 1..n
    OBVIOUS
  <2>2. f[j] \in Int /\ f[j + 1] \in Int /\ f[j] < f[j + 1]
    BY <2>1
  <2> QED
    BY <2>2
<1>2. i \in 1..(n - 1) /\ i + 1 \in 1..n /\ i + 1 <= k
  OBVIOUS
<1>3. f[i] < f[i + 1]
  BY <1>2
<1>4. f[i + 1] <= f[k]
  BY <1>1, <1>2, NeverDecreases
<1>5. f[i] \in Int /\ f[i + 1] \in Int /\ f[k] \in Int
  BY <1>2
<1> QED
  BY <1>3, <1>4, <1>5

LEMMA TotalOfBoth ==
  ASSUME NEW q \in Seq(Int), NEW r \in Seq(Int)
  PROVE  Total(q \o r) = Total(q) + Total(r) /\ Total(q) \in Int /\ Total(r) \in Int
<1> DEFINE n == Len(q)
           m == Len(r)
           s == q \o r
<1>1. n \in Nat /\ m \in Nat /\ s \in Seq(Int) /\ Len(s) = n + m
  OBVIOUS
<1>2. /\ \A i \in 1..n : s[i] = q[i] /\ q[i] \in Int
      /\ \A i \in 1..(n + m) : i > n => s[i] = r[i - n] /\ r[i - n] \in Int /\ i - n \in 1..m
  OBVIOUS
<1>3. PICK t \in [0..n -> Int] :
        t[0] = 0 /\ (\A i \in 1..n : t[i] = t[i - 1] + q[i]) /\ Total(q) = t[n]
  BY TotalSteps
<1>4. PICK u \in [0..m -> Int] :
        u[0] = 0 /\ (\A i \in 1..m : u[i] = u[i - 1] + r[i]) /\ Total(r) = u[m]
  BY TotalSteps
<1> HIDE DEF n, m, s
<1>5. t[n] \in Int /\ u[m] \in Int
  BY <1>1
<1> DEFINE c == [i \in 1..(n + m + 1) |-> IF i <= n THEN t[i - 1] ELSE t[n] + u[i - 1 - n]]
<1>6. c \in [1..(Len(s) + 1) -> Int]
  <2>1. ASSUME NEW i \in 1..(n + m + 1), i <= n PROVE t[i - 1] \in Int
    <3>1. i - 1 \in 0..n
      BY <1>1, <2>1
    <3> QED
      BY <3>1
  <2>2. ASSUME NEW i \in 1..(n + m + 1), ~(i <= n) PROVE t[n] + u[i - 1 - n] \in Int
    <3>1. i - 1 - n \in 0..m
      BY <1>1, <2>2
    <3> QED
      BY <1>5, <3>1
  <2> QED
    BY <1>1, <2>1, <2>2
<1>7. ASSUME NEW i \in 1..Len(s) PROVE s[i] = c[i + 1] - c[i]
  <2>1. i \in 1..(n + m) /\ i \in 1..(n + m + 1) /\ i + 1 \in 1..(n + m + 1) /\ i \in Nat
    BY <1>1
  <2>2. CASE i < n
    <3>1. c[i + 1] = t[i] /\ c[i] = t[i - 1] /\ i \in 1..n /\ i - 1 \in 0..n /\ i \in 0..n
      BY <1>1, <2>1, <2>2
    <3>2. t[i] = t[i - 1] + q[i] /\ t[i - 1] \in Int /\ s[i] = q[i] /\ q[i] \in Int
      BY <1>2, <1>3, <3>1
    <3> QED
      BY <3>1, <3>2
  <2>3. CASE i = n
    <3>1. c[i + 1] = t[n] + u[0] /\ c[i] = t[n - 1] /\ n \in 1..n /\ n - 1 \in 0..n
      BY <1>1, <2>1, <2>3
    <3>2. t[n] = t[n - 1] + q[n] /\ t[n - 1] \in Int /\ s[i] = q[n] /\ q[n] \in Int
      BY <1>2, <1>3, <2>3, <3>1
    <3> QED
      BY <1>4, <1>5, <3>1, <3>2
  <2>4. CASE i > n
    <3> DEFINE k == i - n
    <3>1. /\ k \in 1..m /\ k - 1 \in 0..m /\ k \in 0..m /\ i + 1 - 1 - n = k
          /\ i - 1 - n = k - 1
      BY <1>1, <2>1, <2>4
    <3>2. c[i + 1] = t[n] + u[k] /\ c[i] = t[n] + u[k - 1]
      BY <1>1, <2>1, <2>4, <3>1
    <3> HIDE DEF c
    <3>3. s[i] = r[k] /\ r[k] \in Int
      BY <1>2, <2>1, <2>4
    <3> HIDE DEF k
    <3>4. u[k] = u[k - 1] + r[k] /\ u[k - 1] \in Int /\ u[k] \in Int
      BY <1>4, <3>1
    <3> QED
      BY <1>5, <3>2, <3>3, <3>4, SMTT(30)
  <2> QED
    BY <1>1, <2>1, <2>2, <2>3, <2>4
<1>8. c[1] = 0 /\ c[Len(s) + 1] = t[n] + u[m]
  <2>1. 1 \in 1..(n + m + 1) /\ n + m + 1 \in 1..(n + m + 1) /\ n + m + 1 - 1 - n = m
        /\ ~(n + m + 1 <= n)
    BY <1>1
  <2> DEFINE k == n + m + 1
  <2>2. c[k] = t[n] + u[m]
    <3>1. k \in 1..(n + m + 1) /\ k - 1 - n = m /\ ~(k <= n)
      BY <1>1
    <3>2. c[k] = IF k <= n THEN t[k - 1] ELSE t[n] + u[k - 1 - n]
      <4> HIDE DEF k
      <4> QED
        BY <3>1
    <3> HIDE DEF k, c
    <3> QED
      BY <3>1, <3>2
  <2>3. c[1] = 0
    <3>1. CASE n = 0
      <4>1. 1 - 1 - n = 0 /\ ~(1 <= n)
        BY <3>1
      <4>2. c[1] = t[n] + u[0]
        BY <2>1, <4>1
      <4>3. t[n] = 0 /\ u[0] = 0
        BY <1>3, <1>4, <3>1
      <4> HIDE DEF c
      <4> QED
        BY <4>2, <4>3
    <3>2. CASE n > 0
      <4>1. 1 <= n
        BY <1>1, <3>2
      <4>2. c[1] = t[1 - 1]
        BY <2>1, <4>1
      <4> HIDE DEF c
      <4> QED
        BY <1>3, <4>2
    <3> QED
      BY <1>1, <3>1, <3>2
  <2> QED
    BY <1>1, <2>2, <2>3
<1> HIDE DEF c
<1>9. Total(s) = c[Len(s) + 1] - c[1]
  BY <1>1, <1>6, <1>7, Telescope
<1> QED
  BY <1>3, <1>4, <1>5, <1>8, <1>9 DEF s

Quantities(list) == [i \in 1..Len(list) |-> list[i].quantity]

\* What FlattenSeq computes, step by step.
IsFlattening(f, n, lists) ==
    /\ f[1] = lists[1]
    /\ \A i \in 2..n : f[i] = f[i - 1] \o lists[i]
    /\ FlattenSeq(lists) = f[n]
HasFlattening(n, S, lists) == \E f \in [1..n -> Seq(S)] : IsFlattening(f, n, lists)

LEMMA FlattenSteps ==
  ASSUME NEW n \in Nat, n > 0, NEW S, NEW lists \in [1..n -> Seq(S)]
  PROVE  HasFlattening(n, S, lists)
<1> DEFINE T == Seq(S)
           Def(f) == f = [i \in 1..n |-> IF i = 1 THEN lists[i] ELSE f[i - 1] \o lists[i]]
           flatten == CHOOSE f : Def(f)
<1>1. Len(lists) = n /\ lists \in Seq(T) /\ \A i \in 1..n : lists[i] \in T
  OBVIOUS
<1>2. FlattenSeq(lists) = flatten[n]
  BY <1>1 DEF FlattenSeq
<1> DEFINE G == [k \in 1..n |-> [s \in T |-> IF k = 1 THEN lists[k] ELSE s \o lists[k]]]
<1>3. G \in [1..n -> [T -> T]] /\ <<>> \in T
  <2>1. ASSUME NEW k \in 1..n, NEW s \in T PROVE (IF k = 1 THEN lists[k] ELSE s \o lists[k]) \in T
    BY <1>1
  <2> HIDE DEF T
  <2>2. G \in [1..n -> [T -> T]]
    BY <2>1
  <2> QED
    BY <2>2 DEF T
<1>4. \A k \in 1..n, s \in T : G[k][s] = IF k = 1 THEN lists[k] ELSE s \o lists[k]
  OBVIOUS
<1>5. HasRecursion(n, T, <<>>, G)
  <2> HIDE DEF T, G
  <2> QED
    BY <1>3, RecursionExists
<1> HIDE DEF G
<1>6. PICK g \in [0..n -> T] : g[0] = <<>> /\ \A k \in 1..n : g[k] = G[k][g[k - 1]]
  BY <1>5 DEF HasRecursion, IsRecursion
<1> DEFINE f == [i \in 1..n |-> g[i]]
<1>7. ASSUME NEW i \in 1..n
      PROVE  f[i] \in T /\ f[i] = IF i = 1 THEN lists[i] ELSE f[i - 1] \o lists[i]
  <2>1. i \in 0..n /\ i - 1 \in 0..n
    OBVIOUS
  <2>2. g[i] \in T /\ g[i - 1] \in T /\ g[i] = G[i][g[i - 1]]
    <3> HIDE DEF T
    <3> QED
      BY <1>6, <2>1
  <2>3. g[i] = IF i = 1 THEN lists[i] ELSE g[i - 1] \o lists[i]
    <3> HIDE DEF T
    <3> QED
      BY <1>4, <2>2
  <2>4. i # 1 => i - 1 \in 1..n
    OBVIOUS
  <2> HIDE DEF T
  <2> QED
    BY <2>2, <2>3, <2>4
<1>8. Def(f)
  <2> HIDE DEF T
  <2>1. f = [i \in 1..n |-> IF i = 1 THEN lists[i] ELSE f[i - 1] \o lists[i]]
    <3>1. ASSUME NEW i \in 1..n PROVE f[i] = IF i = 1 THEN lists[i] ELSE f[i - 1] \o lists[i]
      BY <1>7
    <3>2. f = [i \in 1..n |-> f[i]]
      OBVIOUS
    <3> HIDE DEF f
    <3> QED
      BY <3>1, <3>2
  <2> QED
    BY <2>1
<1>9. Def(flatten)
  BY <1>8
<1> HIDE DEF flatten, f
<1>10. \A i \in 1..n : flatten[i] = IF i = 1 THEN lists[i] ELSE flatten[i - 1] \o lists[i]
  BY <1>9
<1>11. \A i \in 1..n : flatten[i] \in T
  <2>0. \A s \in T, r \in T : s \o r \in T
    OBVIOUS
  <2> DEFINE B == {i \in 0..n : i > 0 /\ flatten[i] \notin T}
  <2> HIDE DEF T
  <2>1. SUFFICES ASSUME B # {} PROVE FALSE
    <3>1. \A i \in 1..n : i \in 0..n /\ i > 0
      OBVIOUS
    <3> QED
      BY <2>1, <3>1
  <2>2. PICK i \in 1..n : i \in B /\ i - 1 \in 0..n /\ i - 1 \notin B
    <3>1. B \in SUBSET (0..n) /\ 0 \notin B
      OBVIOUS
    <3> HIDE DEF B
    <3> QED
      BY <2>1, <3>1, FirstFailure
  <2>3. i # 1 => flatten[i - 1] \in T
    BY <2>2
  <2>4. flatten[i] = IF i = 1 THEN lists[i] ELSE flatten[i - 1] \o lists[i]
    BY <1>10
  <2>5. flatten[i] \in T
    BY <1>1, <2>0, <2>3, <2>4
  <2> QED
    BY <2>2, <2>5
<1>12. flatten \in [1..n -> T]
  <2> HIDE DEF T
  <2> QED
    BY <1>9, <1>11
<1>13. flatten[1] = lists[1] /\ \A i \in 2..n : flatten[i] = flatten[i - 1] \o lists[i]
  <2>1. 1 \in 1..n /\ \A i \in 2..n : i \in 1..n /\ i # 1
    OBVIOUS
  <2> QED
    BY <1>10, <2>1
<1> QED
  BY <1>2, <1>12, <1>13 DEF HasFlattening, IsFlattening

LEMMA QuantitiesOfAll ==
  ASSUME NEW n \in Nat, n > 0, NEW S, \A u \in S : u.quantity \in Int,
         NEW lists \in [1..n -> Seq(S)]
  PROVE  /\ Total(Quantities(FlattenSeq(lists))) = Total([i \in 1..n |-> Total(Quantities(lists[i]))])
         /\ FlattenSeq(lists) \in Seq(S)
<1> DEFINE T == Seq(S)
           q == [i \in 1..n |-> Total(Quantities(lists[i]))]
<1>1. PICK f \in [1..n -> T] :
          /\ f[1] = lists[1]
          /\ \A i \in 2..n : f[i] = f[i - 1] \o lists[i]
          /\ FlattenSeq(lists) = f[n]
  <2>1. HasFlattening(n, S, lists)
    BY FlattenSteps
  <2> QED
    BY <2>1 DEF HasFlattening, IsFlattening
<1>2. ASSUME NEW s \in T PROVE Quantities(s) \in Seq(Int) /\ Total(Quantities(s)) \in Int
  <2>1. Quantities(s) \in Seq(Int)
    BY DEF Quantities
  <2>2. <<>> \in Seq(Int)
    OBVIOUS
  <2> QED
    BY <2>1, <2>2, TotalOfBoth
<1>3. ASSUME NEW s \in T, NEW r \in T
      PROVE  Total(Quantities(s \o r)) = Total(Quantities(s)) + Total(Quantities(r))
  <2>1. Quantities(s \o r) = Quantities(s) \o Quantities(r)
    BY SMTT(30) DEF Quantities
  <2> QED
    BY <1>2, <2>1, TotalOfBoth
<1>4. \A i \in 1..n : lists[i] \in T /\ f[i] \in T
  OBVIOUS
<1> HIDE DEF T
<1>5. q \in Seq(Int) /\ Len(q) = n /\ \A i \in 1..n : q[i] = Total(Quantities(lists[i]))
  BY <1>2, <1>4
<1> HIDE DEF q
<1>6. PICK t \in [0..n -> Int] :
        t[0] = 0 /\ (\A i \in 1..n : t[i] = t[i - 1] + q[i]) /\ Total(q) = t[n]
  BY <1>5, TotalSteps
<1> DEFINE B == {i \in 0..n : i > 0 /\ Total(Quantities(f[i])) # t[i]}
<1>7. B = {}
  <2>1. SUFFICES ASSUME B # {} PROVE FALSE
    OBVIOUS
  <2>2. PICK i \in 1..n : i \in B /\ i - 1 \in 0..n /\ i - 1 \notin B
    <3>1. B \in SUBSET (0..n) /\ 0 \notin B
      OBVIOUS
    <3> HIDE DEF B
    <3> QED
      BY <2>1, <3>1, FirstFailure
  <2>3. t[i] = t[i - 1] + q[i] /\ q[i] = Total(Quantities(lists[i])) /\ q[i] \in Int
    BY <1>2, <1>4, <1>5, <1>6
  <2>4. CASE i = 1
    <3>1. f[1] = lists[1] /\ t[1] = 0 + q[1]
      BY <1>1, <1>6, <2>3, <2>4
    <3> QED
      BY <2>2, <2>3, <2>4, <3>1
  <2>5. CASE i # 1
    <3>1. i \in 2..n /\ i - 1 \in 1..n /\ i - 1 > 0
      BY <2>5
    <3>2. f[i] = f[i - 1] \o lists[i] /\ Total(Quantities(f[i - 1])) = t[i - 1]
      <4>1. Total(Quantities(f[i - 1])) = t[i - 1]
        BY <2>2, <3>1
      <4> HIDE DEF B
      <4> QED
        BY <1>1, <3>1, <4>1
    <3>3. Total(Quantities(f[i])) = Total(Quantities(f[i - 1])) + Total(Quantities(lists[i]))
      BY <1>3, <1>4, <3>1, <3>2
    <3> QED
      BY <2>2, <2>3, <3>2, <3>3
  <2> QED
    BY <2>4, <2>5
<1>8. Total(Quantities(f[n])) = t[n]
  <2>1. \A i \in 0..n : i > 0 => Total(Quantities(f[i])) = t[i]
    BY <1>7
  <2> HIDE DEF B
  <2> QED
    BY <2>1
<1> QED
  BY <1>1, <1>4, <1>6, <1>8 DEF q, T

(***************************************************************************)
(* Stored dates                                                            *)
(***************************************************************************)
\* A day that its month has.
IsDay(date) == date \in Nat /\ DayOf(date) <= DaysIn(MonthOf(date))

LEMMA DayParts ==
  ASSUME NEW month \in Nat, NEW day \in 1..31, day <= DaysIn(month)
  PROVE  /\ IsDay(31 * month + day - 1)
         /\ MonthOf(31 * month + day - 1) = month
         /\ DayOf(31 * month + day - 1) = day
<1>1. IsDate(31 * month + day - 1, month, day)
  BY DEF IsDate
<1> QED
  BY <1>1, DateParts DEF IsDay

LEMMA NextDay ==
  ASSUME NEW date, IsDay(date)
  PROVE  IsDay(AddDays(date, 1)) /\ AddDays(date, 1) > date
<1> DEFINE m == MonthOf(date)
           d == DayOf(date)
<1>1. IsDate(date, m, d) /\ d <= DaysIn(m)
  BY EveryDateHasParts DEF IsDay
<1> HIDE DEF m, d
<1>2. m \in Nat /\ d \in 1..31 /\ DaysIn(m) \in 28..31 /\ DaysIn(m + 1) \in 28..31 /\ m + 1 \in Nat
  BY <1>1, MonthLengths DEF IsDate
<1>3. CASE d + 1 > DaysIn(m)
  <2>1. IsDate(AddDays(date, 1), m + 1, d + 1 - DaysIn(m))
    BY <1>1, <1>3, DaysLater
  <2>2. d + 1 - DaysIn(m) = 1
    BY <1>1, <1>2, <1>3
  <2>3. IsDate(AddDays(date, 1), m + 1, 1) /\ 1 <= DaysIn(m + 1)
    BY <1>2, <2>1, <2>2
  <2>4. AddDays(date, 1) > date
    BY <1>1, <1>2, <2>3 DEF IsDate
  <2> QED
    BY <2>3, <2>4, DateParts DEF IsDay
<1>4. CASE d + 1 <= DaysIn(m)
  <2>1. IsDate(AddDays(date, 1), m, d + 1)
    BY <1>1, <1>4, DaysLater
  <2>2. AddDays(date, 1) > date
    BY <1>1, <1>2, <2>1 DEF IsDate
  <2> QED
    BY <1>4, <2>1, <2>2, DateParts DEF IsDay
<1> QED
  BY <1>2, <1>3, <1>4

LEMMA PreviousDay ==
  ASSUME NEW date, IsDay(date), MonthOf(date) > 0
  PROVE  /\ IsDay(AddDays(date, -1)) /\ AddDays(date, -1) < date
         /\ AddDays(AddDays(date, -1), 1) = date
         /\ \A other : IsDay(other) /\ other < date => other <= AddDays(date, -1)
<1> DEFINE m == MonthOf(date)
           d == DayOf(date)
           before == AddDays(date, -1)
<1>1. IsDate(date, m, d) /\ d <= DaysIn(m) /\ m > 0
  BY EveryDateHasParts DEF IsDay
<1> HIDE DEF m, d
<1>2. m \in Nat /\ d \in 1..31 /\ DaysIn(m) \in 28..31 /\ DaysIn(m - 1) \in 28..31 /\ m - 1 \in Nat
  BY <1>1, MonthLengths DEF IsDate
<1>3. CASE d = 1
  <2> DEFINE l == DaysIn(m - 1)
  <2>1. IsDate(before, m - 1, l) /\ l <= DaysIn(m - 1)
    BY <1>1, <1>2, <1>3, DayBefore
  <2>2. before < date
    BY <1>1, <1>2, <1>3, <2>1 DEF IsDate
  <2>3. l + 1 > DaysIn(m - 1) /\ m - 1 + 1 = m /\ l + 1 - DaysIn(m - 1) = 1
    BY <1>2
  <2> HIDE DEF l, before
  <2>4. IsDate(AddDays(before, 1), m - 1 + 1, l + 1 - DaysIn(m - 1))
    BY <2>1, <2>3, DaysLater
  <2>5. AddDays(before, 1) = date
    BY <1>1, <1>3, <2>3, <2>4 DEF IsDate
  <2>6. IsDay(before)
    BY <2>1, DateParts DEF IsDay
  <2>7. ASSUME NEW other, IsDay(other), other < date PROVE other <= before
    <3> DEFINE om == MonthOf(other)
               od == DayOf(other)
    <3>1. IsDate(other, om, od) /\ od <= DaysIn(om)
      BY <2>7, EveryDateHasParts DEF IsDay
    <3> HIDE DEF om, od
    <3>2. om <= m - 1
      BY <1>1, <1>2, <1>3, <2>7, <3>1 DEF IsDate
    <3>3. om = m - 1 => od <= DaysIn(m - 1)
      BY <3>1
    <3> QED
      BY <1>2, <2>1, <3>1, <3>2, <3>3 DEF IsDate, l
  <2> QED
    BY <2>2, <2>5, <2>6, <2>7 DEF before
<1>4. CASE d > 1
  <2>1. IsDate(before, m, d - 1)
    BY <1>1, <1>4, DayBefore
  <2>2. before < date /\ d - 1 <= DaysIn(m) /\ ~(d - 1 + 1 > DaysIn(m)) /\ d - 1 + 1 = d
        /\ before = date - 1
    BY <1>1, <1>2, <1>4, <2>1 DEF IsDate
  <2> HIDE DEF before
  <2>3. IsDate(AddDays(before, 1), m, d - 1 + 1)
    <3> DEFINE e == d - 1
    <3>1. IsDate(before, m, e) /\ e <= DaysIn(m) /\ e + 1 <= DaysIn(m)
      BY <1>1, <1>2, <2>1, <2>2
    <3> HIDE DEF e
    <3>2. IsDate(AddDays(before, 1), m, e + 1)
      BY <3>1, DaysLater
    <3> QED
      BY <3>2 DEF e
  <2>4. AddDays(before, 1) = date
    BY <1>1, <2>2, <2>3 DEF IsDate
  <2>5. IsDay(before)
    BY <2>1, <2>2, DateParts DEF IsDay
  <2>6. \A other : IsDay(other) /\ other < date => other <= before
    BY <1>1, <2>2 DEF IsDay, IsDate
  <2> QED
    BY <2>2, <2>4, <2>5, <2>6 DEF before
<1> QED
  BY <1>2, <1>3, <1>4

\* When the clocks change, in the coordinates of a year.
LEMMA SummerTime ==
  ASSUME NEW year \in Nat
  PROVE  /\ SummerBegins(year) \in (31 * (12 * year + 2) + 24)..(31 * (12 * year + 2) + 30)
         /\ SummerEnds(year) \in (31 * (12 * year + 9) + 24)..(31 * (12 * year + 9) + 30)
<1> DEFINE x == (((5 * year) \div 4) + 4) % 7
           z == (((5 * year) \div 4) + 1) % 7
<1>1. x \in 0..6 /\ z \in 0..6
  OBVIOUS
<1>2. SummerBegins(year) = DateOf(year, 3, 31 - x) /\ SummerEnds(year) = DateOf(year, 10, 31 - z)
  BY DEF SummerBegins, SummerEnds
<1> HIDE DEF x, z
<1> QED
  BY <1>1, <1>2 DEF DateOf

LEMMA SameOffsetInTheEvening ==
  ASSUME NEW date, IsDay(date), NEW hour \in {20, 21}
  PROVE  HoursAhead(At(date, hour), 1) = HoursAhead(At(date, 23), 4)
<1> DEFINE year == MonthOf(date) \div 12
           begins == SummerBegins(year)
           ends == SummerEnds(year)
<1>1. /\ date \in Nat /\ DateIn(At(date, hour)) = date /\ DateIn(At(date, 23)) = date
      /\ year \in Nat
  <2>1. date \in Nat /\ hour \in 0..23 /\ 23 \in 0..23 /\ MonthOf(date) \in Nat
    BY DEF IsDay, MonthOf
  <2>2. year \in Nat
    <3> DEFINE m == MonthOf(date)
    <3> HIDE DEF m
    <3>1. m \in Nat => m \div 12 \in Nat
      OBVIOUS
    <3> QED
      BY <2>1, <3>1 DEF m
  <2> HIDE DEF year
  <2> QED
    BY <2>1, <2>2, MomentParts
<1>2. begins \in Nat /\ ends \in Nat
  <2>1. year \in Nat
    BY <1>1
  <2> HIDE DEF year
  <2>2. /\ begins \in (31 * (12 * year + 2) + 24)..(31 * (12 * year + 2) + 30)
        /\ ends \in (31 * (12 * year + 9) + 24)..(31 * (12 * year + 9) + 30)
    BY <2>1, SummerTime
  <2> QED
    BY <2>1, <2>2
<1>3. /\ HoursAhead(At(date, hour), 1) =
            IF At(date, hour) >= At(begins, 1) /\ At(date, hour) < At(ends, 1) THEN 3 ELSE 2
      /\ HoursAhead(At(date, 23), 4) =
            IF At(date, 23) >= At(begins, 4) /\ At(date, 23) < At(ends, 4) THEN 3 ELSE 2
  BY <1>1 DEF HoursAhead
<1> HIDE DEF begins, ends, year
<1>4. /\ At(date, hour) >= At(begins, 1) <=> date >= begins
      /\ At(date, 23) >= At(begins, 4) <=> date >= begins
      /\ At(date, hour) < At(ends, 1) <=> date < ends
      /\ At(date, 23) < At(ends, 4) <=> date < ends
  BY <1>1, <1>2 DEF At
<1> QED
  BY <1>3, <1>4

\* The end of a day, stored and read again, is on that day.
LEMMA EndOfDayIsOnTheDay ==
  ASSUME NEW date, IsDay(date)
  PROVE  LocalDate(EndOfDay(date)) = date /\ DateIn(EndOfDay(date)) = date
<1> DEFINE ahead == HoursAhead(At(date, 23), 4)
<1>1. date \in Nat /\ ahead \in {2, 3}
  BY HelsinkiIsAhead DEF IsDay
<1>2. EndOfDay(date) = At(date, 23 - ahead)
  BY <1>1, MomentParts DEF EndOfDay, FromLocal, AddHours
<1>3. HoursAhead(At(date, 23 - ahead), 1) = ahead
  <2>1. 23 - ahead \in {20, 21}
    BY <1>1
  <2> QED
    BY <2>1, SameOffsetInTheEvening
<1> HIDE DEF ahead
<1>4. DateIn(At(date, 23 - ahead)) = date /\ HourIn(At(date, 23 - ahead)) = 23 - ahead
  <2>1. 23 - ahead \in 0..23
    BY <1>1
  <2> QED
    BY <1>1, <2>1, MomentParts
<1>5. ToLocal(EndOfDay(date)) = At(date, 23)
  BY <1>1, <1>2, <1>3, <1>4 DEF ToLocal, AddHours
<1>6. DateIn(At(date, 23)) = date
  BY <1>1, MomentParts
<1> QED
  BY <1>2, <1>4, <1>5, <1>6 DEF LocalDate

LEMMA SameOffsetAtMidnight ==
  ASSUME NEW date, IsDay(date), MonthOf(date) > 0, NEW hour \in {21, 22}
  PROVE  HoursAhead(At(AddDays(date, -1), hour), 1) = HoursAhead(At(date, 0), 4)
<1> DEFINE m == MonthOf(date)
           d == DayOf(date)
           y == m \div 12
           r == m % 12
           before == AddDays(date, -1)
           bm == MonthOf(before)
           by == bm \div 12
           begins == SummerBegins(y)
           ends == SummerEnds(y)
           beginsB == SummerBegins(by)
           endsB == SummerEnds(by)
<1>1. IsDate(date, m, d) /\ d <= DaysIn(m) /\ m > 0 /\ m \in Nat
  BY EveryDateHasParts DEF IsDay, IsDate
<1>2. /\ date \in Nat /\ before \in Nat /\ bm \in Nat
      /\ DateIn(At(before, hour)) = before /\ DateIn(At(date, 0)) = date
  <2>1. IsDay(before)
    BY PreviousDay
  <2>2. before \in Nat /\ date \in Nat /\ hour \in 0..23 /\ 0 \in 0..23
    BY <2>1 DEF IsDay
  <2> HIDE DEF before
  <2>3. bm \in Nat
    BY <2>2 DEF MonthOf
  <2> QED
    BY <2>2, <2>3, MomentParts
<1>3. /\ HoursAhead(At(before, hour), 1) =
            IF At(before, hour) >= At(beginsB, 1) /\ At(before, hour) < At(endsB, 1) THEN 3 ELSE 2
      /\ HoursAhead(At(date, 0), 4) =
            IF At(date, 0) >= At(begins, 4) /\ At(date, 0) < At(ends, 4) THEN 3 ELSE 2
  BY <1>2 DEF HoursAhead
<1>4. y \in Nat /\ r \in 0..11 /\ m = 12 * y + r /\ by \in Nat
  <2> HIDE DEF m, bm
  <2> QED
    BY <1>1, <1>2
<1>5. /\ d = 1 => IsDate(before, m - 1, DaysIn(m - 1))
      /\ d > 1 => IsDate(before, m, d - 1)
  BY <1>1, DayBefore
<1>6. /\ begins \in (31 * (12 * y + 2) + 24)..(31 * (12 * y + 2) + 30)
      /\ ends \in (31 * (12 * y + 9) + 24)..(31 * (12 * y + 9) + 30)
      /\ beginsB \in (31 * (12 * by + 2) + 24)..(31 * (12 * by + 2) + 30)
      /\ endsB \in (31 * (12 * by + 9) + 24)..(31 * (12 * by + 9) + 30)
  <2> HIDE DEF y, by
  <2> QED
    BY <1>4, SummerTime
<1>7. /\ d = 1 => bm = m - 1
      /\ d > 1 => bm = m
  BY <1>5, DateParts
<1>8. /\ d > 1 => by = y
      /\ d = 1 /\ r > 0 => by = y
      /\ d = 1 /\ r = 0 => by = y - 1
  <2> HIDE DEF m, bm, d
  <2> QED
    BY <1>1, <1>2, <1>7
<1>9. by = y => beginsB = begins /\ endsB = ends
  OBVIOUS
<1>10. DaysIn(m - 1) \in 28..31 /\ (r \in {3, 10} => DaysIn(m - 1) = 31)
  <2>1. m - 1 \in Nat
    BY <1>1
  <2>2. r = 3 => (m - 1) % 12 = 2
    BY <1>1, <1>4
  <2>3. r = 10 => (m - 1) % 12 = 9
    BY <1>1, <1>4
  <2> QED
    BY <2>1, <2>2, <2>3, MonthLengths DEF DaysIn
<1> HIDE DEF m, d, y, r, before, bm, by, begins, ends, beginsB, endsB
<1> DEFINE summerB == before >= beginsB /\ before < endsB
           summer == date > begins /\ date <= ends
<1>11. /\ At(before, hour) >= At(beginsB, 1) /\ At(before, hour) < At(endsB, 1) <=> summerB
       /\ At(date, 0) >= At(begins, 4) /\ At(date, 0) < At(ends, 4) <=> summer
  BY <1>2, <1>6, <1>4 DEF At
<1>12. summerB <=> summer
  <2>1. CASE d > 1
    BY <1>1, <1>4, <1>5, <1>6, <1>8, <1>9, <2>1 DEF IsDate
  <2>2. CASE d = 1 /\ r = 0
    BY <1>1, <1>4, <1>5, <1>6, <1>8, <1>10, <2>2 DEF IsDate
  <2>3. CASE d = 1 /\ r > 0
    <3>1. CASE r <= 2
      BY <1>1, <1>4, <1>5, <1>6, <1>8, <1>9, <1>10, <2>3, <3>1 DEF IsDate
    <3>2. CASE r = 3
      BY <1>1, <1>4, <1>5, <1>6, <1>8, <1>9, <1>10, <2>3, <3>2 DEF IsDate
    <3>3. CASE r > 3 /\ r < 10
      BY <1>1, <1>4, <1>5, <1>6, <1>8, <1>9, <1>10, <2>3, <3>3 DEF IsDate
    <3>4. CASE r >= 10
      BY <1>1, <1>4, <1>5, <1>6, <1>8, <1>9, <1>10, <2>3, <3>4 DEF IsDate
    <3> QED
      BY <1>4, <3>1, <3>2, <3>3, <3>4
  <2>4. d \in 1..31
    BY <1>1 DEF IsDate
  <2> QED
    BY <1>4, <2>1, <2>2, <2>3, <2>4
<1> QED
  BY <1>3, <1>11, <1>12 DEF before, m

\* The beginning of a day, stored and read again, is on that day.
LEMMA MidnightIsOnTheDay ==
  ASSUME NEW date, IsDay(date), MonthOf(date) > 0
  PROVE  LocalDate(FromLocal(date, 0)) = date
<1> DEFINE ahead == HoursAhead(At(date, 0), 4)
           before == AddDays(date, -1)
<1>1. date \in Nat /\ ahead \in {2, 3} /\ before \in Nat /\ AddDays(before, 1) = date
  BY HelsinkiIsAhead, PreviousDay DEF IsDay
<1>2. 24 - ahead \in {21, 22} /\ -ahead + 24 = 24 - ahead
  BY <1>1
<1>3. HoursAhead(At(before, 24 - ahead), 1) = ahead
  BY <1>2, SameOffsetAtMidnight
<1>4. FromLocal(date, 0) = AddHours(At(date, 0), -ahead)
  BY DEF FromLocal
<1> HIDE DEF ahead, before
<1>5. DateIn(At(date, 0)) = date /\ HourIn(At(date, 0)) = 0
  BY <1>1, MomentParts
<1>6. FromLocal(date, 0) = At(before, 24 - ahead)
  BY <1>1, <1>2, <1>4, <1>5 DEF AddHours, before
<1>7. DateIn(At(before, 24 - ahead)) = before /\ HourIn(At(before, 24 - ahead)) = 24 - ahead
  <2>1. 24 - ahead \in 0..23
    BY <1>1
  <2> QED
    BY <1>1, <2>1, MomentParts
<1>8. ToLocal(FromLocal(date, 0)) = At(date, 0)
  BY <1>1, <1>3, <1>6, <1>7 DEF ToLocal, AddHours
<1> QED
  BY <1>5, <1>8 DEF LocalDate

(***************************************************************************)
(* The days of a permit                                                    *)
(***************************************************************************)
LEMMA StartDay ==
  ASSUME NEW start \in Starts
  PROVE  IsDay(LocalDate(start))
<1>1. start \in Nat /\ IsDay(DateIn(start))
  BY StartsAssumption, EveryMomentHasParts DEF IsDay
<1>2. LocalDate(start) \in {DateIn(start), AddDays(DateIn(start), 1)}
  BY <1>1, LocalDay
<1> QED
  BY <1>1, <1>2, NextDay

LEMMA MonthsAfter ==
  ASSUME NEW date, IsDay(date), NEW n \in Nat
  PROVE  /\ IsDay(AddMonths(date, n))
         /\ MonthOf(AddMonths(date, n)) = MonthOf(date) + n
         /\ DayOf(AddMonths(date, n)) = Least(DayOf(date), DaysIn(MonthOf(date) + n))
         /\ MonthOf(date) \in Nat
<1> DEFINE m == MonthOf(date)
           d == DayOf(date)
<1>1. IsDate(date, m, d)
  BY EveryDateHasParts DEF IsDay
<1> HIDE DEF m, d
<1>2. m + n \in Nat /\ d \in 1..31 /\ DaysIn(m + n) \in 28..31 /\ m \in Nat
  BY <1>1, MonthLengths DEF IsDate
<1>3. IsDate(AddMonths(date, n), m + n, Least(d, DaysIn(m + n)))
  BY <1>1, MonthsLater
<1>4. Least(d, DaysIn(m + n)) <= DaysIn(m + n)
  BY <1>2 DEF Least
<1> QED
  BY <1>2, <1>3, <1>4, DateParts DEF IsDay, m, d

\* The last day of a permit, as it is read from the stored end.
LastDay(start, n) == AddDays(AddMonths(LocalDate(start), n), -1)

LEMMA EndDate ==
  ASSUME NEW start, IsDay(LocalDate(start)), NEW n \in Nat, n > 0
  PROVE  /\ LocalDate(GetEndTime(start, n)) = LastDay(start, n)
         /\ DateIn(GetEndTime(start, n)) = LastDay(start, n)
         /\ IsDay(LastDay(start, n))
         /\ AddDays(LastDay(start, n), 1) = AddMonths(LocalDate(start), n)
         /\ LastDay(start, n) < AddMonths(LocalDate(start), n)
         /\ LocalDate(start) <= LastDay(start, n)
<1> DEFINE day == LocalDate(start)
           next == AddMonths(day, n)
<1>1. IsDay(next) /\ MonthOf(next) = MonthOf(day) + n /\ MonthOf(day) \in Nat
  BY MonthsAfter
<1>2. MonthOf(next) > 0
  <2> HIDE DEF day, next
  <2> QED
    BY <1>1
<1>3. day < next
  <2>1. IsDay(day)
    OBVIOUS
  <2> HIDE DEF day, next
  <2>2. IsDate(day, MonthOf(day), DayOf(day)) /\ IsDate(next, MonthOf(next), DayOf(next))
    BY <1>1, <2>1, EveryDateHasParts DEF IsDay
  <2> QED
    BY <1>1, <2>2 DEF IsDate
<1>4. /\ IsDay(AddDays(next, -1)) /\ AddDays(next, -1) < next
      /\ AddDays(AddDays(next, -1), 1) = next
      /\ day <= AddDays(next, -1)
  <2>1. IsDay(day)
    OBVIOUS
  <2> HIDE DEF day, next
  <2> QED
    BY <1>1, <1>2, <1>3, <2>1, PreviousDay
<1>5. /\ LocalDate(EndOfDay(AddDays(next, -1))) = AddDays(next, -1)
      /\ DateIn(EndOfDay(AddDays(next, -1))) = AddDays(next, -1)
  BY <1>4, EndOfDayIsOnTheDay
<1> QED
  BY <1>4, <1>5 DEF LastDay, GetEndTime

(***************************************************************************)
(* The products of a period                                                *)
(***************************************************************************)
Product == [first : Nat, last : Nat, price : Nat]

\* Prices change with months: the first part of PricesChangeWithMonths.
Regular(products) ==
    \A i \in 1..(Len(products) - 1) :
        /\ products[i].first < products[i + 1].first
        /\ products[i + 1].first = AddDays(products[i].last, 1)
        /\ DayOf(products[i + 1].first) = 1

LEMMA MonthBegins ==
  ASSUME NEW date \in Nat
  PROVE  MonthOf(date) \in Nat /\ date >= 31 * MonthOf(date)
BY DEF MonthOf

LEMMA LastOfMonth ==
  ASSUME NEW date \in Nat, DayOf(AddDays(date, 1)) = 1
  PROVE  /\ DayOf(date) = DaysIn(MonthOf(date))
         /\ AddDays(date, 1) = 31 * (MonthOf(date) + 1)
<1> DEFINE m == MonthOf(date)
           d == DayOf(date)
<1>1. IsDate(date, m, d)
  BY EveryDateHasParts
<1>2. AddDays(date, 1) = CASE d + 1 > DaysIn(m) -> 31 * (m + 1) + (d + 1) - DaysIn(m) - 1
                           [] d + 1 < 1 -> 31 * (m - 1) + DaysIn(m - 1) + (d + 1) - 1
                           [] OTHER -> 31 * m + (d + 1) - 1
  BY DEF AddDays
<1> HIDE DEF m, d
<1>3. m \in Nat /\ d \in 1..31 /\ DaysIn(m) \in 28..31
  BY <1>1, MonthLengths DEF IsDate
<1>4. CASE d + 1 > DaysIn(m)
  <2>1. AddDays(date, 1) = 31 * (m + 1) + (d + 1 - DaysIn(m)) - 1
    BY <1>2, <1>3, <1>4
  <2>2. IsDate(AddDays(date, 1), m + 1, d + 1 - DaysIn(m))
    BY <1>3, <1>4, <2>1 DEF IsDate
  <2>3. d + 1 - DaysIn(m) = 1
    BY <2>2, DateParts
  <2> QED
    BY <1>3, <2>1, <2>3 DEF m, d
<1>5. CASE ~(d + 1 > DaysIn(m))
  <2>1. IsDate(AddDays(date, 1), m, d + 1)
    BY <1>2, <1>3, <1>5 DEF IsDate
  <2>2. d + 1 = 1
    BY <2>1, DateParts
  <2> QED
    BY <1>3, <2>2
<1> QED
  BY <1>4, <1>5

SelectedProducts(zone, first, last) ==
    {i \in 1..Len(Products[zone]) :
        Products[zone][i].first <= last /\ Products[zone][i].last >= first}

LEMMA ProductsSelected ==
  ASSUME NEW zone \in Zones, NEW first, NEW last
  PROVE  /\ Products[zone] \in Seq(Product)
         /\ Len(Products[zone]) \in Nat
         /\ SelectedProducts(zone, first, last) \in SUBSET (1..Len(Products[zone]))
         /\ Cardinality(SelectedProducts(zone, first, last)) \in Nat
         /\ Len(ForDateRange(zone, first, last)) = Cardinality(SelectedProducts(zone, first, last))
         /\ \A n \in 1..Cardinality(SelectedProducts(zone, first, last)) :
                /\ Nth(SelectedProducts(zone, first, last), n) \in SelectedProducts(zone, first, last)
                /\ ForDateRange(zone, first, last)[n] =
                        Products[zone][Nth(SelectedProducts(zone, first, last), n)]
         /\ ForDateRange(zone, first, last) \in Seq(Product)
<1> DEFINE products == Products[zone]
           selected == SelectedProducts(zone, first, last)
           list == [n \in 1..Cardinality(selected) |-> products[Nth(selected, n)]]
<1>1. products \in Seq(Product) /\ Len(products) \in Nat
  BY ProductsAssumption DEF Zones, Product
<1>2. ForDateRange(zone, first, last) = list
  BY DEF ForDateRange, Select, SelectedProducts
<1>3. selected \in SUBSET (1..Len(products))
  BY DEF SelectedProducts
<1>4. Cardinality(selected) \in Nat
  <2> HIDE DEF products, selected
  <2>1. Cardinality(selected) \in 0..Len(products)
    BY <1>1, <1>3, UpToIsFinite
  <2> QED
    BY <1>1, <2>1
<1>5. \A n \in 1..Cardinality(selected) : Nth(selected, n) \in selected
  BY <1>1, <1>3, NthExists
<1>6. \A n \in 1..Cardinality(selected) : products[Nth(selected, n)] \in Product
  <2> HIDE DEF products, selected
  <2>1. \A i \in selected : products[i] \in Product
    BY <1>1, <1>3
  <2> QED
    BY <1>5, <2>1
<1>7. list \in Seq(Product) /\ Len(list) = Cardinality(selected)
  <2> HIDE DEF products, selected
  <2> QED
    BY <1>4, <1>6
<1>8. \A n \in 1..Cardinality(selected) : list[n] = products[Nth(selected, n)]
  OBVIOUS
<1> QED
  BY <1>1, <1>2, <1>3, <1>4, <1>5, <1>7, <1>8

(***************************************************************************)
(* The products of a period                                                *)
(***************************************************************************)
\* The products of a period that the catalog covers, each up to the end of a month.
Consecutive(list, first, last) ==
    /\ list \in Seq(Product) /\ Len(list) > 0
    /\ list[1].first <= first /\ last <= list[Len(list)].last
    /\ \A i \in 1..(Len(list) - 1) :
        /\ list[i].first < list[i + 1].first
        /\ DayOf(list[i].last) = DaysIn(MonthOf(list[i].last))
        /\ list[i + 1].first = 31 * (MonthOf(list[i].last) + 1)
        /\ first <= list[i].last
        /\ list[i + 1].first <= last

LEMMA ProductFields ==
  ASSUME NEW list \in Seq(Product)
  PROVE  /\ Len(list) \in Nat
         /\ \A i \in 1..Len(list) :
                list[i].first \in Nat /\ list[i].last \in Nat /\ list[i].price \in Nat
<1>1. \A product \in Product :
            product.first \in Nat /\ product.last \in Nat /\ product.price \in Nat
  BY DEF Product
<1>2. Len(list) \in Nat /\ \A i \in 1..Len(list) : list[i] \in Product
  OBVIOUS
<1> QED
  BY <1>1, <1>2

LEMMA FirstsIncrease ==
  ASSUME NEW products \in Seq(Product), Regular(products),
         NEW i \in 1..Len(products), NEW k \in 1..Len(products), i < k
  PROVE  products[i].first < products[k].first
<1> DEFINE n == Len(products)
           f == [j \in 1..n |-> products[j].first]
<1>1. n \in Nat /\ f \in [1..n -> Int]
  <2>1. n \in Nat /\ \A j \in 1..n : products[j].first \in Int
    BY ProductFields
  <2> QED
    BY <2>1
<1>2. \A j \in 1..(n - 1) : f[j] < f[j + 1]
  <2>1. \A j \in 1..(n - 1) : j \in 1..n /\ j + 1 \in 1..n
    OBVIOUS
  <2> QED
    BY <2>1 DEF Regular
<1>3. f[i] = products[i].first /\ f[k] = products[k].first /\ i \in 1..n /\ k \in 1..n
  OBVIOUS
<1> HIDE DEF n, f
<1>4. f[i] < f[k]
  BY <1>1, <1>2, <1>3, AlwaysIncreases
<1> QED
  BY <1>3, <1>4

LEMMA ProductsOfPeriod ==
  ASSUME NEW zone \in Zones, Regular(Products[zone]), NEW first \in Nat, NEW last \in Nat,
         CatalogCovers(zone, first, last)
  PROVE  Consecutive(ForDateRange(zone, first, last), first, last)
<1> DEFINE products == Products[zone]
           selected == SelectedProducts(zone, first, last)
           list == ForDateRange(zone, first, last)
           n == Cardinality(selected)
<1>1. /\ products \in Seq(Product) /\ Regular(products)
      /\ selected \in SUBSET (1..Len(products))
      /\ Len(products) \in Nat
      /\ n \in Nat /\ Len(list) = n /\ list \in Seq(Product)
      /\ \A k \in 1..n : Nth(selected, k) \in selected /\ list[k] = products[Nth(selected, k)]
  BY ProductsSelected
<1>2. /\ list # <<>>
      /\ \A i \in 1..(n - 1) : AddDays(list[i].last, 1) = list[i + 1].first
      /\ list[1].first <= first
      /\ last <= list[n].last
  BY <1>1 DEF CatalogCovers
<1>3. n > 0
  BY <1>1, <1>2
<1>4. \A i \in selected : products[i].first <= last /\ products[i].last >= first /\ i \in 1..Len(products)
  BY DEF SelectedProducts
<1> HIDE DEF products, selected, list, n
<1>5. ASSUME NEW i \in 1..(n - 1)
      PROVE  /\ list[i].first < list[i + 1].first
             /\ DayOf(list[i].last) = DaysIn(MonthOf(list[i].last))
             /\ list[i + 1].first = 31 * (MonthOf(list[i].last) + 1)
             /\ first <= list[i].last
             /\ list[i + 1].first <= last
  <2>0. i \in 1..n /\ i + 1 \in 1..n /\ i < i + 1
    BY <1>1
  <2> DEFINE a == Nth(selected, i)
             b == Nth(selected, i + 1)
  <2>1. a < b
    BY <1>1, <2>0, NthIncreases DEF n
  <2>2. a \in selected /\ b \in selected /\ list[i] = products[a] /\ list[i + 1] = products[b]
    BY <1>1, <2>0
  <2> HIDE DEF a, b
  <2>3. a \in 1..Len(products) /\ b \in 1..Len(products) /\ b - 1 \in 1..(Len(products) - 1)
    BY <1>1, <1>4, <2>1, <2>2
  <2>4. list[i].first < list[i + 1].first
    BY <1>1, <2>1, <2>2, <2>3, FirstsIncrease
  <2>5. DayOf(list[i + 1].first) = 1
    <3> DEFINE l == b - 1
    <3>1. l \in 1..(Len(products) - 1) /\ b = l + 1
      BY <1>1, <2>3
    <3> HIDE DEF l
    <3>2. DayOf(products[l + 1].first) = 1
      BY <1>1, <3>1 DEF Regular
    <3> QED
      BY <2>2, <3>1, <3>2
  <2>6. list[i].last \in Nat
    BY <1>1, <2>0, ProductFields
  <2>7. AddDays(list[i].last, 1) = list[i + 1].first
    BY <1>2
  <2>8. /\ DayOf(list[i].last) = DaysIn(MonthOf(list[i].last))
        /\ list[i + 1].first = 31 * (MonthOf(list[i].last) + 1)
    BY <2>5, <2>6, <2>7, LastOfMonth
  <2> QED
    BY <1>4, <2>2, <2>4, <2>6, <2>8
<1> QED
  BY <1>1, <1>2, <1>3, <1>5 DEF Consecutive, list

LEMMA LaterProduct ==
  ASSUME NEW list, NEW first \in Nat, NEW last \in Nat, Consecutive(list, first, last),
         NEW i \in 1..(Len(list) - 1), NEW k \in (i + 1)..Len(list)
  PROVE  /\ list[i].last < list[k].first
         /\ list[i].last \in Nat /\ list[k].first \in Nat
         /\ i \in 1..Len(list) /\ i + 1 \in 1..Len(list) /\ k \in 1..Len(list)
<1> DEFINE n == Len(list)
           f == [j \in 1..n |-> list[j].first]
<1>1. n \in Nat /\ f \in [1..n -> Int] /\ \A j \in 1..n : list[j].first \in Nat /\ list[j].last \in Nat
  <2>1. \A j \in 1..n : list[j].first \in Nat /\ list[j].last \in Nat
    BY ProductFields DEF Consecutive
  <2>2. n \in Nat
    BY DEF Consecutive
  <2> QED
    BY <2>1, <2>2
<1>2. \A j \in 1..(n - 1) : f[j] < f[j + 1]
  <2>1. \A j \in 1..(n - 1) : j \in 1..n /\ j + 1 \in 1..n
    BY <1>1
  <2> QED
    BY <2>1 DEF Consecutive
<1>3. /\ i \in 1..n /\ i + 1 \in 1..n /\ k \in 1..n /\ i \in 1..(n - 1)
      /\ i + 1 <= k /\ i + 1 \in Int /\ k \in Int
      /\ f[i + 1] = list[i + 1].first /\ f[k] = list[k].first
  BY <1>1
<1> HIDE DEF f
<1>4. list[i + 1].first <= list[k].first
  <2>1. \A j \in 1..(n - 1) : f[j] <= f[j + 1]
    <3>1. ASSUME NEW j \in 1..(n - 1) PROVE f[j] <= f[j + 1]
      <4>1. j \in 1..n /\ j + 1 \in 1..n
        BY <1>1
      <4>2. f[j] \in Int /\ f[j + 1] \in Int /\ f[j] < f[j + 1]
        BY <1>1, <1>2, <4>1
      <4> QED
        BY <4>2
    <3> QED
      BY <3>1
  <2> HIDE DEF n
  <2> DEFINE l == i + 1
  <2>2. l \in 1..n /\ l <= k /\ f[l] = list[i + 1].first
    BY <1>3
  <2> HIDE DEF l
  <2>3. f[l] <= f[k]
    BY <1>1, <1>3, <2>1, <2>2, NeverDecreases
  <2> QED
    BY <1>3, <2>2, <2>3
<1>5. list[i].last < list[i + 1].first
  <2>1. list[i + 1].first = 31 * (MonthOf(list[i].last) + 1)
    BY <1>3 DEF Consecutive
  <2>2. list[i].last \in Nat
    BY <1>1, <1>3
  <2> QED
    BY <2>1, <2>2 DEF MonthOf
<1>6. list[i].last \in Nat /\ list[i + 1].first \in Nat /\ list[k].first \in Nat
  BY <1>1, <1>3
<1> QED
  BY <1>3, <1>4, <1>5, <1>6

\* The dates between which the months of a product are counted.
LEMMA PeriodDetails ==
  ASSUME NEW zone \in Zones, Regular(Products[zone]), NEW first, IsDay(first),
         NEW last, IsDay(last), CatalogCovers(zone, first, last)
  PROVE  LET list == ForDateRange(zone, first, last)
             details == ProductsWithQuantities(zone, first, last)
         IN  /\ Len(details) = Len(list) /\ DOMAIN details = 1..Len(list)
             /\ \A i \in 1..Len(list) :
                 /\ details[i].product = list[i]
                 /\ i = 1 => details[i].first = first
                 /\ i > 1 => details[i].first =
                        LET month == MonthOf(list[i].first)
                        IN  31 * month + Least(DayOf(first), DaysIn(month)) - 1
                 /\ details[i].last = IF i = Len(list) THEN last ELSE list[i].last
                 /\ details[i].quantity = MonthsBetween(details[i].first, details[i].last)
                 /\ IsDay(details[i].first) /\ IsDay(details[i].last)
                 /\ i > 1 => details[i].first >= list[i].first /\ MonthOf(details[i].first) > 0
<1> DEFINE list == ForDateRange(zone, first, last)
           details == ProductsWithQuantities(zone, first, last)
           from(i) == IF i = 1 THEN first ELSE FindNextDate(list[i].first, DayOf(first))
           to(i) == IF i = Len(list) THEN last ELSE FindNextDate(list[i].last, DayOf(last))
<1>1. first \in Nat /\ last \in Nat /\ DayOf(first) \in 1..31 /\ DayOf(last) \in 1..31
  BY EveryDateHasParts DEF IsDay, IsDate
<1>2. Consecutive(list, first, last)
  BY <1>1, ProductsOfPeriod
<1>3. /\ details = [i \in 1..Len(list) |->
                        [product |-> list[i], first |-> from(i), last |-> to(i),
                         quantity |-> MonthsBetween(from(i), to(i))]]
  BY DEF ProductsWithQuantities, ProductMonths
<1> HIDE DEF list, details
<1>4. /\ Len(list) \in Nat /\ Len(list) > 0
      /\ \A i \in 1..Len(list) : list[i].first \in Nat /\ list[i].last \in Nat
  BY <1>2, ProductFields DEF Consecutive
<1>5. Len(details) = Len(list) /\ DOMAIN details = 1..Len(list)
  <2> HIDE DEF from, to
  <2> QED
    BY <1>3, <1>4
<1>6. ASSUME NEW i \in 1..Len(list), i > 1
      PROVE  LET month == MonthOf(list[i].first)
                 found == 31 * month + Least(DayOf(first), DaysIn(month)) - 1
             IN  /\ from(i) = found /\ IsDay(found) /\ found >= list[i].first
                 /\ MonthOf(found) > 0
  <2> DEFINE month == MonthOf(list[i].first)
             day == DayOf(first)
             before == MonthOf(list[i - 1].last)
  <2>1. list[i].first = 31 * (before + 1) /\ before \in Nat
    <3> DEFINE j == i - 1
    <3>1. j \in 1..(Len(list) - 1) /\ i = j + 1 /\ j \in 1..Len(list)
      BY <1>4, <1>6
    <3> HIDE DEF j
    <3>2. list[j + 1].first = 31 * (MonthOf(list[j].last) + 1) /\ list[j].last \in Nat
      BY <1>2, <1>4, <3>1 DEF Consecutive
    <3>3. MonthOf(list[j].last) \in Nat
      BY <3>2 DEF MonthOf
    <3> QED
      BY <3>1, <3>2, <3>3 DEF j
  <2> HIDE DEF before, day
  <2>2. month = before + 1 /\ month \in Nat /\ month > 0 /\ list[i].first = 31 * month
    BY <2>1 DEF MonthOf
  <2>3. from(i) = FindNextDate(list[i].first, day)
    BY <1>6 DEF day
  <2> HIDE DEF month, from
  <2>4. DaysIn(month) \in 28..31 /\ day \in 1..31
    BY <1>1, <2>2, MonthLengths DEF day
  <2>5. from(i) = 31 * month + Least(day, DaysIn(month)) - 1
    BY <2>2, <2>3, <2>4, SMTT(30) DEF FindNextDate, Least, month
  <2>6. Least(day, DaysIn(month)) \in 1..31 /\ Least(day, DaysIn(month)) <= DaysIn(month)
    BY <2>4 DEF Least
  <2> DEFINE d == Least(day, DaysIn(month))
  <2> HIDE DEF d
  <2>7. IsDay(31 * month + d - 1) /\ MonthOf(31 * month + d - 1) = month
    BY <2>2, <2>6, DayParts DEF d
  <2>8. 31 * month + d - 1 >= 31 * month
    <3>1. d \in 1..31
      BY <2>6 DEF d
    <3>2. d \in Int /\ d >= 1
      BY <3>1
    <3> QED
      BY <2>2, <3>2
  <2> QED
    BY <2>2, <2>5, <2>7, <2>8 DEF month, day, d
<1>7. ASSUME NEW i \in 1..Len(list), i # Len(list)
      PROVE  to(i) = list[i].last /\ IsDay(list[i].last)
  <2> DEFINE date == list[i].last
             month == MonthOf(date)
             day == DayOf(last)
  <2>1. DayOf(date) = DaysIn(month) /\ date \in Nat
    BY <1>2, <1>4, <1>7 DEF Consecutive
  <2>2. to(i) = FindNextDate(date, day)
    BY <1>7
  <2> HIDE DEF date, day, to
  <2>3. IsDate(date, month, DaysIn(month)) /\ DaysIn(month) \in 28..31 /\ month \in Nat /\ day \in 1..31
    BY <1>1, <2>1, EveryDateHasParts, MonthLengths DEF IsDate, day
  <2>4. to(i) = date
    <3> DEFINE found == 31 * month + day - 1
    <3>1. to(i) = IF day > DaysIn(month) \/ found < date
                  THEN 31 * month + DaysIn(month) - 1 ELSE found
      BY <2>2 DEF FindNextDate
    <3>2. date = 31 * month + DaysIn(month) - 1
      BY <2>3 DEF IsDate
    <3> HIDE DEF month
    <3> QED
      BY <2>3, <3>1, <3>2
  <2>5. IsDay(date)
    BY <2>1, <2>3 DEF IsDay
  <2> QED
    BY <2>4, <2>5 DEF date
<1>8. ASSUME NEW i \in 1..Len(list)
      PROVE  /\ details[i].product = list[i]
             /\ i = 1 => details[i].first = first
             /\ i > 1 => details[i].first =
                    LET month == MonthOf(list[i].first)
                    IN  31 * month + Least(DayOf(first), DaysIn(month)) - 1
             /\ details[i].last = IF i = Len(list) THEN last ELSE list[i].last
             /\ details[i].quantity = MonthsBetween(details[i].first, details[i].last)
             /\ IsDay(details[i].first) /\ IsDay(details[i].last)
             /\ i > 1 => details[i].first >= list[i].first /\ MonthOf(details[i].first) > 0
  <2>1. /\ details[i].product = list[i] /\ details[i].first = from(i) /\ details[i].last = to(i)
        /\ details[i].quantity = MonthsBetween(from(i), to(i))
    <3> HIDE DEF from, to
    <3> QED
      BY <1>3
  <2>2. i = 1 => from(i) = first
    OBVIOUS
  <2>3. i = Len(list) => to(i) = last
    OBVIOUS
  <2>4. i = 1 \/ i > 1
    OBVIOUS
  <2> HIDE DEF from, to
  <2> QED
    BY <1>6, <1>7, <2>1, <2>2, <2>3, <2>4
<1> QED
  BY <1>5, <1>8 DEF list, details

(***************************************************************************)
(* The items of a purchase                                                 *)
(***************************************************************************)
\* A fixed-period permit that ends when its months do.
EndsWithItsMonths(p) ==
    /\ IsFixedPeriod(p)
    /\ p.start \in Starts /\ p.zone \in Zones
    /\ p.months \in Nat /\ p.months > 0
    /\ p.end = GetEndTime(p.start, p.months)

Covered(p) == CatalogCovers(p.zone, LocalDate(p.start), LocalDate(p.end))

Details(p) == ProductsWithQuantities(p.zone, LocalDate(p.start), LocalDate(p.end))
OnSale(p) == ForDateRange(p.zone, LocalDate(p.start), LocalDate(p.end))
UnitPrice(p, i) == ModifiedUnitPrice(Details(p)[i].product, p.lowEmission, p.primary)

\* The positions of the products that get an item, and the item of a position.
WithMonths(p) == {i \in 1..Len(Details(p)) : Details(p)[i].quantity > 0}
PurchasedItem(p, i) ==
    OrderItem(UnitPrice(p, i), UnitPrice(p, i), Details(p)[i].quantity,
              IF i = 1 THEN p.start ELSE FromLocal(Details(p)[i].first, 0),
              EndOfDay(Details(p)[i].last))

LEMMA DaysOfPermit ==
  ASSUME NEW p, EndsWithItsMonths(p)
  PROVE  /\ IsDay(LocalDate(p.start)) /\ IsDay(LocalDate(p.end))
         /\ LocalDate(p.start) \in Nat /\ LocalDate(p.end) \in Nat
         /\ LocalDate(p.start) <= LocalDate(p.end)
         /\ LocalDate(p.end) = LastDay(p.start, p.months)
BY StartDay, EndDate DEF EndsWithItsMonths, IsDay

LEMMA PurchasePositions ==
  ASSUME NEW p, EndsWithItsMonths(p), Regular(Products[p.zone]), Covered(p)
  PROVE  /\ Consecutive(OnSale(p), LocalDate(p.start), LocalDate(p.end))
         /\ Len(Details(p)) = Len(OnSale(p)) /\ Len(OnSale(p)) \in Nat
         /\ WithMonths(p) \in SUBSET (1..Len(OnSale(p)))
         /\ Cardinality(WithMonths(p)) \in Nat
         /\ Len(PurchaseItems(p)) = Cardinality(WithMonths(p))
         /\ PurchaseItems(p) = [n \in 1..Cardinality(WithMonths(p)) |->
                                    PurchasedItem(p, Nth(WithMonths(p), n))]
<1> DEFINE list == OnSale(p)
           details == Details(p)
<1>1. /\ p.zone \in Zones /\ IsDay(LocalDate(p.start)) /\ IsDay(LocalDate(p.end))
      /\ LocalDate(p.start) \in Nat /\ LocalDate(p.end) \in Nat
      /\ CatalogCovers(p.zone, LocalDate(p.start), LocalDate(p.end))
  BY DaysOfPermit DEF EndsWithItsMonths, Covered
<1>2. Consecutive(list, LocalDate(p.start), LocalDate(p.end))
  BY <1>1, ProductsOfPeriod DEF OnSale
<1>3. Len(details) = Len(list)
  BY <1>1, PeriodDetails DEF OnSale, Details
<1>4. Len(list) \in Nat
  BY <1>2 DEF Consecutive
<1>5. WithMonths(p) \in SUBSET (1..Len(list))
  BY <1>3 DEF WithMonths
<1>6. Cardinality(WithMonths(p)) \in Nat
  <2>1. Cardinality(WithMonths(p)) \in 0..Len(list)
    BY <1>4, <1>5, UpToIsFinite
  <2> QED
    BY <1>4, <2>1
<1> DEFINE all == [i \in 1..Len(details) |-> PurchasedItem(p, i)]
<1>7. PurchaseItems(p) = Select(all, LAMBDA x : x.quantity > 0)
  <2>1. ~IsOpenEnded(p)
    BY DEF EndsWithItsMonths, IsFixedPeriod, IsOpenEnded
  <2> QED
    BY <2>1 DEF PurchaseItems, PurchasedItem, UnitPrice, Details
<1>8. /\ Len(all) = Len(list)
      /\ \A i \in 1..Len(list) : all[i] = PurchasedItem(p, i)
      /\ \A i \in 1..Len(list) : PurchasedItem(p, i).quantity = details[i].quantity
  <2>1. \A i \in 1..Len(list) : PurchasedItem(p, i).quantity = details[i].quantity
    BY DEF PurchasedItem, OrderItem
  <2> HIDE DEF details, list
  <2> QED
    BY <1>3, <1>4, <2>1
<1>9. PurchaseItems(p) = [n \in 1..Cardinality(WithMonths(p)) |->
                                    PurchasedItem(p, Nth(WithMonths(p), n))]
  <2> HIDE DEF all
  <2> DEFINE passing == {i \in 1..Len(all) : all[i].quantity > 0}
  <2>1. PurchaseItems(p) = [n \in 1..Cardinality(passing) |-> all[Nth(passing, n)]]
    BY <1>7 DEF Select
  <2>2. passing = WithMonths(p)
    <3> HIDE DEF list
    <3> QED
      BY <1>3, <1>8 DEF WithMonths
  <2> HIDE DEF passing
  <2>3. \A n \in 1..Cardinality(WithMonths(p)) :
            all[Nth(WithMonths(p), n)] = PurchasedItem(p, Nth(WithMonths(p), n))
    <3>1. ASSUME NEW n \in 1..Cardinality(WithMonths(p))
          PROVE  Nth(WithMonths(p), n) \in 1..Len(list)
      BY <1>4, <1>5, NthExists
    <3> QED
      BY <1>8, <3>1
  <2> QED
    BY <2>1, <2>2, <2>3
<1> HIDE DEF list, details, all
<1>10. Len(PurchaseItems(p)) = Cardinality(WithMonths(p))
  BY <1>6, <1>9
<1> QED
  BY <1>2, <1>3, <1>4, <1>5, <1>6, <1>9, <1>10 DEF list, details

LEMMA PurchasedDates ==
  ASSUME NEW p, EndsWithItsMonths(p), Regular(Products[p.zone]), Covered(p),
         NEW i \in 1..Len(OnSale(p))
  PROVE  /\ LocalDate(PurchasedItem(p, i).start) = Details(p)[i].first
         /\ LocalDate(PurchasedItem(p, i).end) = Details(p)[i].last
         /\ PurchasedItem(p, i).quantity = Details(p)[i].quantity
         /\ PurchasedItem(p, i).unit = PurchasedItem(p, i).payment
         /\ PurchasedItem(p, i).payment = ModifiedUnitPrice(OnSale(p)[i], p.lowEmission, p.primary)
         /\ PurchasedItem(p, i).refunded = FALSE
<1> DEFINE d == Details(p)[i]
           start == IF i = 1 THEN p.start ELSE FromLocal(d.first, 0)
<1>1. /\ p.zone \in Zones /\ IsDay(LocalDate(p.start)) /\ IsDay(LocalDate(p.end))
      /\ CatalogCovers(p.zone, LocalDate(p.start), LocalDate(p.end))
  BY DaysOfPermit DEF EndsWithItsMonths, Covered
<1>2. /\ d.product = OnSale(p)[i]
      /\ i = 1 => d.first = LocalDate(p.start)
      /\ IsDay(d.first) /\ IsDay(d.last)
      /\ i > 1 => MonthOf(d.first) > 0
  BY <1>1, PeriodDetails DEF OnSale, Details
<1>3. LocalDate(start) = d.first
  <2>1. CASE i = 1
    BY <1>2, <2>1
  <2>2. CASE i # 1
    <3>1. i > 1
      BY <2>2
    <3>2. LocalDate(FromLocal(d.first, 0)) = d.first
      BY <1>2, <3>1, MidnightIsOnTheDay
    <3> QED
      BY <2>2, <3>2
  <2> QED
    BY <2>1, <2>2
<1>4. LocalDate(EndOfDay(d.last)) = d.last
  BY <1>2, EndOfDayIsOnTheDay
<1>5. /\ PurchasedItem(p, i).start = start /\ PurchasedItem(p, i).end = EndOfDay(d.last)
      /\ PurchasedItem(p, i).quantity = d.quantity
      /\ PurchasedItem(p, i).unit = UnitPrice(p, i) /\ PurchasedItem(p, i).payment = UnitPrice(p, i)
      /\ PurchasedItem(p, i).refunded = FALSE
  BY DEF PurchasedItem, OrderItem
<1>6. UnitPrice(p, i) = ModifiedUnitPrice(OnSale(p)[i], p.lowEmission, p.primary)
  BY <1>2 DEF UnitPrice
<1> QED
  BY <1>3, <1>4, <1>5, <1>6

\* Every item is for days after those of the items before it.
InOrder(items) ==
    \A j \in 1..Len(items), l \in 1..Len(items) :
        j < l => LocalDate(items[l].start) > LocalDate(items[j].end)

\* The items are for days after one day and up to another.
Within(items, after, last) ==
    \A j \in 1..Len(items) :
        /\ LocalDate(items[j].start) \in Nat /\ LocalDate(items[j].end) \in Nat
        /\ LocalDate(items[j].start) > after /\ LocalDate(items[j].end) <= last

LEMMA PurchaseInOrder ==
  ASSUME NEW p, EndsWithItsMonths(p), Regular(Products[p.zone]), Covered(p)
  PROVE  /\ InOrder(PurchaseItems(p))
         /\ Within(PurchaseItems(p), -1, LocalDate(p.end))
<1> DEFINE list == OnSale(p)
           details == Details(p)
           items == PurchaseItems(p)
           first == LocalDate(p.start)
           last == LocalDate(p.end)
           P == WithMonths(p)
           c == Cardinality(P)
<1>1. /\ Consecutive(list, first, last)
      /\ Len(details) = Len(list) /\ Len(list) \in Nat
      /\ P \in SUBSET (1..Len(list)) /\ c \in Nat
      /\ Len(items) = c
      /\ items = [n \in 1..c |-> PurchasedItem(p, Nth(P, n))]
  BY PurchasePositions
<1>2. first \in Nat /\ last \in Nat
  BY DaysOfPermit
<1>3. \A i \in 1..Len(list) :
        /\ i > 1 => details[i].first >= list[i].first
        /\ details[i].last = IF i = Len(list) THEN last ELSE list[i].last
        /\ details[i].first \in Nat /\ details[i].last \in Nat
  <2>1. /\ p.zone \in Zones /\ IsDay(LocalDate(p.start)) /\ IsDay(LocalDate(p.end))
        /\ CatalogCovers(p.zone, LocalDate(p.start), LocalDate(p.end))
    BY DaysOfPermit DEF EndsWithItsMonths, Covered
  <2> QED
    BY <2>1, PeriodDetails DEF OnSale, Details, IsDay
<1>4. \A i \in 1..Len(list) :
        /\ LocalDate(PurchasedItem(p, i).start) = details[i].first
        /\ LocalDate(PurchasedItem(p, i).end) = details[i].last
  BY PurchasedDates
<1>5. \A n \in 1..c : Nth(P, n) \in 1..Len(list) /\ items[n] = PurchasedItem(p, Nth(P, n))
  <2>1. \A n \in 1..c : Nth(P, n) \in P
    BY <1>1, NthExists
  <2> HIDE DEF items
  <2> QED
    BY <1>1, <2>1
<1> HIDE DEF list, details, items, first, last, P
<1>6. ASSUME NEW j \in 1..c, NEW l \in 1..c, j < l
      PROVE  LocalDate(items[l].start) > LocalDate(items[j].end)
  <2> DEFINE a == Nth(P, j)
             b == Nth(P, l)
  <2>1. a < b
    BY <1>1, <1>6, NthIncreases
  <2>2. a \in 1..Len(list) /\ b \in 1..Len(list) /\ items[j] = PurchasedItem(p, a)
        /\ items[l] = PurchasedItem(p, b)
    BY <1>5
  <2> HIDE DEF a, b
  <2>3. a \in 1..(Len(list) - 1) /\ b \in (a + 1)..Len(list) /\ b > 1 /\ a # Len(list)
    BY <1>1, <2>1, <2>2
  <2>4. list[a].last < list[b].first /\ list[a].last \in Nat /\ list[b].first \in Nat
    BY <1>1, <1>2, <2>3, LaterProduct
  <2>5. details[a].last = list[a].last /\ details[b].first >= list[b].first
    BY <1>3, <2>2, <2>3
  <2>6. details[a].last \in Nat /\ details[b].first \in Nat
    BY <1>3, <2>2
  <2>7. details[b].first > details[a].last
    BY <2>4, <2>5, <2>6
  <2> QED
    BY <1>4, <2>2, <2>7
<1>7. ASSUME NEW j \in 1..c
      PROVE  /\ LocalDate(items[j].start) \in Nat /\ LocalDate(items[j].end) \in Nat
             /\ LocalDate(items[j].start) > -1 /\ LocalDate(items[j].end) <= last
  <2> DEFINE a == Nth(P, j)
  <2>1. a \in 1..Len(list) /\ items[j] = PurchasedItem(p, a)
    BY <1>5
  <2> HIDE DEF a
  <2>2. LocalDate(items[j].start) = details[a].first /\ LocalDate(items[j].end) = details[a].last
        /\ details[a].first \in Nat /\ details[a].last \in Nat
    BY <1>3, <1>4, <2>1
  <2>3. details[a].last <= last
    <3>1. CASE a = Len(list)
      BY <1>2, <1>3, <2>1, <3>1
    <3>2. CASE a # Len(list)
      <4>1. a \in 1..(Len(list) - 1) /\ a + 1 \in (a + 1)..Len(list)
        BY <1>1, <2>1, <3>2
      <4>2. list[a].last < list[a + 1].first /\ list[a].last \in Nat /\ list[a + 1].first \in Nat
        BY <1>1, <1>2, <4>1, LaterProduct
      <4>3. list[a + 1].first <= last
        BY <1>1, <4>1 DEF Consecutive
      <4> QED
        BY <1>2, <1>3, <2>1, <3>2, <4>2, <4>3
    <3> QED
      BY <3>1, <3>2
  <2> QED
    BY <2>2, <2>3
<1> QED
  BY <1>1, <1>6, <1>7 DEF InOrder, Within, items, last

(***************************************************************************)
(* The items of an extension                                               *)
(***************************************************************************)
\* The days on which the months begin that follow the months of a permit.
BeginMonths(p, months, start) ==
    /\ start \in [0..months -> Nat]
    /\ start[0] = AddMonths(LocalDate(p.start), p.months)
    /\ \A k \in 1..months : start[k] = AddMonths(start[k - 1], 1)
    /\ \A k \in 0..months :
        /\ IsDay(start[k])
        /\ MonthOf(start[k]) = MonthOf(LocalDate(p.start)) + p.months + k
        /\ DayOf(start[k]) <= DayOf(LocalDate(p.start))
        /\ DayOf(LocalDate(p.start)) <= 28 => DayOf(start[k]) = DayOf(LocalDate(p.start))

\* The products that the months begin with.
GoThrough(products, months, start, index) ==
    /\ index \in [0..months -> Nat]
    /\ index[0] = 1
    /\ \A k \in 1..months : index[k] = NextProduct(products, index[k - 1], start[k])

ExtendedLast(p, months) ==
    LocalDate(GetEndTime(FromLocal(AddMonths(LocalDate(p.start), p.months), 0), months))

ExtendedProducts(p, months) ==
    ForDateRange(p.zone, AddMonths(LocalDate(p.start), p.months), ExtendedLast(p, months))

\* The months before the end, as long as there are products.
InLoop(p, months, start, index) ==
    {k \in 0..(months - 1) :
        \A j \in 0..k : start[j] < ExtendedLast(p, months)
                        /\ index[j] <= Len(ExtendedProducts(p, months))}

FutureIs(p, months, start, index) ==
    FutureMonths(p, months) =
        [k \in 1..Cardinality(InLoop(p, months, start, index)) |->
            [product |-> ExtendedProducts(p, months)[index[k - 1]], first |-> start[k - 1],
             last |-> AddDays(AddMonths(start[k - 1], 1), -1)]]

HasFuture(p, months) ==
    \E start, index : /\ BeginMonths(p, months, start)
                      /\ GoThrough(ExtendedProducts(p, months), months, start, index)
                      /\ FutureIs(p, months, start, index)

LEMMA FirstDayAfter ==
  ASSUME NEW p, EndsWithItsMonths(p)
  PROVE  /\ AddDays(LocalDate(p.end), 1) = AddMonths(LocalDate(p.start), p.months)
         /\ IsDay(AddMonths(LocalDate(p.start), p.months))
         /\ MonthOf(AddMonths(LocalDate(p.start), p.months)) = MonthOf(LocalDate(p.start)) + p.months
         /\ DayOf(AddMonths(LocalDate(p.start), p.months))
                = Least(DayOf(LocalDate(p.start)), DaysIn(MonthOf(LocalDate(p.start)) + p.months))
         /\ MonthOf(LocalDate(p.start)) \in Nat /\ DayOf(LocalDate(p.start)) \in 1..31
<1> DEFINE day == LocalDate(p.start)
<1>1. p.months \in Nat /\ p.months > 0 /\ IsDay(day) /\ p.end = GetEndTime(p.start, p.months)
  BY StartDay DEF EndsWithItsMonths
<1>2. AddDays(LocalDate(p.end), 1) = AddMonths(day, p.months)
  BY <1>1, EndDate
<1>3. MonthOf(day) \in Nat /\ DayOf(day) \in 1..31
  BY <1>1, EveryDateHasParts DEF IsDay, IsDate
<1> QED
  BY <1>1, <1>2, <1>3, MonthsAfter

LEMMA StartsOfMonths ==
  ASSUME NEW p, EndsWithItsMonths(p), NEW months \in Nat, NEW start,
         start \in [0..months -> Nat],
         start[0] = AddMonths(LocalDate(p.start), p.months),
         \A k \in 1..months : start[k] = AddMonths(start[k - 1], 1)
  PROVE  BeginMonths(p, months, start)
<1> DEFINE s == DayOf(LocalDate(p.start))
           m == MonthOf(LocalDate(p.start)) + p.months
           Good(k) == /\ IsDay(start[k])
                      /\ MonthOf(start[k]) = m + k
                      /\ DayOf(start[k]) <= s
                      /\ s <= 28 => DayOf(start[k]) = s
           B == {k \in 0..months : ~Good(k)}
<1>1. /\ s \in 1..31 /\ m \in Nat
      /\ IsDay(start[0]) /\ MonthOf(start[0]) = m /\ DayOf(start[0]) = Least(s, DaysIn(m))
  <2>1. p.months \in Nat
    BY DEF EndsWithItsMonths
  <2> QED
    BY <2>1, FirstDayAfter
<1> HIDE DEF s, m
<1>2. Good(0)
  <2>1. DaysIn(m) \in 28..31
    BY <1>1, MonthLengths
  <2>2. Least(s, DaysIn(m)) <= s /\ (s <= 28 => Least(s, DaysIn(m)) = s)
    BY <1>1, <2>1 DEF Least
  <2> QED
    BY <1>1, <2>2
<1>3. ASSUME NEW k \in 1..months, Good(k - 1) PROVE Good(k)
  <2> DEFINE date == start[k - 1]
  <2>1. start[k] = AddMonths(date, 1) /\ IsDay(date) /\ MonthOf(date) = m + (k - 1)
        /\ DayOf(date) <= s /\ (s <= 28 => DayOf(date) = s)
    BY <1>3
  <2> HIDE DEF date
  <2>2. /\ IsDay(start[k]) /\ MonthOf(start[k]) = MonthOf(date) + 1
        /\ DayOf(start[k]) = Least(DayOf(date), DaysIn(MonthOf(date) + 1))
        /\ MonthOf(date) \in Nat
    BY <2>1, MonthsAfter
  <2>3. DaysIn(MonthOf(date) + 1) \in 28..31 /\ DayOf(date) \in 1..31
    BY <2>1, <2>2, MonthLengths, EveryDateHasParts DEF IsDay, IsDate
  <2>4. MonthOf(start[k]) = m + k
    BY <1>1, <2>1, <2>2
  <2>5. DayOf(start[k]) <= s /\ (s <= 28 => DayOf(start[k]) = s)
    <3> DEFINE a == DayOf(date)
               b == DaysIn(MonthOf(date) + 1)
    <3>1. /\ a \in 1..31 /\ b \in 28..31 /\ a <= s /\ (s <= 28 => a = s) /\ s \in 1..31
          /\ DayOf(start[k]) = Least(a, b)
      BY <1>1, <2>1, <2>2, <2>3
    <3> HIDE DEF a, b
    <3>2. Least(a, b) <= s /\ (s <= 28 => Least(a, b) = s)
      BY <3>1 DEF Least
    <3> QED
      BY <3>1, <3>2
  <2> QED
    BY <2>2, <2>4, <2>5
<1>4. B = {}
  <2>1. SUFFICES ASSUME B # {} PROVE FALSE
    OBVIOUS
  <2>2. B \in SUBSET (0..months) /\ 0 \notin B
    BY <1>2
  <2> HIDE DEF Good
  <2>3. PICK k \in 1..months : k \in B /\ k - 1 \in 0..months /\ k - 1 \notin B
    <3> HIDE DEF B
    <3> QED
      BY <2>1, <2>2, FirstFailure
  <2> QED
    BY <1>3, <2>3
<1> HIDE DEF Good
<1>5. \A k \in 0..months : Good(k)
  BY <1>4
<1> QED
  BY <1>5 DEF BeginMonths, Good, s, m

LEMMA FutureExists ==
  ASSUME NEW p, EndsWithItsMonths(p), NEW months \in Nat
  PROVE  HasFuture(p, months)
<1> DEFINE first == AddDays(LocalDate(p.end), 1)
           last == LocalDate(GetEndTime(FromLocal(first, 0), months))
           Days == {d \in Nat : IsDay(d)}
           Start(f) == f = [k \in 0..months |-> IF k = 0 THEN first ELSE AddMonths(f[k - 1], 1)]
           start == CHOOSE f : Start(f)
           products == ForDateRange(p.zone, first, last)
           Index(f) == f = [k \in 0..months |->
                                IF k = 0 THEN 1 ELSE NextProduct(products, f[k - 1], start[k])]
           index == CHOOSE f : Index(f)
<1>1. first \in Days /\ first = AddMonths(LocalDate(p.start), p.months)
  BY FirstDayAfter DEF IsDay
<1>2. FutureIs(p, months, start, index)
  <2> DEFINE inLoop == {k \in 0..(months - 1) :
                            \A j \in 0..k : start[j] < last /\ index[j] <= Len(products)}
  <2>1. FutureMonths(p, months) =
            [k \in 1..Cardinality(inLoop) |->
                [product |-> products[index[k - 1]], first |-> start[k - 1],
                 last |-> AddDays(AddMonths(start[k - 1], 1), -1)]]
    BY DEF FutureMonths, MonthsFrom
  <2>2. last = ExtendedLast(p, months)
    BY <1>1 DEF ExtendedLast
  <2>3. products = ExtendedProducts(p, months)
    BY <1>1, <2>2 DEF ExtendedProducts
  <2> HIDE DEF start, index, products, last
  <2>4. inLoop = InLoop(p, months, start, index)
    BY <2>2, <2>3 DEF InLoop
  <2> HIDE DEF inLoop
  <2> QED
    BY <2>1, <2>3, <2>4 DEF FutureIs
<1>3. \E f : Start(f) /\ f \in [0..months -> Days]
  <2> DEFINE G == [k \in 1..months |-> [d \in Days |-> AddMonths(d, 1)]]
  <2>1. G \in [1..months -> [Days -> Days]] /\ \A k \in 1..months, d \in Days : G[k][d] = AddMonths(d, 1)
    <3>1. \A d \in Days : AddMonths(d, 1) \in Days
      BY MonthsAfter DEF IsDay
    <3> HIDE DEF Days
    <3> QED
      BY <3>1
  <2>2. HasRecursion(months, Days, first, G)
    <3> HIDE DEF G, Days, first
    <3> QED
      BY <1>1, <2>1, RecursionExists
  <2> HIDE DEF G
  <2>3. PICK f \in [0..months -> Days] : f[0] = first /\ \A k \in 1..months : f[k] = G[k][f[k - 1]]
    BY <2>2 DEF HasRecursion, IsRecursion
  <2>4. \A k \in 1..months : f[k] = AddMonths(f[k - 1], 1)
    <3>1. \A k \in 1..months : k - 1 \in 0..months
      OBVIOUS
    <3> HIDE DEF Days
    <3> QED
      BY <2>1, <2>3, <3>1
  <2>5. Start(f)
    <3>1. \A k \in 0..months : k = 0 \/ k \in 1..months
      OBVIOUS
    <3>2. f = [k \in 0..months |-> f[k]]
      OBVIOUS
    <3> HIDE DEF Days, first
    <3> QED
      BY <2>3, <2>4, <3>1, <3>2
  <2> QED
    BY <2>3, <2>5
<1>4. Start(start)
  BY <1>3
<1>5. \A k \in 0..months : start[k] = IF k = 0 THEN first ELSE AddMonths(start[k - 1], 1)
  <2> HIDE DEF start, first
  <2> QED
    BY <1>4
<1>6. \A k \in 0..months : start[k] \in Days
  <2> DEFINE B == {k \in 0..months : start[k] \notin Days}
  <2> HIDE DEF start, first, Days
  <2>1. SUFFICES ASSUME B # {} PROVE FALSE
    OBVIOUS
  <2>2. B \in SUBSET (0..months) /\ 0 \notin B
    BY <1>1, <1>5
  <2>3. PICK k \in 1..months : k \in B /\ k - 1 \in 0..months /\ k - 1 \notin B
    <3> HIDE DEF B
    <3> QED
      BY <2>1, <2>2, FirstFailure
  <2>4. start[k - 1] \in Days /\ start[k] = AddMonths(start[k - 1], 1)
    BY <1>5, <2>3
  <2>5. AddMonths(start[k - 1], 1) \in Days
    BY <2>4, MonthsAfter DEF Days, IsDay
  <2> QED
    BY <2>3, <2>4, <2>5
<1>7. BeginMonths(p, months, start)
  <2>1. DOMAIN start = 0..months
    <3> HIDE DEF start
    <3> QED
      BY <1>4
  <2>2. start \in [0..months -> Nat]
    <3>1. start = [k \in 0..months |-> start[k]]
      <4> HIDE DEF start
      <4> QED
        BY <1>4
    <3>2. \A k \in 0..months : start[k] \in Nat
      BY <1>6
    <3> HIDE DEF start
    <3> QED
      BY <3>1, <3>2
  <2>3. start[0] = first /\ \A k \in 1..months : start[k] = AddMonths(start[k - 1], 1)
    <3> HIDE DEF start, first
    <3> QED
      BY <1>5
  <2> HIDE DEF start
  <2> QED
    BY <1>1, <2>2, <2>3, StartsOfMonths
<1>13. products = ExtendedProducts(p, months)
  BY <1>1 DEF ExtendedProducts, ExtendedLast
<1> HIDE DEF start, products
<1>8. \E f : Index(f)
  <2> DEFINE G == [k \in 1..months |-> [i \in Nat |-> NextProduct(products, i, start[k])]]
             N == Nat
  <2>1. G \in [1..months -> [N -> N]]
        /\ \A k \in 1..months, i \in N : G[k][i] = NextProduct(products, i, start[k])
    BY DEF NextProduct
  <2>2. HasRecursion(months, N, 1, G)
    <3>1. 1 \in N
      OBVIOUS
    <3> HIDE DEF G, N
    <3> QED
      BY <2>1, <3>1, RecursionExists
  <2> HIDE DEF G
  <2>3. PICK f \in [0..months -> N] : f[0] = 1 /\ \A k \in 1..months : f[k] = G[k][f[k - 1]]
    BY <2>2 DEF HasRecursion, IsRecursion
  <2>4. \A k \in 1..months : f[k] = NextProduct(products, f[k - 1], start[k])
    <3>1. \A k \in 1..months : k - 1 \in 0..months
      OBVIOUS
    <3> HIDE DEF N
    <3> QED
      BY <2>1, <2>3, <3>1
  <2>5. Index(f)
    <3>1. \A k \in 0..months : k = 0 \/ k \in 1..months
      OBVIOUS
    <3>2. f = [k \in 0..months |-> f[k]]
      OBVIOUS
    <3> HIDE DEF N
    <3> QED
      BY <2>3, <2>4, <3>1, <3>2
  <2> QED
    BY <2>5
<1>9. Index(index)
  BY <1>8
<1> HIDE DEF index
<1>10. /\ index[0] = 1
       /\ \A k \in 1..months : index[k] = NextProduct(products, index[k - 1], start[k])
       /\ index = [k \in 0..months |-> index[k]]
  <2>1. \A k \in 0..months :
            index[k] = IF k = 0 THEN 1 ELSE NextProduct(products, index[k - 1], start[k])
    BY <1>9
  <2>2. index = [k \in 0..months |-> index[k]]
    BY <1>9
  <2>3. 0 \in 0..months /\ \A k \in 1..months : k \in 0..months /\ k # 0
    OBVIOUS
  <2> QED
    BY <2>1, <2>2, <2>3
<1>11. \A k \in 0..months : index[k] \in Nat
  <2> DEFINE B == {k \in 0..months : index[k] \notin Nat}
  <2>1. SUFFICES ASSUME B # {} PROVE FALSE
    OBVIOUS
  <2>2. B \in SUBSET (0..months) /\ 0 \notin B
    BY <1>10
  <2>3. PICK k \in 1..months : k \in B /\ k - 1 \in 0..months /\ k - 1 \notin B
    <3> HIDE DEF B
    <3> QED
      BY <2>1, <2>2, FirstFailure
  <2>4. index[k - 1] \in Nat /\ index[k] = NextProduct(products, index[k - 1], start[k])
    BY <1>10, <2>3
  <2>5. index[k] \in Nat
    BY <2>4 DEF NextProduct
  <2> QED
    BY <2>3, <2>5
<1>12. GoThrough(products, months, start, index)
  BY <1>10, <1>11 DEF GoThrough
<1> QED
  BY <1>2, <1>7, <1>12, <1>13 DEF HasFuture

\* The positions among the months at which the items of an extension begin and end.
ExtensionBounds(p, months, start, index, e) ==
    LET items == ExtensionItems(p, months)
    IN  /\ Len(items) \in Nat /\ Len(items) > 0
        /\ items = [i \in 1..Len(items) |-> items[i]]
        /\ BeginMonths(p, months, start)
        /\ GoThrough(ExtendedProducts(p, months), months, start, index)
        /\ Cardinality(InLoop(p, months, start, index)) \in 1..months
        /\ e \in [1..(Len(items) + 1) -> 0..months]
        /\ e[1] = 0 /\ e[Len(items) + 1] = Cardinality(InLoop(p, months, start, index))
        /\ \A i \in 1..Len(items) :
            /\ e[i] < e[i + 1]
            /\ LocalDate(items[i].start) = start[e[i]]
            /\ LocalDate(items[i].end) = AddDays(start[e[i + 1]], -1)
            /\ items[i].quantity = e[i + 1] - e[i]
            /\ items[i].unit = items[i].payment
            /\ items[i].refunded = FALSE

HasExtensionBounds(p, months) ==
    \E start, index, e : ExtensionBounds(p, months, start, index, e)

LEMMA NoMonthsNoItems ==
  ASSUME NEW p, NEW months \in Int, months <= 0
  PROVE  ExtensionItems(p, months) = <<>>
<1> DEFINE future == FutureMonths(p, months)
           begins == {k \in 1..Len(future) : k = 1 \/ future[k].product # future[k - 1].product}
<1>1. Len(future) = 0
  <2>1. 0..(months - 1) = {}
    OBVIOUS
  <2>2. \E f : \E K \in SUBSET (0..(months - 1)) : future = [k \in 1..Cardinality(K) |-> f[k]]
    <3> DEFINE first == AddDays(LocalDate(p.end), 1)
               last == LocalDate(GetEndTime(FromLocal(first, 0), months))
               products == ForDateRange(p.zone, first, last)
               start == CHOOSE f : f = [k \in 0..months |->
                                            IF k = 0 THEN first ELSE AddMonths(f[k - 1], 1)]
               index == CHOOSE f : f = [k \in 0..months |->
                                IF k = 0 THEN 1 ELSE NextProduct(products, f[k - 1], start[k])]
               K == {k \in 0..(months - 1) :
                            \A j \in 0..k : start[j] < last /\ index[j] <= Len(products)}
               g == [k \in 1..Cardinality(K) |->
                [product |-> products[index[k - 1]], first |-> start[k - 1],
                 last |-> AddDays(AddMonths(start[k - 1], 1), -1)]]
    <3>1. future = g
      BY DEF FutureMonths, MonthsFrom
    <3>2. K \in SUBSET (0..(months - 1))
      OBVIOUS
    <3>3. g = [k \in 1..Cardinality(K) |-> g[k]]
      <4> HIDE DEF K
      <4> QED
        OBVIOUS
    <3> HIDE DEF K, g, future
    <3> QED
      BY <3>1, <3>2, <3>3
  <2>3. PICK f : \E K \in SUBSET (0..(months - 1)) : future = [k \in 1..Cardinality(K) |-> f[k]]
    BY <2>2
  <2>5. PICK K \in SUBSET (0..(months - 1)) : future = [k \in 1..Cardinality(K) |-> f[k]]
    BY <2>3
  <2>4. Cardinality(K) = 0
    BY <2>1, FS_EmptySet
  <2> HIDE DEF future
  <2> QED
    BY <2>4, <2>5
<1>2. begins = {}
  <2> HIDE DEF future
  <2> QED
    BY <1>1
<1>3. Cardinality(begins) = 0
  BY <1>2, FS_EmptySet
<1>4. \E f : ExtensionItems(p, months) = [i \in 1..Cardinality(begins) |-> f[i]]
  <2> DEFINE first(i) == Nth(begins, i)
             last(i) == IF i = Cardinality(begins) THEN Len(future) ELSE Nth(begins, i + 1) - 1
             price(i) == ModifiedUnitPrice(future[first(i)].product, p.lowEmission, p.primary)
             g == [i \in 1..Cardinality(begins) |->
                    OrderItem(price(i), price(i), last(i) - first(i) + 1,
                      FromLocal(future[first(i)].first, 0), FromLocal(future[last(i)].last, 0))]
  <2>1. ExtensionItems(p, months) = g
    BY DEF ExtensionItems, ItemsOfMonths
  <2>2. g = [i \in 1..Cardinality(begins) |-> g[i]]
    <3> HIDE DEF begins, future, first, last, price
    <3> QED
      OBVIOUS
  <2> HIDE DEF g, begins
  <2> QED
    BY <2>1, <2>2
<1> HIDE DEF begins
<1> QED
  BY <1>3, <1>4

LEMMA ExtensionParts ==
  ASSUME NEW p, EndsWithItsMonths(p), NEW months \in Int, ExtensionItems(p, months) # <<>>
  PROVE  HasExtensionBounds(p, months) /\ months \in Nat /\ months > 0
<1>1. months \in Nat /\ months > 0
  BY NoMonthsNoItems
<1>2. PICK start, index : /\ BeginMonths(p, months, start)
                          /\ GoThrough(ExtendedProducts(p, months), months, start, index)
                          /\ FutureIs(p, months, start, index)
  <2>1. HasFuture(p, months)
    BY <1>1, FutureExists
  <2> QED
    BY <2>1 DEF HasFuture
<1> DEFINE future == FutureMonths(p, months)
           count == Cardinality(InLoop(p, months, start, index))
           begins == {k \in 1..Len(future) : k = 1 \/ future[k].product # future[k - 1].product}
           n == Cardinality(begins)
           items == ExtensionItems(p, months)
           first(i) == Nth(begins, i)
           last(i) == IF i = n THEN Len(future) ELSE Nth(begins, i + 1) - 1
           price(i) == ModifiedUnitPrice(future[first(i)].product, p.lowEmission, p.primary)
<1>3. count \in 0..months
  <2>1. InLoop(p, months, start, index) \in SUBSET (0..(months - 1))
    BY DEF InLoop
  <2>2. IsFiniteSet(0..(months - 1)) /\ Cardinality(0..(months - 1)) = months
    <3>1. 0 \in Int /\ months - 1 \in Int /\ ~(0 > months - 1) /\ months - 1 - 0 + 1 = months
      BY <1>1
    <3> QED
      BY <3>1, FS_Interval
  <2>3. count <= months /\ count \in Nat
    BY <2>1, <2>2, FS_Subset, FS_CardinalityType
  <2> QED
    BY <1>1, <2>3
<1>4. items = [i \in 1..n |->
                    OrderItem(price(i), price(i), last(i) - first(i) + 1,
                      FromLocal(future[first(i)].first, 0), FromLocal(future[last(i)].last, 0))]
  BY DEF ExtensionItems, ItemsOfMonths
<1> HIDE DEF count, items, future
<1>5. /\ Len(future) = count /\ count \in Nat
      /\ \A k \in 1..count : /\ future[k].first = start[k - 1]
                             /\ future[k].last = AddDays(AddMonths(start[k - 1], 1), -1)
  BY <1>2, <1>3 DEF FutureIs, future, count
<1>6. begins \in SUBSET (1..count)
  BY <1>5
<1>7. n \in 0..count
  <2> HIDE DEF begins
  <2> QED
    BY <1>5, <1>6, UpToIsFinite
<1>8. n > 0 /\ count > 0
  <2>1. n # 0
    <3>1. SUFFICES ASSUME n = 0 PROVE FALSE
      OBVIOUS
    <3> HIDE DEF n, price, first, last
    <3>2. items = <<>>
      BY <1>4, <3>1
    <3> QED
      BY <3>2 DEF items
  <2> HIDE DEF n
  <2> QED
    BY <1>3, <1>7, <2>1
<1>9. 1 \in begins
  BY <1>3, <1>5, <1>8
<1> HIDE DEF begins
<1>10. /\ \A i \in 1..n : first(i) \in 1..count
       /\ \A i \in 1..n : i # n => first(i) < first(i + 1)
       /\ first(1) = 1
  <2>1. \A i \in 1..n : first(i) \in 1..count
    BY <1>5, <1>6, NthExists
  <2>2. ASSUME NEW i \in 1..n, i # n PROVE first(i) < first(i + 1)
    <3>1. i + 1 \in 1..n /\ i < i + 1
      BY <1>7, <2>2
    <3> QED
      BY <1>5, <1>6, <3>1, NthIncreases
  <2>3. first(1) = 1
    BY <1>5, <1>6, <1>8, <1>9, NthEnds
  <2> QED
    BY <2>1, <2>2, <2>3
<1> HIDE DEF n
<1> DEFINE e == [i \in 1..(n + 1) |-> IF i <= n THEN first(i) - 1 ELSE count]
<1>11. e \in [1..(n + 1) -> 0..months] /\ e[1] = 0 /\ e[n + 1] = count
  <2>1. \A i \in 1..(n + 1) : i <= n => i \in 1..n
    BY <1>7
  <2>2. \A i \in 1..n : first(i) - 1 \in 0..months
    <3>1. \A i \in 1..n : first(i) \in 1..count
      BY <1>10
    <3> HIDE DEF first
    <3> QED
      BY <1>3, <3>1
  <2>3. e \in [1..(n + 1) -> 0..months]
    <3> HIDE DEF first
    <3> QED
      BY <1>3, <2>1, <2>2
  <2>4. e[1] = 0
    <3>1. first(1) = 1 /\ 1 \in 1..(n + 1) /\ 1 <= n
      BY <1>7, <1>8, <1>10
    <3> HIDE DEF first
    <3> QED
      BY <3>1
  <2>5. e[n + 1] = count
    <3>1. n + 1 \in 1..(n + 1) /\ ~(n + 1 <= n)
      BY <1>7
    <3> HIDE DEF first
    <3> QED
      BY <3>1
  <2> QED
    BY <2>3, <2>4, <2>5
<1>12. ASSUME NEW i \in 1..n
       PROVE  /\ first(i) = e[i] + 1 /\ last(i) = e[i + 1] /\ e[i] < e[i + 1]
              /\ e[i] \in 0..(count - 1) /\ e[i + 1] \in 1..count
  <2>1. i \in 1..(n + 1) /\ i + 1 \in 1..(n + 1) /\ i <= n /\ n \in Nat /\ i \in Nat
    BY <1>7
  <2>2. first(i) \in 1..count
    BY <1>10
  <2>3. e[i] = first(i) - 1
    <3> HIDE DEF first
    <3> QED
      BY <2>1
  <2>4. CASE i = n
    <3>1. e[i + 1] = count /\ last(i) = count
      BY <1>5, <1>11, <2>4
    <3> HIDE DEF first, last, e
    <3> QED
      BY <1>3, <2>2, <2>3, <3>1
  <2>5. CASE i # n
    <3>1. i + 1 <= n /\ i + 1 \in 1..n
      BY <2>1, <2>5
    <3>2. last(i) = first(i + 1) - 1 /\ first(i) < first(i + 1) /\ first(i + 1) \in 1..count
      BY <1>10, <2>5, <3>1
    <3> HIDE DEF first, last
    <3>3. e[i + 1] = first(i + 1) - 1
      BY <2>1, <3>1
    <3> HIDE DEF e
    <3> QED
      BY <1>3, <2>2, <2>3, <3>2, <3>3
  <2> QED
    BY <2>4, <2>5
<1>13. Len(items) = n /\ n \in Nat /\ items = [i \in 1..n |-> items[i]]
  <2> HIDE DEF price, first, last
  <2> QED
    BY <1>4, <1>7
<1>14. \A i \in 1..n :
        /\ items[i].start = FromLocal(future[first(i)].first, 0)
        /\ items[i].end = FromLocal(future[last(i)].last, 0)
        /\ items[i].quantity = last(i) - first(i) + 1
        /\ items[i].unit = items[i].payment
        /\ items[i].refunded = FALSE
  <2> HIDE DEF price, first, last
  <2> QED
    BY <1>4 DEF OrderItem
<1> HIDE DEF first, last, e
<1>15. ASSUME NEW i \in 1..n
       PROVE  /\ LocalDate(items[i].start) = start[e[i]]
              /\ LocalDate(items[i].end) = AddDays(start[e[i + 1]], -1)
              /\ items[i].quantity = e[i + 1] - e[i]
  <2> DEFINE a == e[i]
             b == e[i + 1]
  <2>1. /\ a \in 0..(count - 1) /\ b \in 1..count /\ first(i) = a + 1 /\ last(i) = b
        /\ a \in 0..months /\ b \in 1..months /\ a + 1 \in 1..count /\ a + 1 - 1 = a
    BY <1>3, <1>12
  <2> HIDE DEF a, b
  <2>2. /\ \A k \in 0..months : IsDay(start[k]) /\ MonthOf(start[k]) > 0
        /\ \A k \in 1..months : start[k] = AddMonths(start[k - 1], 1)
    <3>1. MonthOf(LocalDate(p.start)) \in Nat /\ p.months \in Nat /\ p.months > 0
      BY FirstDayAfter DEF EndsWithItsMonths
    <3> QED
      BY <1>2, <3>1 DEF BeginMonths
  <2>3. items[i].start = FromLocal(start[a], 0)
    <3> DEFINE c == a + 1
    <3>1. c \in 1..count /\ c - 1 = a /\ first(i) = c
      BY <2>1
    <3> HIDE DEF c
    <3>2. future[c].first = start[c - 1]
      BY <1>5, <3>1
    <3> QED
      BY <1>14, <3>1, <3>2
  <2>4. items[i].end = FromLocal(AddDays(start[b], -1), 0)
    <3>1. future[b].last = AddDays(AddMonths(start[b - 1], 1), -1)
      BY <1>5, <2>1
    <3>2. start[b] = AddMonths(start[b - 1], 1)
      BY <2>1, <2>2
    <3> QED
      BY <1>14, <2>1, <3>1, <3>2
  <2>5. LocalDate(items[i].start) = start[a]
    BY <2>1, <2>2, <2>3, MidnightIsOnTheDay
  <2>6. LocalDate(items[i].end) = AddDays(start[b], -1)
    <3>1. IsDay(start[b]) /\ MonthOf(start[b]) > 0 /\ start[b - 1] >= 31
      <4>1. b - 1 \in 0..months /\ b \in 0..months
        BY <2>1
      <4>2. IsDay(start[b - 1]) /\ MonthOf(start[b - 1]) > 0
        BY <2>2, <4>1
      <4>3. start[b - 1] >= 31
        <5> DEFINE date == start[b - 1]
                   m == MonthOf(date)
                   d == DayOf(date)
        <5>1. IsDate(date, m, d) /\ m > 0
          BY <4>2, EveryDateHasParts DEF IsDay
        <5> HIDE DEF date, m, d
        <5>2. date >= 31
          BY <5>1 DEF IsDate
        <5> QED
          BY <5>2 DEF date
      <4> QED
        BY <2>2, <4>1, <4>3
    <3>2. IsDay(AddDays(start[b], -1)) /\ MonthOf(AddDays(start[b], -1)) > 0
      <4> DEFINE x == AddDays(start[b], -1)
      <4>1. IsDay(x) /\ \A other : IsDay(other) /\ other < start[b] => other <= x
        BY <3>1, PreviousDay
      <4>2. IsDay(start[b - 1]) /\ start[b - 1] < start[b]
        <5>1. b - 1 \in 0..months /\ b \in 0..months
          BY <2>1
        <5>2. /\ IsDay(start[b - 1]) /\ IsDay(start[b])
              /\ MonthOf(start[b]) = MonthOf(LocalDate(p.start)) + p.months + b
              /\ MonthOf(start[b - 1]) = MonthOf(LocalDate(p.start)) + p.months + (b - 1)
          BY <1>2, <5>1 DEF BeginMonths
        <5>3. MonthOf(LocalDate(p.start)) \in Nat /\ p.months \in Nat
          BY FirstDayAfter DEF EndsWithItsMonths
        <5>4. MonthOf(start[b - 1]) < MonthOf(start[b])
          BY <2>1, <5>2, <5>3
        <5>5. start[b - 1] \in Nat /\ start[b] \in Nat
          BY <5>2 DEF IsDay
        <5> QED
          BY <5>2, <5>4, <5>5 DEF MonthOf
      <4> HIDE DEF x
      <4>3. start[b - 1] <= x /\ x \in Nat
        BY <4>1, <4>2 DEF IsDay
      <4>4. x >= 31
        BY <3>1, <4>2, <4>3 DEF IsDay
      <4>5. MonthOf(x) > 0
        BY <4>3, <4>4 DEF MonthOf
      <4> QED
        BY <4>1, <4>5 DEF x
    <3> QED
      BY <2>4, <3>2, MidnightIsOnTheDay
  <2>7. items[i].quantity = b - a
    <3>1. items[i].quantity = b - (a + 1) + 1
      BY <1>14, <2>1
    <3> QED
      BY <1>3, <2>1, <3>1
  <2> QED
    BY <2>5, <2>6, <2>7 DEF a, b
<1>16. ExtensionBounds(p, months, start, index, e)
  <2>1. count \in 1..months
    BY <1>3, <1>8
  <2> QED
    BY <1>2, <1>8, <1>11, <1>12, <1>13, <1>14, <1>15, <2>1 DEF ExtensionBounds, count, items
<1> QED
  BY <1>1, <1>16 DEF HasExtensionBounds

\* The months that follow begin in order, not after the day the extended permit would
\* have ended before.
LEMMA MonthsBeginInOrder ==
  ASSUME NEW p, EndsWithItsMonths(p), NEW months \in Nat, NEW start,
         BeginMonths(p, months, start), NEW a \in 0..months, NEW b \in 0..months
  PROVE  /\ IsDay(start[a]) /\ start[a] \in Nat /\ MonthOf(start[a]) > 0
         /\ a < b => start[a] < start[b]
         /\ start[a] <= AddMonths(LocalDate(p.start), p.months + months)
<1> DEFINE day == LocalDate(p.start)
           m == MonthOf(day) + p.months
           s == DayOf(day)
           end == AddMonths(day, p.months + months)
<1>1. /\ IsDay(start[a]) /\ MonthOf(start[a]) = m + a /\ DayOf(start[a]) <= s
      /\ IsDay(start[b]) /\ MonthOf(start[b]) = m + b
  BY DEF BeginMonths
<1>2. MonthOf(day) \in Nat /\ p.months \in Nat /\ p.months > 0 /\ s \in 1..31 /\ IsDay(day)
  BY FirstDayAfter, DaysOfPermit DEF EndsWithItsMonths
<1>3. m \in Nat /\ m > 0
  BY <1>2
<1>4. /\ IsDay(end) /\ MonthOf(end) = m + months
      /\ DayOf(end) = Least(s, DaysIn(m + months))
  <2>1. p.months + months \in Nat /\ MonthOf(day) + (p.months + months) = m + months
    BY <1>2
  <2> QED
    BY <1>2, <2>1, MonthsAfter
<1> HIDE DEF m, s, end, day
<1>5. /\ IsDate(start[a], m + a, DayOf(start[a])) /\ IsDate(start[b], m + b, DayOf(start[b]))
      /\ IsDate(end, m + months, Least(s, DaysIn(m + months)))
      /\ DayOf(start[a]) <= DaysIn(m + a)
  BY <1>1, <1>4, EveryDateHasParts DEF IsDay
<1>6. a < b => start[a] < start[b]
  BY <1>3, <1>5 DEF IsDate
<1>7. start[a] <= end
  <2>1. CASE a < months
    BY <1>3, <1>5, <2>1 DEF IsDate
  <2>2. CASE a = months
    <3>1. DayOf(start[a]) <= Least(s, DaysIn(m + months))
      BY <1>1, <1>5, <2>2 DEF Least
    <3> QED
      BY <1>3, <1>5, <2>2, <3>1 DEF IsDate
  <2> QED
    BY <2>1, <2>2
<1>8. start[a] \in Nat /\ MonthOf(start[a]) > 0
  BY <1>1, <1>3 DEF IsDay
<1> QED
  BY <1>1, <1>6, <1>7, <1>8 DEF end, day

LEMMA ExtensionInOrder ==
  ASSUME NEW p, EndsWithItsMonths(p), NEW months \in Int, ExtensionItems(p, months) # <<>>
  PROVE  /\ InOrder(ExtensionItems(p, months))
         /\ Within(ExtensionItems(p, months), LocalDate(p.end),
                   LocalDate(GetEndTime(p.start, p.months + months)))
         /\ Len(ExtensionItems(p, months)) \in Nat
         /\ LocalDate(p.end) <= LocalDate(GetEndTime(p.start, p.months + months))
         /\ months \in Nat /\ months > 0
<1> DEFINE items == ExtensionItems(p, months)
           n == Len(items)
           day == LocalDate(p.start)
           last == LocalDate(GetEndTime(p.start, p.months + months))
           final == AddMonths(day, p.months + months)
<1>1. months \in Nat /\ months > 0
  BY ExtensionParts
<1>2. PICK start, index, e : ExtensionBounds(p, months, start, index, e)
  BY ExtensionParts DEF HasExtensionBounds
<1>3. /\ n \in Nat /\ n > 0 /\ BeginMonths(p, months, start)
      /\ e \in [1..(n + 1) -> 0..months]
      /\ e[1] = 0
      /\ \A i \in 1..n : /\ e[i] < e[i + 1]
                         /\ LocalDate(items[i].start) = start[e[i]]
                         /\ LocalDate(items[i].end) = AddDays(start[e[i + 1]], -1)
  BY <1>2 DEF ExtensionBounds
<1>4. /\ \A a \in 0..months : /\ IsDay(start[a]) /\ start[a] \in Nat /\ MonthOf(start[a]) > 0
                              /\ start[a] <= final
      /\ \A a, b \in 0..months : a < b => start[a] < start[b]
  BY <1>1, <1>3, MonthsBeginInOrder
<1>5. /\ IsDay(day) /\ p.months \in Nat /\ p.months > 0 /\ p.end = GetEndTime(p.start, p.months)
      /\ p.months + months \in Nat /\ p.months + months > 0
  BY <1>1, DaysOfPermit DEF EndsWithItsMonths
<1>6. /\ last = AddDays(final, -1) /\ IsDay(last) /\ AddDays(last, 1) = final /\ last < final
  BY <1>5, EndDate DEF LastDay
<1>7. /\ LocalDate(p.end) < AddMonths(day, p.months) /\ IsDay(LocalDate(p.end))
      /\ start[0] = AddMonths(day, p.months)
  BY <1>3, <1>5, EndDate DEF BeginMonths
<1>8. IsDay(final) /\ MonthOf(final) > 0
  <2>1. IsDay(final) /\ MonthOf(final) = MonthOf(day) + (p.months + months) /\ MonthOf(day) \in Nat
    BY <1>5, MonthsAfter
  <2> HIDE DEF final, day
  <2> QED
    BY <1>5, <2>1
<1>9. \A x : IsDay(x) /\ x < final => x <= last
  BY <1>6, <1>8, PreviousDay
<1>10. \A a \in 0..months : /\ IsDay(AddDays(start[a], -1)) /\ AddDays(start[a], -1) \in Nat
                            /\ AddDays(start[a], -1) < start[a]
  <2>1. ASSUME NEW a \in 0..months
        PROVE  /\ IsDay(AddDays(start[a], -1)) /\ AddDays(start[a], -1) \in Nat
               /\ AddDays(start[a], -1) < start[a]
    <3>1. IsDay(AddDays(start[a], -1)) /\ AddDays(start[a], -1) < start[a]
      BY <1>4, PreviousDay
    <3> QED
      BY <3>1 DEF IsDay
  <2> QED
    BY <2>1
<1>11. final \in Nat /\ last \in Nat /\ LocalDate(p.end) \in Nat
  BY <1>6, <1>7, <1>8 DEF IsDay
<1> HIDE DEF items, n, final, last, day
<1>12. \A i \in 1..n : e[i] \in 0..months /\ e[i + 1] \in 0..months
  <2>1. \A i \in 1..n : i \in 1..(n + 1) /\ i + 1 \in 1..(n + 1)
    BY <1>3
  <2> QED
    BY <1>3, <2>1
<1>13. \A i, k \in 1..(n + 1) : i <= k => e[i] <= e[k]
  <2>1. n + 1 \in Nat /\ e \in [1..(n + 1) -> Int]
    BY <1>3
  <2>2. \A i \in 1..n : e[i] <= e[i + 1]
    <3>1. ASSUME NEW i \in 1..n PROVE e[i] <= e[i + 1]
      <4>1. e[i] \in Int /\ e[i + 1] \in Int /\ e[i] < e[i + 1]
        BY <1>3, <1>12
      <4> QED
        BY <4>1
    <3> QED
      BY <3>1
  <2> DEFINE l == n + 1
  <2>3. l \in Nat /\ e \in [1..l -> Int] /\ l - 1 = n
    BY <1>3, <2>1
  <2> HIDE DEF l
  <2>5. \A i \in 1..(l - 1) : e[i] <= e[i + 1]
    BY <2>2, <2>3
  <2>4. \A i, k \in 1..l : i <= k => e[i] <= e[k]
    BY <2>3, <2>5, NeverDecreases
  <2> QED
    BY <2>4 DEF l
<1>14. ASSUME NEW j \in 1..n, NEW l \in 1..n, j < l
       PROVE  LocalDate(items[l].start) > LocalDate(items[j].end)
  <2> DEFINE a == e[j + 1]
             b == e[l]
  <2>1. a \in 0..months /\ b \in 0..months /\ a <= b
    <3>1. j + 1 \in 1..(n + 1) /\ l \in 1..(n + 1) /\ j + 1 <= l
      BY <1>3, <1>14
    <3> QED
      BY <1>12, <1>13, <3>1
  <2>2. LocalDate(items[l].start) = start[b] /\ LocalDate(items[j].end) = AddDays(start[a], -1)
    BY <1>3
  <2> HIDE DEF a, b
  <2>3. start[a] <= start[b]
    <3>1. a < b \/ a = b
      BY <2>1
    <3>2. start[a] \in Nat /\ start[b] \in Nat
      BY <1>4, <2>1
    <3> QED
      BY <1>4, <2>1, <3>1, <3>2
  <2>4. AddDays(start[a], -1) < start[a] /\ AddDays(start[a], -1) \in Nat
    BY <1>10, <2>1
  <2>5. start[a] \in Nat /\ start[b] \in Nat
    BY <1>4, <2>1
  <2> QED
    BY <2>2, <2>3, <2>4, <2>5
<1>15. ASSUME NEW j \in 1..n
       PROVE  /\ LocalDate(items[j].start) \in Nat /\ LocalDate(items[j].end) \in Nat
              /\ LocalDate(items[j].start) > LocalDate(p.end)
              /\ LocalDate(items[j].end) <= last
  <2> DEFINE a == e[j]
             b == e[j + 1]
  <2>1. a \in 0..months /\ b \in 0..months
    BY <1>12
  <2>2. LocalDate(items[j].start) = start[a] /\ LocalDate(items[j].end) = AddDays(start[b], -1)
    BY <1>3
  <2> HIDE DEF a, b
  <2>3. start[a] >= start[0]
    <3>1. a = 0 \/ 0 < a
      BY <2>1
    <3>2. start[a] \in Nat /\ start[0] \in Nat /\ 0 \in 0..months
      BY <1>1, <1>4, <2>1
    <3> QED
      BY <1>4, <2>1, <3>1, <3>2
  <2>4. start[a] \in Nat /\ start[0] \in Nat /\ start[0] > LocalDate(p.end)
    <3>1. 0 \in 0..months
      BY <1>1
    <3>2. start[a] \in Nat /\ start[0] \in Nat
      BY <1>4, <2>1, <3>1
    <3>3. LocalDate(p.end) < start[0]
      BY <1>7
    <3> QED
      BY <1>11, <3>2, <3>3
  <2>5. AddDays(start[b], -1) <= last
    <3> DEFINE x == AddDays(start[b], -1)
    <3>1. IsDay(x) /\ x \in Nat /\ x < start[b] /\ start[b] \in Nat /\ start[b] <= final
      BY <1>4, <1>10, <2>1
    <3> HIDE DEF x
    <3>2. x < final
      BY <1>11, <3>1
    <3>3. x <= last
      BY <1>9, <3>1, <3>2
    <3> QED
      BY <3>3 DEF x
  <2>6. AddDays(start[b], -1) \in Nat
    BY <1>10, <2>1
  <2> QED
    BY <1>11, <2>2, <2>3, <2>4, <2>5, <2>6
<1>16. LocalDate(p.end) <= last
  <2>1. start[0] <= final /\ start[0] \in Nat
    <3>1. 0 \in 0..months
      BY <1>1
    <3> QED
      BY <1>4, <3>1
  <2>2. LocalDate(p.end) < final
    BY <1>7, <1>11, <2>1
  <2> QED
    BY <1>7, <1>9, <2>2
<1> QED
  BY <1>1, <1>3, <1>14, <1>15, <1>16 DEF InOrder, Within, items, n, last

(***************************************************************************)
(* Items for months, one after the other                                   *)
(***************************************************************************)
\* The given day of a month.
DayIn(month, day) == 31 * month + day - 1

\* The last day of a span of months that begin on a day: any day before the next one
\* begins.
EndsMonth(date, month, day) ==
    date \in Nat /\ DayIn(month - 1, day) <= date /\ date < DayIn(month, day)

LEMMA DayInMonth ==
  ASSUME NEW day \in 1..28, NEW month \in Nat
  PROVE  /\ DayIn(month, day) \in Nat /\ IsDay(DayIn(month, day))
         /\ MonthOf(DayIn(month, day)) = month /\ DayOf(DayIn(month, day)) = day
         /\ \A n \in Nat : AddMonths(DayIn(month, day), n) = DayIn(month + n, day)
<1>1. DaysIn(month) \in 28..31
  BY MonthLengths
<1>2. day \in 1..31 /\ day <= DaysIn(month)
  BY <1>1
<1>3. /\ DayIn(month, day) \in Nat /\ IsDay(DayIn(month, day))
      /\ MonthOf(DayIn(month, day)) = month /\ DayOf(DayIn(month, day)) = day
  BY <1>2, DayParts DEF DayIn, IsDay
<1>4. ASSUME NEW n \in Nat
      PROVE  AddMonths(DayIn(month, day), n) = DayIn(month + n, day)
  <2>1. month + n \in Nat
    OBVIOUS
  <2>2. DaysIn(month + n) \in 28..31
    BY <2>1, MonthLengths
  <2>3. ~(day > DaysIn(month + n))
    BY <2>2
  <2> QED
    BY <1>3, <2>3 DEF AddMonths, DayIn
<1> QED
  BY <1>3, <1>4

\* How many months begin on a day from one month to another.
LEMMA MonthsOfSpan ==
  ASSUME NEW day \in 1..28, NEW from \in Nat, NEW to \in Nat, to > 0, from <= to,
         NEW date, EndsMonth(date, to, day)
  PROVE  MonthsBetween(DayIn(from, day), date) = to - from
<1> DEFINE first == DayIn(from, day)
           e == MonthOf(date)
<1>1. /\ date \in Nat /\ 31 * (to - 1) + day - 1 <= date /\ date < 31 * to + day - 1
  BY DEF EndsMonth, DayIn
<1>2. e \in Nat /\ e \in {to - 1, to}
  BY <1>1 DEF MonthOf
<1>3. /\ first \in Nat /\ MonthOf(first) = from
      /\ \A n \in Nat : AddMonths(first, n) = DayIn(from + n, day)
  BY DayInMonth
<1>4. /\ At(first, 0) \in Nat /\ DateIn(At(first, 0)) = first /\ HourIn(At(first, 0)) = 0
      /\ At(date, 0) \in Nat /\ DateIn(At(date, 0)) = date
  BY <1>1, <1>3, MomentParts
<1>5. first = 31 * from + day - 1
  BY DEF DayIn
<1> HIDE DEF first, e
<1>6. CASE from = to
  <2>1. At(first, 0) > At(date, 0)
    BY <1>1, <1>3, <1>5, <1>6 DEF At
  <2> QED
    BY <1>6, <2>1 DEF MonthsBetween, DiffMonthsCeil, first
<1>7. CASE from < to
  <2>1. ~(At(first, 0) > At(date, 0))
    <3>1. first <= date
      BY <1>1, <1>5, <1>7
    <3> QED
      BY <1>1, <1>3, <3>1 DEF At
  <2>2. e - from \in Nat /\ from + (e - from) = e
    BY <1>2, <1>7
  <2>3. AddMonthsTo(At(first, 0), e - from) = At(DayIn(e, day), 0)
    BY <1>3, <1>4, <2>2 DEF AddMonthsTo
  <2>4. WholeMonths(At(first, 0), At(date, 0)) = to - from - 1
    <3>1. CASE e = to - 1
      <4>1. ~(At(DayIn(e, day), 0) > At(date, 0))
        BY <1>1, <1>2, <3>1 DEF At, DayIn
      <4> QED
        BY <1>3, <1>4, <2>3, <3>1, <4>1 DEF WholeMonths, e
    <3>2. CASE e = to
      <4>1. At(DayIn(e, day), 0) > At(date, 0)
        BY <1>1, <1>2, <3>2 DEF At, DayIn
      <4> QED
        BY <1>3, <1>4, <2>3, <3>2, <4>1 DEF WholeMonths, e
    <3> QED
      BY <1>2, <3>1, <3>2
  <2> QED
    BY <2>1, <2>4 DEF MonthsBetween, DiffMonthsCeil, first
<1> QED
  BY <1>6, <1>7

\* The day before a month begins, and the last day of the month before, end it.
LEMMA DayBeforeEnds ==
  ASSUME NEW day \in 1..28, NEW month \in Nat, month > 0
  PROVE  /\ EndsMonth(AddDays(DayIn(month, day), -1), month, day)
         /\ DayIn(month - 1, day) < AddDays(DayIn(month, day), -1)
         /\ \A date \in Nat : MonthOf(date) = month - 1 /\ DayOf(date) = DaysIn(month - 1)
                => EndsMonth(date, month, day)
<1>1. month - 1 \in Nat /\ DaysIn(month - 1) \in 28..31 /\ DaysIn(month) \in 28..31
  BY MonthLengths
<1>2. IsDate(DayIn(month, day), month, day)
  BY DEF IsDate, DayIn
<1>3. /\ day = 1 => IsDate(AddDays(DayIn(month, day), -1), month - 1, DaysIn(month - 1))
      /\ day > 1 => IsDate(AddDays(DayIn(month, day), -1), month, day - 1)
  <2>1. day <= DaysIn(month)
    BY <1>1
  <2> QED
    BY <1>2, <2>1, DayBefore
<1>4. /\ EndsMonth(AddDays(DayIn(month, day), -1), month, day)
      /\ DayIn(month - 1, day) < AddDays(DayIn(month, day), -1)
  BY <1>1, <1>3 DEF IsDate, EndsMonth, DayIn
<1>5. ASSUME NEW date \in Nat, MonthOf(date) = month - 1, DayOf(date) = DaysIn(month - 1)
      PROVE  EndsMonth(date, month, day)
  <2>1. IsDate(date, month - 1, DaysIn(month - 1))
    BY <1>5, EveryDateHasParts
  <2> QED
    BY <1>1, <2>1 DEF IsDate, EndsMonth, DayIn
<1> QED
  BY <1>4, <1>5

\* The month in which each product begins that a permit is charged with, the first one
\* with the permit; and the month after the last.
MonthBound(p, i) ==
    CASE i = 1 -> MonthOf(LocalDate(p.start))
      [] i = Len(OnSale(p)) + 1 -> MonthOf(LocalDate(p.start)) + p.months
      [] OTHER -> MonthOf(OnSale(p)[i].first)

LEMMA MonthThatEnds ==
  ASSUME NEW day \in 1..28, NEW month \in Nat, month > 0, NEW date, EndsMonth(date, month, day)
  PROVE  MonthOf(date) \in {month - 1, month} /\ MonthOf(date) <= month
<1>1. date \in Nat /\ 31 * (month - 1) <= date /\ date < 31 * (month + 1)
  BY DEF EndsMonth, DayIn
<1> QED
  BY <1>1 DEF MonthOf

LEMMA CommonDay ==
  ASSUME NEW day \in 1..28, NEW days \in 28..31
  PROVE  Least(day, days) = day
BY DEF Least

LEMMA StartParts ==
  ASSUME NEW p, EndsWithItsMonths(p), DayOf(LocalDate(p.start)) <= 28
  PROVE  /\ MonthOf(LocalDate(p.start)) \in Nat /\ DayOf(LocalDate(p.start)) \in 1..28
         /\ LocalDate(p.start) = DayIn(MonthOf(LocalDate(p.start)), DayOf(LocalDate(p.start)))
         /\ \A n \in Nat : AddMonths(LocalDate(p.start), n) =
                DayIn(MonthOf(LocalDate(p.start)) + n, DayOf(LocalDate(p.start)))
         /\ MonthOf(LocalDate(p.start)) + p.months \in Nat
         /\ MonthOf(LocalDate(p.start)) + p.months > 0
         /\ LocalDate(p.end) = AddDays(DayIn(MonthOf(LocalDate(p.start)) + p.months,
                                             DayOf(LocalDate(p.start))), -1)
<1> DEFINE first == LocalDate(p.start)
           s == DayOf(first)
           m == MonthOf(first)
<1>1. IsDay(first) /\ first \in Nat /\ LocalDate(p.end) = LastDay(p.start, p.months)
      /\ p.months \in Nat /\ p.months > 0
  BY DaysOfPermit DEF EndsWithItsMonths
<1>2. IsDate(first, m, s)
  BY <1>1, EveryDateHasParts
<1>3. m \in Nat /\ s \in 1..28 /\ first = DayIn(m, s)
  BY <1>2 DEF IsDate, DayIn
<1>4. \A n \in Nat : AddMonths(first, n) = DayIn(m + n, s)
  <2> HIDE DEF first, s, m
  <2> QED
    BY <1>3, DayInMonth
<1>5. LocalDate(p.end) = AddDays(DayIn(m + p.months, s), -1)
  BY <1>1, <1>4 DEF LastDay
<1> QED
  BY <1>1, <1>3, <1>4, <1>5

\* The products of a purchase, each with the months of the permit that begin while it is
\* on sale.
LEMMA PurchaseBounds ==
  ASSUME NEW p, EndsWithItsMonths(p), Regular(Products[p.zone]), Covered(p),
         DayOf(LocalDate(p.start)) <= 28, NEW i \in 1..Len(OnSale(p))
  PROVE  /\ MonthBound(p, i) \in Nat /\ MonthBound(p, i + 1) \in Nat
         /\ MonthBound(p, i + 1) > 0
         /\ MonthBound(p, i) <= MonthBound(p, i + 1)
         /\ i < Len(OnSale(p)) => MonthBound(p, i) < MonthBound(p, i + 1)
         /\ Details(p)[i].first = DayIn(MonthBound(p, i), DayOf(LocalDate(p.start)))
         /\ EndsMonth(Details(p)[i].last, MonthBound(p, i + 1), DayOf(LocalDate(p.start)))
         /\ Details(p)[i].quantity = MonthBound(p, i + 1) - MonthBound(p, i)
<1> DEFINE list == OnSale(p)
           L == Len(list)
           first == LocalDate(p.start)
           last == LocalDate(p.end)
           s == DayOf(first)
           m == MonthOf(first)
           to == m + p.months
           a == MonthBound(p, i)
           b == MonthBound(p, i + 1)
           d == Details(p)[i]
<1>1. /\ m \in Nat /\ s \in 1..28 /\ first = DayIn(m, s) /\ to \in Nat /\ to > 0 /\ to > m
      /\ last = AddDays(DayIn(to, s), -1)
      /\ p.months \in Nat /\ p.months > 0
  <2>1. /\ m \in Nat /\ s \in 1..28 /\ first = DayIn(m, s) /\ to \in Nat /\ to > 0
        /\ last = AddDays(DayIn(to, s), -1)
    BY StartParts
  <2>2. p.months \in Nat /\ p.months > 0
    BY DEF EndsWithItsMonths
  <2>3. to > m
    BY <2>1, <2>2
  <2> QED
    BY <2>1, <2>2, <2>3
<1>2. IsDay(first) /\ IsDay(last) /\ first \in Nat /\ last \in Nat /\ first <= last
      /\ p.zone \in Zones
  BY DaysOfPermit DEF EndsWithItsMonths
<1>3. /\ Consecutive(list, first, last) /\ L \in Nat /\ L > 0
      /\ \A k \in 1..L : list[k].first \in Nat /\ list[k].last \in Nat
  <2>1. Consecutive(list, first, last) /\ L \in Nat
    BY PurchasePositions
  <2>2. list \in Seq(Product) /\ L > 0
    BY <2>1 DEF Consecutive
  <2> QED
    BY <2>1, <2>2, ProductFields
<1>4. /\ i = 1 => d.first = first
      /\ i > 1 => d.first = 31 * MonthOf(list[i].first)
                            + Least(s, DaysIn(MonthOf(list[i].first))) - 1
      /\ d.last = IF i = L THEN last ELSE list[i].last
      /\ d.quantity = MonthsBetween(d.first, d.last)
  <2>1. CatalogCovers(p.zone, first, last)
    BY DEF Covered
  <2> QED
    BY <1>2, <2>1, PeriodDetails DEF OnSale, Details
<1>5. ASSUME NEW k \in 1..L, k < L
      PROVE  /\ list[k].first < list[k + 1].first
             /\ DayOf(list[k].last) = DaysIn(MonthOf(list[k].last))
             /\ list[k + 1].first = 31 * (MonthOf(list[k].last) + 1)
             /\ first <= list[k].last
             /\ list[k + 1].first <= last
             /\ MonthOf(list[k + 1].first) = MonthOf(list[k].last) + 1
             /\ MonthOf(list[k].last) \in Nat
  <2>1. k \in 1..(L - 1)
    BY <1>3, <1>5
  <2>2. /\ list[k].first < list[k + 1].first
        /\ DayOf(list[k].last) = DaysIn(MonthOf(list[k].last))
        /\ list[k + 1].first = 31 * (MonthOf(list[k].last) + 1)
        /\ first <= list[k].last
        /\ list[k + 1].first <= last
    BY <1>3, <2>1 DEF Consecutive
  <2>3. MonthOf(list[k].last) \in Nat
    BY <1>3 DEF MonthOf
  <2> QED
    BY <2>2, <2>3 DEF MonthOf
<1>6. MonthOf(last) <= to /\ EndsMonth(last, to, s)
  <2>1. EndsMonth(last, to, s)
    BY <1>1, DayBeforeEnds
  <2> HIDE DEF last, s, to
  <2>2. MonthOf(last) <= to
    BY <1>1, <2>1, MonthThatEnds
  <2> QED
    BY <2>1, <2>2
<1>7. a = IF i = 1 THEN m ELSE MonthOf(list[i].first)
  BY <1>3 DEF MonthBound
<1>8. b = IF i = L THEN to ELSE MonthOf(list[i + 1].first)
  BY <1>3 DEF MonthBound
<1> HIDE DEF list, L, first, last, s, m, to, a, b, d
<1>9. a \in Nat /\ b \in Nat
  <2>1. \A k \in 1..L : MonthOf(list[k].first) \in Nat
    BY <1>3 DEF MonthOf
  <2>2. i \in 1..L /\ (i # L => i + 1 \in 1..L)
    BY <1>3 DEF L, list
  <2> QED
    BY <1>1, <1>7, <1>8, <2>1, <2>2
<1>10. i \in 1..L
  BY DEF L, list
<1>11. d.first = DayIn(a, s)
  <2>1. CASE i = 1
    BY <1>1, <1>4, <1>7, <2>1
  <2>2. CASE i > 1
    <3>1. a = MonthOf(list[i].first) /\ DaysIn(a) \in 28..31
      BY <1>7, <1>9, <2>2, MonthLengths
    <3>2. Least(s, DaysIn(a)) = s
      BY <1>1, <3>1, CommonDay
    <3> QED
      BY <1>4, <2>2, <3>1, <3>2 DEF DayIn
  <2> QED
    BY <1>10, <2>1, <2>2
<1>12. i < L => a < b
  <2> SUFFICES ASSUME i < L PROVE a < b
    OBVIOUS
  <2>1. /\ b = MonthOf(list[i].last) + 1 /\ b = MonthOf(list[i + 1].first)
        /\ first <= list[i].last /\ list[i].first < list[i + 1].first
        /\ MonthOf(list[i].last) \in Nat /\ list[i].last \in Nat
        /\ list[i + 1].first = 31 * b
    BY <1>3, <1>5, <1>8, <1>10
  <2>2. CASE i = 1
    <3>1. a = m /\ m <= MonthOf(list[i].last)
      BY <1>2, <1>7, <2>1, <2>2 DEF m, MonthOf
    <3> QED
      BY <1>1, <2>1, <3>1
  <2>3. CASE i > 1
    <3>1. i - 1 \in 1..L /\ i - 1 < L /\ i - 1 + 1 = i
      BY <1>3, <1>10, <2>3
    <3>2. list[i].first = 31 * (MonthOf(list[i - 1].last) + 1)
          /\ MonthOf(list[i].first) = MonthOf(list[i - 1].last) + 1
      BY <1>5, <3>1
    <3>3. list[i].first = 31 * a
      BY <1>7, <2>3, <3>2
    <3>4. 31 * a < 31 * b
      BY <2>1, <3>3
    <3> QED
      BY <1>9, <3>4
  <2> QED
    BY <1>10, <2>2, <2>3
<1>13. i = L => a <= b
  <2> SUFFICES ASSUME i = L PROVE a <= b
    OBVIOUS
  <2>1. b = to
    BY <1>8
  <2>2. CASE i = 1
    BY <1>1, <1>7, <2>1, <2>2
  <2>3. CASE i > 1
    <3>1. i - 1 \in 1..L /\ i - 1 < L /\ i - 1 + 1 = i
      BY <1>3, <1>10, <2>3
    <3>2. list[i].first <= last
      BY <1>5, <3>1
    <3>3. MonthOf(list[i].first) <= MonthOf(last)
      BY <1>2, <1>3, <1>10, <3>2 DEF MonthOf
    <3>4. MonthOf(last) \in Nat
      BY <1>2 DEF MonthOf
    <3> QED
      BY <1>1, <1>6, <1>7, <1>9, <2>1, <2>3, <3>3, <3>4
  <2> QED
    BY <1>10, <2>2, <2>3
<1>14. b > 0
  BY <1>1, <1>8, <1>9, <1>10, <1>12, <1>3
<1>15. EndsMonth(d.last, b, s)
  <2>1. CASE i = L
    BY <1>4, <1>6, <1>8, <2>1
  <2>2. CASE i # L
    <3>1. i < L
      BY <1>3, <1>10, <2>2
    <3>2. /\ d.last = list[i].last /\ list[i].last \in Nat
          /\ b = MonthOf(list[i].last) + 1 /\ MonthOf(list[i].last) \in Nat
          /\ DayOf(list[i].last) = DaysIn(MonthOf(list[i].last))
      BY <1>3, <1>4, <1>5, <1>8, <1>10, <2>2, <3>1
    <3>3. MonthOf(list[i].last) = b - 1
      BY <3>2
    <3> QED
      BY <1>1, <1>9, <1>14, <3>2, <3>3, DayBeforeEnds
  <2> QED
    BY <2>1, <2>2
<1>16. a <= b
  BY <1>3, <1>9, <1>10, <1>12, <1>13
<1>17. d.quantity = b - a
  <2>1. MonthsBetween(DayIn(a, s), d.last) = b - a
    BY <1>1, <1>9, <1>14, <1>15, <1>16, MonthsOfSpan
  <2> QED
    BY <1>4, <1>11, <2>1
<1> QED
  BY <1>9, <1>11, <1>12, <1>14, <1>15, <1>16, <1>17 DEF a, b, d, s, first, L, list

\* The items are for the months from one to another, one after the other: c[j] is the
\* month that the j-th item begins with.
Tiles(items, day, c, from, to) ==
    /\ Len(items) \in Nat
    /\ c \in [1..(Len(items) + 1) -> Nat]
    /\ c[1] = from /\ c[Len(items) + 1] = to
    /\ \A j \in 1..Len(items) :
        /\ c[j] < c[j + 1]
        /\ LocalDate(items[j].start) = DayIn(c[j], day)
        /\ EndsMonth(LocalDate(items[j].end), c[j + 1], day)
        /\ items[j].quantity = c[j + 1] - c[j]
        /\ items[j].unit = items[j].payment
        /\ items[j].refunded = FALSE

AreTiles(items, day, from, to) == \E c : Tiles(items, day, c, from, to)

\* Only the last product may have no month.
LEMMA ProductsWithMonths ==
  ASSUME NEW p, EndsWithItsMonths(p), Regular(Products[p.zone]), Covered(p),
         DayOf(LocalDate(p.start)) <= 28
  PROVE  \E K \in Nat :
            /\ K \in {Len(OnSale(p)) - 1, Len(OnSale(p))} /\ Len(OnSale(p)) \in Nat
            /\ WithMonths(p) = 1..K /\ Cardinality(WithMonths(p)) = K
            /\ \A n \in 1..K : Nth(WithMonths(p), n) = n
            /\ MonthBound(p, K + 1) = MonthOf(LocalDate(p.start)) + p.months
            /\ K # Len(OnSale(p)) => Details(p)[Len(OnSale(p))].quantity = 0
<1> DEFINE L == Len(OnSale(p))
           c(i) == MonthBound(p, i)
           to == MonthOf(LocalDate(p.start)) + p.months
<1>1. L \in Nat /\ L > 0 /\ Len(Details(p)) = L
  BY PurchasePositions DEF Consecutive
<1>2. \A i \in 1..L : /\ c(i) \in Nat /\ c(i + 1) \in Nat /\ c(i) <= c(i + 1)
                      /\ i < L => c(i) < c(i + 1)
                      /\ Details(p)[i].quantity = c(i + 1) - c(i)
  BY PurchaseBounds
<1>3. c(1) = MonthOf(LocalDate(p.start)) /\ c(L + 1) = to /\ c(1) < c(L + 1)
  <2>1. c(1) = MonthOf(LocalDate(p.start)) /\ c(L + 1) = to
    BY <1>1 DEF MonthBound
  <2>2. MonthOf(LocalDate(p.start)) \in Nat /\ p.months \in Nat /\ p.months > 0
    BY StartParts DEF EndsWithItsMonths
  <2> QED
    BY <2>1, <2>2
<1>4. WithMonths(p) = {i \in 1..L : Details(p)[i].quantity > 0}
  BY <1>1 DEF WithMonths
<1>5. L \in 1..L
  BY <1>1
<1> HIDE DEF L, c, to
<1>6. \A i \in 1..L : Details(p)[i].quantity > 0 <=> (i < L \/ c(L + 1) > c(L))
  <2> SUFFICES ASSUME NEW i \in 1..L
               PROVE  Details(p)[i].quantity > 0 <=> (i < L \/ c(L + 1) > c(L))
    OBVIOUS
  <2>1. CASE i < L
    BY <1>2, <2>1
  <2>2. CASE i = L
    BY <1>2, <2>2
  <2> QED
    BY <1>1, <2>1, <2>2
<1> DEFINE K == IF c(L + 1) > c(L) THEN L ELSE L - 1
<1>7. K \in Nat /\ K \in {L - 1, L} /\ WithMonths(p) = 1..K
  BY <1>1, <1>4, <1>6
<1>8. c(K + 1) = to
  <2>1. CASE c(L + 1) > c(L)
    BY <1>3, <2>1
  <2>2. CASE ~(c(L + 1) > c(L))
    <3>1. c(L) = c(L + 1)
      BY <1>2, <1>5, <2>2
    <3>2. K + 1 = L
      BY <1>1, <2>2
    <3> QED
      BY <1>3, <3>1, <3>2
  <2> QED
    BY <2>1, <2>2
<1>9. K # L => Details(p)[L].quantity = 0
  <2> SUFFICES ASSUME K # L PROVE Details(p)[L].quantity = 0
    OBVIOUS
  <2>1. c(L) = c(L + 1) /\ c(L) \in Nat /\ Details(p)[L].quantity = c(L + 1) - c(L)
    BY <1>2, <1>5
  <2> QED
    BY <2>1
<1> HIDE DEF K
<1>10. Cardinality(1..K) = K /\ \A n \in 1..K : Nth(1..K, n) = n
  <2>1. 1 <= K + 1 /\ 1 \in Nat \ {0} /\ K - 1 + 1 = K
    BY <1>7
  <2>2. Cardinality(1..K) = K - 1 + 1 /\ \A n \in 1..(K - 1 + 1) : Nth(1..K, n) = 1 + n - 1
    BY <1>7, <2>1, NthOfInterval
  <2> QED
    BY <1>7, <2>1, <2>2
<1>11. K \in {L - 1, L} /\ WithMonths(p) = 1..K /\ c(K + 1) = to
  BY <1>7, <1>8
<1> QED
  BY <1>1, <1>7, <1>9, <1>10, <1>11 DEF L, c, to

LEMMA PurchaseTiles ==
  ASSUME NEW p, EndsWithItsMonths(p), Regular(Products[p.zone]), Covered(p),
         DayOf(LocalDate(p.start)) <= 28
  PROVE  AreTiles(PurchaseItems(p), DayOf(LocalDate(p.start)), MonthOf(LocalDate(p.start)),
                  MonthOf(LocalDate(p.start)) + p.months)
<1> DEFINE s == DayOf(LocalDate(p.start))
           from == MonthOf(LocalDate(p.start))
           to == from + p.months
           L == Len(OnSale(p))
           items == PurchaseItems(p)
<1>1. PICK K \in Nat :
            /\ K \in {L - 1, L} /\ L \in Nat
            /\ WithMonths(p) = 1..K /\ Cardinality(WithMonths(p)) = K
            /\ \A n \in 1..K : Nth(WithMonths(p), n) = n
            /\ MonthBound(p, K + 1) = to
  BY ProductsWithMonths
<1>2. \A j \in 1..K : j \in 1..L
  BY <1>1
<1>3. /\ Len(items) = K
      /\ \A j \in 1..K : items[j] = PurchasedItem(p, j)
  <2>1. items = [n \in 1..Cardinality(WithMonths(p)) |-> PurchasedItem(p, Nth(WithMonths(p), n))]
        /\ Len(items) = Cardinality(WithMonths(p))
    BY PurchasePositions
  <2> HIDE DEF items
  <2>2. \A j \in 1..K : items[j] = PurchasedItem(p, Nth(WithMonths(p), j))
    BY <1>1, <2>1
  <2> QED
    BY <1>1, <2>1, <2>2
<1> DEFINE c == [j \in 1..(K + 1) |-> MonthBound(p, j)]
<1>4. \A j \in 1..L : /\ MonthBound(p, j) \in Nat /\ MonthBound(p, j + 1) \in Nat
                      /\ MonthBound(p, j) <= MonthBound(p, j + 1)
                      /\ Details(p)[j].first = DayIn(MonthBound(p, j), s)
                      /\ EndsMonth(Details(p)[j].last, MonthBound(p, j + 1), s)
                      /\ Details(p)[j].quantity = MonthBound(p, j + 1) - MonthBound(p, j)
  BY PurchaseBounds
<1>5. \A j \in 1..L : /\ LocalDate(PurchasedItem(p, j).start) = Details(p)[j].first
                      /\ LocalDate(PurchasedItem(p, j).end) = Details(p)[j].last
                      /\ PurchasedItem(p, j).quantity = Details(p)[j].quantity
                      /\ PurchasedItem(p, j).unit = PurchasedItem(p, j).payment
                      /\ PurchasedItem(p, j).refunded = FALSE
  BY PurchasedDates
<1>6. MonthBound(p, 1) = from
  <2>1. L \in Nat /\ L > 0
    BY PurchasePositions DEF Consecutive
  <2> QED
    BY <2>1 DEF MonthBound
<1>7. from \in Nat /\ to \in Nat
  BY StartParts
<1>8. \A j \in 1..K : Details(p)[j].quantity > 0
  <2>1. \A j \in WithMonths(p) : Details(p)[j].quantity > 0
    BY DEF WithMonths
  <2> QED
    BY <1>1, <2>1
<1> HIDE DEF s, from, to, L, items
<1>9. c \in [1..(K + 1) -> Nat]
  <2>1. \A j \in 1..(K + 1) : j \in 1..K \/ j = K + 1
    BY <1>1
  <2>2. \A j \in 1..(K + 1) : MonthBound(p, j) \in Nat
    BY <1>1, <1>2, <1>4, <1>7, <2>1
  <2> QED
    BY <2>2
<1>10. c[1] = from /\ c[K + 1] = to
  <2>1. 1 \in 1..(K + 1) /\ K + 1 \in 1..(K + 1)
    BY <1>1
  <2> QED
    BY <1>1, <1>6, <2>1
<1>11. ASSUME NEW j \in 1..K
       PROVE  /\ c[j] < c[j + 1]
              /\ LocalDate(items[j].start) = DayIn(c[j], s)
              /\ EndsMonth(LocalDate(items[j].end), c[j + 1], s)
              /\ items[j].quantity = c[j + 1] - c[j]
              /\ items[j].unit = items[j].payment
              /\ items[j].refunded = FALSE
  <2>1. j \in 1..(K + 1) /\ j + 1 \in 1..(K + 1) /\ j \in 1..L
    BY <1>1, <1>2
  <2>2. c[j] = MonthBound(p, j) /\ c[j + 1] = MonthBound(p, j + 1)
    BY <2>1
  <2> HIDE DEF c
  <2>3. /\ items[j] = PurchasedItem(p, j)
        /\ LocalDate(items[j].start) = DayIn(c[j], s)
        /\ EndsMonth(LocalDate(items[j].end), c[j + 1], s)
        /\ items[j].quantity = c[j + 1] - c[j]
        /\ items[j].unit = items[j].payment
        /\ items[j].refunded = FALSE
    BY <1>3, <1>4, <1>5, <2>1, <2>2
  <2>4. c[j] < c[j + 1]
    <3>1. c[j] \in Nat /\ c[j + 1] \in Nat /\ c[j + 1] - c[j] > 0
      BY <1>4, <1>8, <2>1, <2>2
    <3> QED
      BY <3>1
  <2> QED
    BY <2>3, <2>4
<1> HIDE DEF c
<1>12. Tiles(items, s, c, from, to)
  BY <1>3, <1>9, <1>10, <1>11 DEF Tiles
<1> QED
  BY <1>12 DEF AreTiles, s, from, to, items

LEMMA ExtendedPeriod ==
  ASSUME NEW p, EndsWithItsMonths(p), DayOf(LocalDate(p.start)) <= 28,
         NEW months \in Nat, months > 0
  PROVE  LET s == DayOf(LocalDate(p.start))
             from == MonthOf(LocalDate(p.start)) + p.months
         IN  /\ from \in Nat /\ from > 0 /\ s \in 1..28
             /\ AddMonths(LocalDate(p.start), p.months) = DayIn(from, s)
             /\ ExtendedLast(p, months) = AddDays(DayIn(from + months, s), -1)
             /\ LocalDate(GetEndTime(p.start, p.months + months)) = ExtendedLast(p, months)
             /\ IsDay(ExtendedLast(p, months))
<1> DEFINE day == LocalDate(p.start)
           s == DayOf(day)
           m == MonthOf(day)
           from == m + p.months
           first == DayIn(from, s)
           begin == FromLocal(first, 0)
<1>1. /\ m \in Nat /\ s \in 1..28 /\ day = DayIn(m, s)
      /\ \A n \in Nat : AddMonths(day, n) = DayIn(m + n, s)
      /\ from \in Nat /\ from > 0
  BY StartParts
<1>2. p.months \in Nat /\ p.months > 0 /\ IsDay(day)
  BY DaysOfPermit DEF EndsWithItsMonths
<1>3. AddMonths(day, p.months) = first
  BY <1>1, <1>2
<1> HIDE DEF day, s, m
<1>4. /\ IsDay(first) /\ MonthOf(first) = from
      /\ \A n \in Nat : AddMonths(first, n) = DayIn(from + n, s)
  <2> HIDE DEF from
  <2> QED
    BY <1>1, DayInMonth
<1>5. LocalDate(begin) = first
  <2> HIDE DEF first, from
  <2> QED
    BY <1>1, <1>4, MidnightIsOnTheDay
<1> HIDE DEF begin, first
<1>6. /\ LocalDate(GetEndTime(begin, months)) = AddDays(AddMonths(first, months), -1)
      /\ IsDay(AddDays(AddMonths(first, months), -1))
  BY <1>4, <1>5, EndDate DEF LastDay
<1>7. LocalDate(GetEndTime(p.start, p.months + months)) = AddDays(AddMonths(day, p.months + months), -1)
  <2>1. p.months + months \in Nat /\ p.months + months > 0
    BY <1>2
  <2> QED
    BY <1>2, <2>1, EndDate DEF LastDay, day
<1>8. AddMonths(first, months) = DayIn(from + months, s)
  BY <1>4
<1>9. AddMonths(day, p.months + months) = DayIn(from + months, s)
  <2>1. p.months + months \in Nat /\ m + (p.months + months) = from + months
    BY <1>1, <1>2
  <2> QED
    BY <1>1, <2>1
<1>10. ExtendedLast(p, months) = LocalDate(GetEndTime(begin, months))
  BY <1>3 DEF ExtendedLast, day, begin
<1> QED
  BY <1>1, <1>3, <1>6, <1>7, <1>8, <1>9, <1>10 DEF day, s, m, from, first

\* The last of the products of a period lasts as long as the period, if the last of all
\* does.
LEMMA LastSelected ==
  ASSUME NEW zone \in Zones, Regular(Products[zone]), NEW first \in Nat, NEW last,
         IsDay(last), first <= last, last <= Products[zone][Len(Products[zone])].last,
         Len(ForDateRange(zone, first, last)) > 0
  PROVE  last <= ForDateRange(zone, first, last)[Len(ForDateRange(zone, first, last))].last
<1> DEFINE products == Products[zone]
           n == Len(products)
           list == ForDateRange(zone, first, last)
           S == SelectedProducts(zone, first, last)
           hi == Nth(S, Cardinality(S))
<1>1. /\ products \in Seq(Product) /\ n \in Nat /\ S \in SUBSET (1..n)
      /\ Cardinality(S) \in Nat /\ Len(list) = Cardinality(S)
      /\ \A k \in 1..Cardinality(S) : Nth(S, k) \in S /\ list[k] = products[Nth(S, k)]
  BY ProductsSelected
<1>2. Cardinality(S) > 0 /\ Cardinality(S) \in 1..Cardinality(S)
  BY <1>1
<1>3. hi \in S /\ hi \in 1..n /\ list[Len(list)] = products[hi]
  BY <1>1, <1>2
<1>4. \A i \in 1..n : products[i].first \in Nat /\ products[i].last \in Nat
  BY <1>1, ProductFields
<1>5. \A j \in S : j <= hi
  <2> HIDE DEF S, n, products
  <2> QED
    BY <1>1, <1>2, NthEnds
<1>6. \A i \in 1..n : i \in S <=> (products[i].first <= last /\ products[i].last >= first)
  BY DEF SelectedProducts
<1>7. \A i \in 1..(n - 1) : /\ products[i].first < products[i + 1].first
                            /\ products[i + 1].first = AddDays(products[i].last, 1)
                            /\ DayOf(products[i + 1].first) = 1
  BY DEF Regular
<1>8. last \in Nat /\ last <= products[n].last
  BY DEF IsDay
<1>9. last <= products[hi].last
  <2> HIDE DEF S, n, products, list, hi
  <2>1. CASE hi = n
    BY <1>8, <2>1
  <2>2. CASE hi # n
    <3>1. hi \in 1..(n - 1) /\ hi + 1 \in 1..n
      BY <1>1, <1>3, <2>2
    <3>2. hi + 1 \notin S
      <4>1. ~(hi + 1 <= hi)
        BY <1>3
      <4> QED
        BY <1>5, <4>1
    <3> DEFINE d == products[hi].last
               next == products[hi + 1]
    <3>3. /\ d \in Nat /\ next.first \in Nat /\ next.last \in Nat
          /\ DayOf(d) = DaysIn(MonthOf(d)) /\ next.first = 31 * (MonthOf(d) + 1)
      <4>1. d \in Nat /\ DayOf(AddDays(d, 1)) = 1 /\ next.first = AddDays(d, 1)
            /\ next.first \in Nat /\ next.last \in Nat
        BY <1>3, <1>4, <1>7, <3>1
      <4> HIDE DEF d, next
      <4> QED
        BY <4>1, LastOfMonth
    <3>4. next.first > last
      <4>1. CASE hi + 1 = n
        <5>1. next.last >= last
          BY <1>8, <4>1
        <5>2. next.last >= first
          BY <1>8, <3>3, <5>1
        <5> QED
          BY <1>6, <1>8, <3>1, <3>2, <3>3, <5>2
      <4>2. CASE hi + 1 # n
        <5>1. hi + 1 \in 1..(n - 1)
          BY <1>1, <3>1, <4>2
        <5> DEFINE after == products[hi + 1 + 1]
                   e == next.last
        <5>2. e \in Nat /\ DayOf(AddDays(e, 1)) = 1 /\ after.first = AddDays(e, 1)
              /\ next.first < after.first
          BY <1>7, <3>3, <5>1
        <5> HIDE DEF after, e
        <5>3. after.first = 31 * (MonthOf(e) + 1)
          BY <5>2, LastOfMonth
        <5>4. e >= next.first
          <6>1. MonthOf(e) \in Nat /\ MonthOf(d) \in Nat /\ e >= 31 * MonthOf(e)
            BY <3>3, <5>2, MonthBegins
          <6>2. MonthOf(d) + 1 <= MonthOf(e)
            BY <3>3, <5>2, <5>3, <6>1
          <6> QED
            BY <3>3, <5>2, <6>1, <6>2
        <5>5. d >= first
          BY <1>3, <1>6
        <5>6. next.first > d
          <6>1. d < 31 * (MonthOf(d) + 1)
            BY <3>3 DEF MonthOf
          <6> QED
            BY <3>3, <6>1
        <5>7. next.last >= first
          BY <3>3, <5>2, <5>4, <5>5, <5>6 DEF e
        <5> QED
          BY <1>6, <1>8, <3>1, <3>2, <3>3, <5>7
      <4> QED
        BY <4>1, <4>2
    <3> HIDE DEF d, next
    <3>5. MonthOf(last) <= MonthOf(d) /\ MonthOf(last) \in Nat /\ MonthOf(d) \in Nat
      BY <1>8, <3>3, <3>4 DEF MonthOf
    <3>6. /\ last = 31 * MonthOf(last) + DayOf(last) - 1 /\ DayOf(last) \in 1..31
          /\ d = 31 * MonthOf(d) + DayOf(d) - 1 /\ DayOf(d) \in 1..31
          /\ DayOf(last) <= DaysIn(MonthOf(last))
      BY <1>8, <3>3, EveryDateHasParts DEF IsDay, IsDate
    <3>7. last <= d
      <4> DEFINE x == MonthOf(last)
                 y == MonthOf(d)
                 u == DayOf(last)
                 v == DayOf(d)
      <4>1. /\ x \in Nat /\ y \in Nat /\ x <= y /\ u \in 1..31 /\ v \in 1..31
            /\ last = 31 * x + u - 1 /\ d = 31 * y + v - 1
        BY <3>5, <3>6
      <4>2. x = y => u <= v
        BY <3>3, <3>6
      <4> HIDE DEF x, y, u, v
      <4> QED
        BY <4>1, <4>2
    <3> QED
      BY <3>7 DEF d
  <2> QED
    BY <2>1, <2>2
<1> QED
  BY <1>3, <1>9

LEMMA MonthStarts ==
  ASSUME NEW p, EndsWithItsMonths(p), DayOf(LocalDate(p.start)) <= 28,
         NEW months \in Nat, NEW start, BeginMonths(p, months, start), NEW k \in 0..months
  PROVE  start[k] = DayIn(MonthOf(LocalDate(p.start)) + p.months + k, DayOf(LocalDate(p.start)))
<1> DEFINE d == start[k]
           s == DayOf(LocalDate(p.start))
           month == MonthOf(LocalDate(p.start)) + p.months + k
<1>1. d \in Nat /\ MonthOf(d) = month /\ DayOf(d) = s
  BY DEF BeginMonths, IsDay
<1> HIDE DEF d, s, month
<1>2. IsDate(d, month, s)
  BY <1>1, EveryDateHasParts
<1> QED
  BY <1>2 DEF IsDate, DayIn, d, s, month

\* With a price known until the new end, an extension is charged for every month.
LEMMA EveryMonthInLoop ==
  ASSUME NEW p, EndsWithItsMonths(p), DayOf(LocalDate(p.start)) <= 28,
         Regular(Products[p.zone]), NEW months \in Nat, months > 0,
         ExtendedLast(p, months) <= Products[p.zone][Len(Products[p.zone])].last,
         NEW start, BeginMonths(p, months, start), NEW index,
         GoThrough(ExtendedProducts(p, months), months, start, index),
         Cardinality(InLoop(p, months, start, index)) \in 1..months
  PROVE  Cardinality(InLoop(p, months, start, index)) = months
<1> DEFINE s == DayOf(LocalDate(p.start))
           from == MonthOf(LocalDate(p.start)) + p.months
           last == ExtendedLast(p, months)
           list == ExtendedProducts(p, months)
           L == Len(list)
           loop == InLoop(p, months, start, index)
<1>1. /\ from \in Nat /\ s \in 1..28 /\ from > 0
      /\ AddMonths(LocalDate(p.start), p.months) = DayIn(from, s)
      /\ last = AddDays(DayIn(from + months, s), -1)
      /\ IsDay(last) /\ last \in Nat
  BY ExtendedPeriod DEF IsDay
<1>2. \A k \in 0..months : start[k] = DayIn(from + k, s)
  BY MonthStarts
<1>3. loop = {k \in 0..(months - 1) : \A j \in 0..k : start[j] < last /\ index[j] <= L}
  BY DEF InLoop
<1>4. list = ForDateRange(p.zone, DayIn(from, s), last)
  BY <1>1 DEF ExtendedProducts
<1>5. /\ index[0] = 1 /\ \A k \in 0..months : index[k] \in Nat
      /\ \A k \in 1..months : index[k] = NextProduct(list, index[k - 1], start[k])
  BY DEF GoThrough
<1>6. p.zone \in Zones
  BY DEF EndsWithItsMonths
<1>7. list \in Seq(Product) /\ L \in Nat
  BY <1>4, <1>6, ProductsSelected
<1> HIDE DEF s, from, last, list, L, loop
<1>8. L > 0
  <2>1. loop # {}
    <3>1. SUFFICES ASSUME loop = {} PROVE FALSE
      OBVIOUS
    <3>2. Cardinality(loop) = 0
      BY <3>1, FS_EmptySet
    <3> QED
      BY <3>2 DEF loop
  <2>2. PICK k \in loop : TRUE
    BY <2>1
  <2>3. 0 \in 0..k
    BY <1>3, <2>2
  <2>4. index[0] <= L
    BY <1>3, <2>2, <2>3
  <2> QED
    BY <1>5, <1>7, <2>4
<1>9. \A k \in 0..(months - 1) : DayIn(from + k, s) < last
  <2>1. from + months \in Nat /\ from + months > 0
    BY <1>1
  <2> DEFINE to == from + months
  <2>2. DayIn(to - 1, s) < last
    <3>1. DayIn(to - 1, s) < AddDays(DayIn(to, s), -1)
      <4> HIDE DEF to
      <4> QED
        BY <1>1, <2>1, DayBeforeEnds DEF to
    <3> QED
      BY <1>1, <3>1
  <2>3. ASSUME NEW k \in 0..(months - 1) PROVE DayIn(from + k, s) < last
    <3> DEFINE month == from + k
    <3>1. month \in Nat /\ month <= to - 1 /\ to - 1 \in Nat
      BY <1>1, <2>1
    <3> HIDE DEF to, month
    <3> DEFINE before == to - 1
    <3>4. before \in Nat /\ month <= before /\ DayIn(before, s) < last
      BY <2>2, <3>1
    <3> HIDE DEF before
    <3>2. /\ DayIn(month, s) <= DayIn(before, s)
          /\ DayIn(month, s) \in Int /\ DayIn(before, s) \in Int
      BY <1>1, <3>1, <3>4 DEF DayIn
    <3>3. DayIn(month, s) < last
      BY <1>1, <3>2, <3>4
    <3> QED
      BY <3>3 DEF month
  <2> QED
    BY <2>3
<1>10. last <= list[L].last
  <2>1. DayIn(from, s) \in Nat /\ DayIn(from, s) <= last
    <3>1. 0 \in 0..(months - 1) /\ from + 0 = from
      BY <1>1
    <3>2. DayIn(from, s) < last
      BY <1>9, <3>1
    <3>3. DayIn(from, s) \in Nat
      BY <1>1 DEF DayIn
    <3> QED
      BY <1>1, <3>2, <3>3
  <2> QED
    BY <1>1, <1>4, <1>6, <1>8, <2>1, LastSelected DEF L, last
<1>11. list[L].last \in Nat
  <2>1. L \in 1..Len(list)
    BY <1>7, <1>8 DEF L
  <2> QED
    BY <1>7, <2>1, ProductFields
<1> DEFINE B == {k \in 0..(months - 1) : ~(index[k] <= L)}
<1>12. B = {}
  <2>1. SUFFICES ASSUME B # {} PROVE FALSE
    OBVIOUS
  <2>2. months - 1 \in Nat /\ B \in SUBSET (0..(months - 1)) /\ 0 \notin B
    BY <1>5, <1>7, <1>8
  <2>3. PICK k \in 1..(months - 1) : k \in B /\ k - 1 \in 0..(months - 1) /\ k - 1 \notin B
    <3> DEFINE n == months - 1
    <3> HIDE DEF B, n
    <3> QED
      BY <2>1, <2>2, FirstFailure DEF n
  <2>4. index[k - 1] \in Nat /\ index[k - 1] <= L
    <3>1. k - 1 \in 0..months
      BY <2>3
    <3> QED
      BY <1>5, <2>3, <3>1
  <2>5. index[k] = NextProduct(list, index[k - 1], start[k]) /\ ~(index[k] <= L)
    <3>1. k \in 1..months
      BY <2>3
    <3> QED
      BY <1>5, <2>3, <3>1
  <2>6. start[k] < last
    <3>1. k \in 0..(months - 1) /\ k \in 0..months
      BY <2>3
    <3> QED
      BY <1>2, <1>9, <3>1
  <2>7. start[k] \in Int
    <3>1. k \in 0..months /\ from + k \in Nat
      BY <1>1, <2>3
    <3> DEFINE month == from + k
    <3>2. start[k] = DayIn(month, s) /\ month \in Nat
      BY <1>2, <3>1
    <3> HIDE DEF month
    <3>3. DayIn(month, s) \in Nat
      BY <1>1, <3>2, DayInMonth
    <3> QED
      BY <3>2, <3>3
  <2> DEFINE i == index[k - 1]
             d == start[k]
  <2>8. i \in Nat /\ i <= L /\ ~(NextProduct(list, i, d) <= L)
    BY <2>4, <2>5
  <2> HIDE DEF i
  <2>9. d > list[i].last
    BY <2>8 DEF NextProduct
  <2>10. NextProduct(list, i, d) = i + 1
    BY <2>8, <2>9 DEF NextProduct, L
  <2>11. i = L
    BY <1>7, <2>8, <2>10
  <2> QED
    BY <1>1, <1>10, <1>11, <2>6, <2>7, <2>9, <2>11
<1>13. loop = 0..(months - 1)
  <2>1. ASSUME NEW k \in 0..(months - 1), NEW j \in 0..k
        PROVE  start[j] < last /\ index[j] <= L
    <3>1. j \in 0..(months - 1) /\ j \in 0..months
      OBVIOUS
    <3> QED
      BY <1>2, <1>9, <1>12, <3>1
  <2> QED
    BY <1>3, <2>1
<1>14. Cardinality(0..(months - 1)) = months
  <2>1. 0 \in Int /\ months - 1 \in Int /\ months - 1 - 0 + 1 = months /\ ~(0 > months - 1)
    OBVIOUS
  <2> QED
    BY <2>1, FS_Interval
<1> QED
  BY <1>13, <1>14 DEF loop

LEMMA ExtensionTiles ==
  ASSUME NEW p, EndsWithItsMonths(p), DayOf(LocalDate(p.start)) <= 28,
         Regular(Products[p.zone]), NEW months \in Int, ExtensionItems(p, months) # <<>>,
         LocalDate(GetEndTime(p.start, p.months + months))
            <= Products[p.zone][Len(Products[p.zone])].last
  PROVE  AreTiles(ExtensionItems(p, months), DayOf(LocalDate(p.start)),
                  MonthOf(LocalDate(p.start)) + p.months,
                  MonthOf(LocalDate(p.start)) + (p.months + months))
<1> DEFINE s == DayOf(LocalDate(p.start))
           from == MonthOf(LocalDate(p.start)) + p.months
           to == MonthOf(LocalDate(p.start)) + (p.months + months)
           items == ExtensionItems(p, months)
           n == Len(items)
<1>1. months \in Nat /\ months > 0
  BY ExtensionParts
<1>2. PICK start, index, e : ExtensionBounds(p, months, start, index, e)
  BY ExtensionParts DEF HasExtensionBounds
<1>3. /\ n \in Nat /\ n > 0 /\ BeginMonths(p, months, start)
      /\ GoThrough(ExtendedProducts(p, months), months, start, index)
      /\ Cardinality(InLoop(p, months, start, index)) \in 1..months
      /\ e \in [1..(n + 1) -> 0..months]
      /\ e[1] = 0 /\ e[n + 1] = Cardinality(InLoop(p, months, start, index))
      /\ \A i \in 1..n : /\ e[i] < e[i + 1]
                         /\ LocalDate(items[i].start) = start[e[i]]
                         /\ LocalDate(items[i].end) = AddDays(start[e[i + 1]], -1)
                         /\ items[i].quantity = e[i + 1] - e[i]
                         /\ items[i].unit = items[i].payment
                         /\ items[i].refunded = FALSE
  BY <1>2 DEF ExtensionBounds
<1>4. /\ from \in Nat /\ s \in 1..28 /\ from > 0
      /\ LocalDate(GetEndTime(p.start, p.months + months)) = ExtendedLast(p, months)
  BY <1>1, ExtendedPeriod
<1>5. e[n + 1] = months
  BY <1>1, <1>3, <1>4, EveryMonthInLoop
<1>6. \A k \in 0..months : start[k] = DayIn(from + k, s)
  BY <1>1, <1>3, MonthStarts
<1>7. to = from + months
  <2>1. MonthOf(LocalDate(p.start)) \in Nat /\ p.months \in Nat
    BY StartParts DEF EndsWithItsMonths
  <2> QED
    BY <1>1, <2>1
<1> DEFINE c == [j \in 1..(n + 1) |-> from + e[j]]
<1> HIDE DEF s, from, to, items, n
<1>8. \A j \in 1..(n + 1) : e[j] \in 0..months
  BY <1>3
<1>9. c \in [1..(n + 1) -> Nat]
  <2>1. \A j \in 1..(n + 1) : from + e[j] \in Nat
    BY <1>4, <1>8
  <2> QED
    BY <2>1
<1>10. c[1] = from /\ c[n + 1] = to
  <2>1. 1 \in 1..(n + 1) /\ n + 1 \in 1..(n + 1)
    BY <1>3
  <2> QED
    BY <1>3, <1>4, <1>5, <1>7, <2>1
<1>11. ASSUME NEW j \in 1..n
       PROVE  /\ c[j] < c[j + 1]
              /\ LocalDate(items[j].start) = DayIn(c[j], s)
              /\ EndsMonth(LocalDate(items[j].end), c[j + 1], s)
              /\ items[j].quantity = c[j + 1] - c[j]
              /\ items[j].unit = items[j].payment
              /\ items[j].refunded = FALSE
  <2> DEFINE a == e[j]
             b == e[j + 1]
  <2>1. a \in 0..months /\ b \in 0..months /\ c[j] = from + a /\ c[j + 1] = from + b
    <3>1. j \in 1..(n + 1) /\ j + 1 \in 1..(n + 1)
      BY <1>3
    <3> QED
      BY <1>8, <3>1
  <2>2. /\ a < b
        /\ LocalDate(items[j].start) = start[a]
        /\ LocalDate(items[j].end) = AddDays(start[b], -1)
        /\ items[j].quantity = b - a
        /\ items[j].unit = items[j].payment
        /\ items[j].refunded = FALSE
    BY <1>3
  <2> HIDE DEF a, b, c
  <2>3. start[a] = DayIn(from + a, s) /\ start[b] = DayIn(from + b, s)
    BY <1>6, <2>1
  <2>4. EndsMonth(AddDays(DayIn(from + b, s), -1), from + b, s)
    <3>1. from + b \in Nat /\ from + b > 0
      BY <1>4, <2>1
    <3> QED
      BY <1>4, <3>1, DayBeforeEnds
  <2>5. from + a < from + b /\ (from + b) - (from + a) = b - a
    BY <1>4, <2>1, <2>2
  <2> QED
    BY <2>1, <2>2, <2>3, <2>4, <2>5
<1> HIDE DEF c
<1>12. Tiles(items, s, c, from, to)
  BY <1>3, <1>9, <1>10, <1>11 DEF Tiles, n
<1> QED
  BY <1>12 DEF AreTiles, s, from, to, items

(***************************************************************************)
(* Orders for months, one after the other                                  *)
(***************************************************************************)
\* The orders are for the months from one to another, each from b[i] to b[i + 1].
OrderTiles(list, day, b, from, to) ==
    /\ Len(list) \in Nat
    /\ b \in [1..(Len(list) + 1) -> Nat]
    /\ b[1] = from /\ b[Len(list) + 1] = to
    /\ \A i \in 1..Len(list) :
        /\ list[i].status = "CONFIRMED"
        /\ b[i] <= b[i + 1]
        /\ AreTiles(list[i].items, day, b[i], b[i + 1])

AreOrderTiles(list, day, from, to) == \E b : OrderTiles(list, day, b, from, to)

\* A sequence of differences adds up to the difference of the ends.
LEMMA Differences ==
  ASSUME NEW n \in Nat, NEW c \in [1..(n + 1) -> Int], NEW q, q = [i \in 1..n |-> q[i]],
         \A i \in 1..n : q[i] = c[i + 1] - c[i]
  PROVE  Total(q) = c[n + 1] - c[1] /\ q \in Seq(Int) /\ Len(q) = n
<1>1. \A i \in 1..n : q[i] \in Int
  <2>1. \A i \in 1..n : i \in 1..(n + 1) /\ i + 1 \in 1..(n + 1)
    OBVIOUS
  <2>2. \A i \in 1..n : c[i] \in Int /\ c[i + 1] \in Int
    BY <2>1
  <2> QED
    BY <2>2
<1>2. q \in Seq(Int) /\ Len(q) = n
  BY <1>1, SMTT(30)
<1> QED
  BY <1>2, Telescope

LEMMA MonthsOfTiles ==
  ASSUME NEW order, NEW day, NEW from, NEW to, AreTiles(order.items, day, from, to)
  PROVE  MonthsBought(order) = to - from
<1> DEFINE items == order.items
           n == Len(items)
           value(x) == IF x.unit = x.payment THEN x.quantity ELSE 0
           q == [i \in 1..n |-> value(items[i])]
<1>1. PICK c : Tiles(items, day, c, from, to)
  BY DEF AreTiles
<1>2. /\ n \in Nat /\ c \in [1..(n + 1) -> Nat] /\ c[1] = from /\ c[n + 1] = to
      /\ \A i \in 1..n : items[i].unit = items[i].payment /\ items[i].quantity = c[i + 1] - c[i]
  BY <1>1 DEF Tiles
<1>3. MonthsBought(order) = Total(q)
  BY DEF MonthsBought, SumOver
<1>4. \A i \in 1..n : q[i] = c[i + 1] - c[i]
  BY <1>2
<1>5. q = [i \in 1..n |-> q[i]]
  OBVIOUS
<1>6. c \in [1..(n + 1) -> Int]
  BY <1>2
<1> HIDE DEF q, n
<1>7. Total(q) = c[n + 1] - c[1]
  BY <1>2, <1>4, <1>5, <1>6, Differences, ZenonT(40)
<1> QED
  BY <1>2, <1>3, <1>7

AllMonthsBought(list) == SumOver(list, MonthsBought)

LEMMA MonthsOfOrders ==
  ASSUME NEW list, NEW day, NEW from, NEW to, AreOrderTiles(list, day, from, to)
  PROVE  AllMonthsBought(list) = to - from
<1> DEFINE n == Len(list)
           q == [i \in 1..n |-> MonthsBought(list[i])]
<1>1. PICK b : OrderTiles(list, day, b, from, to)
  BY DEF AreOrderTiles
<1>2. /\ n \in Nat /\ b \in [1..(n + 1) -> Nat] /\ b[1] = from /\ b[n + 1] = to
      /\ \A i \in 1..n : AreTiles(list[i].items, day, b[i], b[i + 1])
  BY <1>1 DEF OrderTiles
<1>3. AllMonthsBought(list) = Total(q)
  BY DEF AllMonthsBought, SumOver
<1>4. \A i \in 1..n : q[i] = b[i + 1] - b[i]
  <2>1. \A i \in 1..n : MonthsBought(list[i]) = b[i + 1] - b[i]
    BY <1>2, MonthsOfTiles
  <2> QED
    BY <2>1
<1>5. q = [i \in 1..n |-> q[i]]
  OBVIOUS
<1>6. b \in [1..(n + 1) -> Int]
  BY <1>2
<1> HIDE DEF q, n
<1>7. Total(q) = b[n + 1] - b[1]
  BY <1>2, <1>4, <1>5, <1>6, Differences
<1> QED
  BY <1>2, <1>3, <1>7

(***************************************************************************)
(* What is left of orders                                                  *)
(***************************************************************************)
LEMMA GreatestIs ==
  ASSUME NEW a \in Nat, NEW b \in Nat
  PROVE  /\ Greatest(a, b) \in Nat
         /\ a <= b => Greatest(a, b) = b
         /\ b <= a => Greatest(a, b) = a
BY DEF Greatest

LEMMA DayInIncreases ==
  ASSUME NEW day \in 1..28, NEW a \in Nat, NEW b \in Nat
  PROVE  /\ DayIn(a, day) \in Nat
         /\ a < b => DayIn(a, day) < DayIn(b, day)
         /\ Greatest(DayIn(a, day), DayIn(b, day)) = DayIn(Greatest(a, b), day)
BY DEF DayIn, Greatest

\* What is left of an order is for so many months.
IsLeft(left, months) ==
    /\ Len(left) \in Nat /\ left = [i \in 1..Len(left) |-> left[i]]
    /\ \A i \in 1..Len(left) : left[i].quantity \in Int
    /\ Total(Quantities(left)) = months

LEMMA MonthsLeftOfTiles ==
  ASSUME NEW order, order.status = "CONFIRMED", NEW day \in 1..28, NEW from \in Nat,
         NEW to \in Nat, from <= to, AreTiles(order.items, day, from, to), NEW month \in Nat
  PROVE  IsLeft(ItemsLeft(order, DayIn(month, day)), Greatest(month, to) - Greatest(month, from))
<1> DEFINE items == order.items
           n == Len(items)
           u == DayIn(month, day)
           S == {i \in 1..n : LocalDate(items[i].end) >= u /\ ~items[i].refunded}
           left == ItemsLeft(order, u)
           max(a) == Greatest(month, a)
<1>1. PICK c : Tiles(items, day, c, from, to)
  BY DEF AreTiles
<1>2. /\ n \in Nat /\ c \in [1..(n + 1) -> Nat] /\ c[1] = from /\ c[n + 1] = to
      /\ \A i \in 1..n : /\ c[i] < c[i + 1]
                         /\ LocalDate(items[i].start) = DayIn(c[i], day)
                         /\ EndsMonth(LocalDate(items[i].end), c[i + 1], day)
                         /\ items[i].refunded = FALSE
  BY <1>1 DEF Tiles
<1>3. left = [k \in 1..Cardinality(S) |->
                [item |-> items[Nth(S, k)],
                 first |-> Greatest(u, LocalDate(items[Nth(S, k)].start)),
                 last |-> LocalDate(items[Nth(S, k)].end),
                 quantity |-> MonthsBetween(Greatest(u, LocalDate(items[Nth(S, k)].start)),
                                            LocalDate(items[Nth(S, k)].end))]]
  <2> DEFINE sel == [k \in 1..Cardinality(S) |-> items[Nth(S, k)]]
  <2>1. left = [k \in 1..Len(sel) |->
                [item |-> sel[k], first |-> Greatest(u, LocalDate(sel[k].start)),
                 last |-> LocalDate(sel[k].end),
                 quantity |-> MonthsBetween(Greatest(u, LocalDate(sel[k].start)),
                                            LocalDate(sel[k].end))]]
    BY DEF ItemsLeft, Select
  <2>2. Cardinality(S) \in Nat
    <3>1. S \in SUBSET (1..n)
      OBVIOUS
    <3> HIDE DEF S, n
    <3>2. Cardinality(S) \in 0..n
      BY <1>2, <3>1, UpToIsFinite
    <3> QED
      BY <1>2, <3>2
  <2> HIDE DEF S, u, left, items
  <2>3. Len(sel) = Cardinality(S) /\ \A k \in 1..Cardinality(S) : sel[k] = items[Nth(S, k)]
    BY <2>2
  <2> HIDE DEF sel
  <2> QED
    BY <2>1, <2>3
<1>4. \A i \in 1..(n + 1) : c[i] \in Nat
  BY <1>2
<1>5. \A i \in 1..n : i \in 1..(n + 1) /\ i + 1 \in 1..(n + 1) /\ c[i] \in Nat /\ c[i + 1] \in Nat
  BY <1>2, <1>4
<1>6. S = {i \in 1..n : c[i + 1] > month}
  <2>1. ASSUME NEW i \in 1..n
        PROVE  (LocalDate(items[i].end) >= u /\ ~items[i].refunded) <=> c[i + 1] > month
    <3> DEFINE d == LocalDate(items[i].end)
               m == c[i + 1]
    <3>1. /\ m \in Nat /\ c[i] \in Nat /\ c[i] < m /\ d \in Nat
          /\ DayIn(m - 1, day) <= d /\ d < DayIn(m, day) /\ ~items[i].refunded
      BY <1>2, <1>5 DEF EndsMonth
    <3> HIDE DEF d, m
    <3>2. d >= DayIn(month, day) <=> m > month
      BY <3>1 DEF DayIn
    <3> QED
      BY <3>1, <3>2 DEF d, m, u
  <2> QED
    BY <2>1
<1> HIDE DEF items, n, S, left
<1>7. \A i, k \in 1..(n + 1) : i <= k => c[i] <= c[k]
  <2> DEFINE l == n + 1
  <2>1. l \in Nat /\ c \in [1..l -> Int] /\ l - 1 = n
    BY <1>2
  <2> HIDE DEF l
  <2>2. \A i \in 1..(l - 1) : c[i] <= c[i + 1]
    BY <1>2, <1>5, <2>1
  <2>3. \A i, k \in 1..l : i <= k => c[i] <= c[k]
    BY <2>1, <2>2, NeverDecreases
  <2> QED
    BY <2>3 DEF l
<1>8. \E lo \in 1..(n + 1) : S = lo..n /\ (lo = 1 \/ c[lo] <= month)
  <2>1. CASE S = {}
    <3>1. n + 1 \in 1..(n + 1) /\ (n + 1)..n = {}
      BY <1>2
    <3>2. n + 1 = 1 \/ c[n + 1] <= month
      <4>1. CASE n = 0
        BY <4>1
      <4>2. CASE n > 0
        <5>1. n \in 1..n /\ n \notin S
          BY <1>2, <2>1, <4>2
        <5>2. ~(c[n + 1] > month) /\ c[n + 1] \in Nat
          BY <1>5, <1>6, <5>1
        <5> QED
          BY <5>2
      <4> QED
        BY <1>2, <4>1, <4>2
    <3> QED
      BY <2>1, <3>1, <3>2
  <2>2. CASE S # {}
    <3>1. S \in SUBSET Nat
      BY <1>6
    <3>2. PICK lo \in S : \A y \in S : lo <= y
      BY <2>2, <3>1, LeastNumber
    <3>3. lo \in 1..n /\ c[lo + 1] > month
      BY <1>6, <3>2
    <3>4. S = lo..n
      <4>1. ASSUME NEW i \in lo..n PROVE i \in S
        <5>1. i \in 1..n /\ lo + 1 \in 1..(n + 1) /\ i + 1 \in 1..(n + 1) /\ lo + 1 <= i + 1
          BY <1>2, <3>3
        <5>2. c[lo + 1] <= c[i + 1] /\ c[lo + 1] \in Nat /\ c[i + 1] \in Nat
          BY <1>4, <1>7, <5>1
        <5> QED
          BY <1>6, <3>3, <5>1, <5>2
      <4>2. ASSUME NEW i \in S PROVE i \in lo..n
        BY <1>2, <1>6, <3>2, <3>3
      <4> QED
        BY <4>1, <4>2
    <3>5. lo = 1 \/ c[lo] <= month
      <4> SUFFICES ASSUME lo # 1 PROVE c[lo] <= month
        OBVIOUS
      <4>1. lo - 1 \in 1..n /\ lo - 1 + 1 = lo /\ ~(lo <= lo - 1)
        BY <1>2, <3>3
      <4>2. lo - 1 \notin S
        BY <3>2, <4>1
      <4>3. ~(c[lo] > month) /\ c[lo] \in Nat
        BY <1>5, <1>6, <4>1, <4>2
      <4> QED
        BY <4>3
    <3>6. lo \in 1..(n + 1)
      BY <1>2, <3>3
    <3> QED
      BY <3>4, <3>5, <3>6
  <2> QED
    BY <2>1, <2>2
<1>9. PICK lo \in 1..(n + 1) : S = lo..n /\ (lo = 1 \/ c[lo] <= month)
  BY <1>8
<1> DEFINE size == n - lo + 1
<1>10. size \in Nat /\ Cardinality(S) = size /\ \A k \in 1..size : Nth(S, k) = lo + k - 1
  <2>1. lo \in Nat \ {0} /\ lo <= n + 1
    BY <1>2
  <2> QED
    BY <1>2, <1>9, <2>1, NthOfInterval
<1> DEFINE d == [k \in 1..(size + 1) |-> max(c[lo + k - 1])]
<1>11. \A k \in 1..(size + 1) : lo + k - 1 \in 1..(n + 1) /\ max(c[lo + k - 1]) \in Nat
  <2>1. \A k \in 1..(size + 1) : lo + k - 1 \in 1..(n + 1)
    BY <1>2
  <2>2. \A i \in 1..(n + 1) : max(c[i]) \in Nat
    BY <1>4, GreatestIs
  <2> QED
    BY <2>1, <2>2
<1>12. Len(left) = size /\ left = [k \in 1..size |-> left[k]]
       /\ \A k \in 1..size : left[k].quantity =
            MonthsBetween(Greatest(u, LocalDate(items[lo + k - 1].start)),
                          LocalDate(items[lo + k - 1].end))
  <2> HIDE DEF size
  <2>1. /\ Len(left) = size /\ left = [k \in 1..size |-> left[k]]
        /\ \A k \in 1..size : left[k].quantity =
             MonthsBetween(Greatest(u, LocalDate(items[Nth(S, k)].start)),
                           LocalDate(items[Nth(S, k)].end))
    BY <1>3, <1>10
  <2> QED
    BY <1>10, <2>1
<1>13. ASSUME NEW k \in 1..size
       PROVE  left[k].quantity = max(c[lo + k]) - max(c[lo + k - 1])
  <2> DEFINE i == lo + k - 1
  <2>1. i \in 1..n /\ i + 1 = lo + k /\ i \in S
    BY <1>2, <1>9
  <2> HIDE DEF i
  <2> DEFINE a == c[i]
             b == c[i + 1]
  <2>2. /\ a \in Nat /\ b \in Nat /\ a < b /\ month < b
        /\ LocalDate(items[i].start) = DayIn(a, day)
        /\ EndsMonth(LocalDate(items[i].end), b, day)
    BY <1>2, <1>5, <1>6, <2>1
  <2>3. left[k].quantity = MonthsBetween(Greatest(u, LocalDate(items[i].start)),
                                         LocalDate(items[i].end))
    BY <1>12 DEF i
  <2> HIDE DEF a, b
  <2>4. Greatest(u, LocalDate(items[i].start)) = DayIn(max(a), day)
    <3>1. Greatest(DayIn(month, day), DayIn(a, day)) = DayIn(Greatest(month, a), day)
      BY <2>2, DayInIncreases
    <3> QED
      BY <2>2, <3>1
  <2>5. max(a) \in Nat /\ max(a) <= b /\ b > 0 /\ max(b) = b
    BY <2>2 DEF Greatest
  <2>6. MonthsBetween(DayIn(max(a), day), LocalDate(items[i].end)) = b - max(a)
    <3> HIDE DEF max
    <3> QED
      BY <2>2, <2>5, MonthsOfSpan
  <2>7. left[k].quantity = max(b) - max(a)
    BY <2>3, <2>4, <2>5, <2>6
  <2> QED
    BY <2>1, <2>7 DEF i, a, b
<1> HIDE DEF max, left, u, size
<1>14. \A k \in 1..size : left[k].quantity = d[k + 1] - d[k]
  <2>1. ASSUME NEW k \in 1..size PROVE left[k].quantity = d[k + 1] - d[k]
    <3>1. k \in 1..(size + 1) /\ k + 1 \in 1..(size + 1) /\ lo + (k + 1) - 1 = lo + k
      BY <1>10
    <3>2. d[k] = max(c[lo + k - 1]) /\ d[k + 1] = max(c[lo + k])
      BY <3>1
    <3> QED
      BY <1>13, <3>2
  <2> QED
    BY <2>1
<1>15. d \in [1..(size + 1) -> Int] /\ d[1] = max(c[lo]) /\ d[size + 1] = max(c[n + 1])
  <2>1. \A k \in 1..(size + 1) : max(c[lo + k - 1]) \in Int
    BY <1>11
  <2>2. 1 \in 1..(size + 1) /\ size + 1 \in 1..(size + 1) /\ lo + 1 - 1 = lo
        /\ lo + (size + 1) - 1 = n + 1
    BY <1>2, <1>10 DEF size
  <2>3. d \in [1..(size + 1) -> Int]
    BY <2>1
  <2>4. d[1] = max(c[lo + 1 - 1]) /\ d[size + 1] = max(c[lo + (size + 1) - 1])
    BY <2>2
  <2> HIDE DEF d
  <2> QED
    BY <2>2, <2>3, <2>4
<1> HIDE DEF d
<1>16. Total(Quantities(left)) = d[size + 1] - d[1]
       /\ \A k \in 1..size : left[k].quantity \in Int
  <2> DEFINE q == Quantities(left)
  <2>1. q = [k \in 1..size |-> left[k].quantity]
    BY <1>12 DEF Quantities
  <2> HIDE DEF q
  <2>2. q = [k \in 1..size |-> q[k]] /\ \A k \in 1..size : q[k] = left[k].quantity
    BY <2>1
  <2>3. Total(q) = d[size + 1] - d[1] /\ q \in Seq(Int) /\ Len(q) = size
    <3>1. \A k \in 1..size : q[k] = d[k + 1] - d[k]
      BY <1>14, <2>2
    <3> QED
      BY <1>10, <1>15, <2>2, <3>1, Differences
  <2>4. \A k \in 1..size : q[k] \in Int
    BY <2>3
  <2> QED
    BY <2>2, <2>3, <2>4 DEF q
<1>17. max(c[lo]) = max(from)
  <2>1. CASE lo = 1
    BY <1>2, <2>1
  <2>2. CASE lo # 1
    <3>1. c[lo] <= month /\ c[lo] \in Nat
      BY <1>4, <1>9, <2>2
    <3>2. from <= c[lo]
      <4>1. 1 \in 1..(n + 1) /\ 1 <= lo
        BY <1>2
      <4>2. c[1] <= c[lo]
        BY <1>7, <4>1
      <4> QED
        BY <1>2, <4>2
    <3> DEFINE a == c[lo]
    <3>4. a \in Nat /\ a <= month /\ from <= month
      BY <3>1, <3>2
    <3> HIDE DEF a
    <3>5. Greatest(month, a) = month /\ Greatest(month, from) = month
      BY <3>4, GreatestIs
    <3>3. max(c[lo]) = month /\ max(from) = month
      BY <3>5 DEF max, a
    <3> QED
      BY <3>3
  <2> QED
    BY <2>1, <2>2
<1>18. Total(Quantities(left)) = max(to) - max(from)
  BY <1>2, <1>15, <1>16, <1>17
<1> QED
  <2>1. IsLeft(left, max(to) - max(from))
    BY <1>10, <1>12, <1>16, <1>18 DEF IsLeft
  <2> QED
    BY <2>1 DEF left, max, u

\* What is left of each order from a day on.
LeftOfEach(list, day) == [i \in 1..Len(list) |-> ItemsLeft(list[i], day)]

OrdersLeave(list, day, months) == Total(Quantities(FlattenSeq(LeftOfEach(list, day)))) = months

LEMMA MonthsLeftOfOrders ==
  ASSUME NEW list, NEW day \in 1..28, NEW from \in Nat, NEW to \in Nat,
         AreOrderTiles(list, day, from, to), Len(list) > 0, NEW month \in Nat
  PROVE  OrdersLeave(list, DayIn(month, day), Greatest(month, to) - Greatest(month, from))
<1> DEFINE n == Len(list)
           u == DayIn(month, day)
           left(i) == ItemsLeft(list[i], u)
           lists == [i \in 1..n |-> left(i)]
           S == UNION {Elements(lists[i]) : i \in 1..n}
           max(a) == Greatest(month, a)
<1>1. PICK b : OrderTiles(list, day, b, from, to)
  BY DEF AreOrderTiles
<1>2. /\ n \in Nat /\ n > 0 /\ b \in [1..(n + 1) -> Nat] /\ b[1] = from /\ b[n + 1] = to
      /\ \A i \in 1..n : /\ list[i].status = "CONFIRMED"
                         /\ b[i] <= b[i + 1]
                         /\ AreTiles(list[i].items, day, b[i], b[i + 1])
  BY <1>1 DEF OrderTiles
<1>3. ASSUME NEW i \in 1..n
      PROVE  /\ Len(left(i)) \in Nat /\ left(i) = [k \in 1..Len(left(i)) |-> left(i)[k]]
             /\ \A k \in 1..Len(left(i)) : left(i)[k].quantity \in Int
             /\ Total(Quantities(left(i))) = max(b[i + 1]) - max(b[i])
             /\ max(b[i + 1]) \in Nat /\ max(b[i]) \in Nat
  <2>1. i \in 1..(n + 1) /\ i + 1 \in 1..(n + 1)
    BY <1>2
  <2>2. b[i] \in Nat /\ b[i + 1] \in Nat
    BY <1>2, <2>1
  <2> DEFINE order == list[i]
             x == b[i]
             y == b[i + 1]
  <2>3. /\ order.status = "CONFIRMED" /\ x \in Nat /\ y \in Nat /\ x <= y
        /\ AreTiles(order.items, day, x, y)
    BY <1>2, <2>2
  <2> HIDE DEF order, x, y
  <2>4. IsLeft(ItemsLeft(order, u), Greatest(month, y) - Greatest(month, x))
    BY <2>3, MonthsLeftOfTiles
  <2>5. Greatest(month, y) \in Nat /\ Greatest(month, x) \in Nat
    BY <2>3, GreatestIs
  <2> QED
    BY <2>4, <2>5 DEF IsLeft, order, x, y
<1>4. \A i \in 1..n : lists[i] = left(i)
  OBVIOUS
<1> HIDE DEF left, n
<1>5. lists \in [1..n -> Seq(S)] /\ \A x \in S : x.quantity \in Int
  <2>1. ASSUME NEW i \in 1..n PROVE lists[i] \in Seq(S)
    <3>1. /\ lists[i] = [k \in 1..Len(lists[i]) |-> lists[i][k]] /\ Len(lists[i]) \in Nat
          /\ DOMAIN lists[i] = 1..Len(lists[i])
      BY <1>3, <1>4
    <3>2. \A k \in 1..Len(lists[i]) : lists[i][k] \in Elements(lists[i])
      BY <3>1 DEF Elements
    <3>3. \A k \in 1..Len(lists[i]) : lists[i][k] \in S
      BY <3>2
    <3> HIDE DEF lists, S
    <3> QED
      BY <3>1, <3>3
  <2>2. ASSUME NEW x \in S PROVE x.quantity \in Int
    <3>1. PICK i \in 1..n : x \in Elements(lists[i])
      OBVIOUS
    <3>2. PICK k \in DOMAIN lists[i] : x = lists[i][k]
      BY <3>1 DEF Elements
    <3>3. k \in 1..Len(left(i)) /\ lists[i] = left(i)
      BY <1>3, <1>4, <3>2
    <3> QED
      BY <1>3, <3>2, <3>3
  <2>3. lists = [i \in 1..n |-> lists[i]]
    OBVIOUS
  <2> HIDE DEF lists, S
  <2> QED
    BY <2>1, <2>2, <2>3
<1> DEFINE q == [i \in 1..n |-> Total(Quantities(lists[i]))]
<1>6. Total(Quantities(FlattenSeq(lists))) = Total(q)
  <2> HIDE DEF lists, S
  <2> QED
    BY <1>2, <1>5, QuantitiesOfAll, ZenonT(40)
<1> DEFINE d == [i \in 1..(n + 1) |-> max(b[i])]
<1>7. d \in [1..(n + 1) -> Int] /\ d[1] = max(from) /\ d[n + 1] = max(to)
  <2>1. ASSUME NEW i \in 1..(n + 1) PROVE max(b[i]) \in Int
    <3> DEFINE a == b[i]
    <3>1. a \in Nat
      BY <1>2
    <3> HIDE DEF a
    <3>2. Greatest(month, a) \in Nat
      BY <3>1, GreatestIs
    <3> QED
      BY <3>2 DEF a
  <2>2. 1 \in 1..(n + 1) /\ n + 1 \in 1..(n + 1)
    BY <1>2
  <2> HIDE DEF max
  <2> QED
    BY <1>2, <2>1, <2>2
<1>8. \A i \in 1..n : q[i] = d[i + 1] - d[i]
  <2>1. ASSUME NEW i \in 1..n PROVE q[i] = d[i + 1] - d[i]
    <3>1. i \in 1..(n + 1) /\ i + 1 \in 1..(n + 1)
      BY <1>2
    <3>2. d[i] = max(b[i]) /\ d[i + 1] = max(b[i + 1]) /\ q[i] = Total(Quantities(left(i)))
      BY <1>4, <3>1
    <3> HIDE DEF d, q
    <3> QED
      BY <1>3, <3>2
  <2> QED
    BY <2>1
<1>9. q = [i \in 1..n |-> q[i]]
  OBVIOUS
<1> HIDE DEF q, d, max
<1>10. Total(q) = d[n + 1] - d[1]
  BY <1>2, <1>7, <1>8, <1>9, Differences, ZenonT(40)
<1>11. Total(Quantities(FlattenSeq(lists))) = max(to) - max(from)
  BY <1>6, <1>7, <1>10
<1> QED
  BY <1>11 DEF max, n, left, LeftOfEach, OrdersLeave

LEMMA UsedMonths ==
  ASSUME NEW p, EndsWithItsMonths(p), NEW time \in Nat
  PROVE  MonthsUsed(p, time) \in 0..p.months
<1> DEFINE x == MonthOf(DateIn(time)) - MonthOf(DateIn(p.start))
           w == WholeMonths(p.start, time)
           used == DiffMonthsCeil(p.start, time)
<1>1. p.start \in Nat /\ p.months \in Nat /\ IsFixedPeriod(p)
  BY StartsAssumption DEF EndsWithItsMonths
<1>2. used \in Nat
  <2>1. CASE p.start > time
    BY <2>1 DEF DiffMonthsCeil
  <2>2. CASE ~(p.start > time)
    <3>1. x \in Nat
      <4>1. p.start <= time
        BY <1>1, <2>2
      <4>2. DateIn(p.start) \in Nat /\ DateIn(time) \in Nat /\ DateIn(p.start) <= DateIn(time)
        BY <1>1, <4>1 DEF DateIn
      <4>3. MonthOf(DateIn(p.start)) \in Nat /\ MonthOf(DateIn(time)) \in Nat
            /\ MonthOf(DateIn(p.start)) <= MonthOf(DateIn(time))
        BY <4>2 DEF MonthOf
      <4> QED
        BY <4>3
    <3>2. w = x - 1 \/ w = x
      BY DEF WholeMonths
    <3> HIDE DEF x, w
    <3>3. w + 1 \in Nat
      BY <3>1, <3>2
    <3> QED
      BY <2>2, <3>3 DEF DiffMonthsCeil, w
  <2> QED
    BY <2>1, <2>2
<1>3. MonthsUsed(p, time) = Least(p.months, used)
  BY <1>1 DEF MonthsUsed
<1> HIDE DEF used
<1> QED
  BY <1>1, <1>2, <1>3 DEF Least

\* What the orders leave of a permit is the months the permit has left.
LEMMA RefundedMonths ==
  ASSUME EndsWithItsMonths(permit), DayOf(LocalDate(permit.start)) <= 28, now \in Nat,
         Len(orders) > 0,
         AreOrderTiles(orders, DayOf(LocalDate(permit.start)), MonthOf(LocalDate(permit.start)),
                       MonthOf(LocalDate(permit.start)) + permit.months)
  PROVE  MonthsRefunded = MonthsLeft(permit, now)
<1> DEFINE s == DayOf(LocalDate(permit.start))
           from == MonthOf(LocalDate(permit.start))
           to == from + permit.months
           used == MonthsUsed(permit, now)
           lists == LeftOfEach(orders, DayIn(from + used, s))
<1>1. /\ from \in Nat /\ s \in 1..28 /\ to \in Nat
      /\ \A n \in Nat : AddMonths(LocalDate(permit.start), n) = DayIn(from + n, s)
  BY StartParts
<1>2. used \in 0..permit.months /\ permit.months \in Nat
  BY UsedMonths DEF EndsWithItsMonths
<1>3. NextPeriodStart(permit, now) = DayIn(from + used, s)
  BY <1>1, <1>2 DEF NextPeriodStart
<1>4. UnusedItems(permit, orders, now) = FlattenSeq(lists)
  <2>1. ~IsOpenEnded(permit)
    BY DEF EndsWithItsMonths, IsFixedPeriod, IsOpenEnded
  <2> QED
    BY <1>3, <2>1 DEF UnusedItems, UnusedItemsOfOrder, LeftOfEach
<1>5. MonthsRefunded = Total(Quantities(UnusedItems(permit, orders, now)))
  BY DEF MonthsRefunded, SumOver, Quantities
<1>6. AreOrderTiles(orders, s, from, to) /\ to = from + permit.months
  OBVIOUS
<1>7. MonthsLeft(permit, now) = permit.months - used
  BY DEF MonthsLeft
<1> DEFINE month == from + used
           months == permit.months
<1>12. /\ from \in Nat /\ s \in 1..28 /\ to \in Nat /\ to = from + months
       /\ months \in Nat /\ used \in 0..months
  BY <1>1, <1>2
<1>8. lists = LeftOfEach(orders, DayIn(month, s))
  OBVIOUS
<1> HIDE DEF from, used, s, to, lists, months
<1>9. month \in Nat /\ month <= to /\ from <= month /\ to - month = months - used
  BY <1>12
<1> HIDE DEF month
<1>10. Total(Quantities(FlattenSeq(lists))) = Greatest(month, to) - Greatest(month, from)
  <2>1. OrdersLeave(orders, DayIn(month, s), Greatest(month, to) - Greatest(month, from))
    <3>1. AreOrderTiles(orders, s, from, to) /\ Len(orders) > 0
      BY <1>6
    <3>2. s \in 1..28 /\ from \in Nat /\ to \in Nat /\ month \in Nat
      BY <1>9, <1>12
    <3> QED
      BY <3>1, <3>2, MonthsLeftOfOrders
  <2> QED
    BY <1>8, <2>1 DEF OrdersLeave
<1>11. Greatest(month, to) = to /\ Greatest(month, from) = month
  BY <1>9, <1>12, GreatestIs
<1> QED
  BY <1>4, <1>5, <1>7, <1>9, <1>10, <1>11 DEF months

(***************************************************************************)
(* The price list that is shown                                            *)
(***************************************************************************)
ShownFirst(p, i) == Greatest(OnSale(p)[i].first, LocalDate(p.start))
ShownLast(p, i) == Least(OnSale(p)[i].last, LocalDate(p.end))
ShownMonths(p, i) ==
    MonthsBetween(ShownFirst(p, i), ShownLast(p, i))
    - (IF i = Len(OnSale(p)) /\ i > 1 /\ DayOf(LocalDate(p.start)) # 1 THEN 1 ELSE 0)

\* A day later in the month than the first, the day before is in the month too.
LEMMA DayBeforeInMonth ==
  ASSUME NEW day \in 2..28, NEW month \in Nat, month > 0
  PROVE  EndsMonth(AddDays(DayIn(month, day), -1), month + 1, 1)
<1>1. IsDate(DayIn(month, day), month, day)
  BY DEF IsDate, DayIn
<1>2. DaysIn(month) \in 28..31
  BY MonthLengths
<1>3. IsDate(AddDays(DayIn(month, day), -1), month, day - 1)
  <2>1. day <= DaysIn(month) /\ day > 1
    BY <1>2
  <2> QED
    BY <1>1, <2>1, DayBefore
<1> QED
  BY <1>3 DEF IsDate, EndsMonth, DayIn

\* The months shown for a product are the months charged for it.
LEMMA ShownMonthsAreCharged ==
  ASSUME NEW p, EndsWithItsMonths(p), Regular(Products[p.zone]), Covered(p),
         DayOf(LocalDate(p.start)) <= 28, NEW i \in 1..Len(OnSale(p))
  PROVE  ShownMonths(p, i) = Details(p)[i].quantity /\ Details(p)[i].quantity \in Int
<1> DEFINE list == OnSale(p)
           L == Len(list)
           first == LocalDate(p.start)
           last == LocalDate(p.end)
           s == DayOf(first)
           m == MonthOf(first)
           to == m + p.months
           a == MonthBound(p, i)
           b == MonthBound(p, i + 1)
           d == Details(p)[i]
           from == ShownFirst(p, i)
<1>1. /\ m \in Nat /\ s \in 1..28 /\ first = DayIn(m, s) /\ to \in Nat /\ to > 0
      /\ last = AddDays(DayIn(to, s), -1)
  BY StartParts
<1>2. IsDay(first) /\ IsDay(last) /\ first \in Nat /\ last \in Nat /\ first <= last
      /\ p.zone \in Zones
  BY DaysOfPermit DEF EndsWithItsMonths
<1>3. /\ L \in Nat /\ L > 0 /\ list[1].first <= first /\ last <= list[L].last
      /\ \A k \in 1..L : list[k].first \in Nat /\ list[k].last \in Nat
      /\ \A k \in 1..(L - 1) :
            /\ DayOf(list[k].last) = DaysIn(MonthOf(list[k].last))
            /\ list[k + 1].first = 31 * (MonthOf(list[k].last) + 1)
            /\ first <= list[k].last
            /\ list[k + 1].first <= last
  <2>1. Consecutive(list, first, last) /\ L \in Nat
    BY PurchasePositions
  <2>2. list \in Seq(Product) /\ L > 0
    BY <2>1 DEF Consecutive
  <2> QED
    BY <2>1, <2>2, ProductFields DEF Consecutive
<1>4. /\ a \in Nat /\ b \in Nat /\ b > 0 /\ a <= b
      /\ d.first = DayIn(a, s) /\ EndsMonth(d.last, b, s) /\ d.quantity = b - a
  BY PurchaseBounds
<1>5. /\ i = 1 => d.first = first
      /\ d.last = IF i = L THEN last ELSE list[i].last
  <2>1. CatalogCovers(p.zone, first, last)
    BY DEF Covered
  <2> QED
    BY <1>2, <2>1, PeriodDetails DEF OnSale, Details
<1>6. /\ i > 1 => a = MonthOf(list[i].first)
      /\ b = IF i = L THEN to ELSE MonthOf(list[i + 1].first)
  BY <1>3 DEF MonthBound
<1>7. ShownMonths(p, i) = MonthsBetween(from, ShownLast(p, i))
                          - (IF i = L /\ i > 1 /\ s # 1 THEN 1 ELSE 0)
  BY DEF ShownMonths
<1>8. ShownFirst(p, i) = Greatest(list[i].first, first) /\ ShownLast(p, i) = Least(list[i].last, last)
  BY DEF ShownFirst, ShownLast
<1>9. i \in 1..L
  OBVIOUS
<1> HIDE DEF list, L, first, last, s, m, to, a, b, d, from
<1>10. \A k \in 1..(L - 1) : /\ list[k].last < list[k + 1].first
                             /\ list[k].last \in Nat /\ list[k + 1].first \in Nat
                             /\ MonthOf(list[k].last) \in Nat
                             /\ MonthOf(list[k + 1].first) = MonthOf(list[k].last) + 1
  <2> SUFFICES ASSUME NEW k \in 1..(L - 1)
               PROVE  /\ list[k].last < list[k + 1].first
                      /\ list[k].last \in Nat /\ list[k + 1].first \in Nat
                      /\ MonthOf(list[k].last) \in Nat
                      /\ MonthOf(list[k + 1].first) = MonthOf(list[k].last) + 1
    OBVIOUS
  <2> DEFINE x == list[k].last
             y == list[k + 1].first
  <2>1. k \in 1..L /\ k + 1 \in 1..L
    BY <1>3
  <2>2. x \in Nat /\ y \in Nat /\ y = 31 * (MonthOf(x) + 1)
    BY <1>3, <2>1
  <2> HIDE DEF x, y
  <2>3. MonthOf(x) \in Nat /\ x < 31 * (MonthOf(x) + 1)
    BY <2>2 DEF MonthOf
  <2>4. MonthOf(y) = MonthOf(x) + 1
    BY <2>2, <2>3 DEF MonthOf
  <2> QED
    BY <2>2, <2>3, <2>4 DEF x, y
<1>11. ShownLast(p, i) = d.last
  <2> DEFINE x == list[i].last
  <2>1. x \in Nat
    BY <1>3, <1>9
  <2>2. CASE i = L
    <3>1. last <= x
      BY <1>3, <2>2
    <3> HIDE DEF x
    <3>2. Least(x, last) = last
      BY <1>2, <2>1, <3>1 DEF Least
    <3> QED
      BY <1>5, <1>8, <2>2, <3>2 DEF x
  <2>3. CASE i # L
    <3>1. i \in 1..(L - 1)
      BY <1>3, <1>9, <2>3
    <3>2. x < last
      <4>1. x < list[i + 1].first /\ list[i + 1].first <= last /\ list[i + 1].first \in Nat
        BY <1>3, <1>10, <3>1
      <4> HIDE DEF x
      <4> QED
        BY <1>2, <2>1, <4>1
    <3> HIDE DEF x
    <3>3. Least(x, last) = x
      BY <3>2 DEF Least
    <3> QED
      BY <1>5, <1>8, <2>3, <3>3 DEF x
  <2> QED
    BY <2>2, <2>3
<1>12. CASE i = 1
  <2>1. from = first
    <3> DEFINE x == list[1].first
    <3>1. x \in Nat /\ x <= first
      BY <1>3, <1>9, <1>12
    <3>2. from = Greatest(x, first)
      BY <1>8, <1>12 DEF from
    <3> HIDE DEF x
    <3> QED
      BY <1>2, <3>1, <3>2 DEF Greatest
  <2>2. from = DayIn(a, s)
    BY <1>4, <1>5, <1>12, <2>1
  <2>3. MonthsBetween(DayIn(a, s), d.last) = b - a
    BY <1>1, <1>4, MonthsOfSpan
  <2>4. ShownMonths(p, i) = b - a
    BY <1>4, <1>7, <1>11, <1>12, <2>2, <2>3
  <2> QED
    BY <1>4, <2>4 DEF d
<1>13. CASE i > 1
  <2>1. i - 1 \in 1..(L - 1) /\ i - 1 + 1 = i
    BY <1>3, <1>9, <1>13
  <2>2. from = DayIn(a, 1)
    <3> DEFINE x == list[i].first
               y == list[i - 1].last
    <3>1. /\ x \in Nat /\ y \in Nat /\ y < x /\ first <= y /\ a = MonthOf(x)
          /\ x = 31 * (MonthOf(y) + 1) /\ MonthOf(x) = MonthOf(y) + 1 /\ MonthOf(y) \in Nat
      BY <1>3, <1>6, <1>10, <1>13, <2>1
    <3>2. from = Greatest(x, first)
      BY <1>8 DEF from
    <3> HIDE DEF x, y
    <3>3. x > first
      BY <1>2, <3>1
    <3>4. from = x
      BY <3>2, <3>3 DEF Greatest
    <3> QED
      BY <3>1, <3>4 DEF DayIn
  <2>3. CASE i < L
    <3>1. i \in 1..(L - 1) /\ i # L
      BY <1>3, <1>9, <2>3
    <3> DEFINE x == list[i].last
    <3>2. /\ x \in Nat /\ d.last = x /\ b = MonthOf(x) + 1 /\ MonthOf(x) \in Nat
          /\ DayOf(x) = DaysIn(MonthOf(x))
      BY <1>3, <1>5, <1>6, <1>10, <3>1
    <3> HIDE DEF x
    <3>3. MonthOf(x) = b - 1
      BY <3>2
    <3>4. 1 \in 1..28
      OBVIOUS
    <3>5. EndsMonth(d.last, b, 1)
      BY <1>4, <3>2, <3>3, <3>4, DayBeforeEnds
    <3>6. MonthsBetween(DayIn(a, 1), d.last) = b - a
      BY <1>4, <3>4, <3>5, MonthsOfSpan
    <3>7. ShownMonths(p, i) = b - a
      BY <1>4, <1>7, <1>11, <2>2, <3>1, <3>6
    <3> QED
      BY <1>4, <3>7 DEF d
  <2>4. CASE i = L /\ s = 1
    <3>1. MonthsBetween(DayIn(a, 1), d.last) = b - a
      BY <1>1, <1>4, <2>4, MonthsOfSpan
    <3>2. ShownMonths(p, i) = b - a
      BY <1>4, <1>7, <1>11, <2>2, <2>4, <3>1
    <3> QED
      BY <1>4, <3>2 DEF d
  <2>5. CASE i = L /\ s # 1
    <3>1. b = to /\ d.last = last
      BY <1>5, <1>6, <2>5
    <3>2. s \in 2..28 /\ 1 \in 1..28
      BY <1>1, <2>5
    <3>3. EndsMonth(d.last, b + 1, 1)
      BY <1>1, <3>1, <3>2, DayBeforeInMonth
    <3>4. b + 1 \in Nat /\ b + 1 > 0 /\ a <= b + 1
      BY <1>4
    <3>5. MonthsBetween(DayIn(a, 1), d.last) = b + 1 - a
      BY <1>4, <3>2, <3>3, <3>4, MonthsOfSpan
    <3>6. ShownMonths(p, i) = b + 1 - a - 1
      <4>1. ShownMonths(p, i) = MonthsBetween(DayIn(a, 1), d.last) - 1
        <5>1. ShownMonths(p, i) = MonthsBetween(DayIn(a, 1), d.last)
                                  - (IF i = L /\ i > 1 /\ s # 1 THEN 1 ELSE 0)
          BY <1>7, <1>11, <2>2
        <5> QED
          BY <1>13, <2>5, <5>1
      <4> QED
        BY <1>4, <3>5, <4>1
    <3>7. b + 1 - a - 1 = b - a
      BY <1>4
    <3> QED
      BY <1>4, <3>6, <3>7 DEF d
  <2> QED
    BY <1>1, <1>9, <1>3, <2>3, <2>4, <2>5
<1> QED
  BY <1>9, <1>3, <1>12, <1>13

LEMMA PriceIsNumber ==
  ASSUME NEW product, product.price \in Nat, NEW lowEmission, NEW primary
  PROVE  ModifiedUnitPrice(product, lowEmission, primary) \in Nat
<1> DEFINE half == product.price \div 2
           price == IF lowEmission THEN half ELSE product.price
<1>1. half \in Nat
  OBVIOUS
<1> HIDE DEF half
<1>2. price \in Nat
  BY <1>1
<1>3. ModifiedUnitPrice(product, lowEmission, primary)
        = IF primary THEN price ELSE price + price \div 2
  BY DEF ModifiedUnitPrice, half
<1> HIDE DEF price
<1>4. price + price \div 2 \in Nat
  BY <1>2
<1> QED
  BY <1>2, <1>3, <1>4

\* The price list of a new permit sums up to what its order charges.
LEMMA ShownSum ==
  ASSUME NEW p, EndsWithItsMonths(p), Regular(Products[p.zone]), Covered(p),
         DayOf(LocalDate(p.start)) <= 28, DateIn(p.start) = LocalDate(p.start),
         NEW order, order.items = PurchaseItems(p)
  PROVE  ListPrice(PermitPrices(p)) = Charged(order)
<1> DEFINE list == OnSale(p)
           L == Len(list)
           price(i) == ModifiedUnitPrice(list[i], p.lowEmission, p.primary)
           months(i) == Details(p)[i].quantity
           items == PurchaseItems(p)
           prices == PermitPrices(p)
           r == [i \in 1..Len(prices) |-> prices[i].price * prices[i].quantity]
           q == [i \in 1..Len(items) |-> items[i].payment * items[i].quantity]
<1>1. PICK K \in Nat :
            /\ K \in {L - 1, L} /\ L \in Nat
            /\ WithMonths(p) = 1..K /\ Cardinality(WithMonths(p)) = K
            /\ \A n \in 1..K : Nth(WithMonths(p), n) = n
            /\ K # L => months(L) = 0
  BY ProductsWithMonths
<1>2. \A i \in 1..L : ShownMonths(p, i) = months(i) /\ months(i) \in Int
  BY ShownMonthsAreCharged
<1>3. \A i \in 1..L : price(i) \in Nat
  <2>1. list \in Seq(Product)
    BY PurchasePositions DEF Consecutive
  <2>2. \A i \in 1..L : list[i].price \in Nat
    BY <2>1, ProductFields
  <2> QED
    BY <2>2, PriceIsNumber
<1>4. DateIn(p.end) = LocalDate(p.end)
  BY EndDate, StartDay DEF EndsWithItsMonths
<1>5. /\ L \in Nat /\ Len(prices) = L
      /\ \A i \in 1..L : prices[i].price = price(i) /\ prices[i].quantity = ShownMonths(p, i)
  <2>1. prices = [i \in 1..L |-> [price |-> price(i), quantity |-> ShownMonths(p, i)]]
    BY <1>4 DEF PermitPrices, PricesFor, ShownMonths, ShownFirst, ShownLast, OnSale
  <2> HIDE DEF L, prices, price
  <2> QED
    BY <1>1, <2>1
<1>6. /\ Len(items) = K
      /\ \A j \in 1..K : items[j].payment = price(j) /\ items[j].quantity = months(j)
  <2>1. items = [n \in 1..Cardinality(WithMonths(p)) |-> PurchasedItem(p, Nth(WithMonths(p), n))]
        /\ Len(items) = Cardinality(WithMonths(p))
    BY PurchasePositions
  <2> HIDE DEF items
  <2>2. \A j \in 1..K : items[j] = PurchasedItem(p, j)
    BY <1>1, <2>1
  <2>3. \A j \in 1..L : /\ PurchasedItem(p, j).payment = price(j)
                        /\ PurchasedItem(p, j).quantity = months(j)
    BY PurchasedDates
  <2>4. \A j \in 1..K : j \in 1..L
    BY <1>1
  <2> HIDE DEF price, months
  <2> QED
    BY <1>1, <2>1, <2>2, <2>3, <2>4
<1>7. ListPrice(prices) = Total(r)
  BY DEF ListPrice, SumOver
<1>8. Charged(order) = Total(q)
  BY DEF Charged, SumOver
<1> HIDE DEF price, months, items, prices, L
<1>9. \A i \in 1..L : price(i) * months(i) \in Int
  BY <1>2, <1>3
<1>10. r = [i \in 1..L |-> price(i) * months(i)]
  BY <1>2, <1>5
<1>11. q = [i \in 1..K |-> price(i) * months(i)]
  BY <1>6
<1> HIDE DEF r, q
<1>12. \A i \in 1..K : i \in 1..L
  BY <1>1
<1> DEFINE value(i) == price(i) * months(i)
<1>13. CASE K = L
  <2>1. q = r
    <3> HIDE DEF value
    <3>1. r = [i \in 1..L |-> value(i)] /\ q = [i \in 1..K |-> value(i)]
      BY <1>10, <1>11 DEF value
    <3> QED
      BY <1>13, <3>1
  <2> QED
    BY <1>7, <1>8, <2>1 DEF prices
<1>14. CASE K # L
  <2>1. L = K + 1 /\ L \in 1..L
    BY <1>1, <1>14
  <2>2. value(L) = 0
    <3>1. months(L) = 0 /\ price(L) \in Nat
      BY <1>1, <1>3, <1>14, <2>1
    <3> QED
      BY <3>1
  <2> HIDE DEF value
  <2>3. /\ r \in Seq(Int) /\ Len(r) = L /\ \A i \in 1..L : r[i] = value(i)
        /\ q \in Seq(Int) /\ Len(q) = K /\ \A i \in 1..K : q[i] = value(i)
    <3>1. \A i \in 1..L : value(i) \in Int
      BY <1>9 DEF value
    <3>2. r = [i \in 1..L |-> value(i)] /\ q = [i \in 1..K |-> value(i)]
      BY <1>10, <1>11 DEF value
    <3> QED
      BY <1>1, <1>12, <3>1, <3>2
  <2>4. Len(r) = Len(q) + 1 /\ \A i \in 1..Len(q) : r[i] = q[i]
    BY <1>12, <2>1, <2>3
  <2>5. Total(r) = Total(q) + r[Len(r)] /\ Total(q) \in Int
    BY <2>3, <2>4, TotalOfOneMore
  <2>6. r[Len(r)] = 0
    BY <2>1, <2>2, <2>3
  <2>7. Total(r) = Total(q)
    BY <2>5, <2>6
  <2> QED
    BY <1>7, <1>8, <2>7 DEF prices
<1> QED
  BY <1>13, <1>14 DEF prices

(***************************************************************************)
(* The orders of a permit, and the invariant                               *)
(***************************************************************************)
\* Every item is for days after one day and up to another, and after those of all items
\* before it.
PaidInOrder(list, last) ==
    /\ \A i \in 1..Len(list) : InOrder(list[i].items) /\ Within(list[i].items, -1, last)
    /\ \A i, k \in 1..Len(list) : i < k =>
        \A j \in 1..Len(list[i].items), l \in 1..Len(list[k].items) :
            LocalDate(list[k].items[l].start) > LocalDate(list[i].items[j].end)

LEMMA OneMoreInOrder ==
  ASSUME NEW list, IsSequence(list), NEW order, NEW last \in Nat, NEW later \in Nat,
         last <= later, PaidInOrder(list, last),
         InOrder(order.items), Within(order.items, last, later)
  PROVE  PaidInOrder(Append(list, order), later)
<1> DEFINE t == Append(list, order)
           n == Len(list)
<1>1. /\ n \in Nat /\ Len(t) = n + 1
      /\ \A i \in 1..n : t[i] = list[i]
      /\ t[n + 1] = order
  BY AppendIsSequence
<1> HIDE DEF t, n
<1>2. \A i \in 1..n : /\ InOrder(list[i].items) /\ Within(list[i].items, -1, last)
  BY DEF PaidInOrder, n
<1>3. ASSUME NEW items, Within(items, -1, last) PROVE Within(items, -1, later)
  BY <1>3 DEF Within
<1>4. Within(order.items, -1, later)
  BY DEF Within
<1>5. \A i \in 1..(n + 1) : i \in 1..n \/ i = n + 1
  BY <1>1
<1>6. \A i \in 1..Len(t) : InOrder(t[i].items) /\ Within(t[i].items, -1, later)
  BY <1>1, <1>2, <1>3, <1>4, <1>5
<1>7. ASSUME NEW i \in 1..(n + 1), NEW k \in 1..(n + 1), i < k,
             NEW j \in 1..Len(t[i].items), NEW l \in 1..Len(t[k].items)
      PROVE  LocalDate(t[k].items[l].start) > LocalDate(t[i].items[j].end)
  <2>1. i \in 1..n /\ t[i] = list[i]
    BY <1>1, <1>7
  <2>2. CASE k \in 1..n
    <3>1. t[k] = list[k]
      BY <1>1, <2>2
    <3>2. j \in 1..Len(list[i].items) /\ l \in 1..Len(list[k].items)
      BY <2>1, <3>1
    <3>3. LocalDate(list[k].items[l].start) > LocalDate(list[i].items[j].end)
      BY <1>7, <2>1, <2>2, <3>2 DEF PaidInOrder, n
    <3> QED
      BY <2>1, <3>1, <3>3
  <2>3. CASE k = n + 1
    <3>1. t[k] = order
      BY <1>1, <2>3
    <3>2. LocalDate(order.items[l].start) \in Nat /\ LocalDate(order.items[l].start) > last
      <4>1. l \in 1..Len(order.items)
        BY <3>1
      <4> QED
        BY <4>1 DEF Within
    <3>3. LocalDate(list[i].items[j].end) \in Nat /\ LocalDate(list[i].items[j].end) <= last
      <4>1. j \in 1..Len(list[i].items)
        BY <2>1
      <4> QED
        BY <1>2, <2>1, <4>1 DEF Within
    <3> QED
      BY <2>1, <3>1, <3>2, <3>3
  <2> QED
    BY <1>5, <2>2, <2>3
<1>8. PaidInOrder(t, later)
  BY <1>1, <1>6, <1>7 DEF PaidInOrder
<1> QED
  BY <1>8 DEF t

LEMMA OneMoreTiles ==
  ASSUME NEW list, IsSequence(list), NEW order, order.status = "CONFIRMED", NEW day,
         NEW from, NEW middle \in Nat, NEW to \in Nat, middle <= to,
         AreOrderTiles(list, day, from, middle), AreTiles(order.items, day, middle, to)
  PROVE  AreOrderTiles(Append(list, order), day, from, to)
<1> DEFINE t == Append(list, order)
           n == Len(list)
<1>1. /\ n \in Nat /\ Len(t) = n + 1
      /\ \A i \in 1..n : t[i] = list[i]
      /\ t[n + 1] = order
  BY AppendIsSequence
<1>2. PICK b : OrderTiles(list, day, b, from, middle)
  BY DEF AreOrderTiles
<1>3. /\ b \in [1..(n + 1) -> Nat] /\ b[1] = from /\ b[n + 1] = middle
      /\ \A i \in 1..n : /\ list[i].status = "CONFIRMED" /\ b[i] <= b[i + 1]
                         /\ AreTiles(list[i].items, day, b[i], b[i + 1])
  BY <1>2 DEF OrderTiles
<1> DEFINE d == [i \in 1..(n + 1 + 1) |-> IF i = n + 2 THEN to ELSE b[i]]
<1> HIDE DEF t, n
<1>4. \A i \in 1..(n + 1 + 1) : i = n + 2 \/ i \in 1..(n + 1)
  BY <1>1
<1>5. /\ \A i \in 1..(n + 1) : d[i] = b[i]
      /\ d[n + 1 + 1] = to
  <2>1. \A i \in 1..(n + 1) : i \in 1..(n + 1 + 1) /\ i # n + 2
    BY <1>1
  <2>2. n + 1 + 1 \in 1..(n + 1 + 1) /\ n + 1 + 1 = n + 2
    BY <1>1
  <2> QED
    BY <2>1, <2>2
<1>6. d \in [1..(n + 1 + 1) -> Nat]
  <2>1. \A i \in 1..(n + 1 + 1) : (IF i = n + 2 THEN to ELSE b[i]) \in Nat
    BY <1>3, <1>4
  <2> QED
    BY <2>1
<1> HIDE DEF d
<1>7. d[1] = from
  BY <1>1, <1>3, <1>5
<1>8. ASSUME NEW i \in 1..(n + 1)
      PROVE  /\ t[i].status = "CONFIRMED" /\ d[i] <= d[i + 1]
             /\ AreTiles(t[i].items, day, d[i], d[i + 1])
  <2>1. CASE i \in 1..n
    <3>1. i \in 1..(n + 1) /\ i + 1 \in 1..(n + 1)
      BY <1>1, <2>1
    <3>2. d[i] = b[i] /\ d[i + 1] = b[i + 1] /\ t[i] = list[i]
      BY <1>1, <1>5, <2>1, <3>1
    <3> QED
      BY <1>3, <2>1, <3>2
  <2>2. CASE i = n + 1
    <3>1. d[i] = middle /\ d[i + 1] = to /\ t[i] = order
      BY <1>1, <1>3, <1>5, <2>2
    <3> QED
      BY <3>1
  <2> QED
    BY <1>1, <2>1, <2>2
<1>9. OrderTiles(t, day, d, from, to)
  BY <1>1, <1>5, <1>6, <1>7, <1>8 DEF OrderTiles
<1> QED
  BY <1>9 DEF AreOrderTiles, t

LEMMA FirstOrder ==
  ASSUME NEW order, NEW last, InOrder(order.items), Within(order.items, -1, last)
  PROVE  PaidInOrder(<<order>>, last)
<1>1. Len(<<order>>) = 1 /\ <<order>>[1] = order
  OBVIOUS
<1>2. \A i \in 1..1 : i = 1
  OBVIOUS
<1> QED
  BY <1>1, <1>2 DEF PaidInOrder

LEMMA FirstOrderTiles ==
  ASSUME NEW order, order.status = "CONFIRMED", NEW day, NEW from \in Nat, NEW to \in Nat,
         from <= to, AreTiles(order.items, day, from, to)
  PROVE  AreOrderTiles(<<order>>, day, from, to)
<1> DEFINE list == <<order>>
           b == [i \in 1..2 |-> IF i = 1 THEN from ELSE to]
<1>1. Len(list) = 1 /\ list[1] = order
  OBVIOUS
<1>2. b \in [1..2 -> Nat] /\ b[1] = from /\ b[2] = to
  OBVIOUS
<1> HIDE DEF list, b
<1>3. /\ Len(list) \in Nat /\ b \in [1..(Len(list) + 1) -> Nat]
      /\ b[1] = from /\ b[Len(list) + 1] = to
  BY <1>1, <1>2
<1>4. ASSUME NEW i \in 1..Len(list)
      PROVE  /\ list[i].status = "CONFIRMED" /\ b[i] <= b[i + 1]
             /\ AreTiles(list[i].items, day, b[i], b[i + 1])
  <2>1. i = 1 /\ i + 1 = 2
    BY <1>1
  <2> QED
    BY <1>1, <1>2, <2>1
<1>5. OrderTiles(list, day, b, from, to)
  BY <1>3, <1>4 DEF OrderTiles
<1> QED
  BY <1>5 DEF AreOrderTiles, list

\* The day until which the price of a zone is known.
LastPriced(zone) == Products[zone][Len(Products[zone])].last

\* What is charged for a permit as it was bought and extended.
ChargedFor(p, list) ==
    /\ EndsWithItsMonths(p)
    /\ Products[p.zone] # <<>>
    /\ Len(list) = 1 => list[1].items = PurchaseItems(p) /\ Covered(p)
    /\ Regular(Products[p.zone]) => PaidInOrder(list, LocalDate(p.end))
    /\ /\ Regular(Products[p.zone])
       /\ DayOf(LocalDate(p.start)) <= 28
       /\ LocalDate(p.end) <= LastPriced(p.zone)
       => AreOrderTiles(list, DayOf(LocalDate(p.start)), MonthOf(LocalDate(p.start)),
                        MonthOf(LocalDate(p.start)) + p.months)

MoneyInv ==
    /\ RenewedInStep
    /\ changes \in Nat /\ now \in Nat
    /\ AsBought => ChargedFor(permit, orders)

LEMMA LastPricedIsDate ==
  ASSUME NEW p, EndsWithItsMonths(p), Products[p.zone] # <<>>
  PROVE  LastPriced(p.zone) \in Nat
<1> DEFINE products == Products[p.zone]
           n == Len(products)
<1>1. products \in Seq(Product)
  <2>1. p.zone \in Zones
    BY DEF EndsWithItsMonths
  <2> QED
    BY <2>1, ProductsSelected
<1>2. n \in 1..n
  BY <1>1
<1> QED
  BY <1>1, <1>2, ProductFields DEF LastPriced

LEMMA CoveredHasProducts ==
  ASSUME NEW p, EndsWithItsMonths(p), Covered(p)
  PROVE  Products[p.zone] # <<>>
<1> DEFINE first == LocalDate(p.start)
           last == LocalDate(p.end)
           list == ForDateRange(p.zone, first, last)
           S == SelectedProducts(p.zone, first, last)
<1>1. p.zone \in Zones /\ list # <<>>
  BY DEF EndsWithItsMonths, Covered, CatalogCovers
<1>2. list \in Seq(Product) /\ Len(list) = Cardinality(S)
  BY <1>1, ProductsSelected
<1>3. S # {}
  <2>1. SUFFICES ASSUME S = {} PROVE FALSE
    OBVIOUS
  <2>2. Cardinality(S) = 0
    BY <2>1, FS_EmptySet
  <2> HIDE DEF list, S
  <2> QED
    BY <1>1, <1>2, <2>2
<1> QED
  BY <1>3 DEF SelectedProducts

LEMMA PurchaseIsCharged ==
  ASSUME NEW p, EndsWithItsMonths(p), Covered(p), NEW order,
         order.items = PurchaseItems(p), order.status = "CONFIRMED"
  PROVE  ChargedFor(p, <<order>>)
<1> DEFINE s == DayOf(LocalDate(p.start))
           m == MonthOf(LocalDate(p.start))
<1>1. <<order>>[1].items = PurchaseItems(p)
  OBVIOUS
<1>2. ASSUME Regular(Products[p.zone]) PROVE PaidInOrder(<<order>>, LocalDate(p.end))
  <2>1. InOrder(order.items) /\ Within(order.items, -1, LocalDate(p.end))
    BY <1>2, PurchaseInOrder
  <2> QED
    BY <2>1, FirstOrder
<1>3. ASSUME Regular(Products[p.zone]), s <= 28
      PROVE  AreOrderTiles(<<order>>, s, m, m + p.months)
  <2> DEFINE to == m + p.months
  <2>1. AreTiles(order.items, s, m, to)
    BY <1>3, PurchaseTiles
  <2>2. m \in Nat /\ to \in Nat
    BY <1>3, StartParts
  <2>3. m <= to
    <3>1. p.months \in Nat
      BY DEF EndsWithItsMonths
    <3> HIDE DEF m
    <3> QED
      BY <2>2, <3>1
  <2> HIDE DEF s, m, to
  <2>4. AreOrderTiles(<<order>>, s, m, to)
    BY <2>1, <2>2, <2>3, FirstOrderTiles
  <2> QED
    BY <2>4 DEF to
<1> QED
  BY <1>1, <1>2, <1>3, CoveredHasProducts DEF ChargedFor

LEMMA ExtensionIsCharged ==
  ASSUME NEW p, NEW list, ChargedFor(p, list), IsSequence(list), Len(list) > 0,
         NEW months \in Int, ExtensionItems(p, months) # <<>>,
         NEW q, q.contract = p.contract, q.start = p.start, q.zone = p.zone,
         q.months = p.months + months, q.end = GetEndTime(p.start, p.months + months),
         NEW order, order.items = ExtensionItems(p, months), order.status = "CONFIRMED"
  PROVE  ChargedFor(q, Append(list, order))
<1> DEFINE t == Append(list, order)
           s == DayOf(LocalDate(p.start))
           m == MonthOf(LocalDate(p.start))
           last == LocalDate(p.end)
           later == LocalDate(q.end)
<1>1. EndsWithItsMonths(p)
  BY DEF ChargedFor
<1>2. /\ InOrder(order.items) /\ Within(order.items, last, later)
      /\ last <= later /\ months \in Nat /\ months > 0
  BY <1>1, ExtensionInOrder
<1>3. EndsWithItsMonths(q)
  <2>1. q.months \in Nat /\ q.months > 0 /\ q.end = GetEndTime(q.start, q.months)
    BY <1>1, <1>2 DEF EndsWithItsMonths
  <2> QED
    BY <1>1, <2>1 DEF EndsWithItsMonths, IsFixedPeriod
<1>4. last \in Nat /\ later \in Nat
  BY <1>1, <1>3, DaysOfPermit
<1>5. Len(t) # 1
  <2>1. Len(t) = Len(list) + 1 /\ Len(list) \in Nat
    BY AppendIsSequence
  <2> HIDE DEF t
  <2> QED
    BY <2>1
<1>6. ASSUME Regular(Products[p.zone]) PROVE PaidInOrder(t, later)
  <2>1. PaidInOrder(list, last)
    BY <1>6 DEF ChargedFor
  <2> HIDE DEF last, later
  <2> QED
    BY <1>2, <1>4, <2>1, OneMoreInOrder
<1>7. ASSUME Regular(Products[p.zone]), s <= 28, later <= LastPriced(p.zone)
      PROVE  AreOrderTiles(t, s, m, m + q.months)
  <2> DEFINE middle == m + p.months
             to == m + (p.months + months)
  <2>1. m \in Nat /\ middle \in Nat /\ p.months \in Nat
    BY <1>1, <1>7, StartParts DEF EndsWithItsMonths
  <2>2. to \in Nat /\ middle <= to /\ to = m + q.months
    <3> HIDE DEF m
    <3> QED
      BY <1>2, <2>1
  <2>3. LastPriced(p.zone) \in Nat
    BY <1>1, LastPricedIsDate DEF ChargedFor
  <2>4. last <= LastPriced(p.zone)
    <3> HIDE DEF last, later
    <3> QED
      BY <1>2, <1>4, <1>7, <2>3
  <2>5. AreOrderTiles(list, s, m, middle)
    BY <1>7, <2>4 DEF ChargedFor
  <2>6. AreTiles(order.items, s, middle, to)
    BY <1>1, <1>7, ExtensionTiles DEF LastPriced
  <2> HIDE DEF t, s, m, middle, to
  <2>7. AreOrderTiles(t, s, m, to)
    BY <2>1, <2>2, <2>5, <2>6, OneMoreTiles DEF t
  <2> QED
    BY <2>2, <2>7
<1> HIDE DEF t
<1> QED
  BY <1>3, <1>5, <1>6, <1>7 DEF ChargedFor, t

LEMMA InitMoney == Init => MoneyInv
<1> SUFFICES ASSUME Init PROVE MoneyInv
  OBVIOUS
<1>1. \E t \in Moments : \A u \in Moments : t <= u
  BY MomentsAssumption, LeastNumber
<1>2. now \in Nat
  <2>1. now = CHOOSE t \in Moments : \A u \in Moments : t <= u
    BY DEF Init
  <2>2. now \in Moments
    BY <1>1, <2>1
  <2> QED
    BY <2>2, MomentsAssumption
<1>3. ~AsBought
  BY DEF Init, NoPermit, AsBought, NotEnded, IsValid
<1> QED
  BY <1>2, <1>3, InitRenewedInStep DEF MoneyInv, Init

LEMMA BuyKeepsMoney ==
  ASSUME MoneyInv, RenewedInStep', NEW contract \in ContractType, NEW start \in Starts,
         NEW months \in MonthCounts, NEW zone \in Zones, NEW lowEmission, NEW primary,
         Buy(contract, start, months, zone, lowEmission, primary)
  PROVE  MoneyInv'
<1> DEFINE count == MonthCountForPrimary(contract, months)
           bought == [contract |-> contract, status |-> "VALID", start |-> start,
                      end |-> GetEndTime(start, count), months |-> count, zone |-> zone,
                      lowEmission |-> lowEmission, primary |-> primary]
           order == Order(FALSE, PurchaseItems(bought))
<1>1. /\ CatalogCovers(zone, LocalDate(start), LocalDate(bought.end))
      /\ permit' = bought /\ orders' = <<order>>
      /\ now' = now /\ changes' = changes
  BY DEF Buy
<1>2. ASSUME AsBought' PROVE ChargedFor(permit', orders')
  <2>1. IsFixedPeriod(bought)
    BY <1>1, <1>2 DEF AsBought
  <2>2. count \in Nat /\ count > 0
    <3>1. months \in Int
      BY MonthCountsAssumption
    <3> QED
      BY <3>1 DEF MonthCountForPrimary, MaxMonths, Least, Greatest
  <2>3. /\ bought.start = start /\ bought.zone = zone /\ bought.months = count
        /\ bought.end = GetEndTime(start, count)
    OBVIOUS
  <2>4. order.items = PurchaseItems(bought) /\ order.status = "CONFIRMED"
    BY DEF Order
  <2> HIDE DEF bought, count, order
  <2>5. EndsWithItsMonths(bought) /\ Covered(bought)
    BY <1>1, <2>1, <2>2, <2>3 DEF EndsWithItsMonths, Covered
  <2> QED
    BY <1>1, <2>4, <2>5, PurchaseIsCharged
<1> QED
  BY <1>1, <1>2 DEF MoneyInv

LEMMA ExtendKeepsMoney ==
  ASSUME MoneyInv, RenewedInStep', NEW months \in MonthCounts, NEW dateRestriction,
         Extend(months, dateRestriction)
  PROVE  MoneyInv'
<1> DEFINE order == Order(TRUE, ExtensionItems(permit, months))
<1>1. /\ IsValid(permit) /\ IsFixedPeriod(permit) /\ changes = 0
      /\ ExtensionItems(permit, months) # <<>>
      /\ permit' = ExtendPermit(permit, months)
      /\ orders' = Append(orders, order)
      /\ now' = now /\ changes' = changes
  BY DEF Extend, CanExtend
<1>2. IsSequence(orders) /\ Len(orders) \in Nat /\ Len(orders) > 0 /\ DOMAIN permit = DOMAIN NoPermit
  BY <1>1 DEF MoneyInv, RenewedInStep, IsSequence
<1>3. ASSUME AsBought' PROVE ChargedFor(permit', orders')
  <2>1. orders[1].status = "CONFIRMED"
    <3>1. orders'[1].status = "CONFIRMED"
      BY <1>3 DEF AsBought, NotEnded
    <3>2. orders'[1] = orders[1]
      <4> HIDE DEF order
      <4>1. 1 \in 1..Len(orders)
        BY <1>2
      <4> QED
        BY <1>1, <1>2, <4>1, AppendIsSequence
    <3> QED
      BY <3>1, <3>2
  <2>2. ChargedFor(permit, orders)
    BY <1>1, <2>1 DEF MoneyInv, AsBought, NotEnded
  <2>3. /\ permit'.contract = permit.contract /\ permit'.start = permit.start
        /\ permit'.zone = permit.zone /\ permit'.months = permit.months + months
        /\ permit'.end = GetEndTime(permit.start, permit.months + months)
    BY <1>1, <1>2 DEF ExtendPermit, NoPermit
  <2>4. order.items = ExtensionItems(permit, months) /\ order.status = "CONFIRMED"
    BY DEF Order
  <2>5. months \in Int
    BY MonthCountsAssumption
  <2> HIDE DEF order
  <2>6. ChargedFor(permit', Append(orders, order))
    BY <1>1, <1>2, <2>2, <2>3, <2>4, <2>5, ExtensionIsCharged
  <2> QED
    BY <1>1, <2>6
<1> QED
  BY <1>1, <1>3 DEF MoneyInv

LEMMA NextMoney == MoneyInv /\ [Next]_vars => MoneyInv'
<1> SUFFICES ASSUME MoneyInv, [Next]_vars PROVE MoneyInv'
  OBVIOUS
<1>1. RenewedInStep'
  BY NextRenewedInStep DEF MoneyInv
<1>2. CASE PassTime
  <2>1. now' \in Nat /\ UNCHANGED <<permit, orders, changes>>
    BY <1>2, MomentsAssumption DEF PassTime
  <2> QED
    BY <1>1, <2>1 DEF MoneyInv, AsBought, NotEnded
<1>3. CASE Renew
  <2>1. IsOpenEnded(permit) /\ permit'.contract = permit.contract
        /\ now' = now /\ changes' = changes
    BY <1>3 DEF Renew, RenewOpenEndedPermit, MoneyInv, RenewedInStep, NoPermit
  <2>2. ~AsBought'
    BY <2>1 DEF AsBought, IsFixedPeriod, IsOpenEnded
  <2> QED
    BY <1>1, <2>1, <2>2 DEF MoneyInv
<1>4. ASSUME NEW zone, NEW lowEmission, Change(zone, lowEmission) PROVE MoneyInv'
  <2>1. now' = now /\ changes' = changes + 1
    BY <1>4 DEF Change
  <2>2. changes' \in Nat /\ changes' # 0
    BY <2>1 DEF MoneyInv
  <2>3. ~AsBought'
    BY <2>2 DEF AsBought
  <2> QED
    BY <1>1, <2>1, <2>2, <2>3 DEF MoneyInv
<1>5. ASSUME NEW endType, End(endType) PROVE MoneyInv'
  <2>1. IsValid(permit) /\ orders' = OrdersAfterEnd /\ now' = now /\ changes' = changes
    BY <1>5 DEF End, CanEndImmediately, CanEndAfterCurrentPeriod
  <2>2. Len(orders) \in Nat /\ Len(orders) > 0
    BY <2>1 DEF MoneyInv, RenewedInStep, IsSequence
  <2>3. orders'[1].status = "CANCELLED"
    <3>1. DOMAIN orders[1] = OrderFields /\ 1 \in 1..Len(orders)
      BY <2>2 DEF MoneyInv, RenewedInStep
    <3>2. \E items : orders'[1] = [orders[1] EXCEPT !.status = "CANCELLED", !.items = items]
      BY <2>1, <3>1 DEF OrdersAfterEnd
    <3> QED
      BY <3>1, <3>2 DEF OrderFields
  <2>4. ~AsBought'
    BY <2>3 DEF AsBought, NotEnded
  <2> QED
    BY <1>1, <2>1, <2>4 DEF MoneyInv
<1>6. CASE UNCHANGED vars
  BY <1>1, <1>6 DEF vars, MoneyInv, AsBought, NotEnded
<1> QED
  BY <1>1, <1>2, <1>3, <1>4, <1>5, <1>6, BuyKeepsMoney, ExtendKeepsMoney DEF Next

LEMMA MoneyInvariant == Spec => []MoneyInv
BY InitMoney, NextMoney, PTL DEF Spec

LEMMA ChargedParts ==
  ASSUME MoneyInv, AsBought, PricesChangeWithMonths
  PROVE  /\ ChargedFor(permit, orders) /\ EndsWithItsMonths(permit)
         /\ Regular(Products[permit.zone]) /\ LocalDate(permit.end) <= LastPriced(permit.zone)
         /\ PaidInOrder(orders, LocalDate(permit.end))
         /\ Len(orders) > 0
BY DEF MoneyInv, RenewedInStep, AsBought, NotEnded, PricesChangeWithMonths, Regular, LastPriced,
       ChargedFor

\* However often a permit is extended, no day is paid for twice.
THEOREM DaysArePaidOnce == Spec => []NoDayIsPaidForTwice
<1>1. MoneyInv => NoDayIsPaidForTwice
  <2> SUFFICES ASSUME MoneyInv, AsBought, PricesChangeWithMonths,
                      NEW i \in 1..Len(orders), NEW k \in 1..Len(orders),
                      NEW j \in 1..Len(orders[i].items), NEW l \in 1..Len(orders[k].items),
                      i < k \/ (i = k /\ j < l)
               PROVE  LocalDate(orders[k].items[l].start) > LocalDate(orders[i].items[j].end)
    BY DEF NoDayIsPaidForTwice
  <2>1. PaidInOrder(orders, LocalDate(permit.end))
    BY ChargedParts
  <2>2. CASE i < k
    BY <2>1, <2>2 DEF PaidInOrder
  <2>3. CASE i = k /\ j < l
    <3>1. InOrder(orders[i].items)
      BY <2>1 DEF PaidInOrder
    <3> QED
      BY <2>3, <3>1 DEF InOrder
  <2> QED
    BY <2>2, <2>3
<1> QED
  BY <1>1, MoneyInvariant, PTL

LEMMA ChargedTiles ==
  ASSUME MoneyInv, AsBought, StartsOnCommonDay, PricesChangeWithMonths
  PROVE  /\ EndsWithItsMonths(permit) /\ DayOf(LocalDate(permit.start)) <= 28 /\ Len(orders) > 0
         /\ AreOrderTiles(orders, DayOf(LocalDate(permit.start)),
                          MonthOf(LocalDate(permit.start)),
                          MonthOf(LocalDate(permit.start)) + permit.months)
BY ChargedParts DEF ChargedFor, StartsOnCommonDay

\* The months charged for add up to the months of the permit.
THEOREM MonthsAreGranted == Spec => []BoughtMonthsAreGranted
<1>1. MoneyInv => BoughtMonthsAreGranted
  <2> SUFFICES ASSUME MoneyInv, AsBought, StartsOnCommonDay, PricesChangeWithMonths
               PROVE  SumOver(orders, MonthsBought) = permit.months
    BY DEF BoughtMonthsAreGranted
  <2> DEFINE m == MonthOf(LocalDate(permit.start))
  <2> DEFINE to == m + permit.months
             s == DayOf(LocalDate(permit.start))
  <2>3. AreOrderTiles(orders, s, m, to)
    BY ChargedTiles
  <2>4. to = m + permit.months
    OBVIOUS
  <2>2. m \in Nat /\ permit.months \in Nat
    BY ChargedTiles, StartParts DEF EndsWithItsMonths
  <2> HIDE DEF m, to, s
  <2>1. AllMonthsBought(orders) = to - m
    BY <2>3, MonthsOfOrders
  <2> QED
    BY <2>1, <2>2, <2>4 DEF AllMonthsBought
<1> QED
  BY <1>1, MoneyInvariant, PTL

\* What ending the permit would refund is the months the permit has left.
THEOREM RefundsAreForMonthsLeft == Spec => []RefundIsForMonthsLeft
<1>1. MoneyInv => RefundIsForMonthsLeft
  BY ChargedTiles, RefundedMonths DEF RefundIsForMonthsLeft, MoneyInv
<1> QED
  BY <1>1, MoneyInvariant, PTL

\* The price list shown for a new permit sums up to what its order charges.
THEOREM ShownPricesAreCharged == Spec => []ShownPriceIsCharged
<1>1. MoneyInv => ShownPriceIsCharged
  <2> SUFFICES ASSUME MoneyInv, AsBought, StartsOnCommonDay, PricesChangeWithMonths,
                      Len(orders) = 1, DateIn(permit.start) = LocalDate(permit.start)
               PROVE  ListPrice(PermitPrices(permit)) = Charged(orders[1])
    BY DEF ShownPriceIsCharged
  <2>1. /\ EndsWithItsMonths(permit) /\ Regular(Products[permit.zone])
        /\ orders[1].items = PurchaseItems(permit) /\ Covered(permit)
    BY ChargedParts DEF ChargedFor
  <2> QED
    BY <2>1, ShownSum DEF StartsOnCommonDay
<1> QED
  BY <1>1, MoneyInvariant, PTL

================================================================================

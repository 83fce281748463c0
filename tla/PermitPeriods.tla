----------------------------- MODULE PermitPeriods -----------------------------
(***************************************************************************)
(* The months of a permit: the properties of ParkingPermit that divide its *)
(* time into months used, months left and the current period, the end time *)
(* each way of ending gives it, and the month counts a customer may ask    *)
(* for.  A permit is read from the database, so its times are in UTC.      *)
(***************************************************************************)
EXTENDS Calendar

ContractType == {"OPEN_ENDED", "FIXED_PERIOD"}

MaxMonths == 12

Least(a, b) == IF a < b THEN a ELSE b
Greatest(a, b) == IF a > b THEN a ELSE b

IsOpenEnded(permit) == permit.contract = "OPEN_ENDED"
IsFixedPeriod(permit) == permit.contract = "FIXED_PERIOD"
IsValid(permit) == permit.status = "VALID"

MonthsUsed(permit, now) ==
    IF IsFixedPeriod(permit) THEN Least(permit.months, DiffMonthsCeil(permit.start, now))
                             ELSE DiffMonthsCeil(permit.start, now)

MonthsLeft(permit, now) == permit.months - MonthsUsed(permit, now)

\* A month before the end time, if the permit is renewed beyond that already.
CurrentPeriodEnd(permit, now) ==
    IF IsOpenEnded(permit)
    THEN IF AddMonthsTo(permit.end, -1) > now THEN AddMonthsTo(permit.end, -1) ELSE permit.end
    ELSE Greatest(permit.start, GetEndTime(permit.start, MonthsUsed(permit, now)))

\* A date, unlike the times above.
NextPeriodStart(permit, now) ==
    AddMonths(LocalDate(permit.start), MonthsUsed(permit, now))

CanBeRefunded(permit, now) ==
    /\ IsValid(permit)
    /\ \/ IsFixedPeriod(permit)
       \/ permit.start > now
       \/ AddMonthsTo(permit.end, -1) > now

(***************************************************************************)
(* Ending                                                                  *)
(***************************************************************************)
CanEndImmediately(permit, now) == IsValid(permit) /\ now < permit.end

CanEndAfterCurrentPeriod(permit, now) ==
    /\ IsValid(permit)
    /\ LocalDate(CurrentPeriodEnd(permit, now)) <= LocalDate(permit.end)

EndTimeOf(permit, endType, now) ==
    CASE endType = "PREVIOUS_DAY_END" -> FromLocal(AddDays(LocalDate(now), -1), 23)
      [] endType = "AFTER_CURRENT_PERIOD" -> CurrentPeriodEnd(permit, now)
      [] endType = "IMMEDIATELY" -> Greatest(permit.start, now)

EndPermit(permit, endType, now) ==
    LET end == EndTimeOf(permit, endType, now)
    IN  [permit EXCEPT !.end = end, !.months = DiffMonthsCeil(permit.start, end),
                       !.status = IF endType = "AFTER_CURRENT_PERIOD" THEN @ ELSE "CLOSED"]

(***************************************************************************)
(* Renewing and extending                                                  *)
(***************************************************************************)
RenewOpenEndedPermit(permit) ==
    [permit EXCEPT !.end = IncrementEndTime(permit.start, permit.end, 1)]

ExtendPermit(permit, months) ==
    [permit EXCEPT !.months = @ + months, !.end = GetEndTime(permit.start, permit.months + months)]

\* The customer extends in the last fourteen days, the back office at any time.
CanExtend(permit, dateRestriction, now) ==
    /\ IsValid(permit)
    /\ IsFixedPeriod(permit)
    /\ dateRestriction => LocalDate(permit.end) <= LocalDate(At(AddDays(DateIn(now), 14), HourIn(now)))

(***************************************************************************)
(* Drafts                                                                  *)
(***************************************************************************)
MonthCountForPrimary(contract, months) ==
    IF contract = "OPEN_ENDED" THEN 1 ELSE Least(MaxMonths, Greatest(1, months))
================================================================================

------------------------------ MODULE Calendar ------------------------------
(***************************************************************************)
(* The calendar authority, app/dates.py: dates of the Berlin civil         *)
(* calendar and the arithmetic on them from which deadlines, reminders and *)
(* the escalation window follow.  Instants enter only as the day they fall *)
(* on: every comparison of the program with an instant is with the end or  *)
(* the beginning of a civil day.                                           *)
(***************************************************************************)
EXTENDS Integers, Sequences

IsLeap(year) == (year % 4 = 0 /\ year % 100 # 0) \/ year % 400 = 0

MonthLength(year, month) ==
  IF month = 2 THEN IF IsLeap(year) THEN 29 ELSE 28
  ELSE IF month \in {4, 6, 9, 11} THEN 30 ELSE 31

Months == 1..12

(* The dates, proleptic in both directions: Python's end at the year 9999. *)
Date == {d \in [year : Int, month : Months, day : 1..31] :
           d.day <= MonthLength(d.year, d.month)}

On(year, month, day) == [year |-> year, month |-> month, day |-> day]

(* Comparison of dates *)
Before(d, e) ==
  \/ d.year < e.year
  \/ d.year = e.year /\ d.month < e.month
  \/ d.year = e.year /\ d.month = e.month /\ d.day < e.day
NotAfter(d, e) == d = e \/ Before(d, e)

-----------------------------------------------------------------------------
(* Months *)

Lesser(a, b) == IF a <= b THEN a ELSE b

AddMonthsUnclamped(d, months) ==
  LET k == d.month - 1 + months
  IN  On(d.year + (k \div 12), (k % 12) + 1, d.day)

(* Shift by whole months and clamp to the last day of the target month.     *)
AddMonths(d, months) ==
  LET k     == d.month - 1 + months
      year  == d.year + (k \div 12)
      month == (k % 12) + 1
  IN  On(year, month, Lesser(d.day, MonthLength(year, month)))

LastDayOfMonth(d) == On(d.year, d.month, MonthLength(d.year, d.month))

NextFskDue(lastCheck) == AddMonths(lastCheck, 6)
NextUvvDue(inspected) == AddMonths(inspected, 12)
NextHuDue(inspected, interval) == LastDayOfMonth(AddMonths(inspected, interval))

FirstFskDue(hired)     == AddMonths(hired, 6)
FirstUvvDue(inService) == AddMonths(inService, 12)
FirstHuDue(registered) == LastDayOfMonth(AddMonths(registered, 36))

-----------------------------------------------------------------------------
(* Days.  The number of a date, as Python's date.toordinal counts: 1 is     *)
(* Monday, 1 January of the year 1.                                         *)

DaysBeforeYear(year) ==
  LET y == year - 1 IN 365 * y + (y \div 4) - (y \div 100) + (y \div 400)

DaysBeforeMonth(year, month) ==
  <<0, 31, 59, 90, 120, 151, 181, 212, 243, 273, 304, 334>>[month]
    + IF month > 2 /\ IsLeap(year) THEN 1 ELSE 0

Ordinal(d) == DaysBeforeYear(d.year) + DaysBeforeMonth(d.year, d.month) + d.day

DaysUntil(due, today) == Ordinal(due) - Ordinal(today)

(* isocalendar: weeks begin on Monday and belong to the year of their       *)
(* Thursday.                                                                *)
Monday(d) == Ordinal(d) - ((Ordinal(d) - 1) % 7)

CalendarYear(d) == d.year
IsoYear(d) ==
  LET thursday == Monday(d) + 3 IN
  IF thursday <= DaysBeforeYear(d.year) THEN d.year - 1
  ELSE IF thursday > DaysBeforeYear(d.year + 1) THEN d.year + 1
  ELSE d.year

IsoWeek(d) == ((Monday(d) + 2 - DaysBeforeYear(IsoYear(d))) \div 7) + 1

(* The civil day after d *)
Tomorrow(d) ==
  IF d.day < MonthLength(d.year, d.month) THEN On(d.year, d.month, d.day + 1)
  ELSE IF d.month < 12 THEN On(d.year, d.month + 1, 1)
  ELSE On(d.year + 1, 1, 1)

(* A date no more than 28 days later; no month is shorter. *)
DaysForward(d, days) ==
  LET over == d.day + days - MonthLength(d.year, d.month) IN
  IF over <= 0 THEN On(d.year, d.month, d.day + days)
  ELSE IF d.month < 12 THEN On(d.year, d.month + 1, over)
  ELSE On(d.year + 1, 1, over)

=============================================================================

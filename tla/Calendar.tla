------------------------------ MODULE Calendar ------------------------------
(***************************************************************************)
(* The calendar arithmetic of archive/plan.rs and archive/schedule.rs:     *)
(* days since the Unix epoch to a civil year and month and back, month     *)
(* lengths, the months before and after one, and the age of a month.       *)
(*                                                                         *)
(* Years begin in March inside the arithmetic, so that the leap day is the *)
(* last of its year; an era is 400 of them.                                *)
(***************************************************************************)
EXTENDS Integers

Era       == 146097
Shift     == 719468      \* days from 1 March 0000 to the epoch

\* The year of the era, and the day of that year, of a day of the era.
YearOfEra(doe) ==
  (doe - doe \div 1460 + doe \div 36524 - doe \div 146096) \div 365

YearStart(yoe) == 365 * yoe + yoe \div 4 - yoe \div 100

DayOfYear(doe) == doe - YearStart(YearOfEra(doe))

\* The first day of a month of the year, counted from March.
MonthStart(mp) == (153 * mp + 2) \div 5

\* civil_from_days: <<year, month>>
CivilFromDays(day) ==
  LET era == (day + Shift) \div Era
      doe == (day + Shift) % Era
      mp  == (5 * DayOfYear(doe) + 2) \div 153
      m   == IF mp < 10 THEN mp + 3 ELSE mp - 9
      y   == YearOfEra(doe) + era * 400
  IN <<IF m <= 2 THEN y + 1 ELSE y, m>>

\* days_from_civil
DaysFromCivil(year, m, d) ==
  LET y   == IF m <= 2 THEN year - 1 ELSE year
      era == y \div 400
      mp  == IF m > 2 THEN m - 3 ELSE m + 9
  IN era * Era + YearStart(y - era * 400) + MonthStart(mp) + d - 1 - Shift

\* days_in_month
DaysInMonth(year, m) ==
  CASE m \in {1, 3, 5, 7, 8, 10, 12} -> 31
    [] m \in {4, 6, 9, 11}           -> 30
    [] m = 2 -> IF (year % 4 = 0 /\ year % 100 # 0) \/ year % 400 = 0 THEN 29 ELSE 28

\* Months are compared by their place in time, as the strings "2026-08" compare.
MonthIndex(ym) == 12 * ym[1] + ym[2] - 1

PreviousMonth(ym) == IF ym[2] = 1 THEN <<ym[1] - 1, 12>> ELSE <<ym[1], ym[2] - 1>>

NextMonth(ym) == IF ym[2] = 12 THEN <<ym[1] + 1, 1>> ELSE <<ym[1], ym[2] + 1>>

\* cutoff_month: the month of `day`, and so many steps back from it.
CutoffMonth(day, back) ==
  LET step[n \in 0..back] == IF n = 0 THEN CivilFromDays(day) ELSE PreviousMonth(step[n - 1])
  IN step[back]

\* newest_day_end: the end of the newest of a month's day directories, each given by
\* the day its name says, in days since the epoch.
NewestDayEnd(ym, days) ==
  LET ends == {DaysFromCivil(ym[1], ym[2], d) + 1 : d \in days}
  IN CHOOSE e \in ends : \A f \in ends : f <= e

\* due_months: a month is whole and every day in it is at least `minAge` days old.
OldEnough(ym, days, today, minAge) ==
  /\ MonthIndex(ym) < MonthIndex(CutoffMonth(today, 0))
  /\ today - NewestDayEnd(ym, days) >= (IF minAge < 1 THEN 1 ELSE minAge)
=============================================================================

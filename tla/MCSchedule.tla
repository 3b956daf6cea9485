----------------------------- MODULE MCSchedule -----------------------------
(* Schedule around the end of a year and the end of a leap February. *)
EXTENDS Schedule

At(year, month, day, hour) == 24 * DaysFromCivil(year, month, day) + hour

MCMoment ==
  {At(2023, 12, 28, 23), At(2024, 1, 1, 0), At(2024, 2, 28, 22), At(2024, 2, 29, 23)}

MCSubmitted ==
  {[kind |-> "Off", day |-> 31, hour |-> 24, catchUp |-> TRUE],
   [kind |-> "Daily", day |-> 1, hour |-> 23, catchUp |-> TRUE],
   [kind |-> "Daily", day |-> 1, hour |-> 24, catchUp |-> TRUE],
   [kind |-> "Monthly", day |-> 28, hour |-> 23, catchUp |-> TRUE],
   [kind |-> "Monthly", day |-> 28, hour |-> 23, catchUp |-> FALSE],
   [kind |-> "Monthly", day |-> 1, hour |-> 0, catchUp |-> FALSE],
   [kind |-> "Monthly", day |-> 31, hour |-> 0, catchUp |-> TRUE]}

\* The calendar tested over an era of 400 years: the epoch is day 0, every month is as
\* long as days_in_month says, its first and its last day convert back to it, so many
\* steps back are so many months, and it is old enough only when it is over.
ASSUME CalendarTest ==
  /\ DaysFromCivil(1970, 1, 1) = 0
  /\ \A y \in 1970..2370, m \in 1..12 :
       LET next  == NextMonth(<<y, m>>)
           first == DaysFromCivil(y, m, 1)
           after == DaysFromCivil(next[1], next[2], 1)
       IN /\ after - first = DaysInMonth(y, m)
          /\ CivilFromDays(first) = <<y, m>> /\ CivilFromDays(after - 1) = <<y, m>>
          /\ MonthIndex(CutoffMonth(first, 14)) = MonthIndex(<<y, m>>) - 14
          /\ \A today \in {first, after - 1, after, after + 1} :
               OldEnough(<<y, m>>, {1, DaysInMonth(y, m)}, today, 0)
                 <=> today >= after + 1
=============================================================================

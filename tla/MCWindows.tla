------------------------------ MODULE MCWindows ------------------------------
(* Windows with three events of February 2024: in its first days, in its last week and
   on its last day; from then until the live window of two months has passed. *)
EXTENDS Windows

CONSTANTS e1, e2, e3

Hour(year, month, day, h) == 24 * DaysFromCivil(year, month, day) + h

MCAt == [e \in {e1, e2, e3} |->
           CASE e = e1 -> Hour(2024, 2, 2, 10)
             [] e = e2 -> Hour(2024, 2, 23, 0)
             [] e = e3 -> Hour(2024, 2, 29, 23)]

MCTimes ==
  {Hour(2024, 2, 2, 0), Hour(2024, 2, 3, 0), Hour(2024, 2, 17, 11), Hour(2024, 3, 1, 0),
   Hour(2024, 3, 1, 1), Hour(2024, 3, 15, 0), Hour(2024, 3, 31, 0), Hour(2024, 4, 24, 1),
   Hour(2024, 5, 1, 0)}

Span(n, unit) == [n |-> n, unit |-> unit]
Both == {"--retention", "--missing-range"}

With(retention, range, shown, after, live) ==
  [retention |-> retention, range |-> range, shown |-> shown,
   archiveAfterDays |-> after, liveWindowMonths |-> live]

MCSetup ==
  {With(Span(3650, "d"), Span(14, "d"), Both, 14, 1),
   With(Span(45, "d"), Span(20159, "m"), Both, 14, 2),
   With(Span(1080, "h"), Span(2, "w"), Both, 61, 2),
   With(Span(14, "d"), Span(7, "d"), {"--missing-range"}, 14, 1),
   With(Span(44, "d"), Span(7, "d"), Both, 14, 0),
   With(Span(3650, "d"), Span(30, "d"), Both, 1, 1),
   With(Span(3650, "d"), Span(86400, "s"), Both, 0, 1),
   With(Span(359, "h"), Span(30, "d"), {"--retention"}, 15, 1),
   With(Span(3650, "d"), Span(30, "d"), Both, 31, 1)}
=============================================================================

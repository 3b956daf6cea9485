--------------------------- MODULE CalendarProofs ---------------------------
(***************************************************************************)
(* Theorems about Calendar, for every day and every month: the day numbers *)
(* and the months of civil_from_days and days_from_civil fit each other    *)
(* and days_in_month, leap years and centuries included.                   *)
(***************************************************************************)
EXTENDS Calendar, WellFoundedInduction, TLAPS

-----------------------------------------------------------------------------
(* Eras, years and months of a year *)

\* How long a year that begins in March is: the one numbered r within an era.
YearLength(r) == (IF r = 399 THEN Era ELSE YearStart(r + 1)) - YearStart(r)

(* A day of an era falls into one of its 400 years. *)
LEMMA DayInYear ==
  ASSUME NEW n \in Int, 0 <= n, n < Era
  PROVE  /\ YearOfEra(n) \in 0..399
         /\ DayOfYear(n) \in 0..365
         /\ DayOfYear(n) < YearLength(YearOfEra(n))
<1>1. YearOfEra(n) \in 0..399
  BY Z3T(60) DEF YearOfEra, Era, YearStart
<1>2. DayOfYear(n) \in 0..365
  BY Z3T(60) DEF YearOfEra, Era, DayOfYear, YearStart
<1>3. YearOfEra(n) < 399 => n < YearStart(YearOfEra(n) + 1)
  BY Z3T(60) DEF YearOfEra, Era, YearStart
<1>4. YearStart(YearOfEra(n)) \in Int /\ YearStart(YearOfEra(n) + 1) \in Int
  BY <1>1, SMT DEF YearStart
<1> HIDE DEF YearOfEra
<1> QED
  BY <1>1, <1>2, <1>3, <1>4, SMT DEF DayOfYear, YearLength, Era

(* The year of a day is found again from where it lies in the era. *)
LEMMA YearFound ==
  ASSUME NEW r \in 0..399, NEW doy \in Int, 0 <= doy, doy < YearLength(r)
  PROVE  /\ YearOfEra(YearStart(r) + doy) = r
         /\ 0 <= YearStart(r) + doy /\ YearStart(r) + doy < Era
<1>1. YearOfEra(YearStart(r) + doy) = r
  BY Z3T(60) DEF YearOfEra, Era, YearLength, YearStart
<1>2. 0 <= YearStart(r) + doy
  BY Z3T(60) DEF YearStart
<1>3. YearStart(r) + doy < Era
  BY Z3T(60) DEF Era, YearLength, YearStart
<1> QED
  BY <1>1, <1>2, <1>3

(* Years have 365 days, or 366 when the February they end with is a leap one. *)
LEMMA YearLengths ==
  ASSUME NEW r \in 0..399
  PROVE  YearLength(r) = IF (r + 1) % 4 = 0 /\ ((r + 1) % 100 # 0 \/ (r + 1) % 400 = 0)
                         THEN 366 ELSE 365
  BY Z3T(60) DEF Era, YearLength, YearStart

LEMMA MonthOfDay ==
  ASSUME NEW doy \in 0..365
  PROVE  LET mp == (5 * doy + 2) \div 153
         IN /\ mp \in 0..11 /\ MonthStart(mp) <= doy
            /\ mp < 11 => doy < MonthStart(mp + 1)
  BY Z3T(60) DEF MonthStart

LEMMA MonthFound ==
  ASSUME NEW mp \in 0..11, NEW doy \in 0..365, MonthStart(mp) <= doy,
         mp < 11 => doy < MonthStart(mp + 1)
  PROVE  (5 * doy + 2) \div 153 = mp
  BY Z3T(60) DEF MonthStart

\* A month as the arithmetic sees it: its year from March on, and how many months
\* after March it is; and months from the months of the calendar.
Month == Int \X (1..12)

MarchYear(ym)  == IF ym[2] <= 2 THEN ym[1] - 1 ELSE ym[1]
MarchMonth(ym) == IF ym[2] > 2 THEN ym[2] - 3 ELSE ym[2] + 9

InMarchYear(era, r, mp) ==
  <<IF mp < 10 THEN r + era * 400 ELSE r + era * 400 + 1, IF mp < 10 THEN mp + 3 ELSE mp - 9>>

Parts(ym, era, r, mp) ==
  era \in Int /\ r \in 0..399 /\ mp \in 0..11 /\ ym = InMarchYear(era, r, mp)

\* The first day of a month, and the day of its year after its last.
First(ym) == DaysFromCivil(ym[1], ym[2], 1)

MonthEnd(r, mp) == IF mp < 11 THEN MonthStart(mp + 1) ELSE YearLength(r)

(* Every month has such parts, *)
LEMMA MonthParts ==
  ASSUME NEW ym \in Month
  PROVE  \E era, r, mp : Parts(ym, era, r, mp)
<1> DEFINE y   == MarchYear(ym)
           mp  == MarchMonth(ym)
           era == y \div 400
           r   == y - era * 400
<1>1. ym = <<ym[1], ym[2]>> /\ ym[1] \in Int /\ ym[2] \in 1..12
  BY DEF Month
<1>2. y \in Int /\ mp \in 0..11
  BY <1>1 DEF MarchYear, MarchMonth
<1>3. era \in Int /\ r \in 0..399
  <2> HIDE DEF y
  <2> QED
    BY <1>2, Z3T(60)
<1>4. ym[1] = (IF mp < 10 THEN y ELSE y + 1) /\ ym[2] = (IF mp < 10 THEN mp + 3 ELSE mp - 9)
  BY <1>1 DEF MarchYear, MarchMonth
<1>5. y = r + era * 400
  <2> HIDE DEF y, era
  <2> QED
    BY <1>2, <1>3
<1>6. Parts(ym, era, r, mp)
  <2> HIDE DEF y, era, r, mp
  <2> QED
    BY <1>1, <1>2, <1>3, <1>4, <1>5 DEF InMarchYear, Parts
<1> HIDE DEF y, mp, era, r
<1> QED
  BY <1>6

(* and its days are counted from them. *)
LEMMA DaysOfParts ==
  ASSUME NEW ym, NEW era, NEW r, NEW mp, Parts(ym, era, r, mp), NEW d \in Int
  PROVE  /\ ym \in Month
         /\ DaysFromCivil(ym[1], ym[2], d)
              = era * Era + YearStart(r) + MonthStart(mp) + d - 1 - Shift
         /\ YearStart(r) \in Nat /\ MonthStart(mp) \in Nat
<1>1. /\ ym[1] = (IF mp < 10 THEN r + era * 400 ELSE r + era * 400 + 1)
      /\ ym[2] = (IF mp < 10 THEN mp + 3 ELSE mp - 9)
      /\ ym \in Month
  BY DEF InMarchYear, Month, Parts
<1> USE DEF Parts
<1>2. (IF ym[2] <= 2 THEN ym[1] - 1 ELSE ym[1]) = r + era * 400
  BY <1>1
<1>3. (IF ym[2] > 2 THEN ym[2] - 3 ELSE ym[2] + 9) = mp
  BY <1>1
<1>4. (r + era * 400) \div 400 = era
  BY Z3T(60)
<1>5. (r + era * 400) - era * 400 = r
  OBVIOUS
<1>6. YearStart(r) \in Nat /\ MonthStart(mp) \in Nat
  BY Z3T(60) DEF YearStart, MonthStart
<1>7. DaysFromCivil(ym[1], ym[2], d)
        = era * Era + YearStart(r) + MonthStart(mp) + d - 1 - Shift
  <2> DEFINE y == IF ym[2] <= 2 THEN ym[1] - 1 ELSE ym[1]
             m == IF ym[2] > 2 THEN ym[2] - 3 ELSE ym[2] + 9
  <2>1. DaysFromCivil(ym[1], ym[2], d)
          = (y \div 400) * Era + YearStart(y - (y \div 400) * 400) + MonthStart(m) + d - 1 - Shift
    BY Zenon DEF DaysFromCivil
  <2>2. y \div 400 = era /\ y - (y \div 400) * 400 = r /\ m = mp
    BY <1>2, <1>3, <1>4, <1>5
  <2> HIDE DEF y, m
  <2> QED
    BY <2>1, <2>2
<1> QED
  BY <1>1, <1>6, <1>7

(* A month is as long as days_in_month says. *)
LEMMA MonthDays ==
  ASSUME NEW ym, NEW era, NEW r, NEW mp, Parts(ym, era, r, mp)
  PROVE  /\ DaysInMonth(ym[1], ym[2]) = MonthEnd(r, mp) - MonthStart(mp)
         /\ DaysInMonth(ym[1], ym[2]) \in 28..31
<1>1. /\ ym[1] = (IF mp < 10 THEN r + era * 400 ELSE r + era * 400 + 1)
      /\ ym[2] = (IF mp < 10 THEN mp + 3 ELSE mp - 9)
  BY DEF InMarchYear, Parts
<1> USE DEF Parts
<1>2. CASE mp < 11
  <2>1. ym[2] # 2 /\ DaysInMonth(ym[1], ym[2]) = IF mp \in {1, 3, 6, 8} THEN 30 ELSE 31
    BY <1>1, <1>2 DEF DaysInMonth
  <2>2. MonthStart(mp + 1) - MonthStart(mp) = IF mp \in {1, 3, 6, 8} THEN 30 ELSE 31
    BY <1>2, Z3T(60) DEF MonthStart
  <2>3. MonthEnd(r, mp) = MonthStart(mp + 1)
    BY <1>2 DEF MonthEnd
  <2>4. DaysInMonth(ym[1], ym[2]) \in 28..31
    BY <2>1
  <2> QED
    BY <2>1, <2>2, <2>3, <2>4, Zenon
<1>3. CASE mp = 11
  <2>1. ym[1] = r + 1 + era * 400 /\ ym[2] = 2
    BY <1>1, <1>3
  <2>2. /\ ym[1] % 4 = (r + 1) % 4 /\ ym[1] % 100 = (r + 1) % 100
        /\ ym[1] % 400 = (r + 1) % 400
    BY <2>1, Z3T(60)
  <2>3. DaysInMonth(ym[1], ym[2]) = YearLength(r) - 337
    BY <2>1, <2>2, YearLengths DEF DaysInMonth
  <2>4. MonthStart(11) = 337
    BY DEF MonthStart
  <2>5. MonthEnd(r, mp) = YearLength(r) /\ MonthStart(mp) = 337
    BY <1>3, <2>4, SMT DEF MonthEnd
  <2>6. YearLength(r) \in {365, 366}
    BY YearLengths
  <2> QED
    BY <2>3, <2>5, <2>6
<1> QED
  BY <1>2, <1>3

(* The month a day is in begins at or before it, and ends after it. *)
THEOREM MonthContains ==
  ASSUME NEW day \in Int
  PROVE  LET ym == CivilFromDays(day)
         IN /\ ym \in Month /\ First(ym) \in Int
            /\ First(ym) <= day /\ day < First(ym) + DaysInMonth(ym[1], ym[2])
<1> DEFINE era == (day + Shift) \div Era
           doe == (day + Shift) % Era
           r   == YearOfEra(doe)
           doy == DayOfYear(doe)
           mp  == (5 * doy + 2) \div 153
           ym  == InMarchYear(era, r, mp)
<1>1. era \in Int /\ doe \in Int /\ 0 <= doe /\ doe < Era /\ day = era * Era + doe - Shift
  BY Z3T(60) DEF Era, Shift
<1>2. r \in 0..399 /\ doy \in 0..365 /\ doy < YearLength(r) /\ doe = YearStart(r) + doy
  <2>1. r \in 0..399 /\ doy \in 0..365 /\ doy < YearLength(r)
    BY <1>1, DayInYear
  <2>2. doy = doe - YearStart(r)
    BY DEF DayOfYear
  <2>3. YearStart(r) \in Int
    <3> HIDE DEF r
    <3> QED
      BY <2>1 DEF YearStart
  <2> HIDE DEF doe, r, doy
  <2> QED
    BY <1>1, <2>1, <2>2, <2>3
<1>3. mp \in 0..11 /\ MonthStart(mp) <= doy /\ doy < MonthEnd(r, mp)
  <2>1. mp \in 0..11 /\ MonthStart(mp) <= doy /\ (mp < 11 => doy < MonthStart(mp + 1))
    BY <1>2, MonthOfDay
  <2> HIDE DEF mp, doy, r
  <2> QED
    BY <1>2, <2>1 DEF MonthEnd
<1>4. CivilFromDays(day) = ym
  <2>1. (IF mp < 10 THEN mp + 3 ELSE mp - 9) <= 2 <=> ~(mp < 10)
    <3> HIDE DEF mp
    <3> QED
      BY <1>3
  <2>2. CivilFromDays(day)
          = <<IF (IF mp < 10 THEN mp + 3 ELSE mp - 9) <= 2 THEN r + era * 400 + 1
                ELSE r + era * 400,
              IF mp < 10 THEN mp + 3 ELSE mp - 9>>
    BY Zenon DEF CivilFromDays
  <2> HIDE DEF mp, r, era
  <2> QED
    BY <2>1, <2>2 DEF InMarchYear
<1> HIDE DEF era, doe, r, doy, mp
<1>5. /\ ym \in Month /\ First(ym) = era * Era + YearStart(r) + MonthStart(mp) - Shift
      /\ YearStart(r) \in Nat /\ MonthStart(mp) \in Nat
      /\ era * Era \in Int /\ Shift \in Int
  <2>1. /\ ym \in Month /\ YearStart(r) \in Nat /\ MonthStart(mp) \in Nat
        /\ First(ym) = era * Era + YearStart(r) + MonthStart(mp) + 1 - 1 - Shift
    <3>1. Parts(ym, era, r, mp)
      BY <1>1, <1>2, <1>3 DEF Parts
    <3> HIDE DEF ym
    <3> QED
      BY <3>1, DaysOfParts DEF First
  <2> QED
    BY <1>1, <2>1 DEF Era, Shift
<1>6. DaysInMonth(ym[1], ym[2]) = MonthEnd(r, mp) - MonthStart(mp)
      /\ DaysInMonth(ym[1], ym[2]) \in 28..31
  <2>1. Parts(ym, era, r, mp)
    BY <1>1, <1>2, <1>3 DEF Parts
  <2> HIDE DEF ym
  <2> QED
    BY <2>1, MonthDays
<1>7. MonthEnd(r, mp) = DaysInMonth(ym[1], ym[2]) + MonthStart(mp)
  <2>1. MonthEnd(r, mp) \in Int
    BY <1>2, <1>3, YearLengths DEF MonthEnd, MonthStart
  <2> HIDE DEF ym
  <2> QED
    BY <1>5, <1>6, <2>1
<1> HIDE DEF ym
<1> QED
  BY <1>1, <1>2, <1>3, <1>4, <1>5, <1>6, <1>7

(* A day written as a civil date is read back as a day of the same month. *)
THEOREM RoundTrip ==
  ASSUME NEW ym \in Month, NEW d \in 1..DaysInMonth(ym[1], ym[2])
  PROVE  CivilFromDays(DaysFromCivil(ym[1], ym[2], d)) = ym
<1>1. PICK era, r, mp : Parts(ym, era, r, mp)
  BY MonthParts
<1>11. era \in Int /\ r \in 0..399 /\ mp \in 0..11 /\ ym = InMarchYear(era, r, mp)
  BY <1>1 DEF Parts
<1> DEFINE doy == MonthStart(mp) + d - 1
           doe == YearStart(r) + doy
           day == DaysFromCivil(ym[1], ym[2], d)
<1>2. d \in Int /\ 1 <= d /\ d <= MonthEnd(r, mp) - MonthStart(mp)
  <2>1. DaysInMonth(ym[1], ym[2]) = MonthEnd(r, mp) - MonthStart(mp)
        /\ DaysInMonth(ym[1], ym[2]) \in 28..31
    BY <1>1, MonthDays
  <2> QED
    BY <2>1
<1>3. /\ day = era * Era + doe - Shift
      /\ YearStart(r) \in Nat /\ MonthStart(mp) \in Nat
  <2>1. /\ day = era * Era + YearStart(r) + MonthStart(mp) + d - 1 - Shift
        /\ YearStart(r) \in Nat /\ MonthStart(mp) \in Nat
    BY <1>1, <1>2, DaysOfParts
  <2> HIDE DEF day
  <2> QED
    BY <1>11, <1>2, <2>1 DEF Era, Shift
<1>4. /\ doy \in Int /\ MonthStart(mp) <= doy
      /\ (mp < 11 => doy < MonthStart(mp + 1)) /\ doy < YearLength(r) /\ doy \in 0..365
  <2>1. mp < 11 => MonthStart(mp + 1) <= 337 /\ MonthStart(mp + 1) \in Nat
    BY <1>11, Z3T(60) DEF MonthStart
  <2>2. YearLength(r) \in {365, 366}
    BY <1>11, YearLengths
  <2>3. doy < MonthEnd(r, mp) /\ doy \in Int /\ MonthStart(mp) <= doy
    <3>1. MonthEnd(r, mp) \in Int
      BY <1>11, <2>1, <2>2 DEF MonthEnd
    <3> QED
      BY <1>11, <1>2, <1>3, <3>1
  <2> HIDE DEF doy
  <2> QED
    BY <1>11, <1>3, <2>1, <2>2, <2>3 DEF MonthEnd
<1>5. YearOfEra(doe) = r /\ 0 <= doe /\ doe < Era
  <2>1. doy \in Int /\ 0 <= doy /\ doy < YearLength(r)
    BY <1>11, <1>4
  <2> HIDE DEF doy
  <2> QED
    BY <1>11, <2>1, YearFound
<1>6. DayOfYear(doe) = doy
  <2>1. DayOfYear(doe) = doe - YearStart(r)
    BY <1>11, <1>5 DEF DayOfYear
  <2> HIDE DEF doy
  <2> QED
    BY <1>11, <1>3, <1>4, <2>1
<1>7. (5 * doy + 2) \div 153 = mp
  <2> HIDE DEF doy
  <2> QED
    BY <1>11, <1>4, MonthFound
<1>8. (day + Shift) \div Era = era /\ (day + Shift) % Era = doe
  <2>1. doe \in Int
    BY <1>11, <1>3, <1>4
  <2> HIDE DEF doe, day
  <2> QED
    BY <1>11, <1>3, <1>5, <2>1, Z3T(60) DEF Era, Shift
<1> HIDE DEF doy, doe, day
<1>9. CivilFromDays(day) = <<IF (IF mp < 10 THEN mp + 3 ELSE mp - 9) <= 2
                               THEN r + era * 400 + 1 ELSE r + era * 400,
                             IF mp < 10 THEN mp + 3 ELSE mp - 9>>
  <2> DEFINE q == (day + Shift) \div Era
             e == (day + Shift) % Era
             p == (5 * DayOfYear(e) + 2) \div 153
  <2>1. CivilFromDays(day) = <<IF (IF p < 10 THEN p + 3 ELSE p - 9) <= 2
                                 THEN YearOfEra(e) + q * 400 + 1 ELSE YearOfEra(e) + q * 400,
                               IF p < 10 THEN p + 3 ELSE p - 9>>
    BY Zenon DEF CivilFromDays
  <2>2. q = era /\ e = doe
    BY <1>11, <1>8
  <2>3. p = mp
    BY <1>11, <1>6, <1>7, <2>2
  <2> HIDE DEF q, e, p
  <2> QED
    BY <1>11, <1>5, <2>1, <2>2, <2>3
<1>10. (IF mp < 10 THEN mp + 3 ELSE mp - 9) <= 2 <=> ~(mp < 10)
  BY <1>11
<1> QED
  BY <1>11, <1>1, <1>9, <1>10 DEF InMarchYear, day

(* The next month begins where this one ends. *)
THEOREM NextMonthBegins ==
  ASSUME NEW ym \in Month
  PROVE  /\ NextMonth(ym) \in Month
         /\ First(NextMonth(ym)) = First(ym) + DaysInMonth(ym[1], ym[2])
         /\ First(ym) \in Int /\ DaysInMonth(ym[1], ym[2]) \in 28..31
<1>1. PICK era, r, mp : Parts(ym, era, r, mp)
  BY MonthParts
<1>7. era \in Int /\ r \in 0..399 /\ mp \in 0..11 /\ ym = InMarchYear(era, r, mp)
  BY <1>1 DEF Parts
<1>2. /\ First(ym) = era * Era + YearStart(r) + MonthStart(mp) - Shift
      /\ YearStart(r) \in Nat /\ MonthStart(mp) \in Nat
      /\ era * Era \in Int /\ Shift \in Int
  <2>1. /\ First(ym) = era * Era + YearStart(r) + MonthStart(mp) + 1 - 1 - Shift
        /\ YearStart(r) \in Nat /\ MonthStart(mp) \in Nat
    BY <1>1, DaysOfParts DEF First
  <2> QED
    BY <1>7, <2>1 DEF Era, Shift
<1>3. /\ DaysInMonth(ym[1], ym[2]) = MonthEnd(r, mp) - MonthStart(mp)
      /\ DaysInMonth(ym[1], ym[2]) \in 28..31
  BY <1>1, MonthDays
<1> DEFINE next == NextMonth(ym)
<1>4. CASE mp < 11
  <2>1. NextMonth(ym) = InMarchYear(era, r, mp + 1)
    BY <1>7, <1>1, <1>4 DEF NextMonth, InMarchYear
  <2>2. /\ First(NextMonth(ym)) = era * Era + YearStart(r) + MonthStart(mp + 1) + 1 - 1 - Shift
        /\ MonthStart(mp + 1) \in Nat /\ NextMonth(ym) \in Month
    <3>1. Parts(NextMonth(ym), era, r, mp + 1)
      BY <1>7, <1>4, <1>7, <2>1 DEF Parts
    <3> QED
      BY <3>1, DaysOfParts DEF First
  <2> QED
    BY <1>7, <1>2, <1>3, <1>4, <2>2 DEF MonthEnd
<1>5. CASE mp = 11 /\ r < 399
  <2>1. NextMonth(ym) = InMarchYear(era, r + 1, 0)
    BY <1>7, <1>1, <1>5 DEF NextMonth, InMarchYear
  <2>2. /\ First(NextMonth(ym)) = era * Era + YearStart(r + 1) + MonthStart(0) + 1 - 1 - Shift
        /\ YearStart(r + 1) \in Nat /\ NextMonth(ym) \in Month
    <3>1. Parts(NextMonth(ym), era, r + 1, 0)
      BY <1>7, <1>5, <1>7, <2>1 DEF Parts
    <3> QED
      BY <3>1, DaysOfParts DEF First
  <2>3. MonthStart(0) = 0
    BY DEF MonthStart
  <2> QED
    BY <1>7, <1>2, <1>3, <1>5, <2>2, <2>3 DEF MonthEnd, YearLength
<1>6. CASE mp = 11 /\ r = 399
  <2>1. NextMonth(ym) = InMarchYear(era + 1, 0, 0)
    BY <1>7, <1>1, <1>6 DEF NextMonth, InMarchYear
  <2>2. /\ First(NextMonth(ym)) = (era + 1) * Era + YearStart(0) + MonthStart(0) + 1 - 1 - Shift
        /\ NextMonth(ym) \in Month
    <3>1. Parts(NextMonth(ym), era + 1, 0, 0)
      BY <1>7, <2>1 DEF Parts
    <3> QED
      BY <3>1, DaysOfParts DEF First
  <2>3. MonthStart(0) = 0 /\ YearStart(0) = 0
    BY DEF MonthStart, YearStart
  <2>4. (era + 1) * Era = era * Era + Era
    BY <1>7 DEF Era
  <2> QED
    BY <1>7, <1>2, <1>3, <1>6, <2>2, <2>3, <2>4 DEF MonthEnd, YearLength, Era
<1> QED
  BY <1>7, <1>2, <1>3, <1>4, <1>5, <1>6

(* The month before the next is this one, and the next after the previous. *)
LEMMA MonthBeforeNext ==
  ASSUME NEW ym \in Month
  PROVE  /\ PreviousMonth(NextMonth(ym)) = ym
         /\ PreviousMonth(ym) \in Month /\ NextMonth(PreviousMonth(ym)) = ym
<1>1. ym = <<ym[1], ym[2]>> /\ ym[1] \in Int /\ ym[2] \in 1..12
  BY DEF Month
<1> QED
  BY <1>1 DEF NextMonth, PreviousMonth, Month

(* The days of a month are counted from its first. *)
LEMMA DayInMonth ==
  ASSUME NEW ym \in Month, NEW d \in Int
  PROVE  DaysFromCivil(ym[1], ym[2], d) = First(ym) + d - 1
<1>1. PICK era, r, mp : Parts(ym, era, r, mp)
  BY MonthParts
<1>2. era \in Int /\ era * Era \in Int /\ Shift \in Int
  BY <1>1 DEF Parts, Era, Shift
<1>3. /\ DaysFromCivil(ym[1], ym[2], d)
           = era * Era + YearStart(r) + MonthStart(mp) + d - 1 - Shift
      /\ First(ym) = era * Era + YearStart(r) + MonthStart(mp) + 1 - 1 - Shift
      /\ YearStart(r) \in Nat /\ MonthStart(mp) \in Nat
  BY <1>1, DaysOfParts DEF First
<1> QED
  BY <1>2, <1>3

(* So a day between the first of a month and the first of the next is in that month. *)
LEMMA DayReadBack ==
  ASSUME NEW ym \in Month, NEW day \in Int, First(ym) <= day,
         day < First(ym) + DaysInMonth(ym[1], ym[2])
  PROVE  CivilFromDays(day) = ym
<1> DEFINE d == day - First(ym) + 1
<1>1. First(ym) \in Int /\ DaysInMonth(ym[1], ym[2]) \in 28..31
  BY NextMonthBegins
<1>2. d \in 1..DaysInMonth(ym[1], ym[2]) /\ d \in Int
  BY <1>1
<1>3. day = First(ym) + d - 1
  BY <1>1
<1> HIDE DEF d
<1>4. DaysFromCivil(ym[1], ym[2], d) = day
  BY <1>2, <1>3, DayInMonth
<1> QED
  BY <1>2, <1>4, RoundTrip
(* Months are told apart by their place in time, *)
LEMMA IndexOfMonth ==
  ASSUME NEW ym \in Month, NEW other \in Month
  PROVE  /\ MonthIndex(ym) \in Int
         /\ MonthIndex(ym) = MonthIndex(other) => ym = other
<1>1. /\ ym = <<ym[1], ym[2]>> /\ ym[1] \in Int /\ ym[2] \in 1..12
      /\ other = <<other[1], other[2]>> /\ other[1] \in Int /\ other[2] \in 1..12
  BY DEF Month
<1> QED
  BY <1>1 DEF MonthIndex

(* and a later one begins no sooner than an earlier one ends. *)
LEMMA MonthsApart ==
  ASSUME NEW ym \in Month, NEW other \in Month, MonthIndex(ym) < MonthIndex(other)
  PROVE  First(ym) + DaysInMonth(ym[1], ym[2]) <= First(other)
<1>1. PICK era, r, mp : Parts(ym, era, r, mp)
  BY MonthParts
<1>2. PICK e, q, p : Parts(other, e, q, p)
  BY MonthParts
<1>3. /\ era \in Int /\ r \in 0..399 /\ mp \in 0..11
      /\ e \in Int /\ q \in 0..399 /\ p \in 0..11
  BY <1>1, <1>2 DEF Parts
<1>4. /\ MonthIndex(ym) = 4800 * era + 12 * r + mp + 2
      /\ MonthIndex(other) = 4800 * e + 12 * q + p + 2
  BY <1>1, <1>2, <1>3 DEF Parts, InMarchYear, MonthIndex
<1>5. /\ First(ym) = era * Era + YearStart(r) + MonthStart(mp) - Shift
      /\ First(other) = e * Era + YearStart(q) + MonthStart(p) - Shift
      /\ DaysInMonth(ym[1], ym[2]) = MonthEnd(r, mp) - MonthStart(mp)
      /\ {YearStart(r), YearStart(q), MonthStart(mp), MonthStart(p)} \subseteq Nat
  <2>1. /\ First(ym) = era * Era + YearStart(r) + MonthStart(mp) + 1 - 1 - Shift
        /\ YearStart(r) \in Nat /\ MonthStart(mp) \in Nat
    BY <1>1, DaysOfParts DEF First
  <2>2. /\ First(other) = e * Era + YearStart(q) + MonthStart(p) + 1 - 1 - Shift
        /\ YearStart(q) \in Nat /\ MonthStart(p) \in Nat
    BY <1>2, DaysOfParts DEF First
  <2> QED
    BY <1>1, <1>3, <2>1, <2>2, MonthDays DEF Era, Shift
<1>6. MonthEnd(r, mp) \in Nat /\ MonthEnd(r, mp) <= YearLength(r)
  BY <1>3, YearLengths DEF MonthEnd, MonthStart
<1>7. YearLength(r) \in Nat /\ YearStart(r) + YearLength(r) <= Era
  BY <1>3, Z3T(60) DEF YearLength, YearStart, Era
<1>8. CASE era < e
  <2>1. era * Era + Era <= e * Era
    BY <1>3, <1>8 DEF Era
  <2> QED
    BY <1>3, <1>5, <1>6, <1>7, <2>1 DEF Era, Shift
<1>9. CASE era = e /\ r < q
  <2>1. YearStart(r) + YearLength(r) <= YearStart(q)
    BY <1>3, <1>9, Z3T(60) DEF YearLength, YearStart
  <2> QED
    BY <1>3, <1>5, <1>6, <1>7, <1>9, <2>1 DEF Era, Shift
<1>10. CASE era = e /\ r = q /\ mp < p
  <2>1. MonthEnd(r, mp) <= MonthStart(p)
    BY <1>3, <1>10 DEF MonthEnd, MonthStart
  <2> QED
    BY <1>3, <1>5, <1>6, <1>10, <2>1 DEF Era, Shift
<1> QED
  BY <1>3, <1>4, <1>8, <1>9, <1>10

(* So the months of days are in the days' order. *)
LEMMA MonthsInOrder ==
  ASSUME NEW a \in Int, NEW b \in Int, a <= b
  PROVE  MonthIndex(CivilFromDays(a)) <= MonthIndex(CivilFromDays(b))
<1> DEFINE A == CivilFromDays(a)
           B == CivilFromDays(b)
<1>1. /\ A \in Month /\ First(A) \in Int /\ First(A) <= a
      /\ B \in Month /\ First(B) \in Int /\ b < First(B) + DaysInMonth(B[1], B[2])
  BY MonthContains
<1>2. DaysInMonth(B[1], B[2]) \in Int
  BY <1>1, NextMonthBegins
<1>3. MonthIndex(A) \in Int /\ MonthIndex(B) \in Int
  BY <1>1, IndexOfMonth
<1> HIDE DEF A, B
<1>4. ~(MonthIndex(B) < MonthIndex(A))
  BY <1>1, <1>2, MonthsApart
<1> QED
  BY <1>3, <1>4 DEF A, B

(* Two days of one month are at most 30 apart. *)
LEMMA MonthIsShort ==
  ASSUME NEW a \in Int, NEW b \in Int, CivilFromDays(a) = CivilFromDays(b)
  PROVE  b - a <= 30
<1> DEFINE ym == CivilFromDays(a)
<1>1. /\ ym \in Month /\ First(ym) \in Int /\ First(ym) <= a
      /\ b < First(ym) + DaysInMonth(ym[1], ym[2])
  BY MonthContains
<1>2. DaysInMonth(ym[1], ym[2]) \in 28..31
  BY <1>1, NextMonthBegins
<1> HIDE DEF ym
<1> QED
  BY <1>1, <1>2

(* No step back from a day's month is that month. *)
LEMMA MonthNow ==
  ASSUME NEW day
  PROVE  CutoffMonth(day, 0) = CivilFromDays(day)
<1> DEFINE step[n \in 0..0] ==
             IF n = 0 THEN CivilFromDays(day) ELSE PreviousMonth(step[n - 1])
<1>1. step = [n \in 0..0 |-> IF n = 0 THEN CivilFromDays(day) ELSE PreviousMonth(step[n - 1])]
  <2> DEFINE g == [n \in 0..0 |-> CivilFromDays(day)]
  <2>1. g = [n \in 0..0 |-> IF n = 0 THEN CivilFromDays(day) ELSE PreviousMonth(g[n - 1])]
    OBVIOUS
  <2> QED
    BY <2>1
<1>2. step[0] = CivilFromDays(day)
  BY <1>1
<1> QED
  BY <1>2 DEF CutoffMonth

(* Of some numbers none of which is beyond a bound, one is the greatest. *)
LEMMA Greatest ==
  ASSUME NEW S, S \subseteq Int, S # {}, NEW bound \in Int, \A s \in S : s <= bound
  PROVE  \E t \in S : \A u \in S : u <= t
<1> DEFINE T == {k \in Nat : bound - k \in S}
<1>1. \A s \in S : bound - s \in Nat /\ bound - (bound - s) = s
  OBVIOUS
<1>2. PICK s \in S : TRUE
  OBVIOUS
<1>3. T \subseteq Nat /\ T # {}
  BY <1>1, <1>2
<1>4. PICK k \in T : \A m \in T : ~(<<m, k>> \in OpToRel(<, Nat))
  BY <1>3, NatLessThanWellFounded, WFMin
<1>5. \A m \in T : ~(m < k)
  BY <1>4 DEF OpToRel
<1>6. ASSUME NEW u \in S PROVE u <= bound - k
  <2>1. bound - u \in Nat /\ bound - (bound - u) = u
    BY <1>1
  <2>2. ~(bound - u < k)
    BY <1>5, <2>1
  <2> QED
    BY <2>1, <2>2
<1> QED
  BY <1>6

(* A month's newest day ends where the day after it begins. *)
LEMMA NewestDay ==
  ASSUME NEW ym \in Month, NEW days, days \subseteq Int, days # {},
         \A d \in days : d <= 31
  PROVE  \E t \in days : /\ NewestDayEnd(ym, days) = First(ym) + t
                         /\ \A d \in days : d <= t
<1>1. PICK t \in days : \A d \in days : d <= t
  <2>1. 31 \in Int
    OBVIOUS
  <2> QED
    BY <2>1, Greatest
<1> DEFINE ends == {DaysFromCivil(ym[1], ym[2], d) + 1 : d \in days}
<1>2. First(ym) \in Int
  BY NextMonthBegins
<1>3. \A d \in days : DaysFromCivil(ym[1], ym[2], d) + 1 = First(ym) + d
  BY <1>2, DayInMonth
<1>4. ends = {First(ym) + d : d \in days}
  BY <1>3
<1>5. First(ym) + t \in ends /\ \A f \in ends : f <= First(ym) + t
  BY <1>1, <1>2, <1>4
<1>6. \A e \in ends : (\A f \in ends : f <= e) => e = First(ym) + t
  BY <1>2, <1>4, <1>5
<1>7. NewestDayEnd(ym, days) = CHOOSE e \in ends : \A f \in ends : f <= e
  BY DEF NewestDayEnd
<1> HIDE DEF ends
<1>8. NewestDayEnd(ym, days) = First(ym) + t
  BY <1>5, <1>6, <1>7
<1> QED
  BY <1>1, <1>8

=============================================================================

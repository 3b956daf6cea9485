---------------------------- MODULE ScheduleProofs ----------------------------
(***************************************************************************)
(* Theorems about Schedule, for any schedules users submit, any moments,   *)
(* any faults, and about Windows, for any events, moments and settings:    *)
(* both on the calendar of CalendarProofs.                                 *)
(***************************************************************************)
EXTENDS Schedule, Windows, CalendarProofs

-----------------------------------------------------------------------------
(* Slots *)

(* A monthly slot lies inside its month, on a day that reads back as that month. *)
LEMMA MonthSlotInMonth ==
  ASSUME NEW s \in [kind : {"Off", "Daily", "Monthly"}, day : Nat, hour : Nat,
                    catchUp : BOOLEAN],
         NEW ym \in Month
  PROVE  /\ MonthSlot(ym, s) \in Int
         /\ 24 * First(ym) <= MonthSlot(ym, s)
         /\ MonthSlot(ym, s) < 24 * First(NextMonth(ym))
<1> DEFINE last == DaysInMonth(ym[1], ym[2])
           day  == IF s.day < 1 THEN 1 ELSE IF s.day > last THEN last ELSE s.day
<1>1. /\ First(NextMonth(ym)) = First(ym) + last
      /\ First(ym) \in Int /\ last \in 28..31
  BY NextMonthBegins
<1>2. s.day \in Nat /\ s.hour \in Nat
  OBVIOUS
<1>3. day \in 1..last
  <2> HIDE DEF last
  <2> QED
    BY <1>1, <1>2
<1>4. Hour(s) \in 0..23
  BY <1>2 DEF Hour
<1>5. MonthSlot(ym, s) = 24 * DaysFromCivil(ym[1], ym[2], day) + Hour(s)
  BY Zenon DEF MonthSlot
<1> HIDE DEF last, day
<1>6. DaysFromCivil(ym[1], ym[2], day) = First(ym) + day - 1
  BY <1>1, <1>3, DayInMonth
<1> QED
  BY <1>1, <1>3, <1>4, <1>5, <1>6

(* The slot of a month is the last one from its moment until the next month's. *)
LEMMA SlotUntilNext ==
  ASSUME NEW s \in [kind : {"Off", "Daily", "Monthly"}, day : Nat, hour : Nat,
                    catchUp : BOOLEAN], s.kind # "Daily",
         NEW ym \in Month, NEW t \in Int,
         MonthSlot(ym, s) <= t, t < MonthSlot(NextMonth(ym), s)
  PROVE  LastSlot(s, t) = MonthSlot(ym, s)
<1> DEFINE day  == t \div 24
           next == NextMonth(ym)
<1>1. day \in Int /\ 24 * day <= t /\ t < 24 * day + 24
  BY Z3T(60)
<1>2. /\ next \in Month /\ First(next) = First(ym) + DaysInMonth(ym[1], ym[2])
      /\ First(ym) \in Int /\ DaysInMonth(ym[1], ym[2]) \in 28..31
  BY NextMonthBegins
<1>3. /\ NextMonth(next) \in Month
      /\ First(NextMonth(next)) = First(next) + DaysInMonth(next[1], next[2])
      /\ First(next) \in Int /\ DaysInMonth(next[1], next[2]) \in 28..31
  BY <1>2, NextMonthBegins
<1>4. /\ 24 * First(ym) <= MonthSlot(ym, s) /\ MonthSlot(ym, s) \in Int
      /\ MonthSlot(next, s) < 24 * First(NextMonth(next)) /\ MonthSlot(next, s) \in Int
  BY <1>2, MonthSlotInMonth
<1> HIDE DEF next, day
<1>5. First(ym) <= day /\ day < First(NextMonth(next))
  BY <1>1, <1>2, <1>3, <1>4 DEF next
<1>6. CASE day < First(next)
  <2>1. CivilFromDays(day) = ym
    BY <1>1, <1>2, <1>5, <1>6, DayReadBack
  <2> QED
    BY <2>1, Zenon DEF LastSlot, day
<1>7. CASE First(next) <= day
  <2>1. CivilFromDays(day) = next
    BY <1>1, <1>2, <1>3, <1>5, <1>7, DayReadBack
  <2>2. ~(MonthSlot(next, s) <= t)
    BY <1>4 DEF next
  <2>3. PreviousMonth(next) = ym
    BY MonthBeforeNext DEF next
  <2> QED
    BY <2>1, <2>2, <2>3, Zenon DEF LastSlot, day
<1> QED
  BY <1>1, <1>2, <1>6, <1>7

(* Every moment lies between the slots of two months in a row, and next_run_after *)
(* is the second of them.                                                        *)
LEMMA BetweenSlots ==
  ASSUME NEW s \in [kind : {"Off", "Daily", "Monthly"}, day : Nat, hour : Nat,
                    catchUp : BOOLEAN], s.kind # "Daily",
         NEW t \in Int
  PROVE  \E ym \in Month : /\ MonthSlot(ym, s) <= t /\ t < MonthSlot(NextMonth(ym), s)
                           /\ NextSlot(s, t) = MonthSlot(NextMonth(ym), s)
<1> DEFINE day == t \div 24
           ym  == CivilFromDays(day)
<1>1. day \in Int /\ 24 * day <= t /\ t < 24 * day + 24
  BY Z3T(60)
<1> HIDE DEF day
<1>2. /\ ym \in Month /\ First(ym) \in Int
      /\ First(ym) <= day /\ day < First(ym) + DaysInMonth(ym[1], ym[2])
  BY <1>1, MonthContains
<1>3. NextSlot(s, t) = IF MonthSlot(ym, s) > t THEN MonthSlot(ym, s)
                       ELSE MonthSlot(NextMonth(ym), s)
  BY Zenon DEF NextSlot, day
<1> HIDE DEF ym
<1>4. /\ NextMonth(ym) \in Month
      /\ First(NextMonth(ym)) = First(ym) + DaysInMonth(ym[1], ym[2])
      /\ DaysInMonth(ym[1], ym[2]) \in 28..31
  BY <1>2, NextMonthBegins
<1>5. /\ PreviousMonth(ym) \in Month /\ NextMonth(PreviousMonth(ym)) = ym
  BY <1>2, MonthBeforeNext
<1>6. CASE MonthSlot(ym, s) > t
  <2>1. /\ MonthSlot(PreviousMonth(ym), s) \in Int
        /\ MonthSlot(PreviousMonth(ym), s) < 24 * First(ym)
    BY <1>5, MonthSlotInMonth
  <2>2. MonthSlot(PreviousMonth(ym), s) <= t /\ t < MonthSlot(ym, s)
    <3>1. MonthSlot(ym, s) \in Int
      BY <1>2, MonthSlotInMonth
    <3> QED
      BY <1>1, <1>2, <1>6, <2>1, <3>1
  <2> QED
    BY <1>3, <1>5, <1>6, <2>2
<1>7. CASE ~(MonthSlot(ym, s) > t)
  <2>1. MonthSlot(ym, s) \in Int
    BY <1>2, MonthSlotInMonth
  <2>2. /\ MonthSlot(NextMonth(ym), s) \in Int
        /\ 24 * First(NextMonth(ym)) <= MonthSlot(NextMonth(ym), s)
    BY <1>4, MonthSlotInMonth
  <2>3. MonthSlot(ym, s) <= t /\ t < MonthSlot(NextMonth(ym), s)
    BY <1>1, <1>2, <1>4, <1>7, <2>1, <2>2
  <2> QED
    BY <1>2, <1>3, <1>7, <2>3
<1> QED
  BY <1>6, <1>7

(* A daily slot is the last one for the 24 hours from it, and next_run_after is the *)
(* end of them.                                                                     *)
LEMMA DailySlots ==
  ASSUME NEW s \in [kind : {"Off", "Daily", "Monthly"}, day : Nat, hour : Nat,
                    catchUp : BOOLEAN], s.kind = "Daily",
         NEW t \in Int
  PROVE  /\ LastSlot(s, t) \in Int /\ LastSlot(s, t) <= t
         /\ NextSlot(s, t) = LastSlot(s, t) + 24 /\ t < NextSlot(s, t)
         /\ \A u \in Int : LastSlot(s, t) <= u /\ u < LastSlot(s, t) + 24
                             => LastSlot(s, u) = LastSlot(s, t)
         /\ LastSlot(s, NextSlot(s, t)) = NextSlot(s, t)
<1> DEFINE h == Hour(s)
<1>1. h \in 0..23
  BY DEF Hour
<1>3. ASSUME NEW u \in Int
      PROVE  /\ LastSlot(s, u) \in Int /\ LastSlot(s, u) <= u
             /\ u < LastSlot(s, u) + 24 /\ NextSlot(s, u) = LastSlot(s, u) + 24
             /\ \E k \in Int : LastSlot(s, u) = 24 * k + h
  <2> DEFINE q == u \div 24
  <2>1. q \in Int /\ 24 * q <= u /\ u < 24 * q + 24
    BY Z3T(60)
  <2>2. LastSlot(s, u) = IF 24 * q + h <= u THEN 24 * q + h ELSE 24 * q + h - 24
    BY <1>1, <2>1, Z3T(30) DEF LastSlot
  <2>7. NextSlot(s, u) = IF 24 * q + h > u THEN 24 * q + h ELSE 24 * q + h + 24
    BY DEF NextSlot
  <2> HIDE DEF q, h
  <2>3. /\ LastSlot(s, u) \in Int /\ LastSlot(s, u) <= u
        /\ u < LastSlot(s, u) + 24 /\ NextSlot(s, u) = LastSlot(s, u) + 24
    BY <1>1, <2>1, <2>2, <2>7
  <2>4. LastSlot(s, u) = 24 * q + h \/ LastSlot(s, u) = 24 * (q - 1) + h
    BY <1>1, <2>1, <2>2
  <2>5. q \in Int /\ q - 1 \in Int
    BY <2>1
  <2>6. \E k \in Int : LastSlot(s, u) = 24 * k + h
    BY <2>4, <2>5, Zenon
  <2> QED
    BY <2>3, <2>6
<1> HIDE DEF h
<1>4. ASSUME NEW u \in Int, NEW k \in Int, 24 * k + h <= u, u < 24 * k + h + 24
      PROVE  LastSlot(s, u) = 24 * k + h
  <2>1. PICK j \in Int : LastSlot(s, u) = 24 * j + h
    BY <1>3
  <2>2. LastSlot(s, u) <= u /\ u < LastSlot(s, u) + 24
    BY <1>3
  <2> QED
    BY <1>1, <1>4, <2>1, <2>2
<1>5. PICK k \in Int : LastSlot(s, t) = 24 * k + h
  BY <1>3
<1>6. ASSUME NEW u \in Int, LastSlot(s, t) <= u, u < LastSlot(s, t) + 24
      PROVE  LastSlot(s, u) = LastSlot(s, t)
  BY <1>4, <1>5, <1>6
<1>7. LastSlot(s, NextSlot(s, t)) = NextSlot(s, t)
  <2> DEFINE j    == k + 1
             next == NextSlot(s, t)
  <2>1. next = 24 * k + h + 24 /\ next \in Int
    BY <1>1, <1>3, <1>5
  <2>7. /\ next = 24 * j + h /\ next \in Int
        /\ j \in Int /\ 24 * j + h <= next /\ next < 24 * j + h + 24
    <3> HIDE DEF next
    <3> QED
      BY <1>1, <2>1
  <2> HIDE DEF j, next
  <2>2. LastSlot(s, next) = 24 * j + h
    BY <1>4, <2>7
  <2> QED
    BY <2>7, <2>2 DEF next
<1> QED
  BY <1>3, <1>6, <1>7

(* The slots on either side of a moment, for every schedule that runs. *)
LEMMA SlotsAround ==
  ASSUME NEW s \in [kind : {"Off", "Daily", "Monthly"}, day : Nat, hour : Nat,
                    catchUp : BOOLEAN],
         NEW t \in Int
  PROVE  /\ LastSlot(s, t) \in Int /\ LastSlot(s, t) <= t
         /\ NextSlot(s, t) \in Int /\ t < NextSlot(s, t)
         /\ LastSlot(s, NextSlot(s, t)) = NextSlot(s, t)
         /\ \A u \in Int : t <= u /\ u < NextSlot(s, t) => LastSlot(s, u) = LastSlot(s, t)
<1>1. CASE s.kind = "Daily"
  BY <1>1, DailySlots
<1>2. CASE s.kind # "Daily"
  <2>1. PICK ym \in Month : /\ MonthSlot(ym, s) <= t /\ t < MonthSlot(NextMonth(ym), s)
                            /\ NextSlot(s, t) = MonthSlot(NextMonth(ym), s)
    BY <1>2, BetweenSlots
  <2> DEFINE next == NextMonth(ym)
  <2>2. next \in Month /\ NextMonth(next) \in Month
    BY NextMonthBegins
  <2>3. /\ MonthSlot(ym, s) \in Int /\ MonthSlot(next, s) \in Int
        /\ MonthSlot(NextMonth(next), s) \in Int
        /\ MonthSlot(next, s) < 24 * First(NextMonth(next))
        /\ 24 * First(NextMonth(next)) <= MonthSlot(NextMonth(next), s)
        /\ First(NextMonth(next)) \in Int
    <3>1. First(NextMonth(next)) \in Int
      BY <2>2, NextMonthBegins
    <3> QED
      BY <2>2, <3>1, MonthSlotInMonth
  <2>4. ASSUME NEW u \in Int, MonthSlot(ym, s) <= u, u < MonthSlot(next, s)
        PROVE  LastSlot(s, u) = MonthSlot(ym, s)
    BY <1>2, <2>4, SlotUntilNext
  <2>5. LastSlot(s, MonthSlot(next, s)) = MonthSlot(next, s)
    <3>1. MonthSlot(next, s) <= MonthSlot(next, s)
          /\ MonthSlot(next, s) < MonthSlot(NextMonth(next), s)
      BY <2>3
    <3> HIDE DEF next
    <3> QED
      BY <1>2, <2>2, <2>3, <3>1, SlotUntilNext
  <2> HIDE DEF next
  <2>6. NextSlot(s, t) = MonthSlot(next, s) /\ t < MonthSlot(next, s)
    BY <2>1 DEF next
  <2>7. LastSlot(s, t) = MonthSlot(ym, s)
    BY <2>1, <2>4, <2>6
  <2> QED
    BY <2>1, <2>3, <2>4, <2>5, <2>6, <2>7
<1> QED
  BY <1>1, <1>2

-----------------------------------------------------------------------------
(* Types *)

(* Every step of the specification, one named action each. *)
LEMMA Steps ==
  ASSUME [Next]_vars
  PROVE  \/ Tick \/ RunStarts \/ RunRefused \/ UserJob \/ JobEnds \/ EditSchedule
         \/ FinishSetup \/ OwedChanges \/ HoursPass \/ Crash \/ Restart
         \/ UNCHANGED vars
  BY DEF Next, Loop

(* Moments are hours. *)
LEMMA Moments == \A t \in Moment : t \in Nat
  BY MomentAssumption

(* Every variable starts with its type. *)
LEMMA InitType == Init => TypeOK
<1> SUFFICES ASSUME Init PROVE TypeOK
  OBVIOUS
<1>1. {ready, up, owed} \subseteq BOOLEAN
  BY Zenon DEF Init
<1>2. now \in Moment /\ (lastRun = Never \/ (lastRun \in Moment /\ lastRun <= now))
  <2>1. now \in Moment /\ now <= now
    BY Moments DEF Init
  <2> QED
    BY <2>1, Zenon DEF Init
<1>3. slots \in [Slot -> Nat] /\ faults \in Nat
  BY DEF Init
<1>4. sched \in Submitted /\ Accepted(sched)
  BY DEF Init
<1>5. QED
  BY <1>1, <1>2, <1>3, <1>4 DEF Init, TypeOK

(* Every step keeps the types; last_run is never in the future. *)
LEMMA TypeStep == TypeOK /\ [Next]_vars => TypeOK'
<1> SUFFICES ASSUME TypeOK, [Next]_vars PROVE TypeOK'
  OBVIOUS
<1> USE DEF TypeOK, Fault, NoFault
<1>1. CASE Tick
  <2>1. slots' \in [Slot -> Nat]
    <3>1. CASE UNCHANGED slots
      BY <3>1
    <3>2. CASE slots' = [slots EXCEPT ![Latest[sched][now]] = @ + 1]
      <4>1. Latest[sched][now] \in Slot => slots[Latest[sched][now]] + 1 \in Nat
        OBVIOUS
      <4>2. QED
        BY <3>2, <4>1
    <3>3. QED
      BY <1>1, <3>1, <3>2 DEF Tick
  <2>2. lastRun' = Never \/ (lastRun' \in Moment /\ lastRun' <= now)
    BY <1>1, Moments DEF Tick
  <2>3. QED
    BY <1>1, <2>1, <2>2 DEF Tick
<1>2. CASE RunStarts \/ RunRefused \/ UserJob \/ JobEnds
  BY <1>2 DEF RunStarts, RunRefused, UserJob, JobEnds
<1>3. CASE EditSchedule
  BY <1>3 DEF EditSchedule
<1>4. CASE FinishSetup
  BY <1>4 DEF FinishSetup
<1>5. CASE OwedChanges
  BY <1>5 DEF OwedChanges
<1>6. CASE HoursPass
  <2>1. lastRun = Never \/ (lastRun \in Moment /\ lastRun <= now')
    BY <1>6, Moments DEF HoursPass
  <2>2. QED
    BY <1>6, <2>1 DEF HoursPass
<1>7. CASE Crash
  <2>1. {ready, up, owed}' \subseteq BOOLEAN
    BY <1>7, Zenon DEF Crash
  <2>2. faults' \in Nat /\ lock' = "free" /\ loop' = "tick"
    BY <1>7 DEF Crash
  <2>3. QED
    BY <1>7, <2>1, <2>2 DEF Crash
<1>8. CASE Restart
  BY <1>8 DEF Restart
<1>9. CASE UNCHANGED vars
  BY <1>9 DEF vars
<1>10. QED
  BY <1>1, <1>2, <1>3, <1>4, <1>5, <1>6, <1>7, <1>8, <1>9, Steps

(* The types hold, and last_run is never in the future. *)
THEOREM ScheduleTyped == Spec => []TypeOK
  BY InitType, TypeStep, PTL DEF Spec

-----------------------------------------------------------------------------
(* The page's next run *)

(* schedule.rs:159-177: the slots on either side of any moment, at the ends of    *)
(* months, years and centuries as everywhere else.                                *)
THEOREM NextRunIsTrue == Spec => []ShownSlotComes
<1>1. TypeOK => ShownSlotComes
  <2> SUFFICES ASSUME TypeOK, sched.kind # "Off" PROVE ShownSlotComes
    BY DEF ShownSlotComes
  <2> DEFINE next == NextSlot(sched, now)
  <2>1. /\ now \in Int /\ \A t \in Moment : t \in Int
        /\ sched \in [kind : {"Off", "Daily", "Monthly"}, day : Nat, hour : Nat,
                      catchUp : BOOLEAN]
    BY Moments, SubmittedAssumption DEF TypeOK
  <2>2. /\ LastSlot(sched, now) \in Int /\ LastSlot(sched, now) <= now
        /\ next \in Int /\ now < next /\ LastSlot(sched, next) = next
        /\ \A u \in Int : now <= u /\ u < next
                           => LastSlot(sched, u) = LastSlot(sched, now)
    BY <2>1, SlotsAround
  <2> HIDE DEF next
  <2>3. LastSlot(sched, next - 1) = LastSlot(sched, now)
    BY <2>1, <2>2
  <2>4. ASSUME NEW t \in Moment, t \in now..(next - 1)
        PROVE  LastSlot(sched, t) = LastSlot(sched, now)
    BY <2>1, <2>2, <2>4
  <2> QED
    BY <2>2, <2>3, <2>4 DEF ShownSlotComes, next
<1> QED
  BY <1>1, ScheduleTyped, PTL

-----------------------------------------------------------------------------
(* One attempt for a slot *)

(* A slot with a recorded attempt is not after last_run, so it is never due again. *)
UsedUp == \A t \in Slot : slots[t] > 0 => lastRun # Never /\ lastRun >= t

(* A slot that is due is one of the table's, and it is not in the future. *)
LEMMA LatestSlot ==
  ASSUME TypeOK, sched.kind # "Off"
  PROVE  Latest[sched][now] \in Slot /\ Latest[sched][now] <= now
<1>1. sched \in Running /\ now \in Moment
  BY DEF TypeOK, Running
<1>2. Latest[sched][now] = LastSlot(sched, now)
  BY <1>1 DEF Latest
<1>3. LastSlot(sched, now) <= now
  BY <1>1, Moments, SubmittedAssumption, SlotsAround DEF Running
<1> QED
  BY <1>1, <1>2, <1>3 DEF Slot

(* A slot is a moment in time. *)
LEMMA SlotsAreHours == \A t \in Slot : t \in Int
<1> SUFFICES ASSUME NEW s \in Running, NEW t \in Moment PROVE Latest[s][t] \in Int
  BY DEF Slot
<1>1. Latest[s][t] = LastSlot(s, t)
  BY DEF Latest
<1> QED
  BY <1>1, Moments, SubmittedAssumption, SlotsAround DEF Running

(* Only a tick that finds the slot due records an attempt. *)
LEMMA SlotsStep ==
  TypeOK /\ UsedUp /\ OneAttemptPerSlot /\ [Next]_vars
    => UsedUp' /\ OneAttemptPerSlot'
<1> SUFFICES ASSUME TypeOK, UsedUp, OneAttemptPerSlot, [Next]_vars
             PROVE  UsedUp' /\ OneAttemptPerSlot'
  OBVIOUS
<1> USE DEF UsedUp, OneAttemptPerSlot
<1>1. ASSUME UNCHANGED <<lastRun, slots>> PROVE UsedUp' /\ OneAttemptPerSlot'
  BY <1>1
<1>2. CASE Tick /\ lastRun' = now
  <2> DEFINE s == Latest[sched][now]
  <2>1. s \in Slot /\ s \in Int /\ s <= now
    BY <1>2, LatestSlot, SlotsAreHours DEF Tick, IsDue
  <2>2. /\ slots \in [Slot -> Nat] /\ now \in Int
        /\ lastRun = Never \/ (lastRun \in Int /\ lastRun <= now)
    BY Moments DEF TypeOK
  <2>3. ASSUME NEW t \in Slot PROVE slots[t] > 0 => t <= now
    BY <2>2, SlotsAreHours
  <2>4. slots[s] = 0
    <3>1. lastRun = Never \/ lastRun < s
      BY <1>2 DEF Tick, IsDue
    <3>2. ~(slots[s] > 0)
      BY <2>1, <2>2, <3>1
    <3> QED
      BY <2>1, <2>2, <3>2
  <2> HIDE DEF s
  <2>5. CASE slots' = [slots EXCEPT ![s] = @ + 1]
    <3>1. ASSUME NEW t \in Slot PROVE slots'[t] = (IF t = s THEN 1 ELSE slots[t])
      BY <2>1, <2>2, <2>4, <2>5
    <3>2. now # Never
      BY <2>2, NeverAssumption
    <3>3. ASSUME NEW t \in Slot PROVE slots'[t] > 0 => lastRun' # Never /\ lastRun' >= t
      BY <1>2, <2>1, <2>2, <2>3, <3>1, <3>2, SlotsAreHours
    <3>4. ASSUME NEW t \in Slot PROVE slots'[t] <= 1
      BY <3>1
    <3> QED
      BY <3>3, <3>4
  <2>6. CASE UNCHANGED slots
    <3>1. now # Never
      BY <2>2, NeverAssumption
    <3> QED
      BY <1>2, <2>2, <2>3, <2>6, <3>1, SlotsAreHours
  <2>7. QED
    BY <1>2, <2>5, <2>6 DEF Tick, s
<1>3. CASE Tick /\ lastRun' # now
  BY <1>1, <1>3 DEF Tick
<1>4. ASSUME \/ RunStarts \/ RunRefused \/ UserJob \/ JobEnds \/ EditSchedule
             \/ FinishSetup \/ OwedChanges \/ HoursPass \/ Crash \/ Restart
             \/ UNCHANGED vars
      PROVE  UNCHANGED <<lastRun, slots>>
  BY <1>4 DEF RunStarts, RunRefused, UserJob, JobEnds, EditSchedule, FinishSetup,
              OwedChanges, HoursPass, Crash, Restart, vars
<1>5. QED
  BY <1>1, <1>2, <1>3, <1>4, Steps

(* main.rs:416-418: a slot is used up by the first attempt that is recorded for *)
(* it, whatever the user edits and whatever crashes.                            *)
THEOREM SlotsOnce == Spec => []OneAttemptPerSlot
<1>1. Init => UsedUp /\ OneAttemptPerSlot
  BY DEF Init, UsedUp, OneAttemptPerSlot
<1>2. QED
  BY <1>1, SlotsStep, ScheduleTyped, PTL DEF Spec
-----------------------------------------------------------------------------
(* Windows: days and months *)

(* An event lies in a day, and the day in a month. *)
LEMMA DaysOfEvents ==
  ASSUME NEW e \in Event
  PROVE  /\ At[e] \in Nat /\ DayOf[e] \in Nat
         /\ 24 * DayOf[e] <= At[e] /\ At[e] < 24 * DayOf[e] + 24
         /\ MonthOf[e] = CivilFromDays(DayOf[e])
         /\ MonthOf[e] \in Month /\ MonthOf[e] \in Months
<1>1. At[e] \in Nat
  BY EventAssumption, SetupAssumption
<1>2. DayOf[e] = At[e] \div 24
  BY DEF DayOf
<1>3. /\ At[e] \div 24 \in Nat
      /\ 24 * (At[e] \div 24) <= At[e] /\ At[e] < 24 * (At[e] \div 24) + 24
  BY <1>1
<1>4. MonthOf[e] = CivilFromDays(DayOf[e])
  BY DEF MonthOf
<1>5. MonthOf[e] \in Month
  BY <1>2, <1>3, <1>4, MonthContains
<1>6. MonthOf[e] \in Months
  BY DEF Months
<1> QED
  BY <1>1, <1>2, <1>3, <1>4, <1>5, <1>6

(* The newest directory of a month is that of a clip's day. *)
LEMMA NewestDirectory ==
  ASSUME disk \subseteq Event, NEW m, InMonth(m, disk) # {}
  PROVE  \E f \in InMonth(m, disk) :
           /\ NewestDayEnd(m, DayDirs(m)) = DayOf[f] + 1
           /\ \A e \in InMonth(m, disk) : DayOf[e] <= DayOf[f]
<1> DEFINE here == InMonth(m, disk)
           days == DayDirs(m)
<1>1. \A e \in here : e \in Event /\ MonthOf[e] = m
  BY DEF InMonth
<1>2. m \in Month
  BY <1>1, DaysOfEvents
<1>3. First(m) \in Int /\ DaysInMonth(m[1], m[2]) \in 28..31
  BY <1>2, NextMonthBegins
<1>4. days = {DayOf[e] - First(m) + 1 : e \in here}
  BY DEF DayDirs, First
<1>5. \A e \in here : /\ DayOf[e] \in Int
                      /\ DayOf[e] < First(m) + DaysInMonth(m[1], m[2])
  BY <1>1, DaysOfEvents, MonthContains
<1> HIDE DEF here, days
<1>6. days \subseteq Int /\ days # {} /\ \A d \in days : d <= 31
  <2>1. days # {}
    BY <1>4 DEF here
  <2> QED
    BY <1>3, <1>4, <1>5, <2>1
<1>7. PICK t \in days : /\ NewestDayEnd(m, days) = First(m) + t
                        /\ \A d \in days : d <= t
  BY <1>2, <1>6, NewestDay
<1>8. PICK f \in here : t = DayOf[f] - First(m) + 1
  BY <1>4
<1>9. NewestDayEnd(m, days) = DayOf[f] + 1
  BY <1>3, <1>5, <1>7, <1>8
<1>10. \A e \in here : DayOf[e] <= DayOf[f]
  BY <1>3, <1>4, <1>5, <1>7, <1>8
<1> QED
  BY <1>9, <1>10 DEF here, days

\* How old the newest day of a month must be.
Threshold == IF setup.archiveAfterDays < 1 THEN 1 ELSE setup.archiveAfterDays

(* What makes a month old. *)
LEMMA OldIs ==
  ASSUME NEW m
  PROVE  IsOld(m) <=>
           /\ MonthIndex(m) < MonthIndex(CivilFromDays(hour \div 24))
           /\ (hour \div 24) - NewestDayEnd(m, DayDirs(m)) >= Threshold
  BY MonthNow DEF IsOld, OldEnough, Threshold

-----------------------------------------------------------------------------
(* Windows: types *)

(* Every step of the specification, one named action each.  A month that is due could
   as well be named. *)
LEMMA WindowsSteps ==
  ASSUME [WindowsNext]_windowsVars
  PROVE  \/ Pass
         \/ \E m \in Months : ArchiveNamed(m) \/ Restore(m) \/ Release(m)
         \/ \E e \in Event : Backfill(e) \/ Expire(e)
         \/ Configure
         \/ UNCHANGED windowsVars
<1>1. \A m \in Months : ArchiveDue(m) => ArchiveNamed(m)
  BY DEF ArchiveDue, ArchiveNamed, Due
<1> QED
  BY <1>1 DEF WindowsNext

\* The types, with what the clips are of.
WindowsTypes == WindowsTypeOK /\ disk \subseteq Event /\ packed \subseteq Event

LEMMA WindowsTypesInit == WindowsInit => WindowsTypes
<1> SUFFICES ASSUME WindowsInit PROVE WindowsTypes
  OBVIOUS
<1>1. At \in [Event -> Nat]
  BY EventAssumption, SetupAssumption
<1>2. {e \in disk \cup packed : row[e] # "clip"} = {}
  BY DEF WindowsInit
<1>3. {through, waited} \subseteq [Months -> Nat]
  BY DEF WindowsInit
<1>4. row \in [Event -> {"ahead", "missed", "clip"}]
  BY DEF WindowsInit
<1> QED
  BY <1>1, <1>2, <1>3, <1>4 DEF WindowsInit, WindowsTypes, WindowsTypeOK

LEMMA WindowsTypesStep ==
  WindowsTypes /\ [WindowsNext]_windowsVars => WindowsTypes'
<1> SUFFICES ASSUME WindowsTypes, [WindowsNext]_windowsVars PROVE WindowsTypes'
  OBVIOUS
<1> USE DEF WindowsTypes, WindowsTypeOK
<1>1. hour \in Nat
  BY EventAssumption, SetupAssumption
<1>2. CASE Pass
  <2>1. PICK caught \in SUBSET {e \in Event : row[e] = "ahead" /\ At[e] <= hour'} :
          /\ row' = [e \in Event |->
                       IF e \in caught THEN "clip"
                       ELSE IF e \in {f \in Event : row[f] = "ahead" /\ At[f] <= hour'}
                         THEN "missed" ELSE row[e]]
          /\ disk' = disk \cup caught
    BY <1>2 DEF Pass
  <2>2. row' \in [Event -> {"ahead", "missed", "clip"}]
    BY <2>1
  <2>3. disk' \subseteq Event /\ packed' \subseteq Event
    BY <1>2, <2>1 DEF Pass
  <2>4. \A e \in disk' \cup packed' : row'[e] = "clip"
    BY <1>2, <2>1 DEF Pass
  <2> QED
    BY <1>2, <2>2, <2>3, <2>4 DEF Pass
<1>3. ASSUME NEW m \in Months, ArchiveNamed(m) PROVE WindowsTypes'
  <2>1. Pack(m) /\ InMonth(m, disk) # {} /\ InMonth(m, disk) \subseteq disk
    BY <1>3 DEF ArchiveNamed, InMonth
  <2>2. PICK f \in InMonth(m, disk) : NewestDayEnd(m, DayDirs(m)) = DayOf[f] + 1
    BY <2>1, NewestDirectory
  <2>3. DayOf[f] \in Nat
    BY <2>1, <2>2, DaysOfEvents
  <2>4. through' \in [Months -> Nat]
    BY <2>1, <2>2, <2>3 DEF Pack
  <2>5. waited' \in [Months -> Nat]
    <3>1. setup.archiveAfterDays \in Nat
      BY EventAssumption, SetupAssumption
    <3> QED
      BY <2>1, <3>1 DEF Pack
  <2> QED
    BY <2>1, <2>4, <2>5 DEF Pack
<1>4. ASSUME NEW m \in Months, Restore(m) PROVE WindowsTypes'
  <2>1. InMonth(m, packed) \subseteq packed
    BY DEF InMonth
  <2>2. wrote' \in [Event -> Nat]
    BY <1>1, <1>4 DEF Restore
  <2> QED
    BY <1>4, <2>1, <2>2 DEF Restore
<1>5. ASSUME NEW m \in Months, Release(m) PROVE WindowsTypes'
  BY <1>5 DEF Release
<1>6. ASSUME NEW e \in Event, Backfill(e) PROVE WindowsTypes'
  BY <1>1, <1>6 DEF Backfill
<1>7. ASSUME NEW e \in Event, Expire(e) PROVE WindowsTypes'
  BY <1>7 DEF Expire
<1>8. CASE Configure \/ UNCHANGED windowsVars
  BY <1>8 DEF Configure, windowsVars
<1> QED
  BY <1>2, <1>3, <1>4, <1>5, <1>6, <1>7, <1>8, WindowsSteps

LEMMA WindowsTyping == WindowsSpec => []WindowsTypes
  BY WindowsTypesInit, WindowsTypesStep, PTL DEF WindowsSpec

(* The types of Windows hold; a clip on disk or in an archive is one of a row the
   service has. *)
THEOREM WindowsTyped == WindowsSpec => []WindowsTypeOK
<1>1. WindowsTypes => WindowsTypeOK
  BY DEF WindowsTypes
<1> QED
  BY <1>1, WindowsTyping, PTL

-----------------------------------------------------------------------------
(* Windows: what archives have behind them *)

\* An event that is still ahead is, and months that had reached the threshold when they
\* were archived had: they are over, and their days and clips that long ago.
WindowsInv ==
  /\ \A e \in Event : row[e] = "ahead" => At[e] > hour
  /\ \A m \in archives : waited[m] > 0 =>
       /\ MonthIndex(m) < MonthIndex(CivilFromDays(hour \div 24))
       /\ \E k \in Nat : through[m] = 24 * k
       /\ through[m] + 24 * waited[m] <= hour
  /\ \A e \in packed :
       /\ MonthOf[e] \in archives
       /\ waited[MonthOf[e]] > 0 => At[e] + 24 * waited[MonthOf[e]] < hour

(* The settings are numbers, and the spans numbers of seconds. *)
LEMMA Spans ==
  ASSUME WindowsTypes
  PROVE  /\ setup.archiveAfterDays \in Nat /\ setup.liveWindowMonths \in Nat
         /\ Secs(setup.retention) \in Nat /\ Secs(setup.range) \in Nat
         /\ hour \in Nat
<1>1. /\ setup.archiveAfterDays \in Nat /\ setup.liveWindowMonths \in Nat
      /\ setup.retention \in Duration /\ setup.range \in Duration /\ hour \in Nat
  BY EventAssumption, SetupAssumption DEF WindowsTypes, WindowsTypeOK
<1>2. \A u \in DOMAIN Unit : Unit[u] \in Nat
  BY DEF Unit
<1>3. \A d \in Duration : Secs(d) \in Nat
  <2> SUFFICES ASSUME NEW d \in Duration PROVE d.n * Unit[d.unit] \in Nat
    BY DEF Secs
  <2>1. d.n \in Nat /\ Unit[d.unit] \in Nat
    BY <1>2 DEF Duration
  <2> QED
    BY <2>1
<1> QED
  BY <1>1, <1>3

(* The hour moves only on, to a moment, and so does its month. *)
LEMMA MonthMoves ==
  ASSUME NEW a \in Nat, NEW b \in Nat, a <= b
  PROVE  /\ MonthIndex(CivilFromDays(a \div 24)) \in Int
         /\ MonthIndex(CivilFromDays(b \div 24)) \in Int
         /\ MonthIndex(CivilFromDays(a \div 24)) <= MonthIndex(CivilFromDays(b \div 24))
<1>1. a \div 24 \in Int /\ b \div 24 \in Int /\ a \div 24 <= b \div 24
  OBVIOUS
<1> QED
  BY <1>1, MonthContains, IndexOfMonth, MonthsInOrder

(* Archiving a month that is old: its newest day is past the threshold. *)
LEMMA ArchivedInTime ==
  ASSUME WindowsTypes, NEW m \in Months, ArchiveNamed(m), waited'[m] > 0
  PROVE  /\ MonthIndex(m) < MonthIndex(CivilFromDays(hour \div 24))
         /\ \E k \in Nat : through'[m] = 24 * k
         /\ through'[m] + 24 * waited'[m] <= hour
         /\ \A e \in InMonth(m, disk) : At[e] + 24 * waited'[m] < hour
<1>1. /\ Pack(m) /\ setup.archiveAfterDays > 0 /\ InMonth(m, disk) # {}
      /\ disk \subseteq Event /\ InMonth(m, disk) \subseteq disk
  BY DEF ArchiveNamed, Complete, WindowsTypes, InMonth
<1>2. IsOld(m) /\ waited'[m] = setup.archiveAfterDays
  BY <1>1 DEF Pack, WindowsTypes, WindowsTypeOK
<1>3. PICK f \in InMonth(m, disk) :
        /\ NewestDayEnd(m, DayDirs(m)) = DayOf[f] + 1
        /\ \A e \in InMonth(m, disk) : DayOf[e] <= DayOf[f]
  BY <1>1, NewestDirectory
<1>4. DayOf[f] \in Nat
  BY <1>1, <1>3, DaysOfEvents
<1>5. setup.archiveAfterDays \in Nat /\ hour \in Nat
  BY Spans
<1>6. /\ MonthIndex(m) < MonthIndex(CivilFromDays(hour \div 24))
      /\ (hour \div 24) - (DayOf[f] + 1) >= setup.archiveAfterDays
  BY <1>1, <1>2, <1>3, <1>5, OldIs DEF Threshold
<1>7. 24 * (DayOf[f] + 1) + 24 * setup.archiveAfterDays <= hour
  BY <1>4, <1>5, <1>6
<1>8. through'[m] = 24 * (DayOf[f] + 1)
  BY <1>1, <1>3 DEF Pack, WindowsTypes, WindowsTypeOK
<1>9. ASSUME NEW e \in InMonth(m, disk)
      PROVE  At[e] + 24 * setup.archiveAfterDays < hour
  <2>1. /\ At[e] \in Nat /\ DayOf[e] \in Nat /\ At[e] < 24 * DayOf[e] + 24
        /\ DayOf[e] <= DayOf[f]
    BY <1>1, <1>3, DaysOfEvents
  <2> QED
    BY <1>4, <1>5, <1>7, <2>1
<1>10. \E k \in Nat : through'[m] = 24 * k
  BY <1>4, <1>8
<1> QED
  BY <1>2, <1>6, <1>7, <1>8, <1>9, <1>10

LEMMA WindowsInvInit == WindowsInit => WindowsInv
<1> SUFFICES ASSUME WindowsInit PROVE WindowsInv
  OBVIOUS
<1>1. hour \in Nat /\ archives = {} /\ packed = {}
  BY EventAssumption, SetupAssumption DEF WindowsInit
<1>2. ASSUME NEW e \in Event, row[e] = "ahead" PROVE At[e] > hour
  <2>1. ~(At[e] <= hour) /\ At[e] \in Nat
    BY <1>2, EventAssumption, SetupAssumption DEF WindowsInit
  <2> QED
    BY <1>1, <2>1
<1> QED
  BY <1>1, <1>2 DEF WindowsInv

LEMMA WindowsInvStep ==
  WindowsTypes /\ WindowsInv /\ [WindowsNext]_windowsVars => WindowsInv'
<1> SUFFICES ASSUME WindowsTypes, WindowsInv, [WindowsNext]_windowsVars PROVE WindowsInv'
  OBVIOUS
<1>1. /\ hour \in Nat /\ At \in [Event -> Nat] /\ packed \subseteq Event
      /\ archives \subseteq Months /\ waited \in [Months -> Nat]
      /\ \A e \in packed : MonthOf[e] \in Months
  BY Spans, EventAssumption, SetupAssumption DEF WindowsTypes, WindowsTypeOK, Months
<1>2. ASSUME UNCHANGED <<hour, row, archives, through, waited, packed>> PROVE WindowsInv'
  BY <1>2 DEF WindowsInv, MonthOf, DayOf
<1>3. CASE Pass
  <2>1. /\ hour' \in Nat /\ hour < hour'
        /\ UNCHANGED <<archives, through, waited, packed>>
    BY <1>3, EventAssumption, SetupAssumption DEF Pass
  <2>2. ASSUME NEW e \in Event, row'[e] = "ahead" PROVE At[e] > hour'
    <3>1. row[e] = "ahead" /\ ~(At[e] <= hour')
      BY <1>3, <2>2 DEF Pass, WindowsTypes, WindowsTypeOK
    <3> QED
      BY <1>1, <2>1, <3>1
  <2>3. ASSUME NEW m \in archives, waited[m] > 0
        PROVE  /\ MonthIndex(m) < MonthIndex(CivilFromDays(hour' \div 24))
               /\ through[m] + 24 * waited[m] <= hour'
    <3>1. /\ MonthIndex(m) < MonthIndex(CivilFromDays(hour \div 24))
          /\ through[m] + 24 * waited[m] <= hour
          /\ through[m] \in Nat /\ waited[m] \in Nat
      BY <2>3 DEF WindowsInv, WindowsTypes, WindowsTypeOK
    <3>2. MonthIndex(m) \in Int
      <4>1. PICK e \in Event : m = MonthOf[e]
        BY DEF WindowsTypes, WindowsTypeOK, Months
      <4> QED
        BY <4>1, DaysOfEvents, IndexOfMonth
    <3>3. /\ MonthIndex(CivilFromDays(hour \div 24)) \in Int
          /\ MonthIndex(CivilFromDays(hour' \div 24)) \in Int
          /\ MonthIndex(CivilFromDays(hour \div 24)) <= MonthIndex(CivilFromDays(hour' \div 24))
      BY <1>1, <2>1, MonthMoves
    <3> QED
      BY <1>1, <2>1, <3>1, <3>2, <3>3
  <2>4. ASSUME NEW e \in packed, waited[MonthOf[e]] > 0
        PROVE  At[e] + 24 * waited[MonthOf[e]] < hour'
    <3>1. /\ At[e] \in Nat /\ waited[MonthOf[e]] \in Nat
          /\ At[e] + 24 * waited[MonthOf[e]] < hour
      BY <1>1, <2>4 DEF WindowsInv
    <3> QED
      BY <1>1, <2>1, <3>1
  <2> QED
    BY <2>1, <2>2, <2>3, <2>4 DEF WindowsInv, MonthOf, DayOf
<1>4. ASSUME NEW m \in Months, ArchiveNamed(m) PROVE WindowsInv'
  <2>1. /\ UNCHANGED <<hour, row>> /\ archives' = archives \cup {m} /\ m \notin archives
        /\ packed' = packed \cup InMonth(m, disk)
        /\ \A n \in Months : n # m => through'[n] = through[n] /\ waited'[n] = waited[n]
    BY <1>4 DEF ArchiveNamed, Pack, WindowsTypes, WindowsTypeOK
  <2>2. ASSUME NEW n \in archives', waited'[n] > 0
        PROVE  /\ MonthIndex(n) < MonthIndex(CivilFromDays(hour \div 24))
               /\ \E k \in Nat : through'[n] = 24 * k
               /\ through'[n] + 24 * waited'[n] <= hour
    <3>1. CASE n = m
      BY <1>4, <2>2, <3>1, ArchivedInTime
    <3>2. CASE n # m
      <4>1. n \in archives /\ through'[n] = through[n] /\ waited'[n] = waited[n]
        BY <1>1, <2>1, <3>2
      <4> QED
        BY <2>2, <4>1 DEF WindowsInv
    <3> QED
      BY <3>1, <3>2
  <2>0. \A e \in packed' : MonthOf[e] \in archives'
    BY <2>1 DEF WindowsInv, InMonth
  <2>3. ASSUME NEW e \in packed', waited'[MonthOf[e]] > 0
        PROVE  At[e] + 24 * waited'[MonthOf[e]] < hour
    <3>1. CASE e \in InMonth(m, disk)
      <4>1. MonthOf[e] = m
        BY <3>1 DEF InMonth
      <4> QED
        BY <1>4, <2>3, <3>1, <4>1, ArchivedInTime
    <3>2. CASE e \notin InMonth(m, disk)
      <4>1. e \in packed /\ MonthOf[e] \in archives /\ MonthOf[e] \in Months
        BY <1>1, <2>1, <3>2 DEF WindowsInv
      <4>2. waited'[MonthOf[e]] = waited[MonthOf[e]]
        BY <2>1, <4>1
      <4> QED
        BY <2>3, <4>1, <4>2 DEF WindowsInv
    <3> QED
      BY <3>1, <3>2
  <2> QED
    BY <2>0, <2>1, <2>2, <2>3 DEF WindowsInv, MonthOf, DayOf
<1>5. ASSUME NEW m \in Months, Restore(m) \/ Release(m) PROVE WindowsInv'
  BY <1>2, <1>5 DEF Restore, Release
<1>6. ASSUME NEW e \in Event, Backfill(e) PROVE WindowsInv'
  <2>1. /\ UNCHANGED <<hour, archives, through, waited, packed>>
        /\ \A f \in Event : row'[f] = "ahead" => row[f] = "ahead"
    BY <1>6 DEF Backfill, WindowsTypes, WindowsTypeOK
  <2> QED
    BY <2>1 DEF WindowsInv, MonthOf, DayOf
<1>7. ASSUME NEW e \in Event, Expire(e) PROVE WindowsInv'
  BY <1>2, <1>7 DEF Expire
<1>8. CASE Configure \/ UNCHANGED windowsVars
  BY <1>2, <1>8 DEF Configure, windowsVars
<1> QED
  BY <1>3, <1>4, <1>5, <1>6, <1>7, <1>8, WindowsSteps

LEMMA WindowsKept == WindowsSpec => [](WindowsTypes /\ WindowsInv)
  BY WindowsTypesInit, WindowsTypesStep, WindowsInvInit, WindowsInvStep, PTL DEF WindowsSpec

(* A clip in an archive reads as missing only if its month had not waited as long as the
   live window that is set now. *)
THEOREM ArchivedReadsAsArchived ==
  WindowsSpec => []ArchivedIsNotMissing
<1>1. WindowsTypes /\ WindowsInv => ArchivedIsNotMissing
  <2> SUFFICES ASSUME WindowsTypes, WindowsInv, Complete, NEW e \in packed,
                      ClipStatus(e) = "vanished"
               PROVE  waited[MonthOf[e]] * 24 < setup.liveWindowMonths * 732
    BY DEF ArchivedIsNotMissing
  <2>1. /\ setup.liveWindowMonths \in Nat /\ setup.liveWindowMonths > 0 /\ hour \in Nat
        /\ e \in Event /\ At[e] \in Nat /\ row[e] = "clip"
    BY Spans, EventAssumption, SetupAssumption DEF WindowsTypes, WindowsTypeOK, Complete
  <2>2. MonthOf[e] \in Months /\ waited[MonthOf[e]] \in Nat
    BY <2>1, DaysOfEvents DEF WindowsTypes, WindowsTypeOK
  <2>3. At[e] >= hour - setup.liveWindowMonths * 732
    BY <2>1 DEF ClipStatus, InLiveWindow
  <2>4. CASE waited[MonthOf[e]] = 0
    BY <2>1, <2>4
  <2>5. CASE waited[MonthOf[e]] > 0
    <3>1. At[e] + 24 * waited[MonthOf[e]] < hour
      BY <2>5 DEF WindowsInv
    <3> QED
      BY <2>1, <2>2, <2>3, <3>1
  <2> QED
    BY <2>2, <2>4, <2>5
<1> QED
  BY <1>1, WindowsKept, PTL

-----------------------------------------------------------------------------
(* Windows: writes into archived months, and losses *)

\* What StrandedOnlyInGap says of a clip that is written into an archived month.
Excused(e) ==
  \/ "backfill" \in Warnings
  \/ ~Shown("--missing-range") \/ ~Parses(setup.range)
  \/ waited[MonthOf[e]] < setup.archiveAfterDays
  \/ 24 * DayOf[e] >= through[MonthOf[e]]

(* What the service fetches without a warning lies beyond the directories of a month that
   had waited long enough. *)
LEMMA FetchExcused ==
  ASSUME WindowsTypes, WindowsInv, NEW e \in Event,
         Backfill(e), MonthOf[e] \in archives, Complete
  PROVE  Excused(e)
<1>1. 3600 * (hour - At[e]) <= Secs(setup.range)
  BY DEF Backfill
<1>2. /\ setup.archiveAfterDays \in Nat /\ hour \in Nat /\ Secs(setup.range) \in Nat
      /\ At[e] \in Nat /\ DayOf[e] \in Nat /\ At[e] < 24 * DayOf[e] + 24
      /\ setup.archiveAfterDays > 0 /\ waited[MonthOf[e]] \in Nat
  BY Spans, DaysOfEvents DEF Complete, WindowsTypes, WindowsTypeOK
<1>3. CASE waited[MonthOf[e]] < setup.archiveAfterDays
  BY <1>3 DEF Excused
<1>4. CASE Secs(setup.range) >= setup.archiveAfterDays * 86400
  <2>1. Shown("--missing-range") /\ Parses(setup.range) => "backfill" \in Warnings
    BY <1>2, <1>4 DEF Warnings
  <2> QED
    BY <2>1 DEF Excused
<1>5. CASE /\ waited[MonthOf[e]] >= setup.archiveAfterDays
           /\ Secs(setup.range) < setup.archiveAfterDays * 86400
  <2>1. through[MonthOf[e]] + 24 * waited[MonthOf[e]] <= hour
    BY <1>2, <1>5 DEF WindowsInv
  <2>2. PICK k \in Nat : through[MonthOf[e]] = 24 * k
    BY <1>2, <1>5 DEF WindowsInv
  <2>3. hour - At[e] < 24 * setup.archiveAfterDays
    BY <1>1, <1>2, <1>5
  <2>4. 24 * k <= At[e]
    BY <1>2, <1>5, <2>1, <2>2, <2>3
  <2>5. 24 * DayOf[e] >= 24 * k
    BY <1>2, <2>4
  <2> QED
    BY <2>2, <2>5 DEF Excused
<1> QED
  BY <1>2, <1>3, <1>4, <1>5

(* What it captures lies in a month that is not over, and those are archived by name. *)
LEMMA CaptureExcused ==
  ASSUME WindowsTypes, WindowsInv, Pass, NEW e \in disk' \ disk,
         MonthOf[e] \in archives, Complete
  PROVE  Excused(e)
<1>1. /\ e \in Event /\ row[e] = "ahead" /\ hour \in Nat
      /\ setup.archiveAfterDays \in Nat /\ setup.archiveAfterDays > 0
  BY Spans DEF Pass, Complete
<1>2. At[e] \in Nat /\ MonthOf[e] = CivilFromDays(At[e] \div 24)
      /\ waited[MonthOf[e]] \in Nat
  BY <1>1, DaysOfEvents DEF DayOf, WindowsTypes, WindowsTypeOK
<1>3. At[e] > hour
  BY <1>1 DEF WindowsInv
<1>4. /\ MonthIndex(CivilFromDays(hour \div 24)) \in Int
      /\ MonthIndex(CivilFromDays(At[e] \div 24)) \in Int
      /\ MonthIndex(CivilFromDays(hour \div 24)) <= MonthIndex(CivilFromDays(At[e] \div 24))
  BY <1>1, <1>2, <1>3, MonthMoves
<1>5. ~(waited[MonthOf[e]] > 0)
  BY <1>2, <1>4 DEF WindowsInv
<1> QED
  BY <1>1, <1>2, <1>5 DEF Excused

(* Without a warning, the service writes into a month that was archived when it was due
   only beyond the days it had. *)
THEOREM StrandedClipsAreNew ==
  WindowsSpec => StrandedOnlyInGap
<1>1. WindowsTypes /\ WindowsInv /\ [WindowsNext]_windowsVars
        => \A e \in disk' \ (disk \cup packed) :
             MonthOf[e] \in archives /\ Complete => Excused(e)
  <2> SUFFICES ASSUME WindowsTypes, WindowsInv, [WindowsNext]_windowsVars,
                      NEW e \in disk' \ (disk \cup packed),
                      MonthOf[e] \in archives, Complete
               PROVE  Excused(e)
    OBVIOUS
  <2>1. CASE Pass
    BY <2>1, CaptureExcused
  <2>2. ASSUME NEW f \in Event, Backfill(f) PROVE Excused(e)
    <3>1. e = f
      BY <2>2 DEF Backfill
    <3> QED
      BY <2>2, <3>1, FetchExcused
  <2>3. ASSUME NEW m \in Months, ArchiveNamed(m) \/ Restore(m) \/ Release(m) PROVE FALSE
    BY <2>3 DEF ArchiveNamed, Pack, Restore, Release, InMonth
  <2>4. ASSUME NEW f \in Event, Expire(f) PROVE FALSE
    BY <2>4 DEF Expire
  <2>5. CASE Configure \/ UNCHANGED windowsVars
    BY <2>5 DEF Configure, windowsVars
  <2> QED
    BY <2>1, <2>2, <2>3, <2>4, <2>5, WindowsSteps
<1> QED
  BY <1>1, WindowsKept, PTL DEF WindowsSpec, StrandedOnlyInGap, Excused

\* What UnwarnedLossIsLate bounds.
Short ==
  Secs(setup.retention) \div 86400 < Threshold + 31

(* Of a clip that outlived the retention before its month was old. *)
LEMMA LossIsShort ==
  ASSUME WindowsTypes, NEW e \in Event, Expire(e),
         ~IsOld(MonthOf[e])
  PROVE  Short
<1> DEFINE m     == MonthOf[e]
           days  == Secs(setup.retention) \div 86400
           today == hour \div 24
<1>1. e \in disk /\ 3600 * (hour - At[e]) > Secs(setup.retention)
  BY DEF Expire
<1>2. /\ Secs(setup.retention) \in Nat /\ hour \in Nat /\ At[e] \in Nat
      /\ DayOf[e] \in Nat /\ 24 * DayOf[e] <= At[e] /\ Threshold \in Nat
      /\ Threshold >= 1
  BY Spans, DaysOfEvents DEF Threshold
<1>3. days \in Nat /\ 86400 * days <= Secs(setup.retention)
  BY <1>2
<1>4. today \in Nat /\ hour < 24 * today + 24 /\ 24 * today <= hour
  BY <1>2
<1>5. e \in InMonth(m, disk) /\ disk \subseteq Event /\ row[e] = "clip"
  BY <1>1 DEF InMonth, WindowsTypes, WindowsTypeOK
<1> HIDE DEF days
<1>6. 24 * days < hour - At[e]
  BY <1>1, <1>2, <1>3
<1>7. CASE ~(MonthIndex(m) < MonthIndex(CivilFromDays(today)))
  <2>1. hour > At[e]
    BY <1>2, <1>3, <1>6
  <2>2. m = CivilFromDays(At[e] \div 24)
    BY DaysOfEvents DEF DayOf
  <2>3. /\ MonthIndex(m) \in Int /\ MonthIndex(CivilFromDays(today)) \in Int
        /\ MonthIndex(m) <= MonthIndex(CivilFromDays(today))
    BY <1>2, <2>1, <2>2, MonthMoves
  <2>4. m \in Month /\ CivilFromDays(today) \in Month
    BY <1>4, DaysOfEvents, MonthContains
  <2>5. m = CivilFromDays(today)
    BY <1>7, <2>3, <2>4, IndexOfMonth
  <2>6. today - DayOf[e] <= 30
    BY <1>2, <1>4, <2>5, DaysOfEvents, MonthIsShort
  <2>7. days < 31
    BY <1>2, <1>3, <1>4, <1>6, <2>6
  <2> QED
    BY <1>2, <1>3, <2>7 DEF Short, days
<1>8. CASE ~(today - NewestDayEnd(m, DayDirs(m)) >= Threshold)
  <2>1. PICK f \in InMonth(m, disk) : NewestDayEnd(m, DayDirs(m)) = DayOf[f] + 1
    BY <1>5, NewestDirectory
  <2>2. f \in Event /\ MonthOf[f] = m
    BY <1>5, <2>1 DEF InMonth
  <2>3. DayOf[f] \in Nat /\ DayOf[f] - DayOf[e] <= 30
    <3>1. /\ DayOf[f] \in Nat /\ CivilFromDays(DayOf[e]) = CivilFromDays(DayOf[f])
      BY <2>2, DaysOfEvents
    <3> QED
      BY <1>2, <3>1, MonthIsShort
  <2>4. today - (DayOf[f] + 1) < Threshold
    BY <1>2, <1>4, <1>8, <2>1, <2>3
  <2>5. days < Threshold + 31
    BY <1>2, <1>3, <1>4, <1>6, <2>3, <2>4
  <2> QED
    BY <2>5 DEF Short, days
<1> QED
  BY <1>7, <1>8, OldIs

(* The service deletes a clip before its month was old only with a retention that ends
   within the month after the threshold; of one that ends before it, health warns. *)
THEOREM LossesAreLate ==
  WindowsSpec => UnwarnedLossIsLate
<1> DEFINE days == Secs(setup.retention) \div 86400
           Warned == days < setup.archiveAfterDays =>
                       \/ "retention" \in Warnings
                       \/ ~Shown("--retention") \/ ~Parses(setup.retention)
<1>1. ASSUME WindowsTypes PROVE Warned
  <2>1. setup.archiveAfterDays \in Nat /\ days \in Nat
    BY <1>1, Spans
  <2> QED
    BY <2>1 DEF Warnings, RetentionDays
<1>2. WindowsTypes /\ [WindowsNext]_windowsVars
        => \A e \in disk \ disk' :
             \/ e \in packed' \/ IsOld(MonthOf[e])
             \/ /\ Short
                /\ Warned
  <2> SUFFICES ASSUME WindowsTypes, [WindowsNext]_windowsVars, NEW e \in disk \ disk',
                      ~IsOld(MonthOf[e]), e \notin packed'
               PROVE  Short
    BY <1>1
  <2>1. ASSUME NEW f \in Event, Expire(f) PROVE Short
    <3>1. e = f
      BY <2>1 DEF Expire
    <3> QED
      BY <2>1, <3>1, LossIsShort
  <2>2. ASSUME NEW m \in Months, ArchiveNamed(m) \/ Restore(m) \/ Release(m) PROVE FALSE
    BY <2>2 DEF ArchiveNamed, Pack, Restore, Release, InMonth
  <2>3. ASSUME NEW f \in Event, Backfill(f) PROVE FALSE
    BY <2>3 DEF Backfill
  <2>4. CASE Pass \/ Configure \/ UNCHANGED windowsVars
    BY <2>4 DEF Pass, Configure, windowsVars
  <2> QED
    BY <2>1, <2>2, <2>3, <2>4, WindowsSteps
<1> QED
  BY <1>2, WindowsTyping, PTL DEF WindowsSpec, UnwarnedLossIsLate, Short, Threshold

=============================================================================

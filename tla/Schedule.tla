------------------------------ MODULE Schedule ------------------------------
(***************************************************************************)
(* The archive schedule: validation_error, is_due, last_slot_before,       *)
(* next_run_after, mark_ran and save of archive/schedule.rs, and           *)
(* schedule_loop of main.rs, against a clock, a user who edits the         *)
(* schedule and starts jobs of his own, and restarts.                      *)
(*                                                                         *)
(* Time is counted in hours since the epoch, the finest unit a schedule    *)
(* knows.  The clock goes from one of the constant's moments to the next.  *)
(***************************************************************************)
EXTENDS Calendar, FiniteSets

CONSTANTS
  Moment,     \* bound: the hours at which anything happens
  Submitted,  \* bound: schedules users submit, valid or not
  Never,      \* last_run: NULL
  MaxFaults,  \* bound: crashes and failed updates
  FaultKinds, \* which faults may happen: a subset of AllFaults
  Behaviours  \* what the user does: a subset of AllBehaviours

AllFaults     == {"crash", "db"}
AllBehaviours == {"edit", "user_job", "nothing_due"}

ASSUME MomentAssumption ==
  /\ Moment \subseteq Nat /\ IsFiniteSet(Moment)
  /\ \E first \in Moment : \A t \in Moment : first <= t
ASSUME SubmittedAssumption ==
  Submitted \subseteq [kind : {"Off", "Daily", "Monthly"}, day : Nat, hour : Nat,
                       catchUp : BOOLEAN]
ASSUME NeverAssumption  == Never \notin Int
ASSUME KindAssumption   == /\ MaxFaults \in Nat /\ FaultKinds \subseteq AllFaults
                           /\ Behaviours \subseteq AllBehaviours

VARIABLES
  now,     \* now_secs
  sched,   \* the saved schedule
  lastRun, \* schedule.last_run
  ready,   \* settings.setup_complete
  up,      \* the process is running
  loop,    \* schedule_loop: at its "tick", or it has "marked" an attempt
  lock,    \* the job lock: "free", or held by a "user" job or a "scheduled" one
  owed,    \* something is old enough to archive
  slots,   \* ghost: slot -> how many attempts were recorded for it
  faults   \* faults so far

vars == <<now, sched, lastRun, ready, up, loop, lock, owed, slots, faults>>

-----------------------------------------------------------------------------
(* Slots *)

\* validation_error: a schedule that could not fire is refused.
Accepted(s) ==
  \/ s.kind = "Off"
  \/ s.hour <= 23 /\ (s.kind = "Monthly" => s.day \in 1..28)

Hour(s) == IF s.hour < 23 THEN s.hour ELSE 23

\* month_slot: a day the month does not have is its last one.
MonthSlot(ym, s) ==
  LET last == DaysInMonth(ym[1], ym[2])
      day  == IF s.day < 1 THEN 1 ELSE IF s.day > last THEN last ELSE s.day
  IN 24 * DaysFromCivil(ym[1], ym[2], day) + Hour(s)

\* last_slot_before: the latest slot at or before t.
LastSlot(s, t) ==
  LET today == 24 * (t \div 24) + Hour(s)
      ym    == CivilFromDays(t \div 24)
  IN IF s.kind = "Daily" THEN IF today <= t THEN today ELSE today - 24
     ELSE IF MonthSlot(ym, s) <= t THEN MonthSlot(ym, s)
     ELSE MonthSlot(PreviousMonth(ym), s)

\* Mutant of NextSlot: the month after December is January of the same year.
NextSlotSameYear(s, t) ==
  LET today == 24 * (t \div 24) + Hour(s)
      ym    == CivilFromDays(t \div 24)
  IN IF s.kind = "Daily" THEN IF today > t THEN today ELSE today + 24
     ELSE IF MonthSlot(ym, s) > t THEN MonthSlot(ym, s)
     ELSE MonthSlot(<<ym[1], IF ym[2] = 12 THEN 1 ELSE ym[2] + 1>>, s)

\* next_run_after: the first slot after t.
NextSlot(s, t) ==
  LET today == 24 * (t \div 24) + Hour(s)
      ym    == CivilFromDays(t \div 24)
  IN IF s.kind = "Daily" THEN IF today > t THEN today ELSE today + 24
     ELSE IF MonthSlot(ym, s) > t THEN MonthSlot(ym, s)
     ELSE MonthSlot(NextMonth(ym), s)

\* Schedules that can be saved and run; what last_slot_before returns for each of them
\* at each moment, and all the slots it returns.
Running == {s \in Submitted : Accepted(s) /\ s.kind # "Off"}

Latest == [s \in Running |-> [t \in Moment |-> LastSlot(s, t)]]

Slot == {Latest[s][t] : s \in Running, t \in Moment}

\* Mutant of IsDue: the first run is never owed.
IsDueAfterFirst(s, last, t) ==
  /\ s.kind # "Off" /\ last # Never
  /\ last < Latest[s][t]

\* is_due
IsDue(s, last, t) ==
  /\ s.kind # "Off"
  /\ IF last = Never THEN s.catchUp ELSE last < Latest[s][t]

Init ==
  /\ now \in Moment /\ \A t \in Moment : now <= t
  /\ sched \in {s \in Submitted : Accepted(s)}
  /\ lastRun \in {Never, now}       \* a fresh install, or one that has just run
  /\ ready \in BOOLEAN
  /\ up = TRUE /\ loop = "tick" /\ lock = "free"
  /\ owed = TRUE
  /\ slots = [t \in Slot |-> 0]
  /\ faults = 0

-----------------------------------------------------------------------------
(* schedule_loop *)

Fault(f) == f \in FaultKinds /\ faults < MaxFaults /\ faults' = faults + 1

NoFault == UNCHANGED faults

\* A tick finds a slot owed and records the attempt: mark_ran, whose error is
\* dropped.  A tick that finds nothing owed, or the setup unfinished, does nothing.
Tick ==
  /\ up /\ loop = "tick" /\ ready
  /\ IsDue(sched, lastRun, now)
  /\ \/ /\ lastRun' = now
        /\ slots' = [slots EXCEPT ![Latest[sched][now]] = @ + 1]
        /\ NoFault
     \/ UNCHANGED <<lastRun, slots>> /\ Fault("db")
  /\ loop' = "marked"
  /\ UNCHANGED <<now, sched, ready, up, lock, owed>>

\* run_archive takes the lock, finds something due, and has its row, which
\* JobRuns follows from here.
RunStarts ==
  /\ up /\ loop = "marked"
  /\ lock = "free" /\ owed
  /\ lock' = "scheduled"
  /\ loop' = "tick" /\ NoFault
  /\ UNCHANGED <<now, sched, lastRun, ready, up, owed, slots>>

\* run_archive refuses: another job has the lock, or nothing is due.
RunRefused ==
  /\ up /\ loop = "marked"
  /\ lock # "free" \/ ~owed
  /\ loop' = "tick" /\ NoFault
  /\ UNCHANGED <<now, sched, lastRun, ready, up, lock, owed, slots>>

-----------------------------------------------------------------------------
(* Jobs and the user *)

UserJob ==
  /\ "user_job" \in Behaviours
  /\ up /\ lock = "free"
  /\ lock' = "user" /\ NoFault
  /\ UNCHANGED <<now, sched, lastRun, ready, up, loop, owed, slots>>

JobEnds ==
  /\ up /\ lock # "free"
  /\ lock' = "free" /\ NoFault
  /\ UNCHANGED <<now, sched, lastRun, ready, up, loop, owed, slots>>

\* Mutant of EditSchedule: saving a schedule clears its last run.
EditScheduleForgets ==
  /\ "edit" \in Behaviours
  /\ up
  /\ \E s \in Submitted \ {sched} : Accepted(s) /\ sched' = s
  /\ lastRun' = Never
  /\ NoFault
  /\ UNCHANGED <<now, ready, up, loop, lock, owed, slots>>

\* put_schedule_handler refuses what could not fire; save replaces the JSON and keeps
\* last_run.
EditSchedule ==
  /\ "edit" \in Behaviours
  /\ up
  /\ \E s \in Submitted \ {sched} : Accepted(s) /\ sched' = s
  /\ NoFault
  /\ UNCHANGED <<now, lastRun, ready, up, loop, lock, owed, slots>>

FinishSetup ==
  /\ up /\ ~ready
  /\ ready' = TRUE /\ NoFault
  /\ UNCHANGED <<now, sched, lastRun, up, loop, lock, owed, slots>>

\* A month grows old enough, or the last one that was is done.
OwedChanges ==
  /\ "nothing_due" \in Behaviours
  /\ owed' = ~owed /\ NoFault
  /\ UNCHANGED <<now, sched, lastRun, ready, up, loop, lock, slots>>

-----------------------------------------------------------------------------
(* The clock and the process *)

HoursPass ==
  /\ now' \in Moment /\ now' > now
  /\ \A t \in Moment : t <= now \/ now' <= t
  /\ NoFault
  /\ UNCHANGED <<sched, lastRun, ready, up, loop, lock, owed, slots>>

Crash ==
  /\ up /\ Fault("crash")
  /\ up' = FALSE /\ loop' = "tick" /\ lock' = "free"
  /\ UNCHANGED <<now, sched, lastRun, ready, owed, slots>>

Restart ==
  /\ ~up
  /\ up' = TRUE /\ NoFault
  /\ UNCHANGED <<now, sched, lastRun, ready, loop, lock, owed, slots>>

Loop == Tick \/ RunStarts \/ RunRefused

Next == Loop \/ UserJob \/ JobEnds \/ EditSchedule \/ FinishSetup \/ OwedChanges
             \/ HoursPass \/ Crash \/ Restart

Spec == Init /\ [][Next]_vars

(* Fairness: the ticker ticks, jobs end, the clock runs, the container restarts,
   the user completes the setup. *)
FairSpec ==
  /\ Spec
  /\ WF_vars(Loop) /\ WF_vars(JobEnds) /\ WF_vars(HoursPass)
  /\ WF_vars(Restart) /\ WF_vars(FinishSetup)

-----------------------------------------------------------------------------
(* Properties *)

\* Type invariant.
TypeOK ==
  /\ now \in Moment
  /\ lastRun = Never \/ (lastRun \in Moment /\ lastRun <= now)
  /\ sched \in Submitted /\ Accepted(sched)
  /\ {ready, up, owed} \subseteq BOOLEAN
  /\ loop \in {"tick", "marked"} /\ lock \in {"free", "user", "scheduled"}
  /\ slots \in [Slot -> Nat] /\ faults \in Nat

\* main.rs:416-418: a recorded attempt uses its slot up, however often the schedule
\* is edited, however often the loop ticks or the app restarts; a failed attempt is
\* not retried in a loop.
OneAttemptPerSlot == \A t \in Slot : slots[t] <= 1

\* A schedule that has something to go by: catch-up, or a run to count from.
Counts == sched.kind # "Off" /\ (sched.catchUp \/ lastRun # Never)

\* README.md:51: a slot that passes is attempted, at once or after the downtime that
\* hid it, unless the user changes the schedule to one whose slots are earlier ones.
\* A schedule without catch-up that has never run is left out: it never does.
SlotIsCaughtUp ==
  \A t \in Slot :
    (Counts /\ Latest[sched][now] = t)
      ~> (lastRun # Never /\ lastRun >= t) \/ ~Counts \/ Latest[sched][now] < t

\* The next run the page shows is the moment at which the loop will find a new slot: it
\* lies ahead, is a slot itself, and until then no other slot comes to be owed, at the
\* ends of months and years as everywhere else.
ShownSlotComes ==
  sched.kind # "Off" =>
    LET next == NextSlot(sched, now)
    IN /\ now < next /\ LastSlot(sched, next) = next
       /\ LastSlot(sched, now) <= now /\ LastSlot(sched, next - 1) = LastSlot(sched, now)
       /\ \A t \in Moment :
            t \in now..(next - 1) => LastSlot(sched, t) = LastSlot(sched, now)
=============================================================================

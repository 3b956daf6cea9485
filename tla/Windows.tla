------------------------------- MODULE Windows -------------------------------
(***************************************************************************)
(* The spans of time that keep the backup service and the archive apart:   *)
(* the service's --retention and --missing-range as docker.rs reads them   *)
(* off its command line, the archiving threshold and the live window of    *)
(* the settings, what health_handler of main.rs says of them, which months *)
(* due_months of archive/run.rs offers, and the status that sync of        *)
(* upb/reconcile.rs derives from a clip's age.                             *)
(*                                                                         *)
(* A few events of one camera lie on the calendar.  The service captures   *)
(* one when it happens or misses it, may fetch a missed one as long as its *)
(* range lasts, and deletes clips its retention has passed.  Months are    *)
(* archived when they are due, or at any time by name.  Archiving and      *)
(* restoring a month are single steps here: ArchiveRun follows them.       *)
(* Settings and arguments may change.  Time is counted in hours since the  *)
(* epoch.                                                                  *)
(***************************************************************************)
EXTENDS Calendar, FiniteSets

CONSTANTS
  Event,  \* events of one camera
  At,     \* the hour each of them happens
  Times,  \* bound: the hours at which anything happens
  Setup   \* how the service and the settings may be configured

Unit     == [d |-> 86400, h |-> 3600, m |-> 60, s |-> 1, w |-> 604800]
Duration == [n : Nat, unit : DOMAIN Unit]

ASSUME EventAssumption == At \in [Event -> Nat] /\ Times \subseteq Nat
ASSUME SetupAssumption ==
  Setup \subseteq [retention : Duration, range : Duration,
                   shown : SUBSET {"--retention", "--missing-range"},
                   archiveAfterDays : Nat, liveWindowMonths : Nat]

VARIABLES
  hour,     \* the hour
  setup,    \* the service's arguments and our settings
  row,      \* the service's record of each event: "ahead", "missed" or "clip"
  disk,     \* events with a clip in the live directory
  wrote,    \* the hour their clips were last written
  packed,   \* events whose clips are in an archive
  archives, \* months with an archive
  pinned,   \* months restored and not released
  through,  \* ghost: month -> the end of its newest day when it was archived
  waited    \* ghost: month -> the threshold it had reached then; 0 if it had not

windowsVars == <<hour, setup, row, disk, wrote, packed, archives, pinned, through, waited>>

DayOf   == [e \in Event |-> At[e] \div 24]
MonthOf == [e \in Event |-> CivilFromDays(DayOf[e])]
Months  == {MonthOf[e] : e \in Event}
InMonth(m, S) == {e \in S : MonthOf[e] = m}

WindowsInit ==
  /\ hour \in Times /\ \A t \in Times : hour <= t
  /\ setup \in Setup
  /\ row = [e \in Event |-> IF At[e] <= hour THEN "clip" ELSE "ahead"]
  /\ disk = {e \in Event : At[e] <= hour}
  /\ wrote = At
  /\ packed = {} /\ archives = {} /\ pinned = {}
  /\ through = [m \in Months |-> 0] /\ waited = [m \in Months |-> 0]

-----------------------------------------------------------------------------
(* What the program knows of the windows *)

Secs(duration) == duration.n * Unit[duration.unit]

\* Both parsers know days, hours, minutes and seconds, and nothing else.
Parses(duration) == duration.unit # "w"

\* Mutant of RetentionDays: hours are taken for days.
RetentionDaysAnyUnit(duration) == duration.n

\* parse_retention_days
RetentionDays(duration) == Secs(duration) \div 86400

\* inspect: flag_value finds an argument on the command line, or nothing.
Shown(flag) == flag \in setup.shown

\* health_handler's warnings about the two windows, of a service that is running.
Warnings ==
  {w \in {"retention", "backfill"} :
     /\ setup.archiveAfterDays > 0
     /\ CASE w = "retention" -> /\ Shown("--retention") /\ Parses(setup.retention)
                                /\ RetentionDays(setup.retention) < setup.archiveAfterDays
          [] w = "backfill"  -> /\ Shown("--missing-range") /\ Parses(setup.range)
                                /\ Secs(setup.range) >= setup.archiveAfterDays * 86400}

\* live_window_cutoff: 30.5 days for a month; none of the past is outside a window of 0.
InLiveWindow(t) ==
  \/ setup.liveWindowMonths = 0
  \/ t >= hour - setup.liveWindowMonths * 732

\* The status a sync would derive for an event now.
ClipStatus(e) ==
  CASE row[e] = "ahead"  -> "absent"
    [] row[e] = "missed" ->
         IF /\ Shown("--missing-range") /\ Parses(setup.range)
            /\ 3600 * (hour - At[e]) <= Secs(setup.range)
         THEN "pending_backfill" ELSE "never_backed_up"
    [] row[e] = "clip"   ->
         IF ~InLiveWindow(At[e]) THEN "archived"
         ELSE IF e \in disk THEN "live" ELSE "vanished"

-----------------------------------------------------------------------------
(* The archive *)

\* The days of the month that have a directory: months_for_camera.
DayDirs(m) ==
  {DayOf[e] - DaysFromCivil(m[1], m[2], 1) + 1 : e \in InMonth(m, disk)}

\* Mutant of IsOld: the age counts from the month's oldest day.
IsOldByFirstDay(m) ==
  OldEnough(m, {d \in DayDirs(m) : \A f \in DayDirs(m) : d <= f}, hour \div 24,
            setup.archiveAfterDays)

\* A month that is over and whose newest day directory has reached the threshold.
IsOld(m) == OldEnough(m, DayDirs(m), hour \div 24, setup.archiveAfterDays)

\* due_months: an entry that nothing blocks.
Due(m) ==
  /\ InMonth(m, disk) # {} /\ IsOld(m)
  /\ m \notin pinned /\ m \notin archives
  /\ \A e \in InMonth(m, disk) : hour - wrote[e] >= 1

\* validate refuses to call settings complete in which either is not set.
Complete == setup.archiveAfterDays > 0 /\ setup.liveWindowMonths > 0

\* archive_months packs what is there and removes it.
Pack(m) ==
  /\ packed' = packed \cup InMonth(m, disk) /\ disk' = disk \ InMonth(m, disk)
  /\ archives' = archives \cup {m}
  /\ through' = [through EXCEPT ![m] = 24 * NewestDayEnd(m, DayDirs(m))]
  /\ waited' = [waited EXCEPT ![m] = IF IsOld(m) THEN setup.archiveAfterDays ELSE 0]
  /\ UNCHANGED <<hour, setup, row, wrote, pinned>>

\* schedule_loop, and start_archive_handler when no month is named: what nothing blocks.
ArchiveDue(m) == Complete /\ Due(m) /\ Pack(m)

\* start_archive_handler of a month that is named: run_archive asks neither how old it is
\* nor when it was last written; only an archive in its place makes it skip the month.
ArchiveNamed(m) == Complete /\ InMonth(m, disk) # {} /\ m \notin archives /\ Pack(m)

\* Mutant of Restore: writes back clips the archive does not hold.
RestoreAll(m) ==
  /\ m \in archives \ pinned
  /\ disk' = disk \cup InMonth(m, Event) /\ pinned' = pinned \cup {m}
  /\ UNCHANGED <<hour, setup, row, wrote, packed, archives, through, waited>>

\* run_restore writes back what the archive holds, and pins the month.
Restore(m) ==
  /\ m \in archives \ pinned
  /\ disk' = disk \cup InMonth(m, packed) /\ pinned' = pinned \cup {m}
  /\ wrote' = [e \in Event |-> IF e \in InMonth(m, packed) THEN hour ELSE wrote[e]]
  /\ UNCHANGED <<hour, setup, row, packed, archives, through, waited>>

\* The user releases the pin.
Release(m) ==
  /\ m \in pinned
  /\ pinned' = pinned \ {m}
  /\ UNCHANGED <<hour, setup, row, disk, wrote, packed, archives, through, waited>>

-----------------------------------------------------------------------------
(* The backup service and the clock *)

\* Hours pass; events in them are captured or missed.
Pass ==
  /\ hour' \in Times /\ hour' > hour /\ \A t \in Times : t <= hour \/ hour' <= t
  /\ LET new == {e \in Event : row[e] = "ahead" /\ At[e] <= hour'}
     IN \E caught \in SUBSET new :
          /\ row' = [e \in Event |-> IF e \in caught THEN "clip"
                                     ELSE IF e \in new THEN "missed" ELSE row[e]]
          /\ disk' = disk \cup caught
  /\ UNCHANGED <<setup, wrote, packed, archives, pinned, through, waited>>

\* A missed event is fetched after all.
Backfill(e) ==
  /\ row[e] = "missed" /\ 3600 * (hour - At[e]) <= Secs(setup.range)
  /\ row' = [row EXCEPT ![e] = "clip"] /\ disk' = disk \cup {e}
  /\ wrote' = [wrote EXCEPT ![e] = hour]
  /\ UNCHANGED <<hour, setup, packed, archives, pinned, through, waited>>

\* A clip has outlived the service's retention.
Expire(e) ==
  /\ e \in disk /\ 3600 * (hour - At[e]) > Secs(setup.retention)
  /\ disk' = disk \ {e}
  /\ UNCHANGED <<hour, setup, row, wrote, packed, archives, pinned, through, waited>>

\* The settings are saved, or the service is made anew with other arguments.
Configure ==
  /\ setup' \in Setup
  /\ UNCHANGED <<hour, row, disk, wrote, packed, archives, pinned, through, waited>>

WindowsNext ==
  \/ Pass
  \/ \E m \in Months : ArchiveDue(m) \/ ArchiveNamed(m) \/ Restore(m) \/ Release(m)
  \/ \E e \in Event : Backfill(e) \/ Expire(e)
  \/ Configure

WindowsSpec == WindowsInit /\ [][WindowsNext]_windowsVars

-----------------------------------------------------------------------------
(* Properties *)

\* Type invariant.
WindowsTypeOK ==
  /\ hour \in Times /\ setup \in Setup
  /\ row \in [Event -> {"ahead", "missed", "clip"}]
  /\ {e \in disk \cup packed : row[e] # "clip"} = {}
  /\ wrote \in [Event -> Nat] /\ {through, waited} \subseteq [Months -> Nat]
  /\ pinned \subseteq archives /\ archives \subseteq Months

\* reconcile.rs:72-73: a clip in an archive reads as missing only if its month had not
\* waited for the live window that is set now: the threshold it reached was shorter than
\* that, or it was archived by name before it reached any.  (With the defaults the setup
\* page offers, 30 days and 2 months, each archived clip reads as missing for a month.)
ArchivedIsNotMissing ==
  Complete =>
    \A e \in packed :
      ClipStatus(e) = "vanished" => waited[MonthOf[e]] * 24 < setup.liveWindowMonths * 732

\* main.rs:679-684, README.md:316-321: as long as no warning about the backfill window is
\* shown, the service writes into a month that has been archived only where it has an
\* event on a later day than any that had a directory; unless the month was archived by
\* name before it was old, or under a shorter threshold than the one set now.
StrandedOnlyInGap ==
  [][\A e \in disk' \ (disk \cup packed) :
       LET m == MonthOf[e]
       IN m \in archives /\ Complete
            => \/ "backfill" \in Warnings
               \/ ~Shown("--missing-range") \/ ~Parses(setup.range)
               \/ waited[m] < setup.archiveAfterDays
               \/ 24 * DayOf[e] >= through[m]]_windowsVars

\* README.md:23-25: the service deletes a clip that is in no archive before its month is
\* old enough for one only if its retention ends within the month after the threshold,
\* and health warns when it ends before.
UnwarnedLossIsLate ==
  [][\A e \in disk \ disk' :
       LET retention == Secs(setup.retention) \div 86400
           threshold == setup.archiveAfterDays
       IN \/ e \in packed' \/ IsOld(MonthOf[e])
          \/ /\ retention < (IF threshold < 1 THEN 1 ELSE threshold) + 31
             /\ retention < threshold =>
                  \/ "retention" \in Warnings
                  \/ ~Shown("--retention") \/ ~Parses(setup.retention)]_windowsVars

=============================================================================

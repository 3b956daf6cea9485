# Verification of protect-manager

protect-manager sits beside a UniFi Protect backup service: the service writes clips
into `<backup>/<camera>/<day>/`, protect-manager indexes them, packs whole months
into tar archives, deletes the originals, restores months on request, and watches
that the service keeps downloading. This directory holds TLA+ models of it, TLC
configurations that check them on small instances, and TLAPS proofs. All paths below
are relative to `src/crates/protect-manager/src/` unless they say otherwise.

Contents: 1 inventory, 2 modules, 3 runs, 4 proofs, 5 divergences, 6 not modelled,
7 plan.

## 1. Inventory

| component | state | operations | hard behaviours | what makes it correct |
|---|---|---|---|---|
| **Archive pipeline** `archive/{run,pack,plan}.rs`, `db.rs` | `<month>.tar.partial`, `<month>.tar`, `archive_progress` rows (one per day: offset, hashes), `archives` row with its pin, the live day directories | select, second scan, resume, append a day, checkpoint, promote, verify, discard, record, remove originals, restore, pin, sweep at startup | a crash between any two steps; every database error is ignored somewhere; the backup service writes into the directories the job deletes; resuming from rows of an earlier attempt | no footage is lost; originals go only under a verified tar; an archive is never overwritten; retries get through |
| **Job lifecycle** `archive/run.rs`, `db.rs`, `main.rs` | job lock, `archive_runs` rows, broadcast channel of 256 messages, one watcher task per scheduled run | start, refuse, work, finish, announce, watch, reconcile at startup | errors and dropped handlers between the row and the task; a receiver that subscribes late or lags; a crash at any point | one job at a time; the history agrees with what runs; the webhook tells the truth |
| **Schedule, calendar** `archive/{schedule,plan}.rs`, `main.rs` `schedule_loop` | `schedule` row (settings, `last_run`) | load, validate, tick, mark, run, edit; the next run, for the page | downtime over a slot; the mark before the run; a busy lock; edits that move the slot; ends of months and years | every slot attempted, once; the page tells when |
| **Windows** `main.rs` `health_handler`, `archive/run.rs` `due_months`, `upb/reconcile.rs` | none of their own: the service's arguments, two settings, dates | warn, offer months, derive a clip's status | four spans of time with three units, set by two programs, that must not overlap, and change; months archived by name | the service neither deletes nor writes what the archive is about to take or has taken, unless the user is told |
| **Graceful shutdown** `main.rs` | none | take SIGTERM, let handlers answer, wait up to 20 s for the job lock | the schedule loop goes on meanwhile; the wait times out | a job that could have ended is not interrupted |
| **Watchdog** `watchdog.rs` | `stalled_since`, `last_restart`, log | assess, first sighting, confirm, restart, notify | marks that survive a restart of the app; the Docker call fails, or the app dies after it | a restart only after two readings a grace period apart and a cooldown after the last |
| **Event index** `upb/{reconcile,read,parse}.rs`, `events.rs` | `events`, `cameras`, `index_state` | sync (read everything, stat live clips, replace in one transaction), query | two syncs at once; the snapshot is older than the disk; archives and restores change what is live | the index is some recent truth, all of it or none |
| **Media cache** `media/{mod,range}.rs` | thumbnails and transcodes on disk, permits | thumbnail, playable, evict, serve a range | evict between another request's check and its use; two requests for one clip; names made of ids that are not the ids | no torn file is ever served; the cache drains |
| **Sign-in limiter** `ratelimit.rs`, `auth.rs` | buckets per client and one global, in memory | ask, verify, record | the question and the record are around a slow verification; several threads | the hashing is rationed; nobody pays for another's failures |
| **Sessions** `auth.rs`, `db.rs` | session rows, cookies | create, look up, touch, revoke the others, sign out, purge | requests in flight around a revocation; failed statements; a lost cookie | valid from sign-in to its end, never after |
| **Settings, discovery** `setup.rs`, `docker.rs`, `upb/parse.rs`, `config.rs`, `main.rs` | settings row, container id | inspect, propose, validate, save, re-discover | three views of one path; either container is recreated with other mounts; load, slow call, save | what was confirmed is right while it stands; a sync finds the clips; a save is not undone unnoticed |
| **Storage** `storage.rs` | samples | sample, project | none | arithmetic over floats |
| **Health, errors, tracing, API types** | none | read and render | none | wording |
| **Web client** `src/web/src` | React state: the progress shown, the setup draft | render; one progress socket | a socket that drops or lags leaves a stale view | shows the job that runs |

Interactions. HTTP handlers and the loops of `main.rs` share one SQLite pool, one
job lock and one progress channel. `schedule_loop` and three handlers start jobs;
jobs write to the live directory (restore, removal) which the backup service also
writes to and the index sync reads; each sync ends in a cache eviction. The backup
service shares nothing with the program but files.

## 2. Modules

| module | models |
|---|---|
| `ArchiveRun` | one camera-month through the archive pipeline |
| `FootageSafe` | what the pipeline promises, abstractly; `ArchiveRun` implements it |
| `ArchiveRunProofs` | theorems about `ArchiveRun` |
| `JobRuns` | requests, job lock, rows of `archive_runs`, progress channel, failure watcher |
| `JobRunsProofs` | theorems about `JobRuns` and `JobBoard` |
| `JobBoard` | `JobRuns` with the progress socket, the page behind it and the stopping process |
| `Calendar` | civil dates, month lengths, the age of a month |
| `CalendarProofs` | theorems about `Calendar` |
| `Schedule` | the schedule loop against the clock and the calendar |
| `ScheduleProofs` | theorems about `Schedule` and `Windows` |
| `Windows` | retention, backfill range, threshold and live window on the calendar |
| `SignIn` | the sign-in limiter and the sessions |
| `SignInProofs` | theorems about `SignIn` |
| `Setup` | mounts and paths: what is proposed, confirmed and found by a sync |
| `Watchdog` | the watchdog over the backup service, with the index it judges by |
| `WatchdogProofs` | theorems about `Watchdog` |
| `EventIndex` | the settings row and the index built from it, by several tasks |
| `EventIndexProofs` | theorems about `EventIndex` and `Setup` |
| `MediaCache` | transcodes on demand, the permits for ffmpeg, evictions |
| `MediaCacheProofs` | theorems about `MediaCache` |
| `MC...` | one for each of the modules that is checked: its instance |

Who uses whom: `ArchiveRun` instantiates `FootageSafe`; `JobBoard` extends `JobRuns`;
`Schedule` and `Windows` extend `Calendar`.
A theorem module may extend two components, so `JobBoard`, `Windows` and `Setup` have
names of their own for what every specification has (`SetupSpec`, `WindowsTypeOK`) and
for what `JobRuns`, `Schedule` or `EventIndex` name too.

### ArchiveRun

A clip's bytes are a version number: the k-th write by the backup service. `src` is
the live directory, `partial`/`tar` are the two files, each a sequence of entries,
`ckpt` the rows of `archive_progress`, `row` the row of `archives`. Only one job runs
at a time (`JobRuns` shows that), so the job is one program counter `pc` with the
locals of `archive_months` (`snap`, `offset`, `hashes`, `todo`) and of `append_day`
(`batch`, `day`, `packed`). One action is one stretch between two points at which a
crash, an error or a write by the backup service makes a difference:
select - scan - resume_point (four outcomes) - per day: open and cut, one clip after
another, trailer and sync, checkpoint - rename - verify - forget checkpoints - record
- remove directory after directory. Around it: `BackfillClip`, `RewriteClip`,
`PurgeClip` (the backup service), `Settle` (time), `Crash`, `Restart` (the sweep),
restore and pin. `newest` is a ghost: the last version the backup service wrote and
has not expired itself.

Faults come from a budget `MaxFaults`, by kind: `crash`; `io` (a file operation
fails); `db` (a statement fails: most such errors are dropped by the code); `purge`.
What the surroundings may do is the constant `Behaviours`. The ghost `suffered` is the
set of kinds that have struck so far: what a property owes only to the absence of some
kind of fault is stated in terms of it, and so one run covers all kinds
(`CheckpointsDescribePartial` holds until a statement has failed,
`EventuallyArchived` unless clips expire).

Abstractions. Offsets count entries, as if entries had one size; a partial with the
wrong entries and the right length therefore cannot hide behind a size that differs.
A crash keeps what was synced and an arbitrary prefix of what was not; it does not
undo renames. Rows that fail to parse, dry runs, `preflight_writable` and several
months in one run (where an error of `verify` also ends the later ones) are left out.

### JobRuns

Each member of `Run` is a request of one `Kind` which moves through `Phase`:
`checking` (in the handler, lock held, no row), `listing` (restore only: row written
and announced, index being read, still in the handler), `working`, `finishing`,
`telling`, `unlocking` (in the spawned task), `over`. `inbox`/`lagged`/`watch` are the
broadcast receiver of the watcher that `main.rs` puts on a scheduled run; `pushed`
says that the webhook was called. Faults: `crash`, `db`, `list` (the index of the
archive cannot be read) and `cancel` (the client of a handler goes away and the
server drops the handler's future at an await); `suffered` is the set of those met so
far. `HistoryTellsPresent` is what the code's comment says of the history;
`RunningHasJob`, `ToldIsRecorded`, `AlarmIsTrue` and `RowsSettle` are promised as long
as nothing but crashes has happened (`OnlyCrashes`). A webhook URL is taken to be set.

### JobBoard

`JobRuns` with its step actions wrapped: what sends on the progress channel is sent to
the page's socket as well (`Loud`), the rest leaves the page alone (`Quiet`). `queue` is
the socket's own receiver with the channel's capacity, `shown` what `ProgressContext`
holds, `fading` the eight-second timer. `Connect`, `Disconnect`, `Hear`, `Fade` are the
page and its handler; a receiver that lags ends the handler. `server` goes from
`serving` over `draining` (`Sigterm`: no new request is taken; handlers under way
answer) and `waiting` (`jobs_quiet_for`) to `leaving`; then `main` returns and every
task stops where it is. `schedule_loop` is a task like any other and may start a job
until then. `cutOff` is a ghost: the jobs the stopping process gave up on or did not
see. The failure watcher is left out here; it only reads the channel.

### Calendar

`civil_from_days` and `days_from_civil` of `plan.rs` with their eras of 400 years that
begin in March, cut into the parts the proofs are about; `days_in_month`, the month
before and after, `cutoff_month`, `newest_day_end`, and the test by which `due_months`
calls a month old enough. Plain operators, no state. `MCSchedule` has TLC evaluate
them over a whole era in an `ASSUME`, against days counted one by one.

### Schedule

Time is in hours since the epoch and jumps between the constant's moments; slots are
`last_slot_before` and `next_run_after` on the calendar. `Tick` is a turn of the loop
that finds a slot owed and marks it; turns that do nothing are stuttering.
`RunStarts`/`RunRefused` are the two outcomes of `run_archive`, after which `JobRuns`
takes over. `EditSchedule` saves what `validation_error` lets through, and keeps
`last_run`. `slots` is a ghost: how many attempts were recorded for a slot.

### Windows

Events of one camera at fixed hours. The service captures or misses each (`Pass`), may
fetch a missed one inside its range (`Backfill`), and deletes what has outlived its
retention (`Expire`). A month is archived because `due_months` offers it (`ArchiveDue`)
or because a request names it (`ArchiveNamed`), in which case `run_archive` checks
neither its age nor its last write (`run.rs:470-479`). `Pack` is what both do; it,
`Restore` and `Release` are single steps: `ArchiveRun` follows them in detail.
`Configure` is a save of the settings or a redeployed service, at any time. `Warnings`
is what `health_handler` says given what is shown of the service's command line and what
the parsers can read; `ClipStatus` is what a sync would derive. Only settings that
`validate` calls complete archive (`Complete`: both windows are set), as
`start_archive_handler` and `schedule_loop` ask. `through` and `waited` are ghosts: how
far a month had directories when it was archived, and the threshold it had reached then,
0 for a month that was archived by name before it was old.

### SignIn

A login is `StartLogin` (the clock is read, the limiter asked), a verification on one of
the `Worker` threads, and `RejectLogin` or `AcceptLogin`, which report under the time
that was read; then `CreateSession`, on its own. There is no await between question and
report, so threads are what bounds the overlap. A request with a cookie is `Ask`
(`session_valid`), `Touch` and, for the page that signs out the others,
`RevokeOthers`. A login that is throttled changes nothing and is no step. Faults:
`crash` (with the purge at the next start, which may fail), `db`, `lost` (the cookie
does not arrive). `Plan` bounds the wrong and right passwords of a behaviour.

### Setup

A path is a sequence of components. There are three views of one: the host's; the
service's, through its mounts (`OnHost` is Docker's rule; a service without a
`SQLITE_PATH` has none); ours, through the one mount of the backup directory (`Ours`).
`ToHostPath`, `HostToLocal`, `StripPrefix` and `CameraName` are the program's
translations (`Apart` says of a path that it lies in a mount of its own below the clips,
where our one mount does not lead), `Proposed` what `inspect` makes of them. `Propose`
fills the page's draft (saved values win over proposed ones), `Correct` is the user
typing, `SaveSettings` the checked save, `Sync` derives every row's status and camera
from the saved prefix. `Redeploy` replaces the service with another deployment,
`Remount` changes our own mount or takes it away. `from` is a ghost: the deployment and
directory an uncorrected proposal came from. Every event is recent here (`Windows` has
their ages), and the container is the one there is (`EventIndex` has its replacement and
the write-back of settings).

### Watchdog

Time is in turns of `watchdog_loop`, two minutes each; the sync and the tick each turn
once per turn of time, in either order or one inside the other. Upstream is `start`
(when each event was recorded), `path` (which clips were downloaded) and `stuck`;
`index` is the snapshot of it that the last `Sync` took. A tick is cut where another
task, a crash or an error makes a difference: the query for the two clocks
(`ReadClocks`), the count of the backlog with the judgement (`Recovered`, `Detected`,
`DetectedAgain`, `Waiting`, `Confirm`), the call to Docker (`DockerRestarts`,
`DockerFails`, `DockerReplyLost`), the two marks (`MarkRestart`, `ClearStalled`).
`since` and `last` are the columns `stalled_since` and `last_restart`. The backup
service acts before the two loops turn, which loses nothing: what it does after the
sync is first seen by the next one. Faults: `crash`, `db` (a statement of the tick
fails, which the code ignores), `docker` (no restart), `lost_reply` (a restart that is
reported as a failure), `sync`. `streak`, `restarted`, `hasty`, `ill` and `calm` are
ghosts: the first of an unbroken row of sick readings, the real time of the last
restart, the number of restarts before their time, the turns for which the service's
own database has shown a stall, and whether nothing but Docker has failed so far.

### EventIndex

Two rows that are replaced whole: the settings document and the index. A `Task` is a
caller of `sync_once` or of `current_container`; `Loop` is `sync_loop`, the others are
the sync after a save, the one on request, and the pages that only look for the
container. A task is cut at every await that lets another one in: its load of the
settings (`StartSync`, `StartLook`), the question to Docker (`Ask`, `Discover`), the
write-back (`SaveId`), the read of the backup service's database (`ReadUpstream`), the
look at the disk (`LookForClips`), the transaction (`WriteIndex`), the error
(`RecordError`). `edit` is the number of the user's save that the other fields of the
document come from, so a write-back of an older copy shows as a smaller number.
Upstream is the status of each event's row (`up`), its age against the two windows
(`age`) and the files on disk (`disk`). `saved`, `raced`, `gone` are ghosts: the
user's last save, the saves made while a task held a copy of the settings, the
containers that ceased to exist. `sync_once` and
`current_container`, which it calls, each load the settings (`main.rs:344`, `:585`);
`StartSync` is both loads. Left out: an explicit `UPB_CONTAINER` (then nothing is
written back), an inspection of the container that fails after it was found (then
uncaptured events read as lost until the next sync), paths (`Setup`), and the columns
other than the status. The eviction that ends a sync is in
`MediaCache`.

### MediaCache

A request is `clip_handler`: `resolve_clip`, which asks the index and the file system
(`Resolve`, `Refuse`), probe (`UseOriginal`, `UseCached`, `Wait`; a probe that fails is
taken for a codec that browsers do not play, `NeedsTranscode`), the line for a permit (`MyTurn`: tokio's semaphore is first come
first served), the second look (`FoundAfterAll`), ffmpeg (`StartEncoder`), its outcome
(`CheckOutput`, `Discard`), the rename, and `serve_file` (`Serve`, `ServeOriginal`).
`thumbnail` has the same shape without the codec check and is not modelled apart.
`Dest` is `clip_path`: `SafeName` is any function from ids to file names, so it may give
a clip a name that is not its id, or two clips one name. ffmpeg is a process of its
own (`EncoderOpens`, `EncoderFindsNoClip`, `EncoderEnds`, `EncoderFails`): it writes
through the file it opened, whatever becomes of the name, so `scratch` and `cached`
map a name to the file it refers to, and a file is named by the request whose
ffmpeg created it. `whole` are the files with a complete transcode, `mixed` those
two processes wrote to at once, whose content may be anything. A sync rebuilds the list of live
clips, reads it back and evicts entry by entry (`RebuildIndex`, `ReadLive`, `EvictOne`,
`EvictionDone`); the stem of an entry is compared with the ids of the list, as the code
does. Faults: `crash` (the container stops with all its processes),
`cancel` (the client goes away and the handler is dropped at an await), `probe` (ffprobe
fails), `encode`, `io` (the rename), `db` (the list of live clips cannot be read and counts as empty).
`doubled`, `missed` are ghosts: names that two ffmpegs had in hand, clips that were
off the disk at some time. Whose footage a file holds whose name two ids share is not
told apart. A query of `resolve_clip` that fails (a 500 with no other effect), a download that is still going on, an ffmpeg that cannot be
started and a power loss that tears a renamed file are left out.

## 3. Runs

Every property of a passing run has a mutant of the code that breaks it, defined
beside the definition it mutates and named in PROJECT.json.

| run | instance and bounds | shows |
|---|---|---|
| `archive_month` | fair; 3 clips on 2 days, 3 faults of every kind; backfills only between jobs, each clip written once; explicit targets, restores, pins | `NothingLost`, the refinement of `FootageSafe`, `CheckpointsDescribePartial`, `RestoredIsLive`, `EventuallyArchived` |
| `archive_wild` | same month, each clip written up to twice, also while the job runs; 2 faults | `RemovalJustified`, `RecordedTarStays`, `LossIsLateWrite` |
| `archive_late_write` | no fault, one backfill while the job runs | violates `NothingLost` (divergence 1) |
| `jobs` | fair; 2 requests, channel of 2, 2 faults of every kind | `OneJobAtATime`, `VerdictStands`, `RunningHasJob`, `ToldIsRecorded`, `AlarmIsTrue`, `RowsSettle` |
| `board` | 2 requests, channel of 2, 1 progress message a job, 1 fault, 1 SIGTERM; the socket drops and reconnects at will | `PageAgrees`, `InterruptedOnlyByForce` |
| `schedule_slots` | fair; 4 moments around the ends of 2023 and of February 2024, 7 submitted schedules of which one is refused; 1 crash or failed update; edits, user jobs | `OneAttemptPerSlot`, `ShownSlotComes`, `SlotIsCaughtUp` |
| `windows_spans` | 3 events of February 2024, 9 moments until May, 9 settings that change at will | `ArchivedIsNotMissing`, `StrandedOnlyInGap`, `UnwarnedLossIsLate`, type |
| `sign_in` | 2 clients, 2 threads, 2 sessions, 11 seconds with the delays scaled down; 8 wrong passwords, or 3 and a right one, or 2 right ones; 1 fault | `Rationed`, `NoiseCostsLittle`, `BlockStands`, `SessionsStand` |
| `setup_paths` | 4 deployments, one with a camera on a disk of its own, 2 directories, 2 cameras, 2 recorded events; recreations and remounts at will | `ConfirmedIsRight`, `SyncFindsClips`, type |
| `watchdog_restart` | 3 events, 6 turns of two minutes, grace of 1 turn, cooldown of 3; 1 fault of every kind; edits | `HastyOnlyByFault`, `StallIsCured`, type |
| `index_sync` | fair; 1 event, 2 containers, 2 tasks, 1 save, 1 change of the world, 1 fault of every kind, three starting points | `SaveStandsUnlessRaced`, `PickStands`, `IndexCatchesUp` |
| `media_serve` | fair; 3 requests (2 for one clip, or 1 each for two of which one has a file name that is no id; 1 for a clip that plays directly, has still to come and whose file would have the first one's name), 2 permits, 1 sync task, 1 clip that leaves or arrives, 1 fault of every kind | `TornOnlyByDoubling`, `LiveClipIsServed`, `EveryRequestAnswered`, `CacheDrains` |

A type invariant that is proved (section 4) is not checked again by a run. The same
goes for `AppendNeverExtends` and `EncodersBounded`. `JobBoard` has no type
invariant of its own; that of `JobRuns` is proved.

Why the bounds are enough. Two days, one with two clips, give a day boundary, a clip
boundary inside a day, an append after a checkpoint and a late clip in a packed day;
three faults allow a crash, an error in the recovery from it and an error in the
recovery from that, which is what the stale leftovers need; a second version is what the
hashes can tell apart. Two requests are the least that can compete for the lock or
mistake each other's messages, and a channel of two makes a receiver lag within the
messages of two jobs. The page needs no more: a message of another job, a lag, and a
final message that is still fading when the next job begins. The schedules have slots on
the last hour of a day and the first of a month, in a month shorter than their day, and
over the end of a year; the calendar itself is tested over 400 years and proved for all.
The events of `Windows` lie on a month's first days, in its last week and on its last
day, and the settings on either side of every comparison the program makes, a threshold
of one day and of none with a long backfill range included. The limiter's constants keep
their order and are scaled so that blocks double, reach both caps, expire and are
forgotten. The deployments of `Setup` have the database below the clips, below them in a
mount of its own (where a camera has a disk of its own too), out of reach, and the clips
under another name: each rule of the translations decides one of them, and two events
can be recorded by two of them. The watchdog needs two events for a symptom and a third
for a second stall; six turns are a stall, a grace period, a restart, a cooldown and a
second restart. Two tasks are the least that can write each other's work over, and one
save, one change of the world and one fault between any two of their steps give every
pair of them an order; the statuses of events do not depend on each other, so one event
is enough. Two requests for one clip and two permits are the least that meet at one
scratch file; with the other clips a request can be refused, go on with the original,
lose its file to an eviction that does not know its name, or meet another clip's request
at the file. `CHECK_DEADLOCK FALSE` is set throughout: budgets run out, requests are
finite and time ends.

Fairness. The job's task, the handlers and watchers are tokio tasks that are polled
while they can go on (`WF` on `JobStep`, `Handler`, `Task`, `Watcher`); the schedule
loop's interval ticks once a minute and so offers a due month again (`WF` on
`SelectDue`, `Loop`); the compose file restarts the container (`WF` on `Restart`); time
passes and jobs end; `sync_loop` starts a sync a minute and tasks that have started go
on (`WF` on `StartSync(Loop)`, `TaskStep`, `SyncStep`); handlers go on and ffmpeg comes
to an end (`WF` on `RequestStep \/ EncoderStep`, with `Ask`, which is the user's, left
out). No fairness is assumed of users, of the backup service or of faults; but for
`SlotIsCaughtUp` the user completes the setup some time. `board`, `sign_in`,
`windows_spans` and `setup_paths` check safety only. `EventuallyArchived` does not hold
of a month whose clips expire: one that the backup service empties is never archived.

## 4. Proofs

`ArchiveRunProofs` proves, for every set of clips and days, every bound and every
choice of faults and behaviours:

- `TypeCorrect`: `Spec => []TypeOK`.
- `NeverExtends`: `[]AppendNeverExtends`, from the type invariant alone; every path
  of `resume_point` checks the partial's length or starts from zero.
- `NothingRemovedUnproven`: `[]RemovalJustified`. The strengthening `Accounted` says
  that every scanned clip is in `hashes`, in `todo`, or in the day being packed, and
  that after a passed verification the tar matches `hashes`. It does not mention the
  live directory, so it holds whatever the backup service does.
- `NoFootageLost`: `[]NothingLost` under the assumption `Polite` (nothing is written
  while a job runs, no clip twice), by `SafeInv`: every version anywhere on disk, in
  a file or in a row is the one that was written; and while originals are being
  removed every live clip of a doomed directory is in the tar.
- `RefinesFootageSafe`: `ImplementsFootageSafe` under the same assumption. The initial
  states map to initial states; `SafeInv`, by which every copy in the tar is the one that
  was written, makes each step change the abstract copies as one of `FootageSafe`'s
  actions does, or not at all.
- `TarsStay`: `RecordedTarStays`, from `TarInv`: a recorded archive has a tar, packing
  goes on only while there is none, and nothing is discarded once there is a row.
- `LossIsLate`: `LossIsLateWrite`, for any behaviour of the surroundings. Besides
  `TarInv` (until a tar is proven, everything is live) it takes `FirstInv`: of a clip
  that was written once no place on disk, in a file or in a row knows another version.
- `PinsMeanLive`: `RestoredIsLive`, unless clips are written while a job runs. `Unpacked`:
  in the middle of a restore the live directory has the last copy of every entry that
  has been unpacked so far.
- `RowsNeverEarly`: `[]CheckpointsDescribePartial`, unless clips are both rewritten and
  written during jobs (then the hash a row records may be of other bytes than were
  packed). `CkptInv` says where in the partial each clip of the last row is the last of
  its name.

`JobRunsProofs`, for every number of requests, any channel capacity and any faults:
`JobsTyped`, `MutualExclusion` (`[]OneJobAtATime`) and `VerdictsStand`
(`VerdictStands`, from the invariant that a row has a verdict only when its job is
past `finish_run`); and `HistoryHonest` (`[]RunningHasJob`). The premise of the last,
that nothing but crashes has happened, is part of the property (the ghost `suffered`)
and no assumption on the constants.
`FinalsAreRecorded` (`[]ToldIsRecorded`) and `AlarmsAreTrue` (`[]AlarmIsTrue`), with the
same premise, follow from an invariant over the three places a final message can be: in
a receiver's inbox, about to be sent, or acted upon.

The same module proves about `JobBoard`, whose steps are those of `JobRuns` and a few of
its own, so that the invariants above carry over (`JobInv`): `RedeploysWait`
(`[]InterruptedOnlyByForce`) from `StopInv`, by which a process that leaves has the
holder of the lock among the jobs it gave up on or never saw; and `PagesAgree`
(`[]PageAgrees`) from `PageInv`: the last message a socket was sent, in the queue or on
the page, names the busy job, if there is one, and shows none as running that has ended.

`CalendarProofs`, for every day and month there is: `MonthContains` (the month
`civil_from_days` gives begins at or before the day and ends after it), `RoundTrip` and
`NextMonthBegins`. They rest on facts about one era of 400 years, one century rule at a
time, which integer division brings within reach of linear arithmetic. Lemmas on the
order of months and on `newest_day_end` (the greatest of a finite set of days, by
well-founded induction) serve `Windows`.

`ScheduleProofs`, for every set of moments and schedules: `ScheduleTyped`,
`NextRunIsTrue` (`[]ShownSlotComes`: it follows from the types and the calendar's
theorems, so the page is right in every month of every year) and `SlotsOnce`
(`[]OneAttemptPerSlot`), from the invariant that a slot with a recorded attempt is
not after `last_run`.

The module also extends `Windows`, for any events, moments, settings and months:
`WindowsTyped`, `ArchivedReadsAsArchived` (`[]ArchivedIsNotMissing`),
`StrandedClipsAreNew` (`[]StrandedOnlyInGap`) and `LossesAreLate`
(`[]UnwarnedLossIsLate`). `WindowsInv` keeps what archiving a month has established if the
month had reached the threshold of that time (`waited`): it was over, and the threshold
had passed since its last directory's day; the calendar turns it into a bound on every
later backfill. The settings may change and months may be archived by name at any time,
so the theorems about single steps compare `waited` with the threshold set now.

`SignInProofs`, for any clients, threads, sessions, delays and faults: `SignInTyped`,
`NoiseIsCheap` (`[]NoiseCostsLittle`), `BlocksStand` (`BlockStands`) and `SessionsHold`
(`[]SessionsStand`). The limiter's invariant `BucketOK` ties a bucket's deadline to its
last failure and the delay for its count, so that neither forgetting an old bucket nor
recording logins in another order than they began can take more than a verification's
time off a block; a login under way began at most that long ago. `VerificationsRationed`
(`[]Rationed`) counts: a bucket past its free attempts has no more failures than rounds
that are over when its block is, and with the verifications under way no more than
rounds begun (`CountsOK`). The assumption `DelaysAssumption` is what the constants of
`ratelimit.rs` have in common, the caps above the shortest delay by a verification among
it, `PowersAssumption` the facts about powers of two up to the exponent the code allows.

`WatchdogProofs`, for any settings, any stretch of time and any number of faults:
`WatchdogTyped`, and `HastyNeedsFault` (`[]HastyOnlyByFault`). The property alone is not
inductive: the strengthening `Owed` says that a mark that is wrong (a `stalled_since`
older than the sick readings it stands for, a `last_restart` older than the last
restart) is owed to a fault that no hasty restart has used up yet. `StallsAreCured`
(`[]StallIsCured`), a bound on time and so safety, rests on `Calmly`: as long as nothing
but Docker fails, the sync brings the index up to date, a tick that comes after it sees
the stall, the stall was noted a turn after it began, and every tick since then has
waited or failed for a reason.

`EventIndexProofs`, for any number of events, containers, tasks, saves and faults:
`IndexTyped`, `SavesStand` (`[]SaveStandsUnlessRaced`) and `PicksStand`
(`[]PickStands`). A save is undone several steps after the load that the write-back
comes from, so neither property is inductive; `SaveInv` adds, for every task that
holds a copy, that the copy is the user's last save, names no container, or raced with
the save, and that a task only looks for another container when there is a reason.

The module also extends `Setup`, for any deployments, directories, cameras and paths of
any depth: `SetupTyped`, `ConfirmedStaysRight` (`[]ConfirmedIsRight`) and
`SyncsFindClips` (`SyncFindsClips`). Lemmas say that what is put below a directory is
found there, that `ToHostPath` and Docker's rule agree, that the longest of several
mounts decides, and that `HostToLocal` and `Ours` are inverse where they are defined;
`SetupInv` ties an uncorrected draft to the deployment and directory it came from, and
every row to the deployment that recorded it. That the literal `"clip"` is a string,
which the provers do not know, is among `Setup`'s assumptions.

`MediaCacheProofs`, for any number of requests, clips, permits and faults: `CacheTyped`
(nobody stands in the line twice; the holders are exactly the requests between
`acquire` and the end of `playable`), `EncodersLimited` (`[]EncodersBounded`) and
`TornNeedsDoubling` (`[]TornOnlyByDoubling`). The last rests on `WholeInv`: files keep
to one name, its scratch and cached names never refer to one file, and the only
request that handles a name writes to its scratch file alone. `LiveClipsServed`
(`[]LiveClipIsServed`) follows requests for a clip that is never missed, whose name is not doubled and is its
id (`Steady`), whatever names the other ids have:
until something fails, the index, every eviction's list and the disk have the clip, and
the file a request is about to rename or serve is there (`ServedInv`).

Every safety property and every action property of a passing run is proved for all
values of the constants that the modules' assumptions and those above allow. Only model-checked are the liveness properties:
`EventuallyArchived`, `RowsSettle`, `SlotIsCaughtUp`, `IndexCatchesUp`,
`EveryRequestAnswered` and `CacheDrains` need fairness, which is beyond this prover. So is
what the calendar's `MCSchedule` test says of an era's days counted one by one, an
induction; the calendar's theorems take its place.

What the proofs showed that the runs had not. The row of an earlier day may tell of
entries that a resume has cut off, after a late clip, so `CheckpointsDescribePartial`
is about the last row, the one that decides (`run.rs:881-884`). The rationing needs the
caps to lie above the shortest delay by the time a verification takes; in
`ratelimit.rs` they do by far. A stall may outlast the cooldown by the turns in which
Docker fails, and a grace period of zero is one turn. With a threshold of no days health
does not warn of a long backfill range while `due_months` takes it for one day
(`run.rs:341-383`): harmless, since such settings are not complete, but only for that
reason, which the model of the windows now has. A mount of the service's over one
camera's directory makes what is confirmed wrong for that camera alone; a saved prefix
that lies above the clip root finds the clips and names the wrong camera.

## 5. Divergences between the code and what it says

1. A clip that the backup service writes into a scanned day directory after the scan
   is removed with the directory and is in no archive (`archive/run.rs:803` against
   `:4-5`). Run `archive_late_write`. The hour of `RECENT_WRITE_SECS` makes it rare.
   `LossIsLateWrite` names all the ways there are.
2. `run_restore` leaves by `?` when the index cannot be read (`run.rs:1041`): the row
   stays `running` with no job, "a history that lies about the present"
   (`db.rs:277-279`). A dropped handler and a failed UPDATE in `finish_run` do the same.
   `RunningHasJob` holds with these excepted.
3. The failure watcher subscribes when the run is already going (`main.rs:437`) and
   gives up when it lags, so a failure may never reach the webhook
   (`src/README.md:51-52`). `AlarmIsTrue` says only that what is pushed is true.
4. `catch_up` off and no `last_run`: never due (`schedule.rs:113-116`; `:48-50` calls a
   schedule that is accepted and never fires what the app exists to prevent).
   `SlotIsCaughtUp` leaves it out (`Counts`).
5. Two requests for one clip with a permit each have ffmpeg write to one scratch file;
   the first to end renames it and serves what the second has just emptied
   (`media/mod.rs:155` against `:137-138`, and `media/range.rs:64-66`, which has the
   browser keep it for a day). `TornOnlyByDoubling` is exact about it.
6. Health compares the service's retention with the archiving threshold alone
   (`main.rs:657`), "silent loss nothing else would notice" (`:643-646`); but a month
   is offered when its newest clip has reached the threshold, so a retention up to a
   month longer deletes the month's first clips before that, without a warning.
   `UnwarnedLossIsLate` bounds it. Nor is there a warning when the service's retention
   is its own default and so not on the command line.
7. A restore refused for want of space, whose index cannot be read, or whose client
   goes away sends no final message: the page shows it as running and disables its
   buttons (`ArchivePage.tsx:30`) until another job starts or it is reloaded.
   `PageAgrees` excepts it (`Abandoned`).
8. `schedule_loop` is not told of a shutdown, so a job may start after `jobs_quiet_for`
   saw the lock free (`main.rs:511`), and is cut off. `InterruptedOnlyByForce` counts it
   among those (`cutOff`).

Seen in the same models, without a run of their own: a restore writes over a live clip
that was written again since it was archived (`pack.rs:243`); a clip rewritten between its
checkpoint and the resumed run is verified against its old hash and removed
(`run.rs:947`); a day packed again leaves a row beyond the last day's offset, whose
entries a resume cuts off while believing them, and only the verification notices
(`run.rs:902`); a crash between the rename and the verification leaves an unverified
tar that makes later runs skip the month (`pack.rs:143`); explicit targets bypass the
age and last-write checks that `src/README.md:318` calls unconditional
(`run.rs:478`); once there is a `last_run`, `catch_up` off does not keep a missed slot
from running late (`schedule.rs:113`); a slot is used up by an attempt that finds the
lock taken, and such an attempt leaves no row (`main.rs:419`).

In the windows: with the defaults the setup page offers, a threshold of 30 days and a
live window of 2 months, archived clips read as "vanished" for a month
(`upb/reconcile.rs:72-83`), and so are those of a young month that was archived by name,
for up to the whole window. `ArchivedIsNotMissing` says that there is no other way: the
month had reached a threshold shorter than the window, or none. Even with no warning
about the backfill range, the service may fetch an event into an archived month when it
lies on a later day than any that had a directory; and into a month that was archived by
name, or before the threshold was raised, on any day, since the range is only compared
with the threshold (`StrandedOnlyInGap`). That month is not offered again.

In the setup: after the service's clip directory has been given another path, rows under
the new prefix read as "archived" while the page calls the configuration complete,
since `validate` tests a prefix only for being there (`setup.rs:199-210`; the parser's
header, `parse.rs:33-34`, calls such a mismatch silent); and setup opened again keeps
the saved values over the ones it has just read (`SetupWizard.tsx:38-39`). A camera
added after the setup is not in `camera_dirs` and is never archived. A webhook URL with
`https://` passes validation (`schedule.rs:72`) and is then never called
(`schedule.rs:238-244`).

In the sessions: a sign-out whose DELETE fails removes the cookie and leaves the row
(`db.rs:550`, `auth.rs:302-309`); two sessions that each sign out the others at once
may both be signed out.

In the event pages: the page and its count are two statements, so a sync between them
does make "the total disagree with the rows" (`events.rs:15-18`).

In the watchdog: after a quiet spell longer than the grace period, two events that are
recorded a moment before their clips are downloaded are a stall "detected", with its
notification, since the gap is measured from the newest clip to the newest event and
not from how long an event has waited (`watchdog.rs:54`; the module's header says that
a quiet night is not a fault). Two ticks may judge one and the same snapshot when the
syncs between them fail (`main.rs:335`), so the second reading that confirms a stall
(`watchdog.rs:263`) may be no new evidence. A clip path prefix that does not match
leaves `clip_path` NULL for every clip (`upb/reconcile.rs:51-55`), which the watchdog
cannot tell from a stall.

In the settings and the index: a save made while a task looks for its container is
undone when that task writes its copy back (`main.rs:604`); any error of a Docker call
counts as "gone", so a passing failure switches to another container of the image for
good (`main.rs:588-595`); a clip that this program has archived reads as "vanished"
while it is inside the live window, which the API types describe as "Something removed
it out of band", and one restored outside it reads as "archived" and cannot be played
(`upb/reconcile.rs:74-83`); `last_sync` is taken after the read of the backup service's
database and so overstates how fresh the index is (`reconcile.rs:38`); the older of two
overlapping syncs may write last, until the next one.

In the media cache: a dropped handler leaves its ffmpeg running (nothing kills it) and
gives its permit back, so more than two may run (`media/mod.rs:27-29` says "Two at a
time"); scratch files that a crash or a dropped handler leaves behind are skipped by
every eviction (`mod.rs:208`) and stay until the same clip is asked for again; when the
list of live clips cannot be read the whole cache is removed (`main.rs:385`). An eviction
compares the stem of a file's name, which `safe_name` has sanitised (`mod.rs:44-46`,
`:245-249`), with ids that it has not (`:211-212`): the thumbnail and the transcode of a
live clip whose id has any other character than letters, digits, `-` and `_` go at every
sync, also between `playable` and `serve_file`, which then answers that the clip is
missing; and two ids that differ in such characters alone share their files.
`LiveClipIsServed` is about clips whose ids are safe names, `TornOnlyByDoubling` about
all.

## 6. Not modelled

- Storage samples and projections: `statvfs` readings and a least-squares slope over
  floating-point numbers.
- Health apart from the two warnings of `Windows`, the explanations of `health.rs`,
  error mapping, tracing, API types: reads and wording, no state.
- The queries of the event pages and the overview: one SELECT each (the two that
  should agree are described above).
- Hashing, the diagnosis of a configured hash, an unset hash (every route refuses),
  cookies' attributes, `client_key`'s reading of headers.
- The log streams of the backup service, and the web views that only render.
- `parse_range`; several months in one run; dry runs; `preflight_writable`; power loss
  that undoes a rename; an explicit `UPB_CONTAINER`; symbolic links below the clips.

## 7. Plan

Done: everything in section 2. What is left, in this order:

1. Proofs: that `JobBoard` and `JobRuns` implement the abstract specification of the next
   item; facts about `parse_range` (item 3).
2. An abstract specification of the job lock and the history that `JobRuns`
   implements, and a composition of `EventIndex` with `MediaCache` through the list of
   live clips.
3. `parse_range` as a function against a reference definition over bounded inputs.

------------------------------ MODULE Watchdog ------------------------------
(***************************************************************************)
(* The watchdog over the backup service: crates/protect-manager/src/       *)
(* watchdog.rs, watchdog_loop of main.rs and what the index sync of        *)
(* upb/reconcile.rs gives it to judge by.                                  *)
(*                                                                         *)
(* The backup service records events and downloads their clips; it may get *)
(* stuck, which stops the downloads and nothing else.  The index is a      *)
(* snapshot of its database.  A tick reads the index twice, and if the     *)
(* symptom has lasted it restarts the service's container, which is a call *)
(* to Docker, and then writes down that it did.                            *)
(*                                                                         *)
(* Time is counted in turns of watchdog_loop, two minutes each.            *)
(***************************************************************************)
EXTENDS Integers, FiniteSets

CONSTANTS
  MaxEvents,  \* bound: events recorded upstream
  End,        \* bound: the clock runs from 0 to End
  Configs,    \* the settings the user may choose
  Never,      \* NULL, for a time
  MaxFaults,  \* bound: faults in one behaviour
  FaultKinds  \* which faults may happen: a subset of AllFaults

AllFaults == {"crash", "db", "docker", "lost_reply", "sync"}

Event == 1..MaxEvents
Time  == 0..End
Mark  == Time \cup {Never}

\* MIN_UNCAPTURED
MinUncaptured == 2

Config == [enabled : BOOLEAN, auto : BOOLEAN, grace : Nat, cooldown : Nat]

ASSUME BoundAssumption  == MaxEvents \in Nat /\ End \in Nat /\ MaxFaults \in Nat
ASSUME NeverAssumption  == Never \notin Int
ASSUME ConfigAssumption == Configs # {} /\ Configs \subseteq Config
ASSUME FaultAssumption  == FaultKinds \subseteq AllFaults

VARIABLES
  now,      \* now_secs
  start,    \* upstream: when each event was recorded, or Never
  path,     \* upstream: events whose clip has been downloaded
  stuck,    \* the service has stopped downloading
  index,    \* the index: events it knows, and those with a clip_path
  cfg,      \* watchdog.json
  since,    \* watchdog.stalled_since
  last,     \* watchdog.last_restart
  up,       \* the process is running
  pc,       \* tick: "idle", "counting", "docker", "marking" or "clearing"
  held,     \* its locals: config, newest_event, newest_captured
  due,      \* the loops that have not turned yet at this time
  streak,   \* ghost: the first of an unbroken row of readings with the symptom
            \* since the last restart
  restarted,\* ghost: when the container was really restarted last
  hasty,    \* ghost: restarts the rules of tick do not allow
  ill,      \* ghost: turns in a row that ended with a stall to be cured
  calm,     \* ghost: nobody has changed the settings, and at most Docker failed
  faults    \* faults so far

service == <<start, path, stuck>>
marks   == <<since, last>>
ghosts  == <<streak, restarted, hasty, ill>>
vars    == <<now, service, index, cfg, marks, up, pc, held, due, ghosts, calm, faults>>

\* Each turns once per turn of time, the sync before, during or after the tick.
Loops == {"sync", "tick"}

Recorded == {e \in Event : start[e] # Never}

Idle == [newest |-> Never, captured |-> Never]

Init ==
  /\ now = 0
  /\ start = [e \in Event |-> IF e = 1 THEN 0 ELSE Never]
  /\ path \in SUBSET Recorded /\ stuck \in BOOLEAN
  /\ index = [known |-> {}, clips |-> {}]
  /\ cfg \in Configs
  /\ since = Never /\ last = Never
  /\ up = TRUE
  /\ pc = "idle" /\ held = [cfg |-> cfg, read |-> Idle]
  /\ due = Loops
  /\ streak = Never /\ restarted = Never /\ hasty = 0 /\ ill = 0
  /\ calm = TRUE /\ faults = 0

-----------------------------------------------------------------------------
(* Helpers *)

Fault(f) == f \in FaultKinds /\ faults < MaxFaults /\ faults' = faults + 1

NoFault == UNCHANGED faults

\* MAX(start), NULL for no rows.
Newest(S) ==
  IF S = {} THEN Never ELSE CHOOSE t \in {start[e] : e \in S} :
                              \A e \in S : start[e] <= t

\* COUNT(*) ... clip_path IS NULL AND start > COALESCE(captured, 0).  Times start
\* at 0 here, so that NULL is before every time.
Uncaptured(captured) ==
  Cardinality({e \in index.known \ index.clips :
                 captured = Never \/ start[e] > captured})

\* assess
Symptom(read, uncaptured, grace) ==
  /\ read.newest # Never /\ uncaptured >= MinUncaptured
  /\ IF read.captured # Never THEN read.newest - read.captured > grace
                              ELSE now - read.newest > grace

\* The tick ends.
Return == pc' = "idle" /\ held' = [cfg |-> cfg, read |-> Idle] /\ due' = due \ {"tick"}

\* A statement of the tick does what it says, or its error is dropped.
Statement(done, failed) == \/ done   /\ NoFault /\ UNCHANGED calm
                           \/ failed /\ Fault("db") /\ calm' = FALSE

Write(done, others) == Statement(done, UNCHANGED others)

-----------------------------------------------------------------------------
(* watchdog::tick *)

\* Not enabled: the tick does nothing, and leaves the marks as they are.
TickDisabled ==
  /\ up /\ pc = "idle" /\ "tick" \in due /\ ~cfg.enabled
  /\ due' = due \ {"tick"}
  /\ NoFault
  /\ UNCHANGED <<now, service, index, cfg, marks, up, pc, held, ghosts, calm>>

\* load_config, and the first query of marks: NULL and NULL if it fails.
ReadClocks ==
  /\ up /\ pc = "idle" /\ "tick" \in due /\ cfg.enabled
  /\ Statement(held' = [cfg |-> cfg, read |-> [newest   |-> Newest(index.known),
                                               captured |-> Newest(index.clips)]],
               held' = [cfg |-> cfg, read |-> Idle])
  /\ pc' = "counting"
  /\ UNCHANGED <<now, service, index, cfg, marks, up, due, ghosts>>

\* The second query of marks, and assess.
Sick == Symptom(held.read, Uncaptured(held.read.captured), held.cfg.grace)

\* Mutant of Recovered: the mark is left.
RecoveredKeepsMark ==
  /\ up /\ pc = "counting" /\ ~Sick
  /\ streak' = Never
  /\ Return /\ NoFault
  /\ UNCHANGED <<now, service, index, cfg, marks, up, restarted, hasty, ill, calm>>

\* No symptom: a mark there is goes.
Recovered ==
  /\ up /\ pc = "counting" /\ ~Sick
  /\ \/ since = Never /\ NoFault /\ UNCHANGED <<since, calm>>
     \/ since # Never /\ Write(since' = Never, since)
  /\ streak' = Never
  /\ Return
  /\ UNCHANGED <<now, service, index, cfg, last, up, restarted, hasty, ill>>

\* The reading shows the symptom.
Seen == streak' = IF streak = Never THEN now ELSE streak

\* First sighting: it is noted, and the user told.
Detected ==
  /\ up /\ pc = "counting" /\ Sick
  /\ since = Never
  /\ Write(since' = now, since)
  /\ Seen
  /\ Return
  /\ UNCHANGED <<now, service, index, cfg, last, up, restarted, hasty, ill>>

\* read_marks fails: no mark is taken for a first sighting.
DetectedAgain ==
  /\ up /\ pc = "counting" /\ Sick
  /\ since # Never /\ since' = now
  /\ Fault("db") /\ calm' = FALSE
  /\ Seen
  /\ Return
  /\ UNCHANGED <<now, service, index, cfg, last, up, restarted, hasty, ill>>

\* It has lasted a second grace period, and the last restart is a cooldown ago.
Confirmed ==
  /\ since # Never /\ held.cfg.auto
  /\ now - since >= held.cfg.grace
  /\ last # Never => now - last >= held.cfg.cooldown

\* A later sighting, not confirmed or without auto_restart.
Waiting ==
  /\ up /\ pc = "counting" /\ Sick
  /\ since # Never /\ ~Confirmed
  /\ Seen
  /\ Return /\ NoFault
  /\ UNCHANGED <<now, service, index, cfg, marks, up, restarted, hasty, ill, calm>>

\* On to restart_backup.
Confirm ==
  /\ up /\ pc = "counting" /\ Sick
  /\ Confirmed
  /\ Seen
  /\ pc' = "docker"
  /\ NoFault
  /\ UNCHANGED <<now, service, index, cfg, marks, up, held, due, restarted, hasty, ill, calm>>

\* What tick promises of a restart: every reading of the last grace period had the
\* symptom, and the last restart is a cooldown ago.
Justified ==
  /\ streak # Never /\ now - streak >= held.cfg.grace
  /\ restarted # Never => now - restarted >= held.cfg.cooldown

\* The container restarts, and downloads again.
ContainerRestarts ==
  /\ stuck' = FALSE
  /\ restarted' = now /\ streak' = Never /\ ill' = 0
  /\ hasty' = IF Justified THEN hasty ELSE hasty + 1

DockerRestarts ==
  /\ up /\ pc = "docker"
  /\ ContainerRestarts
  /\ pc' = "marking"
  /\ NoFault
  /\ UNCHANGED <<now, start, path, index, cfg, marks, up, held, due, calm>>

\* Mutant of DockerFails: the symptom is judged afresh after a failure too.
DockerFailsForgets ==
  /\ up /\ pc = "docker"
  /\ Fault("docker")
  /\ since' = Never
  /\ Return
  /\ UNCHANGED <<now, service, index, cfg, last, up, ghosts, calm>>

\* No Docker, no container, or the call fails: it is logged, and the marks stay.
DockerFails ==
  /\ up /\ pc = "docker"
  /\ Fault("docker")
  /\ Return
  /\ UNCHANGED <<now, service, index, cfg, marks, up, ghosts, calm>>

\* It restarts, and the call fails all the same: it timed out.
DockerReplyLost ==
  /\ up /\ pc = "docker"
  /\ ContainerRestarts
  /\ Fault("lost_reply") /\ calm' = FALSE
  /\ Return
  /\ UNCHANGED <<now, start, path, index, cfg, marks, up>>

\* Mutant of MarkRestart: the end of the cooldown is kept.
MarkRestartDeadline ==
  /\ up /\ pc = "marking"
  /\ Write(last' = now + held.cfg.cooldown, last)
  /\ pc' = "clearing"
  /\ UNCHANGED <<now, service, index, cfg, since, up, held, due, ghosts>>

\* set_last_restart
MarkRestart ==
  /\ up /\ pc = "marking"
  /\ Write(last' = now, last)
  /\ pc' = "clearing"
  /\ UNCHANGED <<now, service, index, cfg, since, up, held, due, ghosts>>

\* set_stalled_since(None)
ClearStalled ==
  /\ up /\ pc = "clearing"
  /\ Write(since' = Never, since)
  /\ Return
  /\ UNCHANGED <<now, service, index, cfg, last, up, ghosts>>

-----------------------------------------------------------------------------
(* sync_loop: the index is replaced by what upstream has *)

Sync ==
  /\ up /\ "sync" \in due
  /\ index' = [known |-> Recorded, clips |-> path]
  /\ due' = due \ {"sync"}
  /\ NoFault
  /\ UNCHANGED <<now, service, cfg, marks, up, pc, held, ghosts, calm>>

\* sync_once fails: the previous index stays.
SyncFails ==
  /\ up /\ "sync" \in due
  /\ Fault("sync")
  /\ due' = due \ {"sync"} /\ calm' = FALSE
  /\ UNCHANGED <<now, service, index, cfg, marks, up, pc, held, ghosts>>

-----------------------------------------------------------------------------
(* The user *)

\* watchdog_config_handler: the JSON is replaced, the marks stay.
SaveConfig ==
  /\ up
  /\ cfg' \in Configs /\ cfg' # cfg
  /\ held' = IF pc = "idle" THEN [held EXCEPT !.cfg = cfg'] ELSE held
  /\ calm' = FALSE /\ NoFault
  /\ UNCHANGED <<now, service, index, marks, up, pc, due, ghosts>>

-----------------------------------------------------------------------------
(* The backup service *)

\* What it does in a turn it does before the loops turn; what it does after the sync
\* is not seen before the next one.
Early == due = Loops

\* It sees an event.
EventRecorded ==
  /\ Early
  /\ \E e \in Event :
       /\ start[e] = Never /\ \A f \in 1..(e - 1) : start[f] # Never
       /\ start' = [start EXCEPT ![e] = now]
  /\ NoFault
  /\ UNCHANGED <<now, path, stuck, index, cfg, marks, up, pc, held, due, ghosts, calm>>

\* It downloads a clip, in any order.
ClipDownloaded ==
  /\ Early /\ ~stuck
  /\ \E e \in Recorded \ path : path' = path \cup {e}
  /\ NoFault
  /\ UNCHANGED <<now, start, stuck, index, cfg, marks, up, pc, held, due, ghosts, calm>>

\* Its event subscription drops.
GetsStuck ==
  /\ Early /\ ~stuck /\ stuck' = TRUE
  /\ NoFault
  /\ UNCHANGED <<now, start, path, index, cfg, marks, up, pc, held, due, ghosts, calm>>

-----------------------------------------------------------------------------
(* The clock and the process *)

\* The backlog of a service that has stopped downloading, in its own database.
Stalled ==
  LET read == [newest |-> Newest(Recorded), captured |-> Newest(path)]
      late == {e \in Recorded \ path : read.captured = Never \/ start[e] > read.captured}
  IN  Symptom(read, Cardinality(late), cfg.grace)

\* A tick that lasts longer than two minutes delays the next one.
TimePasses ==
  /\ now < End
  /\ up => due = {} /\ pc = "idle"
  /\ now' = now + 1
  /\ due' = Loops
  /\ ill' = IF Stalled /\ cfg.enabled /\ cfg.auto THEN ill + 1 ELSE 0
  /\ NoFault
  /\ UNCHANGED <<service, index, cfg, marks, up, pc, held, streak, restarted, hasty, calm>>

Crash ==
  /\ up /\ Fault("crash")
  /\ up' = FALSE
  /\ pc' = "idle" /\ held' = [cfg |-> cfg, read |-> Idle]
  /\ calm' = FALSE
  /\ UNCHANGED <<now, service, index, cfg, marks, due, ghosts>>

\* Both tickers tick at once.
Restart ==
  /\ ~up /\ up' = TRUE
  /\ due' = Loops
  /\ NoFault
  /\ UNCHANGED <<now, service, index, cfg, marks, pc, held, ghosts, calm>>

-----------------------------------------------------------------------------

Tick == TickDisabled \/ ReadClocks \/ Recovered \/ Detected \/ DetectedAgain \/ Waiting
        \/ Confirm \/ DockerRestarts \/ DockerFails \/ DockerReplyLost
        \/ MarkRestart \/ ClearStalled

Next == Tick \/ Sync \/ SyncFails \/ SaveConfig
        \/ EventRecorded \/ ClipDownloaded \/ GetsStuck
        \/ TimePasses \/ Crash \/ Restart

Spec == Init /\ [][Next]_vars

-----------------------------------------------------------------------------
(* Properties *)

\* Type invariant.
TypeOK ==
  /\ now \in Time
  /\ start \in [Event -> Mark] /\ path \subseteq Event /\ stuck \in BOOLEAN
  /\ index.known \subseteq Event /\ index.clips \subseteq Event
  /\ cfg \in Config /\ {since, last, streak, restarted} \subseteq Mark
  /\ up \in BOOLEAN /\ pc \in {"idle", "counting", "docker", "marking", "clearing"}
  /\ held \in [cfg : Config, read : [newest : Mark, captured : Mark]]
  /\ due \subseteq Loops
  /\ hasty \in Nat /\ ill \in Nat /\ calm \in BOOLEAN /\ faults \in Nat

\* watchdog.rs:265-266: a restart that comes before the symptom has survived a
\* second grace period, or within the cooldown of the restart before, is the doing
\* of a fault (the process died between the restart and its mark, a mark was not
\* written, Docker's answer was lost), and every fault explains at most one.
HastyOnlyByFault == hasty <= faults

\* A stall does not last: a turn until it is seen, a grace period and at least one turn
\* until it is confirmed, or until the cooldown is over, and a turn more for each time
\* Docker fails; as long as the settings and the app stay as they are.
StallIsCured ==
  calm => \/ ill <= 1 + (IF cfg.grace < 1 THEN 1 ELSE cfg.grace) + faults
          \/ last # Never /\ now - last <= cfg.cooldown + faults

=============================================================================

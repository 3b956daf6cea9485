------------------------------- MODULE JobRuns -------------------------------
(***************************************************************************)
(* The life of one job request: crates/protect-manager/src/archive/run.rs  *)
(* (run_archive, run_restore, run_verify, start_run, finish_run), the rows *)
(* of archive_runs, the progress broadcast and the watcher that main.rs    *)
(* puts on a scheduled run.                                                *)
(*                                                                         *)
(* A request holds the job lock from its first line, first in the handler  *)
(* that received it and then in the task it spawns.  Between the two lie   *)
(* the awaits at which the handler may fail or be dropped.  What the job   *)
(* does to the month's files is ArchiveRun; here it succeeds or fails.     *)
(***************************************************************************)
EXTENDS Naturals, Sequences, FiniteSets

CONSTANTS
  Run,         \* requests, each with the id its row would get
  NoRun,       \* nobody holds the lock
  Capacity,    \* progress: broadcast::channel(Capacity)
  MaxProgress, \* bound: progress messages one job sends before it ends
  MaxFaults,   \* bound: faults in one behaviour
  FaultKinds   \* which faults may happen: a subset of AllFaults

AllFaults == {"crash", "db", "list", "cancel"}

Kind   == {"archive", "scheduled", "restore", "verify"}
Status == {"running", "succeeded", "failed", "interrupted"}
Phase  == {"new", "checking", "listing", "working", "finishing", "telling",
           "unlocking", "over"}

ASSUME RunAssumption   == NoRun \notin Run /\ IsFiniteSet(Run)
ASSUME LimitAssumption == /\ Capacity \in Nat \ {0}
                          /\ MaxProgress \in Nat /\ MaxFaults \in Nat
ASSUME FaultAssumption == FaultKinds \subseteq AllFaults

VARIABLES
  up,      \* the process is running
  lock,    \* Jobs.lock: who holds it
  kind,    \* what each request asked for
  phase,   \* how far each request has come
  outcome, \* what the job's work came to: "none", "succeeded" or "failed"
  row,     \* archive_runs.status; "none" when there is no row
  sent,    \* progress messages sent so far
  watch,   \* watch_scheduled_run's task: "none", "listening" or "gone"
  inbox,   \* messages broadcast to that task and not yet received
  lagged,  \* the channel has overwritten a message it had not received
  pushed,  \* notify_failure was called for this run
  faults,  \* faults so far
  suffered \* ghost: their kinds

job     == <<kind, phase, outcome, sent>>
channel == <<watch, inbox, lagged, pushed>>
vars    == <<up, lock, job, row, channel, faults, suffered>>

Message == [run : Run, final : BOOLEAN, status : {"none", "succeeded", "failed"}]

Init ==
  /\ up = TRUE
  /\ lock = NoRun
  /\ kind = [r \in Run |-> "archive"]
  /\ phase = [r \in Run |-> "new"]
  /\ outcome = [r \in Run |-> "none"]
  /\ row = [r \in Run |-> "none"]
  /\ sent = [r \in Run |-> 0]
  /\ watch = [r \in Run |-> "none"]
  /\ inbox = [r \in Run |-> <<>>]
  /\ lagged = [r \in Run |-> FALSE]
  /\ pushed = [r \in Run |-> FALSE]
  /\ faults = 0 /\ suffered = {}

-----------------------------------------------------------------------------
(* Helpers *)

Fault(f) ==
  /\ f \in FaultKinds /\ faults < MaxFaults
  /\ faults' = faults + 1 /\ suffered' = suffered \cup {f}

NoFault == UNCHANGED <<faults, suffered>>

Move(r, from, to) == up /\ phase[r] = from /\ phase' = [phase EXCEPT ![r] = to]

Release == lock' = NoRun

SetRow(r, status) == row' = [row EXCEPT ![r] = status]

\* broadcast::Sender::send: every listening receiver gets the message; one with
\* Capacity messages waiting loses its oldest.
Send(m) ==
  LET full(r) == Len(inbox[r]) = Capacity
      rest(r) == IF full(r) THEN Tail(inbox[r]) ELSE inbox[r]
      hears(r) == watch[r] = "listening"
  IN  /\ inbox' = [r \in Run |-> IF hears(r) THEN Append(rest(r), m) ELSE inbox[r]]
      /\ lagged' = [r \in Run |-> lagged[r] \/ (hears(r) /\ full(r))]
      /\ UNCHANGED <<watch, pushed>>

-----------------------------------------------------------------------------
(* The request, in the handler or the schedule loop *)

\* try_lock_owned is the first thing every job does.
Request(r) ==
  /\ lock = NoRun
  /\ Move(r, "new", "checking")
  /\ lock' = r
  /\ \E k \in Kind : kind' = [kind EXCEPT ![r] = k]
  /\ NoFault /\ UNCHANGED <<up, outcome, sent, row, channel>>

\* "another job is already running"
RefuseBusy(r) ==
  /\ lock # NoRun
  /\ Move(r, "new", "over")
  /\ NoFault /\ UNCHANGED <<up, lock, kind, outcome, sent, row, channel>>

\* Nothing to archive, nothing to preview, not writable, no such archive, or the
\* INSERT failed: the guard is dropped and there is no row.
Refuse(r) ==
  /\ Move(r, "checking", "over")
  /\ Release
  /\ NoFault /\ UNCHANGED <<up, kind, outcome, sent, row, channel>>

\* Mutant of StartRun: the guard is not moved into the spawned task.
StartRunDropsGuard(r) ==
  /\ Move(r, "checking", IF kind[r] = "restore" THEN "listing" ELSE "working")
  /\ SetRow(r, "running")
  /\ Release
  /\ Send([run |-> r, final |-> FALSE, status |-> "none"])
  /\ NoFault /\ UNCHANGED <<up, kind, outcome, sent>>

\* start_run, announce.  archive and verify spawn their task at once; restore
\* first reads the archive's index, still in the handler.
StartRun(r) ==
  /\ Move(r, "checking", IF kind[r] = "restore" THEN "listing" ELSE "working")
  /\ SetRow(r, "running")
  /\ Send([run |-> r, final |-> FALSE, status |-> "none"])
  /\ NoFault /\ UNCHANGED <<up, lock, kind, outcome, sent>>

\* run_restore has its list of entries, and there is room for them.
ListDone(r) ==
  /\ Move(r, "listing", "working")
  /\ NoFault /\ UNCHANGED <<up, lock, kind, outcome, sent, row, channel>>

\* There is not enough free space: the run is finished as failed, and the guard
\* dropped without a final message.
NoSpace(r) ==
  /\ Move(r, "listing", "over")
  /\ Release
  /\ \/ SetRow(r, "failed") /\ NoFault
     \/ UNCHANGED row /\ Fault("db")
  /\ UNCHANGED <<up, kind, outcome, sent, channel>>

\* pack::list fails, and `.await??` leaves run_restore with the guard and nothing
\* else undone.
ListFails(r) ==
  /\ Move(r, "listing", "over")
  /\ Fault("list")
  /\ Release
  /\ UNCHANGED <<up, kind, outcome, sent, row, channel>>

\* The client goes away: the server drops the handler at its await, and the
\* guard with it.  The schedule loop has no client.
Cancel(r) ==
  /\ kind[r] # "scheduled"
  /\ \/ Move(r, "checking", "over")
     \/ Move(r, "listing", "over")
  /\ Fault("cancel")
  /\ Release
  /\ UNCHANGED <<up, kind, outcome, sent, row, channel>>

-----------------------------------------------------------------------------
(* The spawned task *)

Progress(r) ==
  /\ up /\ phase[r] = "working"
  /\ sent[r] < MaxProgress
  /\ sent' = [sent EXCEPT ![r] = @ + 1]
  /\ Send([run |-> r, final |-> FALSE, status |-> "none"])
  /\ NoFault /\ UNCHANGED <<up, lock, kind, phase, outcome, row>>

\* Mutant of Work: the guard goes when the work is done, before the row is.
WorkDropsGuard(r) ==
  /\ Move(r, "working", "finishing")
  /\ \E o \in {"succeeded", "failed"} : outcome' = [outcome EXCEPT ![r] = o]
  /\ Release
  /\ NoFault /\ UNCHANGED <<up, kind, sent, row, channel>>

\* archive_months, unpack or verify returns, well or badly.
Work(r) ==
  /\ Move(r, "working", "finishing")
  /\ \E o \in {"succeeded", "failed"} : outcome' = [outcome EXCEPT ![r] = o]
  /\ NoFault /\ UNCHANGED <<up, lock, kind, sent, row, channel>>

\* Mutant of Finish: a month that failed does not fail the run.
FinishSucceeded(r) ==
  /\ Move(r, "finishing", "telling")
  /\ SetRow(r, "succeeded") /\ NoFault
  /\ UNCHANGED <<up, lock, kind, outcome, sent, channel>>

\* finish_run: an error of the UPDATE is dropped.
Finish(r) ==
  /\ Move(r, "finishing", "telling")
  /\ \/ SetRow(r, outcome[r]) /\ NoFault
     \/ UNCHANGED row /\ Fault("db")
  /\ UNCHANGED <<up, lock, kind, outcome, sent, channel>>

\* The message with `finished: true`.
Tell(r) ==
  /\ Move(r, "telling", "unlocking")
  /\ Send([run |-> r, final |-> TRUE, status |-> outcome[r]])
  /\ NoFault /\ UNCHANGED <<up, lock, kind, outcome, sent, row>>

\* The task ends and drops _guard.
Unlock(r) ==
  /\ Move(r, "unlocking", "over")
  /\ Release
  /\ NoFault /\ UNCHANGED <<up, kind, outcome, sent, row, channel>>

-----------------------------------------------------------------------------
(* watch_scheduled_run *)

\* schedule_loop subscribes once run_archive has returned the id.  The task it
\* spawned has been running since StartRun.
Subscribe(r) ==
  /\ up
  /\ kind[r] = "scheduled" /\ row[r] # "none"
  /\ watch[r] = "none"
  /\ watch' = [watch EXCEPT ![r] = "listening"]
  /\ NoFault /\ UNCHANGED <<up, lock, job, row, inbox, lagged, pushed>>

\* Mutant of Receive: any run's final message is taken for the watched one's.
ReceiveAnyRun(r) ==
  /\ up /\ watch[r] = "listening"
  /\ ~lagged[r] /\ inbox[r] # <<>>
  /\ LET m == Head(inbox[r])
     IN  /\ watch' = [watch EXCEPT ![r] = IF m.final THEN "gone" ELSE @]
         /\ inbox' = [inbox EXCEPT ![r] = IF m.final THEN <<>> ELSE Tail(@)]
         /\ pushed' = [pushed EXCEPT ![r] = @ \/ m.status = "failed"]
  /\ NoFault /\ UNCHANGED <<up, lock, job, row, lagged>>

\* rx.recv(): Err(Lagged) ends the `while let Ok`; other runs' messages and
\* progress are skipped; the final one decides.
Receive(r) ==
  /\ up /\ watch[r] = "listening"
  /\ \/ /\ lagged[r]
        /\ watch' = [watch EXCEPT ![r] = "gone"]
        /\ inbox' = [inbox EXCEPT ![r] = <<>>]
        /\ UNCHANGED pushed
     \/ /\ ~lagged[r] /\ inbox[r] # <<>>
        /\ LET m    == Head(inbox[r])
               mine == m.run = r /\ m.final
           IN  /\ watch' = [watch EXCEPT ![r] = IF mine THEN "gone" ELSE @]
               /\ inbox' = [inbox EXCEPT ![r] = IF mine THEN <<>> ELSE Tail(@)]
               /\ pushed' = [pushed EXCEPT ![r] = @ \/ (mine /\ m.status = "failed")]
  /\ NoFault /\ UNCHANGED <<up, lock, job, row, lagged>>

-----------------------------------------------------------------------------
(* The process *)

\* Handlers, tasks, lock and channel are gone; the rows stay.
Crash ==
  /\ up /\ Fault("crash")
  /\ up' = FALSE
  /\ Release
  /\ phase' = [r \in Run |-> IF phase[r] = "new" THEN "new" ELSE "over"]
  /\ watch' = [r \in Run |-> "gone"]
  /\ inbox' = [r \in Run |-> <<>>]
  /\ UNCHANGED <<kind, outcome, sent, row, lagged, pushed>>

\* Mutants of Restart: every row is rewritten; none is.
RestartRewritesHistory ==
  /\ ~up
  /\ up' = TRUE
  /\ row' = [r \in Run |-> IF row[r] = "none" THEN "none" ELSE "interrupted"]
  /\ NoFault
  /\ UNCHANGED <<lock, job, channel>>

RestartForgets ==
  /\ ~up
  /\ up' = TRUE
  /\ NoFault
  /\ UNCHANGED <<lock, job, channel, row>>

\* reconcile_interrupted_runs, before the server listens; its error is logged.
Restart ==
  /\ ~up
  /\ up' = TRUE
  /\ watch' = [r \in Run |-> IF phase[r] = "new" THEN "none" ELSE watch[r]]
  /\ \/ row' = [r \in Run |-> IF row[r] = "running" THEN "interrupted" ELSE row[r]]
        /\ NoFault
     \/ UNCHANGED row /\ Fault("db")
  /\ UNCHANGED <<lock, job, inbox, lagged, pushed>>

-----------------------------------------------------------------------------

Handler(r) == StartRun(r) \/ Refuse(r) \/ ListDone(r) \/ NoSpace(r) \/ ListFails(r)

Task(r) == Progress(r) \/ Work(r) \/ Finish(r) \/ Tell(r) \/ Unlock(r)

Watcher(r) == Subscribe(r) \/ Receive(r)

Next == \/ \E r \in Run : \/ Request(r) \/ RefuseBusy(r)
                          \/ Handler(r) \/ Cancel(r) \/ Task(r) \/ Watcher(r)
        \/ Crash \/ Restart

Spec == Init /\ [][Next]_vars

(* Fairness: the runtime polls every handler, task and watcher that can go on,
   and the container is restarted. *)
FairSpec ==
  /\ Spec
  /\ \A r \in Run : WF_vars(Handler(r)) /\ WF_vars(Task(r)) /\ WF_vars(Watcher(r))
  /\ WF_vars(Restart)

-----------------------------------------------------------------------------
(* Properties *)

\* Type invariant.
TypeOK ==
  /\ up \in BOOLEAN /\ lock \in Run \cup {NoRun}
  /\ kind \in [Run -> Kind] /\ phase \in [Run -> Phase]
  /\ outcome \in [Run -> {"none", "succeeded", "failed"}]
  /\ row \in [Run -> Status \cup {"none"}]
  /\ sent \in [Run -> 0..MaxProgress]
  /\ watch \in [Run -> {"none", "listening", "gone"}]
  /\ inbox \in [Run -> Seq(Message)] /\ \A r \in Run : Len(inbox[r]) <= Capacity
  /\ lagged \in [Run -> BOOLEAN] /\ pushed \in [Run -> BOOLEAN]
  /\ faults \in Nat /\ suffered \subseteq FaultKinds

\* The process may have died, at any moment, but nothing else has gone wrong.
OnlyCrashes == suffered \subseteq {"crash"}

\* db.rs:277-279: the history does not lie about the present.  While the process
\* is up, a row that says "running" belongs to the job that holds the lock, and so
\* there is at most one.
HistoryTellsPresent == up => \A r \in Run : row[r] = "running" => lock = r

\* It does not, if the process has died any number of times and nothing else has
\* gone wrong.
RunningHasJob == OnlyCrashes => HistoryTellsPresent

\* A job never outlives its hold on the lock: whoever is past try_lock and not
\* over is the holder, in the handler and in the task it hands the guard to.
OneJobAtATime ==
  \A r \in Run : phase[r] \notin {"new", "over"} => lock = r

\* By the time anyone reads the final message of a run, the history holds the
\* verdict the message carries.
ToldIsRecorded ==
  OnlyCrashes =>
    \A r \in Run :
      \A i \in DOMAIN inbox[r] :
        LET m == inbox[r][i] IN m.final => row[m.run] = m.status

\* The webhook is only ever called for a scheduled run that is in the history as
\* failed; another job's failure never sets it off.
AlarmIsTrue ==
  OnlyCrashes => \A r \in Run : pushed[r] => kind[r] = "scheduled" /\ row[r] = "failed"

\* A verdict in the history is never rewritten: not by a second finish, not by the
\* reconciliation at startup, whatever fails.
VerdictStands ==
  [][ \A r \in Run : row[r] \in {"succeeded", "failed"} => row'[r] = row[r] ]_vars

\* Every run comes to an end in the history: its own, or "interrupted" once the
\* container is back.
RowsSettle == \A r \in Run : row[r] = "running" ~> row[r] # "running" \/ ~OnlyCrashes

=============================================================================

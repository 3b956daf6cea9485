------------------------------ MODULE JobBoard ------------------------------
(***************************************************************************)
(* JobRuns with what stands around it: the progress socket of main.rs and  *)
(* the page behind it (web/src/lib/progress.tsx), and the way a process    *)
(* that got SIGTERM stops (main.rs: shutdown_signal, jobs_quiet_for).  The *)
(* failure watcher of JobRuns only reads the channel and is left out here. *)
(*                                                                         *)
(* The page has no view of the history of its own accord: it shows the     *)
(* last message it heard.  The stopping server takes no more requests, but *)
(* the schedule loop does not know that it is stopping.                    *)
(***************************************************************************)
EXTENDS JobRuns

CONSTANTS
  Nothing,  \* the page shows no job
  MaxStops  \* bound: SIGTERMs in one behaviour

ASSUME NothingAssumption == Nothing \notin Message
ASSUME StopsAssumption   == MaxStops \in Nat

VARIABLES
  socket,  \* the page's progress socket: "open" or "closed"
  queue,   \* messages broadcast to it and not yet received
  behind,  \* the channel has overwritten one of them
  shown,   \* ProgressContext: the message the page shows, or Nothing
  fading,  \* clearTimer is set
  heard,   \* ghost: shown has come over the present socket
  server,  \* "serving", "draining", "waiting" or "leaving"
  stops,   \* SIGTERMs so far
  cutOff   \* ghost: jobs the stopping process gave up on or did not see

page  == <<socket, queue, behind, shown, fading, heard>>
stop  == <<server, stops, cutOff>>
board == <<page, stop>>

BoardInit ==
  /\ Init
  /\ socket = "closed" /\ queue = <<>> /\ behind = FALSE
  /\ shown = Nothing /\ fading = FALSE /\ heard = FALSE
  /\ server = "serving" /\ stops = 0 /\ cutOff = {}

-----------------------------------------------------------------------------
(* The jobs, heard by the page *)

\* broadcast::Sender::send again, to the socket's receiver.
Cast(m) ==
  LET full == Len(queue) = Capacity
  IN  /\ queue' = IF socket = "closed" THEN <<>>
                  ELSE Append(IF full THEN Tail(queue) ELSE queue, m)
      /\ behind' = (behind \/ (socket = "open" /\ full))
      /\ UNCHANGED <<socket, shown, fading, heard, stop>>

Note(r) == [run |-> r, final |-> FALSE, status |-> "none"]
Last(r) == [run |-> r, final |-> TRUE, status |-> outcome[r]]

\* The steps of JobRuns that send: announce, the progress callback, and the
\* message with `finished: true`.
Loud(r) ==
  \/ StartRun(r) /\ Cast(Note(r))
  \/ Progress(r) /\ Cast(Note(r))
  \/ Tell(r) /\ Cast(Last(r))

Quiet(r) ==
  /\ \/ Refuse(r) \/ ListDone(r) \/ NoSpace(r) \/ ListFails(r)
     \/ Work(r) \/ Finish(r) \/ Unlock(r)
  /\ UNCHANGED board

\* A server that drains takes no new request.  schedule_loop is a task of its own
\* and runs until the process ends.
Arrive(r) ==
  \/ /\ Request(r)
     /\ server # "serving" => kind'[r] = "scheduled"
     /\ cutOff' = IF server = "leaving" THEN cutOff \cup {r} ELSE cutOff
     /\ UNCHANGED <<page, server, stops>>
  \/ RefuseBusy(r) /\ UNCHANGED board

-----------------------------------------------------------------------------
(* progress_ws and ProgressProvider *)

\* The page connects, or its retry timer fires: the handler subscribes.
Connect ==
  /\ up /\ server = "serving"
  /\ socket = "closed"
  /\ socket' = "open" /\ queue' = <<>> /\ behind' = FALSE
  /\ UNCHANGED <<vars, shown, fading, heard, stop>>

\* The socket goes away, with whatever is in it.
HangUp == socket' = "closed" /\ queue' = <<>> /\ behind' = FALSE /\ heard' = FALSE

\* The network drops it; or recv returns Lagged and the handler's loop ends.
Disconnect ==
  /\ socket = "open"
  /\ HangUp
  /\ UNCHANGED <<vars, shown, fading, stop>>

\* Mutant of Hear: a new message does not stop the last job's timer.
HearKeepsTimer ==
  /\ up /\ socket = "open" /\ ~behind /\ queue # <<>>
  /\ shown' = Head(queue) /\ queue' = Tail(queue)
  /\ fading' = (fading \/ Head(queue).final)
  /\ heard' = TRUE
  /\ UNCHANGED <<vars, socket, behind, stop>>

\* onmessage: clear the timer, show the message, and start the timer if the job is
\* finished.
Hear ==
  /\ up /\ socket = "open" /\ ~behind /\ queue # <<>>
  /\ shown' = Head(queue) /\ queue' = Tail(queue)
  /\ fading' = Head(queue).final
  /\ heard' = TRUE
  /\ UNCHANGED <<vars, socket, behind, stop>>

\* Eight seconds after a final message.
Fade ==
  /\ fading
  /\ fading' = FALSE /\ shown' = Nothing
  /\ UNCHANGED <<vars, socket, queue, behind, heard, stop>>

-----------------------------------------------------------------------------
(* The process stops, dies and comes back *)

\* Nobody is inside a handler.
HandlersDone ==
  \A r \in Run : phase[r] \in {"checking", "listing"} => kind[r] = "scheduled"

\* shutdown_signal resolves.
Sigterm ==
  /\ up /\ server = "serving" /\ stops < MaxStops
  /\ server' = "draining" /\ stops' = stops + 1
  /\ UNCHANGED <<vars, page, cutOff>>

\* axum::serve returns once the handlers under way have answered.
Drained ==
  /\ up /\ server = "draining" /\ HandlersDone
  /\ server' = "waiting"
  /\ UNCHANGED <<vars, page, stops, cutOff>>

\* Mutant of QuietSeen: the process does not look at the lock.
QuietUnseen ==
  /\ up /\ server = "waiting"
  /\ server' = "leaving"
  /\ UNCHANGED <<vars, page, stops, cutOff>>

\* jobs_quiet_for: try_lock succeeds at one of its polls.
QuietSeen ==
  /\ up /\ server = "waiting" /\ lock = NoRun
  /\ server' = "leaving"
  /\ UNCHANGED <<vars, page, stops, cutOff>>

\* Twenty seconds are over and the lock is still held.
QuietTimeout ==
  /\ up /\ server = "waiting" /\ lock # NoRun
  /\ server' = "leaving" /\ cutOff' = cutOff \cup {lock}
  /\ UNCHANGED <<vars, page, stops>>

\* main returns and the runtime drops every task where it stands.
Leave ==
  /\ up /\ server = "leaving"
  /\ up' = FALSE
  /\ Release
  /\ phase' = [r \in Run |-> IF phase[r] = "new" THEN "new" ELSE "over"]
  /\ watch' = [r \in Run |-> "gone"]
  /\ inbox' = [r \in Run |-> <<>>]
  /\ HangUp
  /\ NoFault
  /\ UNCHANGED <<kind, outcome, sent, row, lagged, pushed, shown, fading, stop>>

\* SIGKILL, Docker's grace period over, or the host is gone.
Killed == Crash /\ HangUp /\ UNCHANGED <<shown, fading, stop>>

Back == Restart /\ server' = "serving" /\ UNCHANGED <<page, stops, cutOff>>

-----------------------------------------------------------------------------

BoardNext ==
  \/ \E r \in Run : \/ Arrive(r) \/ Loud(r) \/ Quiet(r)
                    \/ Cancel(r) /\ UNCHANGED board
  \/ Connect \/ Disconnect \/ Hear \/ Fade
  \/ Sigterm \/ Drained \/ QuietSeen \/ QuietTimeout \/ Leave
  \/ Killed \/ Back

boardVars == <<vars, board>>

BoardSpec == BoardInit /\ [][BoardNext]_boardVars

-----------------------------------------------------------------------------
(* Properties *)

\* The handler of the request was left between announce and the task: the row and
\* the lock are settled, or are not, and no final message is ever sent.
Abandoned(r) == phase[r] = "over" /\ outcome[r] = "none"

\* progress.tsx:14-21, ArchivePage.tsx:30: the page that has received everything
\* its socket was sent shows the job that runs, and shows no job as running that
\* does not, so that the buttons it disables are those of a busy server.  The
\* exception is a restore that leaves its handler without a final message: it is
\* shown as running until the next job or a reload.
PageAgrees ==
  socket = "open" /\ heard /\ queue = <<>> /\ ~behind =>
    /\ \A r \in Run :
         lock = r /\ phase[r] \in {"listing", "working", "finishing", "telling"}
           => shown # Nothing /\ shown.run = r /\ ~shown.final
    /\ shown # Nothing =>
         shown.final \/ lock = shown.run \/ Abandoned(shown.run)

\* main.rs:311-315: a redeploy interrupts no job that comes to its end within the
\* grace the process gives it, whether it held the lock when SIGTERM came or the
\* schedule started it while the server was draining.  A job that starts after the
\* lock was seen free is not waited for.
InterruptedOnlyByForce ==
  suffered = {} => \A r \in Run : row[r] = "interrupted" => r \in cutOff

=============================================================================

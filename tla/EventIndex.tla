----------------------------- MODULE EventIndex -----------------------------
(***************************************************************************)
(* The index of events and the settings it is built from: sync_once,       *)
(* current_container and save_settings_handler in main.rs, sync and        *)
(* write_index in upb/reconcile.rs, load_settings and save_settings in     *)
(* db.rs.                                                                  *)
(*                                                                         *)
(* The settings are one document, loaded and saved whole.  Users save it;  *)
(* so does every task that finds the backup service's container under a    *)
(* new id, some Docker calls after it loaded its copy.  `edit` stands for  *)
(* the document's other fields: the number of the save they come from.     *)
(* A sync reads the backup service's database, then looks for the clips on *)
(* disk, then replaces the index in one transaction.                       *)
(***************************************************************************)
EXTENDS Naturals, FiniteSets

CONSTANTS
  Event,       \* events the backup service may record
  Container,   \* ids of containers that match the image
  NoContainer, \* upb_container_id is None
  Task,        \* tasks that call sync_once or current_container
  Loop,        \* the one of them that is sync_loop
  Start,       \* states of the world, and containers picked, to start from
  MaxSaves,    \* bound: saves by users
  MaxMoves,    \* bound: changes of the world outside
  MaxFaults,   \* bound: faults in one behaviour
  FaultKinds   \* which faults may happen: a subset of AllFaults

AllFaults == {"crash", "db", "docker", "upstream"}

ASSUME SetsAssumption   == NoContainer \notin Container /\ Loop \in Task
ASSUME StartAssumption  ==
  /\ Start \subseteq [up : [Event -> {"absent", "event", "clip"}],
                      exists : SUBSET Container, picked : Container \cup {NoContainer}]
  /\ \A s \in Start : s.picked \in s.exists \cup {NoContainer}
ASSUME LimitsAssumption == {MaxSaves, MaxMoves, MaxFaults} \subseteq Nat
ASSUME FaultsAssumption == FaultKinds \subseteq AllFaults

VARIABLES
  up,       \* the backup service's row of each event: "absent", "event" or "clip"
  age,      \* "fresh": can be backfilled; "late"; "old": outside the live window
  disk,     \* events whose clip is in the live directory
  exists,   \* containers that exist
  settings, \* the settings row
  index,    \* status of each event in the index; "absent" without a row
  built,    \* the edit of the settings the index was built with
  failed,   \* index_state.last_error is set
  pc,       \* how far each task has come
  mine,     \* the settings each sync works with
  copy,     \* the settings its current_container has loaded
  found,    \* the container it has found
  rows,     \* what it has read of the backup service's database
  then,     \* the ages at that time
  recs,     \* the index it is about to write
  saved,    \* ghost: the last save by a user
  raced,    \* ghost: saves made while some task held a copy
  gone,     \* ghost: containers that have ceased to exist
  moves,    \* moves so far
  faults,   \* faults so far
  suffered  \* ghost: their kinds

world  == <<up, age, disk, exists, gone, moves>>
stored == <<index, built, failed>>
user   == <<saved, raced>>
locals == <<mine, copy, found, rows, then, recs>>
vars   == <<world, settings, stored, pc, locals, user, faults, suffered>>

Row    == {"absent", "event", "clip"}
Age    == {"fresh", "late", "old"}
Status == {"absent", "live", "archived", "vanished", "pending_backfill", "never_backed_up"}
Step   == {"idle", "asking", "discovering", "saving", "reading", "looking", "writing",
           "failing"}

Ids     == Container \cup {NoContainer}
Setting == [edit : 0..MaxSaves, cid : Ids, complete : BOOLEAN]
Default == [edit |-> 0, cid |-> NoContainer, complete |-> FALSE]
Blank   == [e \in Event |-> "absent"]
Fresh   == [e \in Event |-> "fresh"]

Init ==
  /\ \E s \in Start :
       /\ up = s.up /\ exists = s.exists
       /\ settings = [edit |-> 0, cid |-> s.picked, complete |-> TRUE]
  /\ disk = {e \in Event : up[e] = "clip"} /\ age = Fresh /\ gone = {}
  /\ index = Blank /\ built = 0 /\ failed = FALSE
  /\ pc = [t \in Task |-> "idle"]
  /\ mine = [t \in Task |-> Default] /\ copy = [t \in Task |-> Default]
  /\ found = [t \in Task |-> NoContainer]
  /\ rows = [t \in Task |-> Blank] /\ recs = [t \in Task |-> Blank]
  /\ then = [t \in Task |-> Fresh]
  /\ saved = settings /\ raced = {}
  /\ moves = 0 /\ faults = 0 /\ suffered = {}

-----------------------------------------------------------------------------
(* Helpers *)

Fault(f) ==
  /\ f \in FaultKinds /\ faults < MaxFaults
  /\ faults' = faults + 1 /\ suffered' = suffered \cup {f}

NoFault == UNCHANGED <<faults, suffered>>

Goto(t, from, to) == pc[t] = from /\ pc' = [pc EXCEPT ![t] = to]

Learn(t, container) == found' = [found EXCEPT ![t] = container]

\* current_container has its answer.  A health check ends with it; a sync inspects the
\* container to learn how far back it backfills, and knows no window without one.
Resolve(t, from, container) ==
  /\ Goto(t, from, IF mine[t].complete THEN "reading" ELSE "idle")
  /\ found' = [found EXCEPT ![t] = IF mine[t].complete THEN container ELSE NoContainer]
  /\ copy' = [copy EXCEPT ![t] = Default]

\* Tasks that hold a copy of the settings which they may yet write back.
HoldsCopy(t) == pc[t] \in {"asking", "discovering", "saving"}

\* The status sync derives for an event.
Classify(row, years, there, windowKnown) ==
  CASE row = "absent" -> "absent"
    [] row = "event"  -> IF windowKnown /\ years = "fresh" THEN "pending_backfill"
                         ELSE "never_backed_up"
    [] row = "clip"   -> IF years = "old" THEN "archived"
                         ELSE IF there THEN "live" ELSE "vanished"

-----------------------------------------------------------------------------
(* sync_once and current_container *)

\* The copy that current_container loads; when it cannot, it works with the default.
LoadCopy(t) ==
  \E s \in {settings, Default} :
    /\ \/ s = settings /\ NoFault
       \/ s = Default /\ Fault("db")
    /\ copy' = [copy EXCEPT ![t] = s]
    /\ Goto(t, "idle", IF s.cid = NoContainer THEN "discovering" ELSE "asking")

\* The settings are loaded, and at once loaded again by current_container.
StartSync(t) ==
  /\ \/ /\ settings.complete
        /\ LoadCopy(t) /\ mine' = [mine EXCEPT ![t] = settings]
     \/ /\ ~settings.complete /\ NoFault
        /\ Goto(t, "idle", "failing") /\ UNCHANGED <<mine, copy>>
     \/ Fault("db") /\ Goto(t, "idle", "failing") /\ UNCHANGED <<mine, copy>>
  /\ UNCHANGED <<world, settings, stored, found, rows, then, recs, user>>

\* The health and setup pages and the watchdog's restart call current_container only.
StartLook(t) ==
  /\ t # Loop /\ LoadCopy(t)
  /\ UNCHANGED <<world, settings, stored, mine, found, rows, then, recs, user>>

\* Mutant of Ask: the container is always looked up by image.
AskByImage(t) ==
  /\ Goto(t, "asking", "discovering")
  /\ NoFault /\ UNCHANGED <<world, settings, stored, locals, user>>

\* Docker is asked for the saved container; any error counts as "gone".
Ask(t) ==
  /\ \/ /\ copy[t].cid \in exists /\ NoFault
        /\ Resolve(t, "asking", copy[t].cid)
     \/ /\ copy[t].cid \notin exists /\ NoFault
        /\ Goto(t, "asking", "discovering") /\ UNCHANGED <<found, copy>>
     \/ /\ Fault("docker")
        /\ Goto(t, "asking", "discovering") /\ UNCHANGED <<found, copy>>
  /\ UNCHANGED <<world, settings, stored, mine, rows, then, recs, user>>

\* Mutant of Discover: an id is written back even when none was configured.
DiscoverAndSave(t) ==
  /\ \E c \in exists :
       \/ copy[t].cid = c /\ Resolve(t, "discovering", c)
       \/ /\ copy[t].cid # c
          /\ Goto(t, "discovering", "saving") /\ Learn(t, c) /\ UNCHANGED copy
  /\ NoFault /\ UNCHANGED <<world, settings, stored, mine, rows, then, recs, user>>

\* The first container of the image, in the order Docker lists them.  Only an id that
\* replaces another is written back.
Discover(t) ==
  /\ \/ \E c \in exists :
          /\ NoFault
          /\ \/ copy[t].cid \in {NoContainer, c} /\ Resolve(t, "discovering", c)
             \/ /\ copy[t].cid \notin {NoContainer, c}
                /\ Goto(t, "discovering", "saving") /\ Learn(t, c) /\ UNCHANGED copy
     \/ exists = {} /\ NoFault /\ Resolve(t, "discovering", NoContainer)
     \/ Fault("docker") /\ Resolve(t, "discovering", NoContainer)
  /\ UNCHANGED <<world, settings, stored, mine, rows, then, recs, user>>

SaveId(t) ==
  /\ Resolve(t, "saving", found[t])
  /\ \/ settings' = [copy[t] EXCEPT !.cid = found[t]] /\ NoFault
     \/ UNCHANGED settings /\ Fault("db")
  /\ UNCHANGED <<world, stored, mine, rows, then, recs, user>>

\* The database is locked, unreadable, or not there.
ReadUpstream(t) ==
  /\ \/ /\ Goto(t, "reading", "looking") /\ NoFault
        /\ rows' = [rows EXCEPT ![t] = up] /\ then' = [then EXCEPT ![t] = age]
     \/ /\ Goto(t, "reading", "failing") /\ Fault("upstream")
        /\ UNCHANGED <<rows, then>>
  /\ UNCHANGED <<world, settings, stored, mine, copy, found, recs, user>>

LookForClips(t) ==
  /\ Goto(t, "looking", "writing")
  /\ recs' = [recs EXCEPT ![t] =
       [e \in Event |-> Classify(rows[t][e], then[t][e], e \in disk,
                                 found[t] # NoContainer)]]
  /\ rows' = [rows EXCEPT ![t] = Blank] /\ then' = [then EXCEPT ![t] = Fresh]
  /\ Learn(t, NoContainer)
  /\ NoFault /\ UNCHANGED <<world, settings, stored, mine, copy, user>>

Forget(t) ==
  /\ mine' = [mine EXCEPT ![t] = Default] /\ copy' = [copy EXCEPT ![t] = Default]
  /\ found' = [found EXCEPT ![t] = NoContainer]
  /\ rows' = [rows EXCEPT ![t] = Blank] /\ recs' = [recs EXCEPT ![t] = Blank]
  /\ then' = [then EXCEPT ![t] = Fresh]

\* Mutant of WriteIndex: rows are merged, and those that disappeared upstream stay.
WriteIndexMerged(t) ==
  /\ Goto(t, "writing", "idle") /\ Forget(t)
  /\ index' = [e \in Event |-> IF recs[t][e] = "absent" THEN index[e] ELSE recs[t][e]]
  /\ built' = mine[t].edit /\ failed' = FALSE
  /\ NoFault /\ UNCHANGED <<world, settings, user>>

\* One transaction; one that fails changes nothing.
WriteIndex(t) ==
  /\ \/ /\ Goto(t, "writing", "idle") /\ Forget(t)
        /\ index' = recs[t] /\ built' = mine[t].edit /\ failed' = FALSE
        /\ NoFault
     \/ /\ Goto(t, "writing", "failing")
        /\ Fault("db") /\ UNCHANGED <<stored, locals>>
  /\ UNCHANGED <<world, settings, user>>

\* record_sync_error drops its own errors.
RecordError(t) ==
  /\ Goto(t, "failing", "idle") /\ Forget(t)
  /\ \/ failed' = TRUE /\ NoFault
     \/ UNCHANGED failed /\ Fault("db")
  /\ UNCHANGED <<world, settings, index, built, user>>

TaskStep(t) ==
  \/ Ask(t) \/ Discover(t) \/ SaveId(t)
  \/ ReadUpstream(t) \/ LookForClips(t) \/ WriteIndex(t) \/ RecordError(t)

-----------------------------------------------------------------------------
(* Users *)

\* save_settings_handler: the whole document, with a container the page knew of.  The
\* sync it spawns is one that some task may start.
Save ==
  /\ saved.edit < MaxSaves
  /\ \E cid \in exists \cup gone \cup {NoContainer}, complete \in BOOLEAN :
       settings' = [edit |-> saved.edit + 1, cid |-> cid, complete |-> complete]
  /\ saved' = settings'
  /\ raced' = IF \E t \in Task : HoldsCopy(t) THEN raced \cup {saved.edit + 1} ELSE raced
  /\ NoFault /\ UNCHANGED <<world, stored, pc, locals>>

-----------------------------------------------------------------------------
(* The surroundings *)

Move == moves < MaxMoves /\ moves' = moves + 1 /\ NoFault
        /\ UNCHANGED <<settings, stored, pc, locals, user>>

Record(e) ==
  /\ up[e] = "absent" /\ age[e] = "fresh" /\ up' = [up EXCEPT ![e] = "event"]
  /\ Move /\ UNCHANGED <<age, disk, exists, gone>>

Download(e) ==
  /\ up[e] = "event" /\ up' = [up EXCEPT ![e] = "clip"] /\ disk' = disk \cup {e}
  /\ Move /\ UNCHANGED <<age, exists, gone>>

Prune(e) ==
  /\ up[e] # "absent" /\ up' = [up EXCEPT ![e] = "absent"]
  /\ Move /\ UNCHANGED <<age, disk, exists, gone>>

\* The month is archived, or somebody removes the file.
Leave(e) ==
  /\ e \in disk /\ disk' = disk \ {e}
  /\ Move /\ UNCHANGED <<up, age, exists, gone>>

GrowOlder(e) ==
  /\ age[e] # "old"
  /\ age' = [age EXCEPT ![e] = IF @ = "fresh" THEN "late" ELSE "old"]
  /\ Move /\ UNCHANGED <<up, disk, exists, gone>>

\* `docker compose up` replaces the container.
Recreate ==
  /\ \E c \in exists, d \in Container \ (exists \cup gone) :
       exists' = (exists \ {c}) \cup {d} /\ gone' = gone \cup {c}
  /\ Move /\ UNCHANGED <<up, age, disk>>

Crash ==
  /\ Fault("crash")
  /\ pc' = [t \in Task |-> "idle"]
  /\ mine' = [t \in Task |-> Default] /\ copy' = [t \in Task |-> Default]
  /\ found' = [t \in Task |-> NoContainer]
  /\ rows' = [t \in Task |-> Blank] /\ recs' = [t \in Task |-> Blank]
  /\ then' = [t \in Task |-> Fresh]
  /\ UNCHANGED <<world, settings, stored, user>>

Next ==
  \/ \E t \in Task : StartSync(t) \/ StartLook(t) \/ TaskStep(t)
  \/ Save \/ Recreate \/ Crash
  \/ \E e \in Event : Record(e) \/ Download(e) \/ Prune(e) \/ Leave(e) \/ GrowOlder(e)

Spec == Init /\ [][Next]_vars

\* sync_loop starts a sync a minute, and tasks that have started go on.
Fairness == WF_vars(StartSync(Loop)) /\ \A t \in Task : WF_vars(TaskStep(t))

FairSpec == Spec /\ Fairness

-----------------------------------------------------------------------------
(* Properties *)

\* Types, with the tasks that build an index: they work with settings that are complete.
TypeOK ==
  /\ up \in [Event -> Row] /\ age \in [Event -> Age] /\ disk \subseteq Event
  /\ exists \subseteq Container /\ gone \subseteq Container /\ exists \cap gone = {}
  /\ settings \in Setting /\ saved \in Setting /\ raced \subseteq 1..MaxSaves
  /\ index \in [Event -> Status] /\ built \in 0..MaxSaves /\ failed \in BOOLEAN
  /\ pc \in [Task -> Step]
  /\ mine \in [Task -> Setting] /\ copy \in [Task -> Setting] /\ found \in [Task -> Ids]
  /\ rows \in [Task -> [Event -> Row]] /\ then \in [Task -> [Event -> Age]]
  /\ recs \in [Task -> [Event -> Status]]
  /\ \A t \in Task :
       pc[t] \in {"reading", "looking", "writing"} => mine[t].complete
  /\ moves \in 0..MaxMoves /\ faults \in 0..MaxFaults /\ suffered \subseteq FaultKinds

\* What a user saved stays, whatever fails: no task writes back older settings, nor the
\* default ones it works with when it cannot load any.  The one exception is a save
\* made while a task had its copy in hand.
SaveStandsUnlessRaced ==
  \/ settings.edit = saved.edit /\ settings.complete = saved.complete
  \/ saved.edit \in raced

\* The container the user picked stays picked while it exists, as long as Docker
\* answers, also when others match the image.
PickStands ==
  settings.cid # saved.cid =>
    saved.cid \in gone \/ "docker" \in suffered \/ saved.edit \in raced

\* Once the world and the users are quiet, the index is the truth, built with the
\* settings as they are, and shows no error, however many syncs ran at once before and
\* in whatever order they wrote.
IndexCatchesUp ==
  <>[](settings.complete =>
         /\ index = [e \in Event |-> Classify(up[e], age[e], e \in disk, exists # {})]
         /\ built = settings.edit /\ ~failed)
=============================================================================

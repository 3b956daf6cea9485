-------------------------------- MODULE Setup --------------------------------
(***************************************************************************)
(* Finding the backup service's files from another container: what         *)
(* docker.rs reads off the service's mounts, what setup.rs makes of it and *)
(* of the directory this program has been given, what the user confirms,   *)
(* and what a sync (upb/reconcile.rs, upb/parse.rs) then finds.            *)
(*                                                                         *)
(* There are three views of one file: the host's, the service's through    *)
(* its mounts, and this program's, whose backup directory is a mount of    *)
(* its own.  Settings are kept in the words of the last two, and go stale  *)
(* when either container is recreated with other mounts.  A path is the    *)
(* sequence of its components.                                             *)
(*                                                                         *)
(* The container itself, which current_container looks up again when it    *)
(* has been replaced, is EventIndex's; here it is the one there is.        *)
(***************************************************************************)
EXTENDS Sequences, Naturals, FiniteSets

CONSTANTS
  Deployment, \* how the service may be deployed: mounts, SQLITE_PATH, clip root
  Place,      \* host directories that may be mounted as our backup directory
  Backup,     \* config.backup_dir, in our view
  Data,       \* "/data"
  Camera,     \* camera directory names
  NoPath,     \* None, where a path may be missing
  MaxRows     \* bound: events recorded

Path  == Seq(STRING)
Maybe == Path \cup {NoPath}

ASSUME PathAssumption == Backup \in Path /\ Data \in Path /\ Place \subseteq Path
ASSUME NoneAssumption == NoPath \notin Path
ASSUME DeploymentAssumption ==
  \A d \in Deployment :
    /\ d.sqlite \in Maybe /\ d.root \in Path
    /\ \A x \in d.mounts : x.source \in Path /\ x.dest \in Path
    /\ \A x, y \in d.mounts : x.dest = y.dest => x = y
ASSUME NameAssumption  == Camera \cup {"clip"} \subseteq STRING
ASSUME BoundAssumption == MaxRows \in Nat

VARIABLES
  service,   \* the deployment that runs
  place,     \* the host directory behind our backup directory, or NoPath
  dbs,       \* host paths of databases the service has kept
  recorded,  \* what they hold: the database, the path recorded, the camera, the file
  proposal,  \* what the setup page shows, and where it came from
  confirmed, \* the saved settings
  listed     \* row -> status and camera name, as the last sync left them

surroundings == <<service, place, dbs, recorded>>
setupVars    == <<surroundings, proposal, confirmed, listed>>

-----------------------------------------------------------------------------
(* Paths *)

\* Is the path the directory or below it?
Under(dir, p) == Len(dir) <= Len(p) /\ SubSeq(p, 1, Len(dir)) = dir

Rest(dir, p) == SubSeq(p, Len(dir) + 1, Len(p))

\* What a path in the service's container is on the host: Docker's own rule.
OnHost(d, p) ==
  LET over == {x \in d.mounts : Under(x.dest, p)}
      deep == CHOOSE x \in over : \A y \in over : Len(y.dest) <= Len(x.dest)
  IN IF p = NoPath \/ over = {} THEN NoPath ELSE deep.source \o Rest(deep.dest, p)

\* What a path of ours is on the host.
Ours(p) ==
  IF p # NoPath /\ place # NoPath /\ Under(Backup, p)
    THEN place \o Rest(Backup, p) ELSE NoPath

\* Mutant of ToHostPath: the widest mount wins.
ToHostPathWidest(mounts, p) ==
  LET over == {x \in mounts : Under(x.dest, p)}
      wide == CHOOSE x \in over : \A y \in over : Len(x.dest) <= Len(y.dest)
  IN IF over = {} THEN NoPath ELSE wide.source \o Rest(wide.dest, p)

\* to_host_path: the most specific mount that the path is under.
ToHostPath(mounts, p) ==
  LET over == {x \in mounts : Under(x.dest, p)}
      deep == CHOOSE x \in over : \A y \in over : Len(y.dest) <= Len(x.dest)
  IN IF over = {} THEN NoPath ELSE deep.source \o Rest(deep.dest, p)

\* host_to_local: a host path under the directory that is taken for ours.
HostToLocal(host, base) == IF Under(base, host) THEN Backup \o Rest(base, host) ELSE NoPath

\* strip_prefix
StripPrefix(p, prefix) ==
  IF Under(prefix, p) /\ Len(prefix) < Len(p) THEN Rest(prefix, p) ELSE NoPath

\* parse: the camera is the first of several components below the prefix, or of the
\* whole path when it is not below it.
CameraName(p, prefix) ==
  LET below == IF StripPrefix(p, prefix) = NoPath THEN p ELSE StripPrefix(p, prefix)
  IN IF Len(below) > 1 THEN below[1] ELSE ""

-----------------------------------------------------------------------------
(* Discovery and validation *)

\* find_cameras: directories that hold at least one dated one.
FindCameras ==
  {c \in Camera : place # NoPath /\ \E r \in recorded : Under(Append(place, c), r.file)}

\* inspect: ProposedConfig
Proposed ==
  LET at     == {x \in service.mounts : x.dest = Data}
      clips  == CHOOSE x \in at : TRUE
      dbHost == IF service.sqlite = NoPath THEN NoPath
                ELSE ToHostPath(service.mounts, service.sqlite)
  IN [prefix |-> IF at = {} THEN NoPath ELSE Data,
      db     |-> IF at = {} \/ dbHost = NoPath THEN NoPath
                 ELSE HostToLocal(dbHost, clips.source)]

BlankForm ==
  [db |-> NoPath, prefix |-> NoPath, cameras |-> {}, complete |-> FALSE, from |-> <<>>]

\* validate, of what a path and a directory have been chosen for.
Valid(s) ==
  /\ Ours(s.db) \in dbs
  /\ s.prefix # NoPath
  /\ s.cameras # {} /\ s.cameras \subseteq FindCameras

-----------------------------------------------------------------------------

SetupInit ==
  /\ service \in Deployment /\ place \in Place
  /\ dbs = {OnHost(service, service.sqlite)} \ {NoPath}
  /\ recorded = {} /\ listed = {}
  /\ proposal = BlankForm /\ confirmed = BlankForm

\* discover_handler and the setup page: what has been saved is kept, and only what has
\* not been is proposed.
Propose ==
  /\ proposal' = IF confirmed # BlankForm THEN confirmed
                 ELSE [BlankForm EXCEPT !.db = Proposed.db, !.prefix = Proposed.prefix,
                                         !.cameras = FindCameras, !.from = <<service, place>>]
  /\ UNCHANGED <<surroundings, confirmed, listed>>

\* The user types another prefix, and our path to a database that there is.
Correct ==
  /\ proposal # BlankForm
  /\ \E d \in Deployment, h \in dbs, p \in Place :
       proposal' = [proposal EXCEPT !.prefix = d.root, !.db = HostToLocal(h, p), !.from = <<>>]
  /\ UNCHANGED <<surroundings, confirmed, listed>>

\* Mutant of SaveSettings: stored as it was submitted.
SaveUnchecked ==
  /\ proposal # BlankForm
  /\ confirmed' = [proposal EXCEPT !.complete = TRUE]
  /\ UNCHANGED <<surroundings, proposal, listed>>

\* save_settings_handler, of the page's complete settings: what does not pass the checks
\* is refused, and what was saved before stays.
SaveSettings ==
  /\ proposal # BlankForm /\ Valid(proposal)
  /\ confirmed' = [proposal EXCEPT !.complete = TRUE]
  /\ UNCHANGED <<surroundings, proposal, listed>>

-----------------------------------------------------------------------------
(* A sync *)

\* Mutant of LocalPath: the recorded path is joined as it is, which replaces ours.
LocalPathAsRecorded(r) == r.path

LocalPath(r) ==
  LET below == StripPrefix(r.path, confirmed.prefix)
  IN IF below = NoPath THEN NoPath ELSE Backup \o below

OnDisk(p) == \E r \in recorded : r.file = Ours(p)

\* sync: status and camera of a recent row.  One whose path is not under the prefix is
\* taken to be archived.
Derive(r) ==
  [row |-> r, camera |-> CameraName(r.path, confirmed.prefix),
   status |-> IF LocalPath(r) = NoPath THEN "archived"
              ELSE IF OnDisk(LocalPath(r)) THEN "live" ELSE "vanished"]

\* sync_once.  A database that cannot be opened leaves the index as it was.
Sync ==
  /\ confirmed.complete
  /\ Ours(confirmed.db) \in dbs
  /\ listed' = {Derive(r) : r \in {x \in recorded : x.db = Ours(confirmed.db)}}
  /\ UNCHANGED <<surroundings, proposal, confirmed>>

-----------------------------------------------------------------------------
(* The surroundings *)

\* The service records an event and writes its clip.
RecordClip ==
  /\ Cardinality(recorded) < MaxRows
  /\ OnHost(service, service.root) # NoPath /\ OnHost(service, service.sqlite) # NoPath
  /\ \E c \in Camera :
       LET path == service.root \o <<c, "clip">>
       IN recorded' =
            recorded \cup {[db |-> OnHost(service, service.sqlite), path |-> path,
                           camera |-> c, file |-> OnHost(service, path), by |-> service]}
  /\ UNCHANGED <<service, place, dbs, proposal, confirmed, listed>>

\* docker compose up, after an edit of the service's part of the file.
Redeploy ==
  /\ service' \in Deployment \ {service}
  /\ dbs' = dbs \cup ({OnHost(service', service'.sqlite)} \ {NoPath})
  /\ UNCHANGED <<place, recorded, proposal, confirmed, listed>>

\* Our own mount is lost, comes back, or is another directory.
Remount ==
  /\ place' \in (Place \cup {NoPath}) \ {place}
  /\ UNCHANGED <<service, dbs, recorded, proposal, confirmed, listed>>

SetupNext == Propose \/ Correct \/ SaveSettings \/ Sync \/ RecordClip \/ Redeploy \/ Remount

SetupSpec == SetupInit /\ [][SetupNext]_setupVars

-----------------------------------------------------------------------------
(* Properties *)

\* Type invariant; what has been saved as complete is.
SetupTypeOK ==
  /\ service \in Deployment /\ place \in Place \cup {NoPath}
  /\ dbs \subseteq Path
  /\ recorded \subseteq [db : dbs, path : Path, camera : Camera, file : Path, by : Deployment]
  /\ Cardinality(recorded) <= MaxRows
  /\ \A s \in {proposal, confirmed} :
       s.db \in Maybe /\ s.prefix \in Maybe /\ s.cameras \subseteq Camera
  /\ confirmed.complete =>
       NoPath \notin {confirmed.db, confirmed.prefix} /\ confirmed.cameras # {}
  /\ \A i \in listed : i.row \in recorded /\ i.status \in {"live", "archived", "vanished"}

\* The directory that the service's /data is, when that is where it writes its clips.
ClipDir == {x.source : x \in {m \in service.mounts : m.dest = Data /\ service.root = Data}}

\* A mount of its own, below the clip root, that the path is under.
Apart(d, p) == \E x \in d.mounts : Len(d.root) < Len(x.dest) /\ Under(x.dest, p)

\* What was proposed for the deployment and the directory that are still there, and saved
\* without a correction, is right (setup.rs:3-5: "Everything we can derive from the backup
\* container or the filesystem is proposed with the evidence behind it"): our path to the
\* database is the file the service writes, and a clip it records is of the camera it says
\* and, unless its camera has a mount of its own, where we look for it; however the three
\* views of a path differ and whatever other databases lie about.
ConfirmedIsRight ==
  confirmed.from = <<service, place>> /\ place \in ClipDir =>
    /\ Ours(confirmed.db) = OnHost(service, service.sqlite)
    /\ \A r \in recorded : r.by = service =>
         /\ ~Apart(service, r.path) => Ours(LocalPath(r)) = r.file
         /\ CameraName(r.path, confirmed.prefix) = r.camera

\* A sync finds every clip below the saved prefix that was recorded by a deployment with
\* our directory there, and its camera when the prefix is that deployment's clip root;
\* whatever deployments and settings have come in between (parse.rs:33-34: "a silent
\* mismatch here would produce paths that look plausible and don't exist").
SyncFindsClips ==
  [][\A i \in listed' \ listed :
       (\E x \in i.row.by.mounts :
          /\ x.dest = confirmed.prefix /\ x.source = place
          /\ Under(x.dest, i.row.path) /\ x.dest # i.row.path
          /\ i.row.file = place \o Rest(x.dest, i.row.path))
       => /\ i.status = "live"
          /\ confirmed.prefix = i.row.by.root => i.camera = i.row.camera]_setupVars

=============================================================================

----------------------------- MODULE MediaCache -----------------------------
(***************************************************************************)
(* Transcodes made on demand: crates/protect-manager/src/media/mod.rs      *)
(* (playable, evict), the handlers of main.rs that serve them, and the     *)
(* syncs of sync_once, each of which ends in an eviction.                  *)
(*                                                                         *)
(* ffmpeg is a process of its own.  It writes to a scratch name made of    *)
(* the clip's id, so two of them for one clip write to one file, and it    *)
(* goes on when the handler that started it is dropped.  A file is known   *)
(* by the request whose ffmpeg created it; names (scratch, cached) refer   *)
(* to files, and renaming or removing a name leaves the file open.         *)
(* safe_name replaces characters of an id: the name that results may be    *)
(* another than the id, and another id's as well.                          *)
(* A thumbnail goes the same way as a clip that no browser plays.          *)
(***************************************************************************)
EXTENDS Naturals, Sequences, FiniteSets

CONSTANTS
  Request,    \* requests for a clip
  Clip,       \* event ids
  FileName,   \* names that files in the cache may have, without .mp4
  SafeName,   \* the name safe_name makes of an id
  Playable,   \* clips whose codec a browser can be relied on to play
  Sync,       \* tasks that run sync_once: the loop, the button, saved settings
  NoFile,     \* the name does not exist
  Stored,     \* live directories to start from
  Wanted,     \* which clip each request may be for
  Permits,    \* Semaphore::new(Permits)
  MaxMoves,   \* bound: clips leaving or entering the live directory
  MaxFaults,  \* bound: faults in one behaviour
  FaultKinds  \* which faults may happen: a subset of AllFaults

AllFaults == {"crash", "cancel", "probe", "encode", "io", "db"}

ASSUME SetsAssumption   == /\ IsFiniteSet(Request) /\ NoFile \notin Request
                           /\ Playable \subseteq Clip /\ Stored \subseteq SUBSET Clip
                           /\ Wanted \subseteq [Request -> Clip]
ASSUME NamesAssumption  == SafeName \in [Clip -> FileName]
ASSUME LimitsAssumption == Permits \in Nat \ {0} /\ {MaxMoves, MaxFaults} \subseteq Nat
ASSUME FaultsAssumption == FaultKinds \subseteq AllFaults

VARIABLES
  disk,     \* clips in the live directory
  live,     \* clips that the index calls live
  at,       \* how far each sync has come
  keep,     \* the clips whose files its eviction spares
  todo,     \* directory entries its eviction has still to look at
  scratch,  \* <name>.partial.mp4
  cached,   \* <name>.mp4
  whole,    \* files that hold a complete transcode
  mixed,    \* files that two processes have written to at once
  pc,       \* how far each request has come
  clip,     \* what it asks for
  reply,    \* what it was answered
  queue,    \* requests that wait for a permit, first come first served
  holders,  \* requests that hold a permit
  proc,     \* the ffmpeg each request started
  file,     \* and the file it writes to
  doubled,  \* ghost: names that were in two ffmpegs' hands at once
  missed,   \* ghost: clips that have been off the disk at some time
  moves,    \* moves so far
  faults,   \* faults so far
  suffered  \* ghost: their kinds

world   == <<disk, missed, moves>>
syncs   == <<live, at, keep, todo>>
files   == <<scratch, cached, whole, mixed>>
reqs    == <<pc, clip, reply>>
permits == <<queue, holders>>
procs   == <<proc, file, doubled>>
vars    == <<world, syncs, files, reqs, permits, procs, faults, suffered>>

Stage == {"new", "probing", "queued", "encoding", "renaming", "found", "original", "over"}
Reply == {"none", "refused", "whole", "torn", "missing", "error", "gone"}
Name  == Request \cup {NoFile}

Init ==
  /\ disk \in Stored /\ live = disk
  /\ missed = Clip \ disk /\ moves = 0
  /\ at = [s \in Sync |-> "idle"]
  /\ keep = [s \in Sync |-> {}] /\ todo = [s \in Sync |-> {}]
  /\ scratch = [n \in FileName |-> NoFile] /\ cached = [n \in FileName |-> NoFile]
  /\ whole = {} /\ mixed = {}
  /\ pc = [r \in Request |-> "new"] /\ reply = [r \in Request |-> "none"]
  /\ clip \in Wanted
  /\ queue = <<>> /\ holders = {}
  /\ proc = [r \in Request |-> "none"] /\ file = [r \in Request |-> NoFile]
  /\ doubled = {}
  /\ faults = 0 /\ suffered = {}

-----------------------------------------------------------------------------
(* Helpers *)

Fault(f) ==
  /\ f \in FaultKinds /\ faults < MaxFaults
  /\ faults' = faults + 1 /\ suffered' = suffered \cup {f}

NoFault == UNCHANGED <<faults, suffered>>

Goto(r, from, to) == pc[r] = from /\ pc' = [pc EXCEPT ![r] = to]

Answer(r, from, what) == Goto(r, from, "over") /\ reply' = [reply EXCEPT ![r] = what]

Release(r) == holders' = holders \ {r} /\ UNCHANGED queue

Without(line, i) == [j \in 1..Len(line) - 1 |-> line[IF j < i THEN j ELSE j + 1]]

Encoding(r) == proc[r] \in {"starting", "writing"}

\* clip_path: the name of the transcode that a request needs.
Dest(r) == SafeName[clip[r]]

\* Who has, or may still write to, the scratch file of that name.
Handling(n) ==
  {r \in Request : Dest(r) = n /\ (pc[r] \in {"encoding", "renaming"} \/ Encoding(r))}

-----------------------------------------------------------------------------
(* A request: clip_handler, playable, serve_file *)

\* resolve_clip asks the index for the path, and the file system whether it leads into
\* the backup directory, which it only does of a path that exists.
Resolve(r) ==
  /\ clip[r] \in live \cap disk
  /\ Goto(r, "new", "probing")
  /\ NoFault /\ UNCHANGED <<world, syncs, files, clip, reply, permits, procs>>

Refuse(r) ==
  /\ clip[r] \notin live \cap disk
  /\ Answer(r, "new", "refused")
  /\ NoFault /\ UNCHANGED <<world, syncs, files, clip, permits, procs>>

\* A codec that browsers play.
PlaysDirectly(c) == c \in Playable /\ c \in disk

UseOriginal(r) ==
  /\ PlaysDirectly(clip[r])
  /\ Goto(r, "probing", "original")
  /\ NoFault /\ UNCHANGED <<world, syncs, files, clip, reply, permits, procs>>

\* No such codec, or none because ffprobe failed.
NeedsTranscode(r) ==
  \/ ~PlaysDirectly(clip[r]) /\ NoFault
  \/ PlaysDirectly(clip[r]) /\ Fault("probe")

UseCached(r) ==
  /\ NeedsTranscode(r)
  /\ cached[Dest(r)] # NoFile
  /\ Goto(r, "probing", "found")
  /\ UNCHANGED <<world, syncs, files, clip, reply, permits, procs>>

Wait(r) ==
  /\ NeedsTranscode(r)
  /\ cached[Dest(r)] = NoFile
  /\ Goto(r, "probing", "queued")
  /\ queue' = Append(queue, r)
  /\ UNCHANGED <<world, syncs, files, clip, reply, holders, procs>>

MyTurn(r) ==
  /\ queue # <<>> /\ Head(queue) = r
  /\ Cardinality(holders) < Permits
  /\ queue' = Tail(queue)

\* "Re-check after waiting": the permit goes back at once.
FoundAfterAll(r) ==
  /\ MyTurn(r)
  /\ cached[Dest(r)] # NoFile
  /\ Goto(r, "queued", "found")
  /\ NoFault /\ UNCHANGED <<world, syncs, files, clip, reply, holders, procs>>

StartEncoder(r) ==
  /\ MyTurn(r)
  /\ cached[Dest(r)] = NoFile
  /\ Goto(r, "queued", "encoding")
  /\ holders' = holders \cup {r}
  /\ proc' = [proc EXCEPT ![r] = "starting"]
  /\ doubled' = doubled \cup (IF Handling(Dest(r)) = {} THEN {} ELSE {Dest(r)})
  /\ NoFault /\ UNCHANGED <<world, syncs, files, clip, reply, file>>

\* Mutant of CheckOutput: the exit status is not looked at.
CheckOutputExistsOnly(r) ==
  /\ proc[r] \in {"done", "failed"} /\ scratch[Dest(r)] # NoFile
  /\ Goto(r, "encoding", "renaming")
  /\ NoFault /\ UNCHANGED <<world, syncs, files, clip, reply, permits, procs>>

\* ffmpeg exited well and its output is there.
CheckOutput(r) ==
  /\ proc[r] = "done" /\ scratch[Dest(r)] # NoFile
  /\ Goto(r, "encoding", "renaming")
  /\ NoFault /\ UNCHANGED <<world, syncs, files, clip, reply, permits, procs>>

\* It did not, or it is not: whatever has the scratch name is removed.
Discard(r) ==
  /\ proc[r] = "failed" \/ (proc[r] = "done" /\ scratch[Dest(r)] = NoFile)
  /\ Answer(r, "encoding", "error")
  /\ scratch' = [scratch EXCEPT ![Dest(r)] = NoFile]
  /\ Release(r)
  /\ NoFault /\ UNCHANGED <<world, syncs, cached, whole, mixed, clip, procs>>

Rename(r) ==
  /\ scratch[Dest(r)] # NoFile
  /\ Goto(r, "renaming", "found")
  /\ cached' = [cached EXCEPT ![Dest(r)] = scratch[Dest(r)]]
  /\ scratch' = [scratch EXCEPT ![Dest(r)] = NoFile]
  /\ Release(r)
  /\ NoFault /\ UNCHANGED <<world, syncs, whole, mixed, clip, reply, procs>>

\* Another request has taken the name, or the file system refuses.
RenameFails(r) ==
  /\ \/ scratch[Dest(r)] = NoFile /\ NoFault
     \/ Fault("io")
  /\ Answer(r, "renaming", "error")
  /\ Release(r)
  /\ UNCHANGED <<world, syncs, files, clip, procs>>

\* serve_file opens the name; what it opened stays readable to the end.
Serve(r) ==
  /\ LET f == cached[Dest(r)]
     IN  Answer(r, "found",
           IF f = NoFile THEN "missing" ELSE IF f \in whole THEN "whole" ELSE "torn")
  /\ NoFault /\ UNCHANGED <<world, syncs, files, clip, permits, procs>>

ServeOriginal(r) ==
  /\ Answer(r, "original", IF clip[r] \in disk THEN "whole" ELSE "missing")
  /\ NoFault /\ UNCHANGED <<world, syncs, files, clip, permits, procs>>

\* Mutant of Drop: the place in the line outlives the request.
DropStaysInLine(r) ==
  /\ Fault("cancel")
  /\ pc[r] \in {"queued", "encoding"} /\ Answer(r, pc[r], "gone")
  /\ Release(r)
  /\ UNCHANGED <<world, syncs, files, clip, procs>>

\* The client goes away and the handler is dropped where it awaits.  Its place in the
\* line or its permit goes with it; ffmpeg, which is not killed, goes on.
Drop(r) ==
  /\ Fault("cancel")
  /\ \/ /\ Answer(r, "queued", "gone")
        /\ \E i \in 1..Len(queue) : queue[i] = r /\ queue' = Without(queue, i)
        /\ UNCHANGED holders
     \/ /\ Answer(r, "encoding", "gone")
        /\ Release(r)
  /\ UNCHANGED <<world, syncs, files, clip, procs>>

Ask(r) == Resolve(r) \/ Refuse(r)

RequestStep(r) ==
  \/ UseOriginal(r) \/ UseCached(r) \/ Wait(r)
  \/ FoundAfterAll(r) \/ StartEncoder(r) \/ CheckOutput(r) \/ Discard(r)
  \/ Rename(r) \/ RenameFails(r) \/ Serve(r) \/ ServeOriginal(r)

-----------------------------------------------------------------------------
(* ffmpeg -y -i <clip> ... <scratch> *)

Writers(f) == {r \in Request : proc[r] = "writing" /\ file[r] = f}

\* It creates its output, or empties the one it finds.
EncoderOpens(r) ==
  LET f == IF scratch[Dest(r)] = NoFile THEN r ELSE scratch[Dest(r)]
  IN  /\ proc[r] = "starting" /\ clip[r] \in disk
      /\ proc' = [proc EXCEPT ![r] = "writing"]
      /\ file' = [file EXCEPT ![r] = f]
      /\ scratch' = [scratch EXCEPT ![Dest(r)] = f]
      /\ whole' = whole \ {f}
      /\ mixed' = IF Writers(f) = {} THEN mixed \ {f} ELSE mixed \cup {f}
      /\ NoFault
      /\ UNCHANGED <<world, syncs, cached, reqs, permits, doubled>>

EncoderFindsNoClip(r) ==
  /\ proc[r] = "starting" /\ clip[r] \notin disk
  /\ proc' = [proc EXCEPT ![r] = "failed"]
  /\ NoFault /\ UNCHANGED <<world, syncs, files, reqs, permits, file, doubled>>

\* The last writer leaves a complete file; one that two have written to may be anything.
EncoderEnds(r) ==
  /\ proc[r] = "writing"
  /\ proc' = [proc EXCEPT ![r] = "done"]
  /\ file' = [file EXCEPT ![r] = NoFile]
  /\ IF Writers(file[r]) # {r} THEN UNCHANGED whole
     ELSE \/ whole' = whole \cup {file[r]}
          \/ file[r] \in mixed /\ UNCHANGED whole
  /\ NoFault /\ UNCHANGED <<world, syncs, scratch, cached, mixed, reqs, permits, doubled>>

\* A clip that does not decode, a full disk: what was written stays.
EncoderFails(r) ==
  /\ proc[r] = "writing"
  /\ Fault("encode")
  /\ proc' = [proc EXCEPT ![r] = "failed"]
  /\ file' = [file EXCEPT ![r] = NoFile]
  /\ UNCHANGED <<world, syncs, files, reqs, permits, doubled>>

EncoderStep(r) == EncoderOpens(r) \/ EncoderFindsNoClip(r) \/ EncoderEnds(r)

-----------------------------------------------------------------------------
(* A sync, as far as the cache sees it: sync, write_index, evict *)

RebuildIndex(s) ==
  /\ at[s] = "idle"
  /\ live' = disk
  /\ at' = [at EXCEPT ![s] = "written"]
  /\ NoFault /\ UNCHANGED <<world, keep, todo, files, reqs, permits, procs>>

\* The list of live clips; a query that fails yields the empty list.
ReadLive(s) ==
  /\ at[s] = "written"
  /\ \/ keep' = [keep EXCEPT ![s] = live] /\ NoFault
     \/ keep' = [keep EXCEPT ![s] = {}] /\ Fault("db")
  /\ todo' = [todo EXCEPT ![s] = {n \in FileName : cached[n] # NoFile}]
  /\ at' = [at EXCEPT ![s] = "evicting"]
  /\ UNCHANGED <<world, live, files, reqs, permits, procs>>

\* Mutant of EvictOne: a file is taken to be work in progress if it has a scratch file.
EvictOneUnlessBusy(s, n) ==
  /\ at[s] = "evicting" /\ n \in todo[s]
  /\ todo' = [todo EXCEPT ![s] = @ \ {n}]
  /\ cached' = IF n \in keep[s] \/ scratch[n] # NoFile
                 THEN cached ELSE [cached EXCEPT ![n] = NoFile]
  /\ NoFault
  /\ UNCHANGED <<world, live, at, keep, scratch, whole, mixed, reqs, permits, procs>>

\* The stem of a file's name is looked up among the ids of live clips.  Names that contain
\* ".partial." are not among the entries looked at.
EvictOne(s, n) ==
  /\ at[s] = "evicting" /\ n \in todo[s]
  /\ todo' = [todo EXCEPT ![s] = @ \ {n}]
  /\ cached' = IF n \in keep[s] THEN cached ELSE [cached EXCEPT ![n] = NoFile]
  /\ NoFault
  /\ UNCHANGED <<world, live, at, keep, scratch, whole, mixed, reqs, permits, procs>>

\* Mutant of EvictionDone: names that contain ".partial." are no clip's, so they go.
EvictionTakesPartials(s) ==
  /\ at[s] = "evicting" /\ todo[s] = {}
  /\ at' = [at EXCEPT ![s] = "idle"]
  /\ keep' = [keep EXCEPT ![s] = {}]
  /\ scratch' = [n \in FileName |-> NoFile]
  /\ NoFault
  /\ UNCHANGED <<world, live, todo, cached, whole, mixed, reqs, permits, procs>>

EvictionDone(s) ==
  /\ at[s] = "evicting" /\ todo[s] = {}
  /\ at' = [at EXCEPT ![s] = "idle"]
  /\ keep' = [keep EXCEPT ![s] = {}]
  /\ NoFault
  /\ UNCHANGED <<world, live, todo, files, reqs, permits, procs>>

SyncStep(s) ==
  \/ RebuildIndex(s) \/ ReadLive(s) \/ EvictionDone(s)
  \/ \E n \in FileName : EvictOne(s, n)

-----------------------------------------------------------------------------
(* The surroundings *)

\* The month is archived, or the backup service expires the clip.
Leave(c) ==
  /\ c \in disk /\ moves < MaxMoves
  /\ disk' = disk \ {c} /\ missed' = missed \cup {c} /\ moves' = moves + 1
  /\ NoFault /\ UNCHANGED <<syncs, files, reqs, permits, procs>>

\* It is downloaded, or the month restored.
Arrive(c) ==
  /\ c \notin disk /\ moves < MaxMoves
  /\ disk' = disk \cup {c} /\ moves' = moves + 1
  /\ NoFault /\ UNCHANGED <<missed, syncs, files, reqs, permits, procs>>

\* The container stops with everything in it, and is started again.
Crash ==
  /\ Fault("crash")
  /\ pc' = [r \in Request |-> IF pc[r] = "new" THEN "new" ELSE "over"]
  /\ reply' = [r \in Request |-> IF pc[r] \in {"new", "over"} THEN reply[r] ELSE "gone"]
  /\ queue' = <<>> /\ holders' = {}
  /\ proc' = [r \in Request |-> IF Encoding(r) THEN "failed" ELSE proc[r]]
  /\ file' = [r \in Request |-> NoFile]
  /\ at' = [s \in Sync |-> "idle"]
  /\ keep' = [s \in Sync |-> {}] /\ todo' = [s \in Sync |-> {}]
  /\ UNCHANGED <<world, live, files, clip, doubled>>

Next ==
  \/ \E r \in Request : \/ Ask(r) \/ RequestStep(r) \/ Drop(r)
                        \/ EncoderStep(r) \/ EncoderFails(r)
  \/ \E s \in Sync : SyncStep(s)
  \/ \E c \in Clip : Leave(c) \/ Arrive(c)
  \/ Crash

Spec == Init /\ [][Next]_vars

\* Handlers and syncs are tasks of the runtime, ffmpeg comes to an end, and the loop
\* starts a sync a minute.
Fairness ==
  /\ \A r \in Request : WF_vars(RequestStep(r) \/ EncoderStep(r))
  /\ \A s \in Sync : WF_vars(SyncStep(s))

FairSpec == Spec /\ Fairness

-----------------------------------------------------------------------------
(* Properties *)

\* Types, with the limit on permits, and the line of those that wait for one.
TypeOK ==
  /\ disk \subseteq Clip /\ live \subseteq Clip
  /\ missed \subseteq Clip /\ doubled \subseteq FileName
  /\ at \in [Sync -> {"idle", "written", "evicting"}]
  /\ keep \in [Sync -> SUBSET Clip] /\ todo \in [Sync -> SUBSET FileName]
  /\ scratch \in [FileName -> Name] /\ cached \in [FileName -> Name]
  /\ whole \subseteq Request /\ mixed \subseteq Request
  /\ pc \in [Request -> Stage] /\ reply \in [Request -> Reply] /\ clip \in [Request -> Clip]
  /\ queue \in Seq(Request) /\ \A i \in 1..Len(queue) : pc[queue[i]] = "queued"
  /\ holders \subseteq {r \in Request : pc[r] \in {"encoding", "renaming"}}
  /\ Cardinality(holders) <= Permits
  /\ proc \in [Request -> {"none", "starting", "writing", "done", "failed"}]
  /\ file \in [Request -> Name]
  /\ moves \in 0..MaxMoves /\ faults \in 0..MaxFaults
  /\ suffered \subseteq FaultKinds

\* "Two at a time": as long as no client has gone away in the middle, no more ffmpegs
\* run than there are permits.
EncodersBounded ==
  "cancel" \notin suffered => Cardinality({r \in Request : Encoding(r)}) <= Permits

\* A transcode that is served is complete, whatever else fails, unless two ffmpegs
\* have worked on files of its name at one time.
TornOnlyByDoubling ==
  \A r \in Request : reply[r] = "torn" => Dest(r) \in doubled

\* A clip that stays on disk is served: without a fault, and unless two ffmpegs worked
\* on it at one time, no request for it is answered with an error, and no eviction takes
\* the file away between the answer's parts; if its id is its own safe name, for the
\* eviction knows the file of no other.
LiveClipIsServed ==
  \A r \in Request :
    reply[r] \in {"refused", "missing", "error"} =>
      \/ clip[r] \in missed \/ suffered # {}
      \/ Dest(r) \in doubled \/ Dest(r) # clip[r]

\* Every request that was made is answered in the end (each is made once): no permit
\* is lost on any path, and the line moves.
EveryRequestAnswered == <>[](\A r \in Request : pc[r] \in {"new", "over"})

\* The cache drains: no file stays under the id of a clip that has left the live directory
\* for good, not even one that was made while the eviction ran; and none under a name that
\* is not an id.
CacheDrains ==
  \A n \in FileName : <>[](n \notin disk) => <>[](cached[n] = NoFile)
=============================================================================

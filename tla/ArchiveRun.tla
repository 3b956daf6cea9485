----------------------------- MODULE ArchiveRun -----------------------------
(***************************************************************************)
(* One camera-month on its way from the live directory into a tar archive, *)
(* and back: crates/protect-manager/src/archive/{run,pack,plan}.rs with    *)
(* the checkpoint rows of db.rs.                                           *)
(*                                                                         *)
(* Several processes touch the same files.  The job task packs, verifies   *)
(* and deletes; the external backup service keeps writing clips into the   *)
(* directories the job deletes; the process can die between any two steps  *)
(* of the job, and starts again with a sweep.  One job runs at a time (the *)
(* job lock), so the job is one program counter pc.                        *)
(*                                                                         *)
(* A clip's bytes are a version number: the backup service's k-th write of *)
(* the clip is version k.  Equal versions mean equal hashes.  Offsets in   *)
(* the partial archive are counted in whole entries, one unit per entry.   *)
(***************************************************************************)
EXTENDS Integers, Sequences, FiniteSets

CONSTANTS
  Clip,       \* clips of the month, numbered in the order of their entry names
  Day,        \* the month's days, numbered in calendar order
  DayOf,      \* the day directory each clip lives in
  MaxVer,     \* bound: how often the backup service writes one clip
  NoFile,     \* "there is no such file"
  MaxFaults,  \* bound: crashes, failed operations and expired clips
  FaultKinds, \* which faults may happen: a subset of AllFaults
  Behaviours  \* what the surroundings may do: a subset of AllBehaviours

AllFaults     == {"crash", "io", "db", "purge"}
AllBehaviours == {"backfill", "write_during_job", "rewrite", "explicit_target",
                  "restore"}

Garbled == MaxVer + 1            \* an entry whose header and data disagree
Content == 1..(MaxVer + 1)
Hashes  == [Clip -> {0} \cup Content]   \* a map entry -> hash; 0 is "no key"
Entry   == [clip : Clip, ver : Content]
File    == [entries : Seq(Entry), torn : BOOLEAN]

ASSUME ClipAssumption   == Clip \subseteq Nat \ {0} /\ IsFiniteSet(Clip)
ASSUME DayAssumption    == Day \subseteq Nat \ {0} /\ IsFiniteSet(Day)
ASSUME DayOfAssumption  ==
  /\ DayOf \in [Clip -> Day]
  /\ \A c, e \in Clip : c <= e => DayOf[c] <= DayOf[e]
ASSUME BoundAssumption  == MaxVer \in Nat \ {0} /\ MaxFaults \in Nat
ASSUME NoFileAssumption == NoFile \notin File
ASSUME KindAssumption   ==
  FaultKinds \subseteq AllFaults /\ Behaviours \subseteq AllBehaviours

VARIABLES
  src,      \* clip -> version in the live directory, 0 when it is not there
  dirs,     \* day directories that exist
  newest,   \* clip -> last version the backup service wrote and still vouches for
  settled,  \* past month, old enough, and no write within RECENT_WRITE_SECS
  partial,  \* <month>.tar.partial
  tar,      \* <month>.tar
  ckpt,     \* day -> its archive_progress row
  row,      \* the archives row: "none", "kept" or "pinned"
  pc,       \* where the job task is; "idle" when the lock is free
  snap,     \* MonthContents.files, the scan the job works from
  snapDirs, \* MonthContents.day_dirs
  offset,   \* archive_months: where the next day is appended
  hashes,   \* archive_months: what the archive is believed to hold
  todo,     \* clips of days_to_pack not yet handed to append_day
  batch,    \* append_day: clips of the day being packed, not yet appended
  day,      \* append_day: the day being packed, 0 when none
  packed,   \* append_day: hashes of the entries it has appended
  doomed,   \* day directories still to be removed
  pos,      \* unpack: next entry to write back
  faults,   \* faults so far
  suffered  \* ghost: their kinds

disk   == <<src, dirs, newest, settled>>
store  == <<partial, tar>>
db     == <<ckpt, row>>
work   == <<offset, hashes, todo, batch, day, packed>>
locals == <<snap, snapDirs, work, doomed, pos>>
vars   == <<disk, store, db, pc, locals, faults, suffered>>

NoHashes == [c \in Clip |-> 0]
NoRow    == [on |-> FALSE, off |-> 0, hashes |-> NoHashes]
Row      == [on : BOOLEAN, off : Nat, hashes : Hashes]

-----------------------------------------------------------------------------
(* Helpers *)

Live == {c \in Clip : src[c] # 0}

Keys(h) == {c \in Clip : h[c] # 0}

\* BTreeMap::extend: g's keys win.
Extend(h, g) == [c \in Clip |-> IF g[c] # 0 THEN g[c] ELSE h[c]]

Saved == {d \in Day : ckpt[d].on}

IsLast(d, S) == d \in S /\ \A e \in S : e <= d

\* resume_point: the union of every row's hashes.  A row only holds entries of
\* its own day, so the rows cannot disagree about a clip.
SavedHashes ==
  [c \in Clip |-> IF ckpt[DayOf[c]].on THEN ckpt[DayOf[c]].hashes[c] ELSE 0]

\* The version verify's `seen` map ends up with for entry c: the last one.
Holds(f, c, v) ==
  \E i \in DOMAIN f.entries :
    /\ f.entries[i] = [clip |-> c, ver |-> v]
    /\ \A j \in DOMAIN f.entries : f.entries[j].clip = c => j <= i

\* Mutant of Matches: entries that the archive lacks are not noticed.
MatchesWhatIsThere(f, h) ==
  \A i \in DOMAIN f.entries :
    /\ f.entries[i].clip \in Keys(h)
    /\ Holds(f, f.entries[i].clip, h[f.entries[i].clip])

\* VerifyResult::ok: no mismatch, nothing missing, nothing extra.
Matches(f, h) ==
  /\ \A c \in Keys(h) : Holds(f, c, h[c])
  /\ \A i \in DOMAIN f.entries : f.entries[i].clip \in Keys(h)

\* A file tar::Archive may refuse to read to the end.
Unreadable(f) ==
  f.torn \/ \E i \in DOMAIN f.entries : f.entries[i].ver = Garbled

Fault(kind) ==
  /\ kind \in FaultKinds
  /\ faults < MaxFaults
  /\ faults' = faults + 1 /\ suffered' = suffered \cup {kind}

NoFault == UNCHANGED <<faults, suffered>>

JobActive == pc \notin {"idle", "down"}

\* The task returns (or dies) and its locals go with it.
Leave(to) ==
  /\ pc' = to
  /\ snap' = {} /\ snapDirs' = {} /\ doomed' = {} /\ pos' = 0
  /\ offset' = 0 /\ hashes' = NoHashes /\ packed' = NoHashes
  /\ todo' = {} /\ batch' = {} /\ day' = 0

Goto(to) == pc' = to /\ UNCHANGED locals

-----------------------------------------------------------------------------
(* Initial states: a month with some clips on disk and no archive. *)

Init ==
  /\ \E S \in SUBSET Clip :
       /\ S # {}
       /\ src = [c \in Clip |-> IF c \in S THEN 1 ELSE 0]
       /\ dirs = {DayOf[c] : c \in S}
  /\ newest = src
  /\ settled \in BOOLEAN
  /\ partial = NoFile /\ tar = NoFile
  /\ ckpt = [d \in Day |-> NoRow]
  /\ row = "none"
  /\ pc = "idle"
  /\ snap = {} /\ snapDirs = {} /\ doomed = {} /\ pos = 0
  /\ offset = 0 /\ hashes = NoHashes /\ packed = NoHashes
  /\ todo = {} /\ batch = {} /\ day = 0
  /\ faults = 0 /\ suffered = {}

-----------------------------------------------------------------------------
(* Starting a run *)

\* due_months: not blocked by a pin, an existing archive, a recent write or age.
Due == /\ Live # {}
       /\ row # "pinned"
       /\ tar = NoFile
       /\ settled

\* run_archive with no targets: everything due.
SelectDue ==
  /\ pc = "idle"
  /\ Due
  /\ Goto("selected") /\ NoFault
  /\ UNCHANGED <<disk, store, db>>

\* run_archive with targets: none of due_months' checks is applied.
SelectTarget ==
  /\ "explicit_target" \in Behaviours
  /\ pc = "idle"
  /\ dirs # {}
  /\ Goto("selected") /\ NoFault
  /\ UNCHANGED <<disk, store, db>>

\* months_for_camera, the second scan: the job works from this one.
Scan ==
  /\ pc = "selected"
  /\ snap' = Live /\ snapDirs' = dirs
  /\ pc' = (IF dirs = {} THEN "idle" ELSE "resume")
  /\ NoFault
  /\ UNCHANGED <<disk, store, db, work, doomed, pos>>

\* archive_months: `if dest.exists() { continue; }`
SkipExisting ==
  /\ pc = "resume"
  /\ tar # NoFile
  /\ Leave("idle") /\ NoFault
  /\ UNCHANGED <<disk, store, db>>

\* Mutant of ResumeAt: days_to_pack skips checkpointed days, not saved entries.
ResumeAtByDay(at, have) ==
  /\ pc' = "pick"
  /\ offset' = at /\ hashes' = have
  /\ todo' = {c \in snap : ~ckpt[DayOf[c]].on}
  /\ UNCHANGED <<snap, snapDirs, batch, day, packed, doomed, pos>>

\* What resume_point returns, and days_to_pack of it.
ResumeAt(at, have) ==
  /\ pc' = "pick"
  /\ offset' = at /\ hashes' = have
  /\ todo' = snap \ Keys(have)
  /\ UNCHANGED <<snap, snapDirs, batch, day, packed, doomed, pos>>

\* Mutant of ResumeFresh: the month is packed again over an existing archive.
ResumeFreshOverTar ==
  /\ pc = "resume"
  /\ Saved = {} /\ NoFault
  /\ partial' = NoFile
  /\ ResumeAt(0, NoHashes)
  /\ UNCHANGED <<disk, tar, db>>

\* No rows: whatever partial there is, is rubble.
ResumeFresh ==
  /\ pc = "resume" /\ tar = NoFile
  /\ \/ Saved = {} /\ NoFault
     \/ Saved # {} /\ Fault("db")       \* load_checkpoints: unwrap_or_default
  /\ partial' = NoFile
  /\ ResumeAt(0, NoHashes)
  /\ UNCHANGED <<disk, tar, db>>

\* Mutant of ResumeMissing: gives the month up and keeps the rows.
ResumeMissingGivesUp ==
  /\ pc = "resume" /\ tar = NoFile
  /\ Saved # {} /\ partial = NoFile
  /\ Leave("idle") /\ NoFault
  /\ UNCHANGED <<disk, store, db>>

\* Rows, but no partial: clear them (the error of the DELETE is ignored).
ResumeMissing ==
  /\ pc = "resume" /\ tar = NoFile
  /\ Saved # {} /\ partial = NoFile
  /\ \/ ckpt' = [d \in Day |-> NoRow] /\ NoFault
     \/ UNCHANGED ckpt /\ Fault("db")
  /\ ResumeAt(0, NoHashes)
  /\ UNCHANGED <<disk, store, row>>

\* A partial shorter than its last row says: remove it.  The rows are cleared
\* next, which is ResumeMissing's step.
ResumeShort ==
  /\ pc = "resume" /\ tar = NoFile
  /\ partial # NoFile
  /\ \E d \in Saved : IsLast(d, Saved) /\ Len(partial.entries) < ckpt[d].off
  /\ partial' = NoFile
  /\ Goto("resume") /\ NoFault
  /\ UNCHANGED <<disk, tar, db>>

\* Resume at the last row's offset, believing every row's hashes.
ResumeSaved ==
  /\ pc = "resume" /\ tar = NoFile
  /\ partial # NoFile
  /\ \E d \in Saved :
       /\ IsLast(d, Saved)
       /\ Len(partial.entries) >= ckpt[d].off
       /\ ResumeAt(ckpt[d].off, SavedHashes)
  /\ NoFault
  /\ UNCHANGED <<disk, store, db>>

-----------------------------------------------------------------------------
(* Packing: pack::append_day for one day after another *)

\* Entries(f) is what set_len(offset) leaves to extend; a missing file is created.
Entries(f) == IF f = NoFile THEN <<>> ELSE f.entries

\* Open the partial and cut it back to `offset`.
StartDay ==
  /\ pc = "pick"
  /\ \E d \in Day :
       /\ \E c \in todo : DayOf[c] = d
       /\ \A c \in todo : d <= DayOf[c]
       /\ day' = d
       /\ batch' = {c \in todo : DayOf[c] = d}
       /\ todo' = {c \in todo : DayOf[c] # d}
  /\ partial' = [entries |-> SubSeq(Entries(partial), 1, offset), torn |-> FALSE]
  /\ packed' = NoHashes
  /\ pc' = "append" /\ NoFault
  /\ UNCHANGED <<disk, tar, db, snap, snapDirs, offset, hashes, doomed, pos>>

IsNext(c) == c \in batch /\ \A b \in batch : c <= b

AppendEntry(c, v) ==
  partial' = [partial EXCEPT !.entries = Append(@, [clip |-> c, ver |-> v])]

\* Read one clip, hash it, write it.
PackClip ==
  /\ pc = "append"
  /\ \E c \in Live :
       /\ IsNext(c)
       /\ AppendEntry(c, src[c])
       /\ packed' = [packed EXCEPT ![c] = src[c]]
       /\ batch' = batch \ {c}
  /\ NoFault
  /\ UNCHANGED <<disk, tar, db, pc, snap, snapDirs, offset, hashes, todo, day,
                 doomed, pos>>

\* The clip is written between metadata() and the read: the header's size is
\* the old one, the hash is of the new bytes.
PackGrowingClip ==
  /\ {"write_during_job", "rewrite"} \subseteq Behaviours
  /\ pc = "append"
  /\ \E c \in Live :
       /\ IsNext(c)
       /\ newest[c] \in 1..(MaxVer - 1)
       /\ src' = [src EXCEPT ![c] = newest[c] + 1]
       /\ newest' = [newest EXCEPT ![c] = newest[c] + 1]
       /\ AppendEntry(c, Garbled)
       /\ packed' = [packed EXCEPT ![c] = newest[c] + 1]
       /\ batch' = batch \ {c}
  /\ settled' = FALSE
  /\ NoFault
  /\ UNCHANGED <<dirs, tar, db, pc, snap, snapDirs, offset, hashes, todo, day,
                 doomed, pos>>

\* append_day returns Err, so the month stops here with its checkpoints kept: the
\* next clip has vanished, or an I/O error, which may leave half an entry.
PackFails ==
  /\ pc = "append"
  /\ \/ /\ \E c \in batch : IsNext(c) /\ src[c] = 0
        /\ NoFault /\ UNCHANGED partial
     \/ /\ Fault("io")
        /\ \E t \in BOOLEAN : partial' = [partial EXCEPT !.torn = t]
  /\ Leave("idle")
  /\ UNCHANGED <<disk, tar, db>>

\* Mutant of EndDay: the caller keeps the offset the day started at.
EndDayAtStart ==
  /\ pc = "append"
  /\ batch = {}
  /\ UNCHANGED offset
  /\ hashes' = Extend(hashes, packed)
  /\ pc' = "checkpoint" /\ NoFault
  /\ UNCHANGED <<disk, store, db, snap, snapDirs, todo, batch, day, packed,
                 doomed, pos>>

\* Trailer, sync_all, return DayPack; the caller takes over offset and hashes.
EndDay ==
  /\ pc = "append"
  /\ batch = {}
  /\ offset' = Len(partial.entries)
  /\ hashes' = Extend(hashes, packed)
  /\ pc' = "checkpoint" /\ NoFault
  /\ UNCHANGED <<disk, store, db, snap, snapDirs, todo, batch, day, packed,
                 doomed, pos>>

\* save_checkpoint: the day's row is replaced, its offset and its hashes.  A
\* database error is logged and the run goes on.
SaveCheckpoint ==
  /\ pc = "checkpoint"
  /\ \/ /\ ckpt' = [ckpt EXCEPT ![day] =
                      [on |-> TRUE, off |-> offset, hashes |-> packed]]
        /\ NoFault
     \/ UNCHANGED ckpt /\ Fault("db")
  /\ pc' = "pick" /\ day' = 0 /\ packed' = NoHashes
  /\ UNCHANGED <<disk, store, row, snap, snapDirs, offset, hashes, todo, batch,
                 doomed, pos>>

-----------------------------------------------------------------------------
(* Finishing: promote, verify, record, remove *)

\* pack::finish renames the partial; without one, or on error, the month failed.
Promote ==
  /\ pc = "pick" /\ todo = {}
  /\ partial # NoFile
  /\ tar' = partial /\ partial' = NoFile
  /\ Goto("verify") /\ NoFault
  /\ UNCHANGED <<disk, db>>

PromoteFails ==
  /\ pc = "pick" /\ todo = {}
  /\ \/ partial = NoFile /\ NoFault
     \/ partial # NoFile /\ Fault("io")
  /\ Leave("idle")
  /\ UNCHANGED <<disk, store, db>>

\* Mutant of VerifyPasses: only the headers are read.
VerifyPassesStructure ==
  /\ pc = "verify"
  /\ ~Unreadable(tar)
  /\ Goto("forget") /\ NoFault
  /\ UNCHANGED <<disk, store, db>>

VerifyPasses ==
  /\ pc = "verify"
  /\ ~Unreadable(tar)
  /\ Matches(tar, hashes)
  /\ Goto("forget") /\ NoFault
  /\ UNCHANGED <<disk, store, db>>

VerifyRejects ==
  /\ pc = "verify"
  /\ Unreadable(tar) \/ ~Matches(tar, hashes)
  /\ Goto("discard") /\ NoFault
  /\ UNCHANGED <<disk, store, db>>

\* verify returns Err: `.await??` leaves archive_months at once, with the tar in
\* place and the checkpoints kept.
VerifyErrs ==
  /\ pc = "verify"
  /\ \/ Unreadable(tar) /\ NoFault
     \/ Fault("io")
  /\ Leave("idle")
  /\ UNCHANGED <<disk, store, db>>

\* The bad tar is removed (an error is ignored) ...
Discard ==
  /\ pc = "discard"
  /\ \/ tar' = NoFile /\ NoFault
     \/ UNCHANGED tar /\ Fault("io")
  /\ Goto("discarded")
  /\ UNCHANGED <<disk, partial, db>>

\* ... and its checkpoints go too, and the month has failed.
DiscardCheckpoints ==
  /\ pc = "discarded"
  /\ \/ ckpt' = [d \in Day |-> NoRow] /\ NoFault
     \/ UNCHANGED ckpt /\ Fault("db")
  /\ Leave("idle")
  /\ UNCHANGED <<disk, store, row>>

\* Verified: clear_checkpoints, then record_archive, then the originals.
ClearCheckpoints ==
  /\ pc = "forget"
  /\ \/ ckpt' = [d \in Day |-> NoRow] /\ NoFault
     \/ UNCHANGED ckpt /\ Fault("db")
  /\ Goto("record")
  /\ UNCHANGED <<disk, store, row>>

\* Mutant of RecordArchive: the directories are listed again for the removal.
RecordArchiveRelisted ==
  /\ pc = "record"
  /\ row' = "kept" /\ NoFault
  /\ pc' = "remove"
  /\ doomed' = dirs
  /\ UNCHANGED <<disk, store, ckpt, snap, snapDirs, work, pos>>

\* The upsert sets pinned = 0; settings.keep_sources_after_archive ends here.
RecordArchive ==
  /\ pc = "record"
  /\ \/ row' = "kept" /\ NoFault
     \/ UNCHANGED row /\ Fault("db")
  /\ \/ Leave("idle")
     \/ /\ pc' = "remove"
        /\ doomed' = snapDirs
        /\ UNCHANGED <<snap, snapDirs, work, pos>>
  /\ UNCHANGED <<disk, store, ckpt>>

\* remove_dir_all on each directory of the scan, in order: everything in it
\* goes.  An error may leave part of it behind and is only logged.
RemoveDayDir ==
  /\ pc = "remove"
  /\ \E d \in doomed :
       /\ \A e \in doomed : d <= e
       /\ doomed' = doomed \ {d}
       /\ \/ /\ src' = [c \in Clip |-> IF DayOf[c] = d THEN 0 ELSE src[c]]
             /\ dirs' = dirs \ {d}
             /\ NoFault
          \/ /\ Fault("io")
             /\ \E lost \in SUBSET {c \in Clip : DayOf[c] = d} :
                  src' = [c \in Clip |-> IF c \in lost THEN 0 ELSE src[c]]
             /\ UNCHANGED dirs
  /\ UNCHANGED <<newest, settled, store, db, pc, snap, snapDirs, work, pos>>

RemovalDone ==
  /\ pc = "remove" /\ doomed = {}
  /\ Leave("idle") /\ NoFault
  /\ UNCHANGED <<disk, store, db>>

-----------------------------------------------------------------------------
(* Restore, and the pin *)

\* run_restore, after pack::list has read the whole index.
StartRestore ==
  /\ "restore" \in Behaviours
  /\ pc = "idle"
  /\ tar # NoFile /\ ~tar.torn
  /\ pc' = "restore" /\ pos' = 1
  /\ NoFault
  /\ UNCHANGED <<disk, store, db, snap, snapDirs, work, doomed>>

\* unpack_in writes the entry over whatever the live directory holds; it keeps
\* the clip's old mtime, so the month does not look recently written.
RestoreEntry ==
  /\ pc = "restore"
  /\ pos \in DOMAIN tar.entries
  /\ LET e == tar.entries[pos]
     IN  /\ src' = [src EXCEPT ![e.clip] = e.ver]
         /\ dirs' = dirs \cup {DayOf[e.clip]}
  /\ pos' = pos + 1
  /\ NoFault
  /\ UNCHANGED <<newest, settled, store, db, pc, snap, snapDirs, work, doomed>>

RestoreFails ==
  /\ pc = "restore"
  /\ Fault("io")
  /\ Leave("idle")
  /\ UNCHANGED <<disk, store, db>>

\* Mutant of RestoreDone: stops one entry early.
RestoreDoneEarly ==
  /\ pc = "restore"
  /\ pos >= Len(tar.entries)
  /\ row' = (IF row = "none" THEN "none" ELSE "pinned") /\ NoFault
  /\ Leave("idle")
  /\ UNCHANGED <<disk, store, ckpt>>

\* Every entry is back: pin the month, if it has a row to pin.
RestoreDone ==
  /\ pc = "restore"
  /\ pos \notin DOMAIN tar.entries
  /\ \/ row' = (IF row = "none" THEN "none" ELSE "pinned") /\ NoFault
     \/ UNCHANGED row /\ Fault("db")
  /\ Leave("idle")
  /\ UNCHANGED <<disk, store, ckpt>>

\* pin_handler: at any time, job or no job.
SetPin ==
  /\ "restore" \in Behaviours
  /\ pc # "down"
  /\ row # "none"
  /\ \E pinned \in BOOLEAN : row' = (IF pinned THEN "pinned" ELSE "kept")
  /\ NoFault
  /\ UNCHANGED <<disk, store, ckpt, pc, locals>>

-----------------------------------------------------------------------------
(* The backup service and the clock, outside the program *)

MayWriteNow == JobActive => "write_during_job" \in Behaviours

\* A clip the month did not have yet: a late backfill.
BackfillClip ==
  /\ "backfill" \in Behaviours /\ MayWriteNow
  /\ \E c \in Clip :
       /\ newest[c] = 0
       /\ src' = [src EXCEPT ![c] = 1]
       /\ newest' = [newest EXCEPT ![c] = 1]
       /\ dirs' = dirs \cup {DayOf[c]}
  /\ settled' = FALSE
  /\ NoFault
  /\ UNCHANGED <<store, db, pc, locals>>

\* A clip that is on disk is written again.
RewriteClip ==
  /\ "rewrite" \in Behaviours /\ MayWriteNow
  /\ \E c \in Live :
       /\ newest[c] \in 1..(MaxVer - 1)
       /\ src' = [src EXCEPT ![c] = newest[c] + 1]
       /\ newest' = [newest EXCEPT ![c] = newest[c] + 1]
  /\ settled' = FALSE
  /\ NoFault
  /\ UNCHANGED <<dirs, store, db, pc, locals>>

\* The backup service's own retention deletes a clip: from here on its loss is
\* not this program's doing.
PurgeClip ==
  /\ Fault("purge")
  /\ \E c \in Live :
       /\ newest[c] # 0
       /\ src' = [src EXCEPT ![c] = 0]
       /\ newest' = [newest EXCEPT ![c] = 0]
  /\ UNCHANGED <<dirs, settled, store, db, pc, locals>>

\* RECENT_WRITE_SECS and archive_after_days go by without a write.
Settle ==
  /\ ~settled
  /\ settled' = TRUE
  /\ NoFault
  /\ UNCHANGED <<src, dirs, newest, store, db, pc, locals>>

-----------------------------------------------------------------------------
(* The process dies; it starts again *)

\* Everything in memory is gone.  Entries of an unfinished append may or may not
\* have reached the disk; what an earlier append synced has.
Crash ==
  /\ pc # "down"
  /\ Fault("crash")
  /\ \/ pc # "append" /\ UNCHANGED partial
     \/ /\ pc = "append"
        /\ \E n \in offset..Len(partial.entries), t \in BOOLEAN :
             partial' = [entries |-> SubSeq(partial.entries, 1, n), torn |-> t]
  /\ Leave("down")
  /\ UNCHANGED <<disk, tar, db>>

\* main: sweep_orphaned_partials, before anything else can start a job.  If
\* checkpointed_months fails the sweep believes there are no rows at all.
Restart ==
  /\ pc = "down"
  /\ \/ /\ NoFault
        /\ partial' = (IF Saved = {} THEN NoFile ELSE partial)
        /\ ckpt' = (IF partial = NoFile THEN [d \in Day |-> NoRow] ELSE ckpt)
     \/ /\ Fault("db")
        /\ partial' = NoFile
        /\ UNCHANGED ckpt
  /\ Goto("idle")
  /\ UNCHANGED <<disk, tar, row>>

-----------------------------------------------------------------------------

JobStep ==
  \/ Scan \/ SkipExisting
  \/ ResumeFresh \/ ResumeMissing \/ ResumeShort \/ ResumeSaved
  \/ StartDay \/ PackClip \/ PackGrowingClip \/ PackFails \/ EndDay
  \/ SaveCheckpoint
  \/ Promote \/ PromoteFails
  \/ VerifyPasses \/ VerifyRejects \/ VerifyErrs
  \/ Discard \/ DiscardCheckpoints
  \/ ClearCheckpoints \/ RecordArchive \/ RemoveDayDir \/ RemovalDone
  \/ RestoreEntry \/ RestoreFails \/ RestoreDone

UserStep == SelectTarget \/ StartRestore \/ SetPin

Outside == BackfillClip \/ RewriteClip \/ PurgeClip \/ Settle

Next == SelectDue \/ JobStep \/ UserStep \/ Outside \/ Crash \/ Restart

Spec == Init /\ [][Next]_vars

(* Fairness: the job's task is scheduled, the schedule loop offers the month
   again at every slot, the container restarts, and time passes. *)
FairSpec ==
  /\ Spec
  /\ WF_vars(SelectDue) /\ WF_vars(JobStep)
  /\ WF_vars(Restart)   /\ WF_vars(Settle)

-----------------------------------------------------------------------------
(* Properties *)

PC == {"idle", "down", "selected", "resume", "pick", "append", "checkpoint",
       "verify", "discard", "discarded", "forget", "record", "remove",
       "restore"}

\* Type invariant: the disk, the rows and the job's locals hold what the code's
\* types allow, and the job's partial exists whenever it is being appended to.
TypeOK ==
  /\ src \in Hashes /\ newest \in [Clip -> 0..MaxVer]
  /\ dirs \in SUBSET Day /\ settled \in BOOLEAN
  /\ partial \in File \cup {NoFile} /\ tar \in File \cup {NoFile}
  /\ ckpt \in [Day -> Row] /\ row \in {"none", "kept", "pinned"}
  /\ pc \in PC
  /\ snap \in SUBSET Clip /\ snapDirs \in SUBSET Day /\ doomed \in SUBSET Day
  /\ offset \in Nat /\ hashes \in Hashes /\ packed \in Hashes
  /\ todo \in SUBSET Clip /\ batch \in SUBSET Clip /\ day \in Day \cup {0}
  /\ pos \in Nat /\ faults \in Nat /\ suffered \subseteq FaultKinds
  /\ pc \in {"append", "checkpoint"} => partial # NoFile /\ day \in Day
  /\ pc \in {"verify", "discard", "forget", "record", "remove", "restore"}
       => tar # NoFile

\* The tar was read back and holds exactly the entries the run believes in, and
\* the run believes in every clip it scanned.
Proven ==
  /\ ~Unreadable(tar)
  /\ Matches(tar, hashes)
  /\ snap \subseteq Keys(hashes)

\* What run.rs:3-5 promises, at the moment it matters: originals are removed only
\* while the finished tar is a faithful copy of every clip the run scanned,
\* whatever was resumed, failed or was written to in between.
RemovalJustified == pc = "remove" => Proven

\* pack.rs:76-79: appending starts from a boundary inside the partial, so set_len
\* cuts and never pads the tar with zeros, whichever rows survived.
AppendNeverExtends ==
  pc \in {"pick", "append", "checkpoint"} => offset <= Len(Entries(partial))

Kept(c) == \/ src[c] = newest[c]
           \/ tar # NoFile /\ Holds(tar, c, newest[c])

\* The last version the backup service wrote of each clip is in the live
\* directory or is what the finished tar holds: across crashes, failed steps,
\* resumed runs, restores and re-runs no footage disappears.
NothingLost == \A c \in Clip : newest[c] # 0 => Kept(c)

\* db.rs:334-336: a row is never early.  The last day's row, the one that says where
\* to resume, describes entries that the partial really holds below its offset, so
\* that no resume finds the partial too short or misses one of that day's clips.
\* (The rows of earlier days may be wrong: a late clip's day is packed after the last
\* one, its row lies beyond the offset of a resume, which cuts its entries off and
\* believes them all the same; the verification is what notices.)  A row that could
\* not be written or deleted is another matter.
CheckpointsDescribePartial ==
  "db" \notin suffered /\ partial # NoFile =>
    \A d \in Saved :
      IsLast(d, Saved) =>
        /\ ckpt[d].off <= Len(partial.entries)
        /\ \A c \in Keys(ckpt[d].hashes) :
             Holds([entries |-> SubSeq(partial.entries, 1, ckpt[d].off)],
                   c, ckpt[d].hashes[c])

\* How the last version of a clip can disappear (run.rs:803, pack.rs:243), with the
\* backup service writing at any time: a clip that was written once only with a
\* directory the run had scanned, into which it came after the scan; a clip that was
\* written again also under the older copy of a restore.  No crash, failed step,
\* resumed run, rename or rejected tar loses anything.  A clip the service has
\* expired and fetched again is a different copy of the same footage.
LossIsLateWrite ==
  [][ "purge" \notin suffered' =>
        \A c \in Clip :
          newest[c] # 0 /\ newest'[c] = newest[c] /\ Kept(c) /\ ~Kept(c)' =>
            \/ pc = "remove" /\ DayOf[c] \in snapDirs
                 /\ (c \notin snap \/ newest[c] > 1)
            \/ pc = "restore" /\ newest[c] > 1 ]_vars

\* Once an archive is recorded nothing replaces, rewrites or removes its tar: not
\* a later run over the same month, not a restore, not a crash.
RecordedTarStays == [][ row # "none" => tar' = tar ]_vars

\* A restore that pins the month has put back the tar's copy of every clip in it
\* that the backup service has not expired itself.
RestoredIsLive ==
  [][ pc = "restore" /\ pc' = "idle" /\ row # "pinned" /\ row' = "pinned"
        => \A c \in Clip, v \in Content : Holds(tar, c, v) => src[c] = v \/ newest[c] = 0 ]_vars

\* However the first attempts are cut short, retries end with a finished tar that
\* stays: no state the faults leave behind makes every later attempt fail.  A month
\* that the backup service has expired clips of may be empty.
EventuallyArchived == <>[](tar # NoFile \/ "purge" \in suffered)

\* The abstract promise of FootageSafe, with the tar's last entry per clip as the
\* stored copy.
StoredCopy(c) ==
  IF tar = NoFile THEN 0
  ELSE IF \E v \in Content : Holds(tar, c, v)
         THEN CHOOSE v \in Content : Holds(tar, c, v)
         ELSE 0

Footage == INSTANCE FootageSafe
             WITH live <- src, stored <- [c \in Clip |-> StoredCopy(c)]

ImplementsFootageSafe == Footage!Spec

=============================================================================

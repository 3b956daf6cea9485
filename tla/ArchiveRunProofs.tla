-------------------------- MODULE ArchiveRunProofs --------------------------
(***************************************************************************)
(* Theorems about ArchiveRun, for any number of clips, days, versions and  *)
(* faults.                                                                 *)
(***************************************************************************)
EXTENDS ArchiveRun, SequenceTheorems, WellFoundedInduction, TLAPS

(* Every step of the specification, one named action each. *)
LEMMA Steps ==
  ASSUME [Next]_vars
  PROVE  \/ SelectDue \/ SelectTarget \/ Scan \/ SkipExisting
         \/ ResumeFresh \/ ResumeMissing \/ ResumeShort \/ ResumeSaved
         \/ StartDay \/ PackClip \/ PackGrowingClip \/ PackFails \/ EndDay
         \/ SaveCheckpoint \/ Promote \/ PromoteFails
         \/ VerifyPasses \/ VerifyRejects \/ VerifyErrs
         \/ Discard \/ DiscardCheckpoints \/ ClearCheckpoints
         \/ RecordArchive \/ RemoveDayDir \/ RemovalDone
         \/ StartRestore \/ RestoreEntry \/ RestoreFails \/ RestoreDone \/ SetPin
         \/ BackfillClip \/ RewriteClip \/ PurgeClip \/ Settle
         \/ Crash \/ Restart
         \/ UNCHANGED vars
  BY DEF Next, JobStep, UserStep, Outside

(***************************************************************************)
(* Lemmas about the partial archive as a sequence of entries.              *)
(***************************************************************************)

(* set_len to an offset inside the file keeps a well-formed prefix of exactly *)
(* that length. *)
LEMMA PrefixIsFile ==
  ASSUME NEW f \in File, NEW n \in 0..Len(f.entries), NEW t \in BOOLEAN
  PROVE  /\ [entries |-> SubSeq(f.entries, 1, n), torn |-> t] \in File
         /\ Len(SubSeq(f.entries, 1, n)) = n
<1>1. f.entries \in Seq(Entry) /\ Len(f.entries) \in Nat
  BY DEF File
<1>2. n \in Int /\ n \in Nat
  BY <1>1
<1>3. \A i \in 1..n : f.entries[i] \in Entry
  BY <1>1
<1>4. /\ SubSeq(f.entries, 1, n) \in Seq(Entry)
      /\ Len(SubSeq(f.entries, 1, n)) = IF 1 <= n THEN n - 1 + 1 ELSE 0
  BY <1>2, <1>3, SubSeqProperties
<1>5. Len(SubSeq(f.entries, 1, n)) = n
  BY <1>2, <1>4
<1>6. QED
  BY <1>4, <1>5 DEF File

(* append_data adds one entry at the end. *)
LEMMA AppendIsFile ==
  ASSUME NEW f \in File, NEW c \in Clip, NEW v \in Content
  PROVE  LET g == [f EXCEPT !.entries = Append(@, [clip |-> c, ver |-> v])]
         IN  g \in File /\ Len(g.entries) = Len(f.entries) + 1
<1>1. f.entries \in Seq(Entry) /\ [clip |-> c, ver |-> v] \in Entry
  BY DEF File, Entry
<1>2. Append(f.entries, [clip |-> c, ver |-> v]) \in Seq(Entry)
      /\ Len(Append(f.entries, [clip |-> c, ver |-> v])) = Len(f.entries) + 1
  BY <1>1
<1>3. QED
  BY <1>2 DEF File

(* The empty map is a map, of nothing. *)
LEMMA NoHashesType == NoHashes \in Hashes /\ Keys(NoHashes) = {}
  BY DEF NoHashes, Hashes, Keys

(* So is a cleared row. *)
LEMMA NoRowType == NoRow \in Row
  BY NoHashesType DEF NoRow, Row

(* What resume_point reads back from the rows is a map. *)
LEMMA SavedHashesType == ckpt \in [Day -> Row] => SavedHashes \in Hashes
  BY DayOfAssumption DEF SavedHashes, Row, Hashes

(* HashMap::extend has the keys of both maps. *)
LEMMA ExtendType ==
  ASSUME NEW h \in Hashes, NEW g \in Hashes
  PROVE  Extend(h, g) \in Hashes /\ Keys(Extend(h, g)) = Keys(h) \cup Keys(g)
  BY DEF Extend, Hashes, Keys

(***************************************************************************)
(* Type correctness, together with AppendNeverExtends, which it needs: a   *)
(* prefix of the partial is a File only if it is not longer than it.       *)
(***************************************************************************)

TypeInv == TypeOK /\ AppendNeverExtends

(* The first state is typed. *)
LEMMA InitTypeInv == Init => TypeInv
<1> SUFFICES ASSUME Init PROVE TypeInv
  OBVIOUS
<1>1. src \in Hashes /\ newest \in [Clip -> 0..MaxVer] /\ dirs \in SUBSET Day
  BY BoundAssumption, DayOfAssumption DEF Init, Hashes, Content
<1>2. ckpt \in [Day -> Row]
  BY NoRowType DEF Init
<1>3. QED
  BY <1>1, <1>2, NoHashesType
  DEF Init, TypeInv, TypeOK, AppendNeverExtends, PC

(* Every step keeps the types; the cut at an offset needs AppendNeverExtends. *)
LEMMA TypeInvStep == TypeInv /\ [Next]_vars => TypeInv'
<1> SUFFICES ASSUME TypeInv, [Next]_vars PROVE TypeInv'
  OBVIOUS
<1> USE DEF TypeInv, TypeOK, AppendNeverExtends, PC, disk, store, db, work,
            locals, Fault, NoFault, Goto
<1>l. ASSUME NEW to \in {"idle", "down"}, Leave(to), UNCHANGED <<src, dirs, newest, settled, ckpt>>,
             partial' \in File \cup {NoFile}, tar' \in File \cup {NoFile},
             row' \in {"none", "kept", "pinned"}, faults' \in Nat,
             suffered' \subseteq FaultKinds
      PROVE  TypeInv'
  BY <1>l, NoHashesType DEF Leave
<1>1. CASE SelectDue
  BY <1>1 DEF SelectDue
<1>2. CASE SelectTarget
  BY <1>2 DEF SelectTarget
<1>3. CASE Scan
  BY <1>3 DEF Scan, Live
<1>4. CASE SkipExisting
  BY <1>4, <1>l DEF SkipExisting
<1>5. CASE ResumeFresh
  BY <1>5, NoHashesType DEF ResumeFresh, ResumeAt, Entries
<1>6. CASE ResumeMissing
  BY <1>6, NoHashesType, NoRowType DEF ResumeMissing, ResumeAt, Entries
<1>7. CASE ResumeShort
  BY <1>7 DEF ResumeShort
<1>8. CASE ResumeSaved
  <2>1. PICK d \in Saved : /\ Len(partial.entries) >= ckpt[d].off
                           /\ ResumeAt(ckpt[d].off, SavedHashes)
    BY <1>8 DEF ResumeSaved
  <2>2. ckpt[d].off \in Nat /\ SavedHashes \in Hashes
    BY SavedHashesType DEF Saved, Row
  <2>3. offset' \in Nat /\ hashes' \in Hashes /\ todo' \in SUBSET Clip
    BY <2>1, <2>2 DEF ResumeAt
  <2>4. offset' <= Len(Entries(partial'))
    BY <1>8, <2>1, <2>2 DEF ResumeAt, ResumeSaved, Entries, File
  <2>5. QED
    BY <1>8, <2>1, <2>3, <2>4 DEF ResumeAt, ResumeSaved
<1>9. CASE StartDay
  <2>1. PICK f \in File : f.entries = Entries(partial)
    <3>1. CASE partial = NoFile
      <4> [entries |-> <<>>, torn |-> FALSE] \in File
        BY DEF File
      <4> QED
        BY <3>1 DEF Entries
    <3>2. CASE partial # NoFile
      BY <3>2 DEF Entries
    <3>3. QED
      BY <3>1, <3>2
  <2>2. offset \in 0..Len(f.entries)
    BY <1>9, <2>1 DEF StartDay, File
  <2>3. partial' \in File /\ Len(partial'.entries) = offset
    BY <1>9, <2>1, <2>2, PrefixIsFile DEF StartDay
  <2>4. partial' # NoFile
    BY <2>3, NoFileAssumption
  <2>5. offset' <= Len(Entries(partial'))
    <3>1. Entries(partial') = partial'.entries
      BY <2>4 DEF Entries
    <3>2. offset' = offset /\ offset \in Nat
      BY <1>9 DEF StartDay
    <3>3. QED
      BY <2>3, <3>1, <3>2
  <2>6. day' \in Day /\ batch' \in SUBSET Clip /\ todo' \in SUBSET Clip
    BY <1>9 DEF StartDay
  <2>7. QED
    BY <1>9, <2>3, <2>4, <2>5, <2>6, NoHashesType DEF StartDay
<1>10. CASE PackClip
  <2>1. PICK c \in Live : /\ AppendEntry(c, src[c])
                          /\ packed' = [packed EXCEPT ![c] = src[c]]
                          /\ batch' = batch \ {c}
    BY <1>10 DEF PackClip
  <2>2. c \in Clip /\ src[c] \in Content
    BY DEF Live, Hashes
  <2>3. partial \in File
    BY <1>10 DEF PackClip
  <2>4. partial' \in File /\ Len(partial'.entries) = Len(partial.entries) + 1
    BY <2>1, <2>2, <2>3, AppendIsFile DEF AppendEntry
  <2>5. partial' # NoFile /\ offset <= Len(Entries(partial'))
    BY <1>10, <2>3, <2>4, NoFileAssumption DEF PackClip, Entries, File
  <2>6. packed' \in Hashes
    BY <2>1, <2>2 DEF Hashes
  <2>7. QED
    BY <1>10, <2>1, <2>4, <2>5, <2>6 DEF PackClip
<1>11. CASE PackGrowingClip
  <2>1. PICK c \in Live : /\ newest[c] \in 1..(MaxVer - 1)
                          /\ src' = [src EXCEPT ![c] = newest[c] + 1]
                          /\ newest' = [newest EXCEPT ![c] = newest[c] + 1]
                          /\ AppendEntry(c, Garbled)
                          /\ packed' = [packed EXCEPT ![c] = newest[c] + 1]
                          /\ batch' = batch \ {c}
    BY <1>11 DEF PackGrowingClip
  <2>2. /\ c \in Clip /\ Garbled \in Content
        /\ newest[c] + 1 \in Content /\ newest[c] + 1 \in 0..MaxVer
    BY <2>1, BoundAssumption DEF Live, Content, Garbled
  <2>3. partial \in File
    BY <1>11 DEF PackGrowingClip
  <2>4. partial' \in File /\ Len(partial'.entries) = Len(partial.entries) + 1
    BY <2>1, <2>2, <2>3, AppendIsFile DEF AppendEntry
  <2>5. partial' # NoFile /\ offset <= Len(Entries(partial'))
    BY <1>11, <2>3, <2>4, NoFileAssumption DEF PackGrowingClip, Entries, File
  <2>6. /\ packed' \in Hashes /\ src' \in Hashes
        /\ newest' \in [Clip -> 0..MaxVer]
    BY <2>1, <2>2 DEF Hashes
  <2>7. QED
    BY <1>11, <2>1, <2>4, <2>5, <2>6 DEF PackGrowingClip
<1>12. CASE PackFails
  <2>1. partial \in File
    BY <1>12 DEF PackFails
  <2>2. partial' \in File
    BY <1>12, <2>1 DEF PackFails, File
  <2>3. QED
    BY <1>12, <1>l, <2>2 DEF PackFails
<1>13. CASE EndDay
  <2>1. partial \in File /\ Len(partial.entries) \in Nat
    BY <1>13 DEF EndDay, File
  <2>2. hashes' \in Hashes
    BY <1>13, ExtendType DEF EndDay
  <2>3. offset' \in Nat /\ offset' <= Len(Entries(partial'))
    BY <1>13, <2>1 DEF EndDay, Entries
  <2>4. QED
    BY <1>13, <2>2, <2>3 DEF EndDay
<1>14. CASE SaveCheckpoint
  <2>1. [on |-> TRUE, off |-> offset, hashes |-> packed] \in Row
    BY DEF Row
  <2>2. ckpt' \in [Day -> Row]
    BY <1>14, <2>1 DEF SaveCheckpoint
  <2>3. offset' <= Len(Entries(partial'))
    BY <1>14 DEF SaveCheckpoint, Entries
  <2>4. QED
    BY <1>14, <2>2, <2>3, NoHashesType DEF SaveCheckpoint
<1>15. CASE Promote
  BY <1>15 DEF Promote
<1>16. CASE PromoteFails
  BY <1>16, <1>l DEF PromoteFails
<1>17. CASE VerifyPasses
  BY <1>17 DEF VerifyPasses
<1>18. CASE VerifyRejects
  BY <1>18 DEF VerifyRejects
<1>19. CASE VerifyErrs
  BY <1>19, <1>l DEF VerifyErrs
<1>20. CASE Discard
  BY <1>20 DEF Discard
<1>21. CASE DiscardCheckpoints
  BY <1>21, NoRowType, NoHashesType DEF DiscardCheckpoints, Leave
<1>22. CASE ClearCheckpoints
  BY <1>22, NoRowType DEF ClearCheckpoints
<1>23. CASE RecordArchive
  BY <1>23, NoHashesType DEF RecordArchive, Leave
<1>24. CASE RemoveDayDir
  BY <1>24 DEF RemoveDayDir, Hashes
<1>25. CASE RemovalDone
  BY <1>25, <1>l DEF RemovalDone
<1>26. CASE StartRestore
  BY <1>26 DEF StartRestore
<1>27. CASE RestoreEntry
  <2>1. tar \in File /\ pos \in DOMAIN tar.entries
    BY <1>27 DEF RestoreEntry
  <2>2. tar.entries[pos] \in Entry
    BY <2>1 DEF File
  <2>3. tar.entries[pos].clip \in Clip /\ tar.entries[pos].ver \in Content
    BY <2>2 DEF Entry
  <2>4. src' \in Hashes
    BY <1>27, <2>3 DEF RestoreEntry, Hashes
  <2>5. dirs' \in SUBSET Day
    BY <1>27, <2>3, DayOfAssumption DEF RestoreEntry
  <2>6. QED
    BY <1>27, <2>4, <2>5 DEF RestoreEntry
<1>28. CASE RestoreFails
  BY <1>28, <1>l DEF RestoreFails
<1>29. CASE RestoreDone
  BY <1>29, <1>l DEF RestoreDone
<1>30. CASE SetPin
  BY <1>30 DEF SetPin
<1>31. CASE BackfillClip
  <2>1. 1 \in Content /\ 1 \in 0..MaxVer
    BY BoundAssumption DEF Content
  <2>2. PICK c \in Clip : /\ src' = [src EXCEPT ![c] = 1]
                          /\ newest' = [newest EXCEPT ![c] = 1]
                          /\ dirs' = dirs \cup {DayOf[c]}
    BY <1>31 DEF BackfillClip
  <2>3. src' \in Hashes /\ newest' \in [Clip -> 0..MaxVer]
    BY <2>1, <2>2 DEF Hashes
  <2>4. dirs' \in SUBSET Day
    BY <2>2, DayOfAssumption
  <2>5. QED
    BY <1>31, <2>3, <2>4 DEF BackfillClip, Entries
<1>32. CASE RewriteClip
  <2>1. PICK c \in Live : /\ newest[c] \in 1..(MaxVer - 1)
                          /\ src' = [src EXCEPT ![c] = newest[c] + 1]
                          /\ newest' = [newest EXCEPT ![c] = newest[c] + 1]
    BY <1>32 DEF RewriteClip
  <2>2. newest[c] + 1 \in Content /\ newest[c] + 1 \in 0..MaxVer
    BY <2>1, BoundAssumption DEF Live, Content
  <2>3. src' \in Hashes /\ newest' \in [Clip -> 0..MaxVer]
    BY <2>1, <2>2 DEF Hashes
  <2>4. QED
    BY <1>32, <2>3 DEF RewriteClip, Entries
<1>33. CASE PurgeClip
  BY <1>33, BoundAssumption DEF PurgeClip, Hashes, Content, Live
<1>34. CASE Settle
  BY <1>34 DEF Settle
<1>35. CASE Crash
  BY <1>35, <1>l, PrefixIsFile DEF Crash
<1>36. CASE Restart
  BY <1>36, NoRowType DEF Restart
<1>37. CASE UNCHANGED vars
  BY <1>37 DEF vars, Entries
<1>38. QED
  BY <1>1, <1>2, <1>3, <1>4, <1>5, <1>6, <1>7, <1>8, <1>9, <1>10, <1>11, <1>12,
     <1>13, <1>14, <1>15, <1>16, <1>17, <1>18, <1>19, <1>20, <1>21, <1>22,
     <1>23, <1>24, <1>25, <1>26, <1>27, <1>28, <1>29, <1>30, <1>31, <1>32,
     <1>33, <1>34, <1>35, <1>36, <1>37, Steps

(* The types of the code hold for every month, fault bound and behaviour of *)
(* the surroundings. *)
THEOREM TypeCorrect == Spec => []TypeOK
<1>1. TypeInv => TypeOK
  BY DEF TypeInv
<1>2. QED
  BY <1>1, InitTypeInv, TypeInvStep, PTL DEF Spec

(* pack.rs:76-79: set_len is never asked to grow the partial. *)
THEOREM NeverExtends == Spec => []AppendNeverExtends
<1>1. TypeInv => AppendNeverExtends
  BY DEF TypeInv
<1>2. QED
  BY <1>1, InitTypeInv, TypeInvStep, PTL DEF Spec

(***************************************************************************)
(* Nothing is removed before it is proven.  The invariant follows the scan *)
(* through the run: every scanned clip is in the hashes, being packed, or  *)
(* still to be packed, until verification compares the hashes to the tar.  *)
(***************************************************************************)

Accounted ==
  /\ pc = "pick" => snap \subseteq Keys(hashes) \cup todo
  /\ pc = "append" => snap \subseteq Keys(hashes) \cup todo \cup batch \cup Keys(packed)
  /\ pc = "checkpoint" => snap \subseteq Keys(hashes) \cup todo
  /\ pc = "verify" => snap \subseteq Keys(hashes)
  /\ pc \in {"forget", "record", "remove"} => Proven

(* No job, nothing to account for. *)
LEMMA InitAccounted == Init => Accounted
  BY DEF Init, Accounted

(* Every step keeps every scanned clip accounted for. *)
LEMMA AccountedStep == TypeOK /\ Accounted /\ [Next]_vars => Accounted'
<1> SUFFICES ASSUME TypeOK, Accounted, [Next]_vars PROVE Accounted'
  OBVIOUS
<1> USE DEF Accounted, disk, store, db, work, locals, NoFault, Goto
<1>l. ASSUME NEW to \in {"idle", "down"}, Leave(to) PROVE Accounted'
  BY <1>l DEF Leave
\* Steps that keep the job's beliefs and the tar, and do not enter a stage that
\* promises more.
<1>k. ASSUME UNCHANGED <<tar, snap, hashes, todo, batch, packed>>,
             \/ pc' = pc
             \/ pc' \in {"idle", "selected", "resume", "discard", "discarded", "restore"}
             \/ {pc, pc'} \subseteq {"forget", "record", "remove"}
      PROVE  Accounted'
  BY <1>k DEF Proven, Keys, Matches, Holds, Unreadable
<1>1. CASE SelectDue \/ SelectTarget
  BY <1>1, <1>k DEF SelectDue, SelectTarget
<1>3. CASE Scan
  BY <1>3 DEF Scan
<1>4. CASE SkipExisting \/ PromoteFails \/ VerifyErrs \/ PackFails
  BY <1>4, <1>l DEF SkipExisting, PromoteFails, VerifyErrs, PackFails
<1>5. CASE ResumeFresh
  BY <1>5, NoHashesType DEF ResumeFresh, ResumeAt
<1>6. CASE ResumeMissing
  BY <1>6, NoHashesType DEF ResumeMissing, ResumeAt
<1>7. CASE ResumeShort
  BY <1>7, <1>k DEF ResumeShort
<1>8. CASE ResumeSaved
  <2>1. PICK d \in Saved : ResumeAt(ckpt[d].off, SavedHashes)
    BY <1>8 DEF ResumeSaved
  <2>2. pc' = "pick" /\ snap' = snap /\ todo' = snap \ Keys(hashes')
    BY <2>1 DEF ResumeAt, Keys
  <2>3. QED
    BY <2>2
<1>9. CASE StartDay
  <2>1. PICK d \in Day : /\ batch' = {c \in todo : DayOf[c] = d}
                         /\ todo' = {c \in todo : DayOf[c] # d}
    BY <1>9 DEF StartDay
  <2>2. todo \subseteq todo' \cup batch'
    BY <2>1
  <2>3. QED
    BY <1>9, <2>2 DEF StartDay, Keys
<1>10. CASE PackClip
  <2>1. PICK c \in Live : /\ packed' = [packed EXCEPT ![c] = src[c]]
                          /\ batch' = batch \ {c}
    BY <1>10 DEF PackClip
  <2>2. Keys(packed) \cup {c} \subseteq Keys(packed')
    BY <2>1 DEF Keys, Live, TypeOK, Hashes
  <2>3. QED
    BY <1>10, <2>1, <2>2 DEF PackClip, Keys
<1>11. CASE PackGrowingClip
  <2>1. PICK c \in Live : /\ newest[c] \in 1..(MaxVer - 1)
                          /\ packed' = [packed EXCEPT ![c] = newest[c] + 1]
                          /\ batch' = batch \ {c}
    BY <1>11 DEF PackGrowingClip
  <2>2. Keys(packed) \cup {c} \subseteq Keys(packed')
    BY <2>1, BoundAssumption DEF Keys, Live, TypeOK, Hashes
  <2>3. QED
    BY <1>11, <2>1, <2>2 DEF PackGrowingClip, Keys
<1>13. CASE EndDay
  <2>1. Keys(hashes') = Keys(hashes) \cup Keys(packed)
    BY <1>13, ExtendType DEF EndDay, TypeOK, Keys
  <2>2. QED
    BY <1>13, <2>1 DEF EndDay
<1>14. CASE SaveCheckpoint
  BY <1>14 DEF SaveCheckpoint, Keys
<1>15. CASE Promote
  BY <1>15 DEF Promote, Keys
<1>17. CASE VerifyPasses
  BY <1>17 DEF VerifyPasses, Proven, Keys, Matches, Holds, Unreadable
<1>18. CASE VerifyRejects
  BY <1>18, <1>k DEF VerifyRejects
<1>20. CASE Discard
  BY <1>20 DEF Discard
<1>21. CASE DiscardCheckpoints
  BY <1>21, <1>l DEF DiscardCheckpoints
<1>22. CASE ClearCheckpoints
  BY <1>22, <1>k DEF ClearCheckpoints
<1>23. CASE RecordArchive
  BY <1>23, <1>k, <1>l DEF RecordArchive
<1>24. CASE RemoveDayDir
  BY <1>24, <1>k DEF RemoveDayDir
<1>25. CASE RemovalDone \/ RestoreFails \/ RestoreDone \/ Crash
  BY <1>25, <1>l DEF RemovalDone, RestoreFails, RestoreDone, Crash
<1>26. CASE StartRestore
  BY <1>26, <1>k DEF StartRestore
<1>27. CASE RestoreEntry
  BY <1>27, <1>k DEF RestoreEntry
<1>30. CASE SetPin \/ BackfillClip \/ RewriteClip \/ PurgeClip \/ Settle
  BY <1>30, <1>k DEF SetPin, BackfillClip, RewriteClip, PurgeClip, Settle
<1>36. CASE Restart
  BY <1>36, <1>k DEF Restart
<1>37. CASE UNCHANGED vars
  BY <1>37, <1>k DEF vars
<1>38. QED
  BY <1>1, <1>3, <1>4, <1>5, <1>6, <1>7, <1>8, <1>9, <1>10, <1>11, <1>13, <1>14,
     <1>15, <1>17, <1>18, <1>20, <1>21, <1>22, <1>23, <1>24, <1>25, <1>26,
     <1>27, <1>30, <1>36, <1>37, Steps

(* run.rs:3-5: whatever crashed, failed, resumed or was written to meanwhile, *)
(* originals are removed only while the tar is a proven copy of the scan.     *)
THEOREM NothingRemovedUnproven == Spec => []RemovalJustified
<1>1. Accounted => RemovalJustified
  BY DEF Accounted, RemovalJustified
<1>2. QED
  BY <1>1, TypeCorrect, InitAccounted, AccountedStep, PTL DEF Spec

(***************************************************************************)
(* No footage disappears, when the surroundings are polite: clips may come *)
(* late, expire, crash the run or be restored, but none is written while a *)
(* job runs and none is written twice.                                     *)
(***************************************************************************)

Polite == Behaviours \cap {"rewrite", "write_during_job"} = {}

OnceIn(f) == f # NoFile => \A i \in DOMAIN f.entries : f.entries[i].ver = 1

\* There is one version of every clip, wherever it is.
Once ==
  /\ \A c \in Clip : src[c] \in {0, 1} /\ newest[c] \in {0, 1}
  /\ \A c \in Clip : hashes[c] \in {0, 1} /\ packed[c] \in {0, 1}
  /\ \A d \in Day, c \in Clip : ckpt[d].hashes[c] \in {0, 1}
  /\ OnceIn(partial) /\ OnceIn(tar)

AfterScan == {"resume", "pick", "append", "checkpoint", "verify", "discard",
              "discarded", "forget", "record", "remove"}

\* Until the tar is proven, the live directory still has everything.
StillLive ==
  tar = NoFile \/ pc \in {"verify", "discard"} =>
    \A c \in Clip : newest[c] # 0 => src[c] = newest[c]

SafeInv ==
  /\ Once
  /\ pc \in AfterScan => Live \subseteq snap
  /\ pc \in {"pick", "append", "checkpoint"} => tar = NoFile
  /\ StillLive
  /\ NothingLost

(* At first everything is live and nothing is packed. *)
LEMMA InitSafeInv == Init => SafeInv
  BY NoHashesType, DayOfAssumption
  DEF Init, SafeInv, Once, OnceIn, AfterScan, StillLive, NothingLost, Kept, NoRow, NoHashes

(* Steps that leave the live directory, the tar and every hash alone. *)
LEMMA SafeQuiet ==
  ASSUME SafeInv, UNCHANGED <<src, newest, tar>>,
         hashes' \in {hashes, NoHashes}, packed' \in {packed, NoHashes},
         ckpt' = ckpt \/ ckpt' = [d \in Day |-> NoRow],
         partial' = partial \/ OnceIn(partial'),
         pc' \in AfterScan => pc \in AfterScan /\ snap' = snap,
         pc' \in {"pick", "append", "checkpoint"} => tar = NoFile,
         pc' \in {"verify", "discard"} => pc \in {"verify", "discard"} \/ tar = NoFile
  PROVE  SafeInv'
<1>1. Once'
  BY DEF SafeInv, Once, OnceIn, NoHashes, NoRow
<1>2. NothingLost' /\ StillLive'
  BY DEF SafeInv, StillLive, NothingLost, Kept, Holds
<1>3. QED
  BY <1>1, <1>2 DEF SafeInv, Live

(* Steps of the packing loop: only the hashes and the partial grow. *)
LEMMA SafePacking ==
  ASSUME SafeInv, UNCHANGED <<src, newest, tar, snap>>,
         pc \in AfterScan, tar = NoFile,
         pc' \in {"pick", "append", "checkpoint"},
         Once'
  PROVE  SafeInv'
<1>1. NothingLost' /\ StillLive'
  BY DEF SafeInv, StillLive, NothingLost, Kept, Holds
<1>2. QED
  BY <1>1 DEF SafeInv, Live

(* Every step keeps SafeInv, as long as the surroundings are polite. *)
LEMMA SafeInvStep ==
  ASSUME Polite, TypeInv, Accounted, SafeInv, [Next]_vars
  PROVE  SafeInv'
<1> USE DEF TypeInv, disk, store, db, work, locals, NoFault, Goto, Leave, AfterScan
<1>1. CASE SelectDue \/ SelectTarget
  BY <1>1, SafeQuiet DEF SelectDue, SelectTarget
<1>3. CASE Scan
  <2>1. pc' = "resume" => Live' \subseteq snap'
    BY <1>3 DEF Scan, Live
  <2>2. Once' /\ NothingLost' /\ StillLive'
    BY <1>3 DEF Scan, SafeInv, Once, OnceIn, NothingLost, Kept, StillLive, Holds
  <2>3. QED
    BY <1>3, <2>1, <2>2 DEF Scan, SafeInv
<1>4. CASE SkipExisting \/ PromoteFails \/ VerifyErrs \/ RemovalDone
  BY <1>4, SafeQuiet DEF SkipExisting, PromoteFails, VerifyErrs, RemovalDone
<1>5. CASE ResumeFresh
  BY <1>5, SafeQuiet, NoHashesType DEF ResumeFresh, ResumeAt, OnceIn, SafeInv, Once
<1>6. CASE ResumeMissing
  BY <1>6, SafeQuiet DEF ResumeMissing, ResumeAt, SafeInv, Once
<1>7. CASE ResumeShort
  BY <1>7, SafeQuiet DEF ResumeShort, OnceIn
<1>8. CASE ResumeSaved
  <2>1. hashes' = SavedHashes /\ packed' = packed /\ pc' = "pick" /\ snap' = snap
    BY <1>8 DEF ResumeSaved, ResumeAt
  <2>2. \A c \in Clip : SavedHashes[c] \in {0, 1}
    BY DayOfAssumption DEF SafeInv, Once, SavedHashes
  <2>3. Once'
    BY <1>8, <2>1, <2>2 DEF ResumeSaved, SafeInv, Once, OnceIn
  <2>4. QED
    BY <1>8, <2>1, <2>3, SafePacking DEF ResumeSaved
<1>9. CASE StartDay
  <2>1. tar = NoFile
    BY <1>9 DEF StartDay, SafeInv
  <2>2. offset \in 0..Len(Entries(partial))
    BY <1>9 DEF StartDay, AppendNeverExtends, TypeOK, Entries, File
  <2>3. \A i \in DOMAIN partial'.entries : partial'.entries[i].ver = 1
    <3>1. partial'.entries = SubSeq(Entries(partial), 1, offset)
      BY <1>9 DEF StartDay
    <3>2. CASE partial = NoFile
      BY <2>2, <3>1, <3>2 DEF Entries
    <3>3. CASE partial # NoFile
      <4>1. partial \in File /\ Entries(partial) = partial.entries
        BY <3>3 DEF TypeOK, Entries
      <4>2. \A i \in 1..Len(partial.entries) : partial.entries[i].ver = 1
        BY <3>3, <4>1 DEF SafeInv, Once, OnceIn, File
      <4>3. QED
        BY <2>2, <3>1, <4>1, <4>2 DEF File
    <3>4. QED
      BY <3>2, <3>3
  <2>4. Once'
    BY <1>9, <2>3, NoHashesType DEF StartDay, SafeInv, Once, OnceIn, NoHashes
  <2>5. QED
    BY <1>9, <2>1, <2>4, SafePacking DEF StartDay
<1>10. CASE PackClip
  <2>1. PICK c \in Live : /\ AppendEntry(c, src[c])
                          /\ packed' = [packed EXCEPT ![c] = src[c]]
    BY <1>10 DEF PackClip
  <2>2. c \in Clip /\ src[c] = 1
    BY DEF Live, SafeInv, Once
  <2>3. partial \in File /\ tar = NoFile
    BY <1>10 DEF PackClip, TypeOK, SafeInv
  <2>4. partial'.entries = Append(partial.entries, [clip |-> c, ver |-> 1])
    BY <2>1, <2>2, <2>3 DEF AppendEntry, File
  <2>5. OnceIn(partial')
    <3>1. partial.entries \in Seq(Entry)
      BY <2>3 DEF File
    <3>2. \A i \in 1..Len(partial.entries) : partial.entries[i].ver = 1
      BY <1>10, <2>3, <3>1, NoFileAssumption DEF SafeInv, Once, OnceIn
    <3>3. QED
      BY <2>4, <3>1, <3>2 DEF OnceIn
  <2>6. \A e \in Clip : packed'[e] \in {0, 1}
    BY <2>1, <2>2 DEF SafeInv, Once, TypeOK, Hashes
  <2>7. Once'
    BY <1>10, <2>5, <2>6 DEF PackClip, SafeInv, Once, OnceIn
  <2>8. QED
    BY <1>10, <2>3, <2>7, SafePacking DEF PackClip
<1>11. CASE PackGrowingClip
  BY <1>11 DEF PackGrowingClip, Polite
<1>12. CASE PackFails
  <2>1. OnceIn(partial')
    <3>1. partial \in File
      BY <1>12 DEF PackFails, TypeOK
    <3>2. partial'.entries = partial.entries
      BY <1>12, <3>1 DEF PackFails, File
    <3>3. QED
      BY <3>1, <3>2, NoFileAssumption DEF SafeInv, Once, OnceIn
  <2>2. QED
    BY <1>12, <2>1, SafeQuiet DEF PackFails
<1>13. CASE EndDay
  <2>1. \A c \in Clip : Extend(hashes, packed)[c] \in {0, 1}
    BY DEF Extend, SafeInv, Once
  <2>2. Once'
    BY <1>13, <2>1 DEF EndDay, SafeInv, Once, OnceIn
  <2>3. QED
    BY <1>13, <2>2, SafePacking DEF EndDay, SafeInv
<1>14. CASE SaveCheckpoint
  <2>1. \A d \in Day, c \in Clip : ckpt'[d].hashes[c] \in {0, 1}
    BY <1>14 DEF SaveCheckpoint, SafeInv, Once, TypeOK, Row
  <2>2. Once'
    BY <1>14, <2>1 DEF SaveCheckpoint, SafeInv, Once, OnceIn, NoHashes
  <2>3. QED
    BY <1>14, <2>2, SafePacking DEF SaveCheckpoint, SafeInv
<1>15. CASE Promote
  BY <1>15 DEF Promote, SafeInv, Once, OnceIn, StillLive, NothingLost, Kept, Live
<1>17. CASE VerifyPasses
  BY <1>17, SafeQuiet DEF VerifyPasses
<1>18. CASE VerifyRejects
  BY <1>18, SafeQuiet DEF VerifyRejects
<1>20. CASE Discard
  BY <1>20 DEF Discard, SafeInv, Once, OnceIn, StillLive, NothingLost, Kept, Live, Holds
<1>21. CASE DiscardCheckpoints
  BY <1>21, SafeQuiet DEF DiscardCheckpoints
<1>22. CASE ClearCheckpoints
  BY <1>22, SafeQuiet DEF ClearCheckpoints
<1>23. CASE RecordArchive
  BY <1>23, SafeQuiet DEF RecordArchive
<1>24. CASE RemoveDayDir
  <2>1. tar # NoFile /\ Proven /\ Live \subseteq snap
    BY <1>24 DEF RemoveDayDir, TypeOK, Accounted, SafeInv
  <2>2. \A c \in Live : Holds(tar, c, 1)
    BY <2>1 DEF Proven, Matches, Keys, SafeInv, Once, Live
  <2>3. \A c \in Clip : src'[c] \in {0, src[c]}
    BY <1>24 DEF RemoveDayDir, TypeOK, Hashes
  <2>4. NothingLost'
    BY <1>24, <2>1, <2>2, <2>3
    DEF RemoveDayDir, SafeInv, NothingLost, Kept, Once, Live, Holds
  <2>5. Once'
    BY <1>24, <2>3 DEF RemoveDayDir, SafeInv, Once, OnceIn
  <2>6. Live' \subseteq snap'
    BY <1>24, <2>1, <2>3 DEF RemoveDayDir, Live
  <2>7. QED
    BY <1>24, <2>1, <2>4, <2>5, <2>6 DEF RemoveDayDir, SafeInv, StillLive
<1>26. CASE StartRestore
  BY <1>26, SafeQuiet DEF StartRestore
<1>27. CASE RestoreEntry
  <2>1. tar # NoFile /\ tar \in File
    BY <1>27 DEF RestoreEntry, TypeOK
  <2>2. /\ tar.entries[pos].ver = 1
        /\ src' = [src EXCEPT ![tar.entries[pos].clip] = 1]
    BY <1>27, <2>1 DEF RestoreEntry, SafeInv, Once, OnceIn
  <2>3. \A c \in Clip : src'[c] \in {1, src[c]}
    BY <2>2 DEF TypeOK, Hashes
  <2>4. NothingLost' /\ Once'
    BY <1>27, <2>3 DEF RestoreEntry, SafeInv, NothingLost, Kept, Once, OnceIn, Holds
  <2>5. QED
    BY <1>27, <2>1, <2>4 DEF RestoreEntry, SafeInv, StillLive
<1>28. CASE RestoreFails \/ RestoreDone
  BY <1>28, SafeQuiet DEF RestoreFails, RestoreDone
<1>30. CASE SetPin \/ Settle
  BY <1>30, SafeQuiet DEF SetPin, Settle, SafeInv
<1>31. CASE BackfillClip
  <2>1. PICK c \in Clip : /\ src' = [src EXCEPT ![c] = 1]
                          /\ newest' = [newest EXCEPT ![c] = 1]
    BY <1>31 DEF BackfillClip
  <2>2. \A e \in Clip : \/ src'[e] = 1 /\ newest'[e] = 1
                        \/ src'[e] = src[e] /\ newest'[e] = newest[e]
    <3>1. \A e \in Clip : src'[e] = IF e = c THEN 1 ELSE src[e]
      BY <2>1 DEF TypeOK, Hashes
    <3>2. \A e \in Clip : newest'[e] = IF e = c THEN 1 ELSE newest[e]
      BY <2>1 DEF TypeOK
    <3>3. QED
      BY <3>1, <3>2
  <2>3. NothingLost' /\ Once' /\ StillLive'
    BY <1>31, <2>2
    DEF BackfillClip, SafeInv, NothingLost, Kept, Once, OnceIn, StillLive, Holds
  <2>4. pc' = pc /\ pc \notin AfterScan
    BY <1>31 DEF BackfillClip, MayWriteNow, JobActive, Polite
  <2>5. QED
    BY <2>3, <2>4 DEF SafeInv
<1>32. CASE RewriteClip
  BY <1>32 DEF RewriteClip, Polite
<1>33. CASE PurgeClip
  <2>1. PICK c \in Live : /\ src' = [src EXCEPT ![c] = 0]
                          /\ newest' = [newest EXCEPT ![c] = 0]
    BY <1>33 DEF PurgeClip
  <2>2. \A e \in Clip : \/ src'[e] = 0 /\ newest'[e] = 0
                        \/ src'[e] = src[e] /\ newest'[e] = newest[e]
    <3>1. \A e \in Clip : src'[e] = IF e = c THEN 0 ELSE src[e]
      BY <2>1 DEF TypeOK, Hashes
    <3>2. \A e \in Clip : newest'[e] = IF e = c THEN 0 ELSE newest[e]
      BY <2>1 DEF TypeOK
    <3>3. QED
      BY <3>1, <3>2
  <2>3. NothingLost' /\ Once' /\ StillLive' /\ Live' \subseteq Live
    BY <1>33, <2>2
    DEF PurgeClip, SafeInv, NothingLost, Kept, Once, OnceIn, StillLive, Holds, Live
  <2>4. QED
    BY <1>33, <2>3 DEF PurgeClip, SafeInv
<1>35. CASE Crash
  <2>1. OnceIn(partial')
    <3>1. CASE partial' = partial
      BY <3>1 DEF SafeInv, Once
    <3>2. CASE pc = "append" /\ partial' # partial
      <4>1. partial \in File /\ partial # NoFile
        BY <3>2, NoFileAssumption DEF TypeOK
      <4>2. PICK n \in offset..Len(partial.entries) :
              partial'.entries = SubSeq(partial.entries, 1, n)
        BY <1>35, <3>2 DEF Crash
      <4>3. n \in 0..Len(partial.entries)
        BY <4>1, <4>2 DEF TypeOK, File
      <4>4. \A i \in 1..Len(partial.entries) : partial.entries[i].ver = 1
        BY <4>1 DEF SafeInv, Once, OnceIn, File
      <4>5. QED
        BY <4>1, <4>2, <4>3, <4>4 DEF OnceIn, File
    <3>3. QED
      BY <1>35, <3>1, <3>2 DEF Crash
  <2>2. QED
    BY <1>35, <2>1, SafeQuiet DEF Crash
<1>36. CASE Restart
  BY <1>36, SafeQuiet DEF Restart, OnceIn
<1>37. CASE UNCHANGED vars
  BY <1>37, SafeQuiet DEF vars, SafeInv
<1>38. QED
  BY <1>1, <1>3, <1>4, <1>5, <1>6, <1>7, <1>8, <1>9, <1>10, <1>11, <1>12, <1>13,
     <1>14, <1>15, <1>17, <1>18, <1>20, <1>21, <1>22, <1>23, <1>24, <1>26, <1>27,
     <1>28, <1>30, <1>31, <1>32, <1>33, <1>35, <1>36, <1>37, Steps

(* Across crashes, failed steps, resumed runs, expiries and restores, the last *)
(* version of every clip is live or in the tar.                                *)
THEOREM NoFootageLost == ASSUME Polite PROVE Spec => []NothingLost
<1>1. SafeInv => NothingLost
  BY DEF SafeInv
<1>2. TypeInv /\ Accounted /\ SafeInv /\ [Next]_vars => SafeInv'
  BY SafeInvStep
<1>3. TypeInv => TypeOK
  BY DEF TypeInv
<1>4. QED
  BY <1>1, <1>2, <1>3, InitTypeInv, TypeInvStep, InitAccounted, AccountedStep,
     InitSafeInv, PTL DEF Spec

(***************************************************************************)
(* The tar and its row.  TarInv holds without any assumption: the job only *)
(* gives a tar its name while there is none, and until that tar is proven  *)
(* the live directory has the last version of everything, whatever the     *)
(* backup service writes meanwhile.                                        *)
(***************************************************************************)

TarInv ==
  /\ row # "none" => tar # NoFile
  /\ pc \in {"pick", "append", "checkpoint"} => tar = NoFile
  /\ pc \in {"verify", "discard"} => row = "none"
  /\ pc \in {"remove", "restore"} => tar # NoFile
  /\ doomed \subseteq snapDirs
  /\ pc # "remove" => doomed = {}
  /\ StillLive

(* At first there is neither a tar nor a row, and everything is live. *)
LEMMA InitTarInv == Init => TarInv
  BY DEF Init, TarInv, StillLive

(* Every step keeps TarInv. *)
LEMMA TarInvStep == TypeInv /\ TarInv /\ [Next]_vars => TarInv'
<1> SUFFICES ASSUME TypeInv, TarInv, [Next]_vars PROVE TarInv'
  OBVIOUS
<1> USE DEF TypeInv, TarInv, disk, store, db, work, locals, NoFault, Goto
\* The task ends, or dies.
<1>l. ASSUME NEW to \in {"idle", "down"}, Leave(to), UNCHANGED <<src, newest, tar>>,
             row' # "none" => tar # NoFile
      PROVE  TarInv'
  BY <1>l DEF Leave, StillLive
\* Steps that neither touch the clips nor enter a stage that promises more.
<1>k. ASSUME UNCHANGED <<src, newest, tar, row, doomed, snapDirs>>,
             \/ pc' = pc
             \/ /\ pc # "remove"
                /\ pc' \in {"idle", "selected", "resume", "discarded", "forget", "record"}
             \/ /\ pc # "remove" /\ tar = NoFile
                /\ pc' \in {"pick", "append", "checkpoint"}
             \/ {pc, pc'} \subseteq {"verify", "discard"}
      PROVE  TarInv'
  BY <1>k DEF StillLive
<1>1. CASE SelectDue \/ SelectTarget
  BY <1>1, <1>k DEF SelectDue, SelectTarget
<1>2. CASE Scan
  BY <1>2 DEF Scan, StillLive, TypeOK
<1>3. CASE SkipExisting \/ PromoteFails \/ VerifyErrs \/ RemovalDone \/ PackFails
  BY <1>3, <1>l DEF SkipExisting, PromoteFails, VerifyErrs, RemovalDone, PackFails
<1>4. CASE ResumeFresh \/ ResumeMissing \/ ResumeShort \/ ResumeSaved
  BY <1>4, <1>k DEF ResumeFresh, ResumeMissing, ResumeShort, ResumeSaved, ResumeAt
<1>5. CASE StartDay \/ PackClip \/ EndDay \/ SaveCheckpoint
  BY <1>5, <1>k DEF StartDay, PackClip, EndDay, SaveCheckpoint
<1>6. CASE PackGrowingClip
  <2>1. PICK c \in Live : /\ src' = [src EXCEPT ![c] = newest[c] + 1]
                          /\ newest' = [newest EXCEPT ![c] = newest[c] + 1]
    BY <1>6 DEF PackGrowingClip
  <2>2. \A e \in Clip : newest[e] # 0 /\ src[e] = newest[e] => src'[e] = newest'[e]
    BY <2>1 DEF TypeOK, Hashes
  <2>3. \A e \in Clip : newest'[e] # 0 => newest[e] # 0 \/ src'[e] = newest'[e]
    BY <2>1 DEF TypeOK, Hashes, Live
  <2>4. QED
    BY <1>6, <2>2, <2>3 DEF PackGrowingClip, StillLive
<1>7. CASE Promote
  BY <1>7 DEF Promote, StillLive
<1>8. CASE VerifyPasses \/ VerifyRejects
  BY <1>8, <1>k DEF VerifyPasses, VerifyRejects
<1>9. CASE Discard
  BY <1>9 DEF Discard, StillLive
<1>10. CASE DiscardCheckpoints
  BY <1>10, <1>l DEF DiscardCheckpoints
<1>11. CASE ClearCheckpoints
  BY <1>11, <1>k DEF ClearCheckpoints
<1>12. CASE RecordArchive
  BY <1>12 DEF RecordArchive, Leave, StillLive, TypeOK
<1>13. CASE RemoveDayDir
  BY <1>13 DEF RemoveDayDir, StillLive
<1>14. CASE StartRestore
  BY <1>14 DEF StartRestore, StillLive
<1>15. CASE RestoreEntry
  BY <1>15 DEF RestoreEntry, StillLive
<1>16. CASE RestoreFails \/ RestoreDone
  BY <1>16, <1>l DEF RestoreFails, RestoreDone
<1>17. CASE SetPin
  BY <1>17 DEF SetPin, StillLive
<1>18. CASE BackfillClip
  <2>1. PICK c \in Clip : /\ src' = [src EXCEPT ![c] = 1]
                          /\ newest' = [newest EXCEPT ![c] = 1]
    BY <1>18 DEF BackfillClip
  <2>2. \A e \in Clip : \/ src'[e] = newest'[e]
                        \/ src'[e] = src[e] /\ newest'[e] = newest[e]
    BY <2>1 DEF TypeOK, Hashes
  <2>3. QED
    BY <1>18, <2>2 DEF BackfillClip, StillLive
<1>19. CASE RewriteClip
  <2>1. PICK c \in Live : /\ src' = [src EXCEPT ![c] = newest[c] + 1]
                          /\ newest' = [newest EXCEPT ![c] = newest[c] + 1]
    BY <1>19 DEF RewriteClip
  <2>2. \A e \in Clip : \/ src'[e] = newest'[e]
                        \/ src'[e] = src[e] /\ newest'[e] = newest[e]
    BY <2>1 DEF TypeOK, Hashes, Live
  <2>3. QED
    BY <1>19, <2>2 DEF RewriteClip, StillLive
<1>20. CASE PurgeClip
  <2>1. PICK c \in Live : /\ src' = [src EXCEPT ![c] = 0]
                          /\ newest' = [newest EXCEPT ![c] = 0]
    BY <1>20 DEF PurgeClip
  <2>2. \A e \in Clip : \/ src'[e] = newest'[e]
                        \/ src'[e] = src[e] /\ newest'[e] = newest[e]
    BY <2>1 DEF TypeOK, Hashes, Live
  <2>3. QED
    BY <1>20, <2>2 DEF PurgeClip, StillLive
<1>21. CASE Settle
  BY <1>21, <1>k DEF Settle
<1>22. CASE Crash
  BY <1>22, <1>l DEF Crash
<1>23. CASE Restart
  BY <1>23, <1>k DEF Restart
<1>24. CASE UNCHANGED vars
  BY <1>24, <1>k DEF vars
<1>25. QED
  BY <1>1, <1>2, <1>3, <1>4, <1>5, <1>6, <1>7, <1>8, <1>9, <1>10, <1>11, <1>12,
     <1>13, <1>14, <1>15, <1>16, <1>17, <1>18, <1>19, <1>20, <1>21, <1>22, <1>23,
     <1>24, Steps

(* Only the renaming and the removal of a rejected tar touch a tar, and neither *)
(* happens once it has a row.                                                   *)
LEMMA TarSteps ==
  ASSUME TarInv, [Next]_vars, tar' # tar
  PROVE  Promote \/ Discard
<1> USE DEF disk, store, db, NoFault
<1>1. QED
  BY Steps
  DEF SelectDue, SelectTarget, Scan, SkipExisting, ResumeFresh, ResumeMissing,
      ResumeShort, ResumeSaved, StartDay, PackClip, PackGrowingClip, PackFails,
      EndDay, SaveCheckpoint, PromoteFails, VerifyPasses, VerifyRejects,
      VerifyErrs, DiscardCheckpoints, ClearCheckpoints, RecordArchive,
      RemoveDayDir, RemovalDone, StartRestore, RestoreEntry, RestoreFails,
      RestoreDone, SetPin, BackfillClip, RewriteClip, PurgeClip, Settle, Crash,
      Restart, vars

(* run.rs:603: a recorded tar is the last word on its month. *)
THEOREM TarsStay == Spec => RecordedTarStays
<1>1. TarInv /\ [Next]_vars => [row # "none" => tar' = tar]_vars
  BY TarSteps DEF TarInv, Promote, Discard
<1>2. QED
  BY <1>1, InitTypeInv, TypeInvStep, InitTarInv, TarInvStep, PTL
  DEF Spec, RecordedTarStays

(***************************************************************************)
(* How a version can be lost at all.  Of a clip that was written once and  *)
(* never expired there is one version, wherever it is: live, in a hash, in *)
(* a row or in a file.                                                     *)
(***************************************************************************)

FirstIn(f, c) ==
  f # NoFile =>
    \A i \in DOMAIN f.entries : f.entries[i].clip = c => f.entries[i].ver = 1

FirstOnly(c) ==
  /\ src[c] \in {0, 1} /\ hashes[c] \in {0, 1} /\ packed[c] \in {0, 1}
  /\ \A d \in Day : ckpt[d].hashes[c] \in {0, 1}
  /\ FirstIn(partial, c) /\ FirstIn(tar, c)

FirstInv ==
  "purge" \notin suffered => \A c \in Clip : newest[c] <= 1 => FirstOnly(c)

(* A file cut to a prefix still has the first version only. *)
LEMMA PrefixFirst ==
  ASSUME NEW f \in File, NEW n \in 0..Len(f.entries), NEW c \in Clip, NEW t \in BOOLEAN,
         FirstIn(f, c)
  PROVE  FirstIn([entries |-> SubSeq(f.entries, 1, n), torn |-> t], c)
<1>1. \A i \in 1..Len(f.entries) : f.entries[i].clip = c => f.entries[i].ver = 1
  BY NoFileAssumption DEF FirstIn, File
<1>2. f.entries \in Seq(Entry) /\ n \in Nat /\ n <= Len(f.entries)
  BY DEF File
<1>3. \A i \in DOMAIN SubSeq(f.entries, 1, n) :
        i \in 1..Len(f.entries) /\ SubSeq(f.entries, 1, n)[i] = f.entries[i]
  BY <1>2
<1>4. QED
  BY <1>1, <1>3 DEF FirstIn

(* So does a file with one more entry, of another clip or of the first version. *)
LEMMA AppendFirst ==
  ASSUME NEW f \in File, NEW c \in Clip, NEW e \in Entry, FirstIn(f, c),
         e.clip = c => e.ver = 1
  PROVE  FirstIn([f EXCEPT !.entries = Append(@, e)], c)
<1>1. f.entries \in Seq(Entry) /\ f # NoFile
  BY NoFileAssumption DEF File
<1>2. [f EXCEPT !.entries = Append(@, e)].entries = Append(f.entries, e)
  BY DEF File
<1>3. \A i \in 1..(Len(f.entries) + 1) :
        Append(f.entries, e)[i] = IF i <= Len(f.entries) THEN f.entries[i] ELSE e
  BY <1>1
<1>4. DOMAIN Append(f.entries, e) = 1..(Len(f.entries) + 1)
  BY <1>1
<1>5. QED
  BY <1>1, <1>2, <1>3, <1>4 DEF FirstIn

(* At first there is one version of everything. *)
LEMMA InitFirst == Init => FirstInv
  BY NoHashesType DEF Init, FirstInv, FirstOnly, FirstIn, NoRow, NoHashes

(* One clip's share of the argument: it is written once, before and after. *)
LEMMA FirstOnlyStep ==
  ASSUME TypeInv, NEW c \in Clip, newest[c] <= 1, newest'[c] <= 1, FirstOnly(c),
         [Next]_vars
  PROVE  FirstOnly(c)'
<1> USE DEF TypeInv, FirstOnly, disk, store, db, work, locals, NoFault, Goto
<1>l. ASSUME NEW to \in {"idle", "down"}, Leave(to),
             UNCHANGED <<src, tar>>,
             ckpt' = ckpt \/ ckpt' = [d \in Day |-> NoRow],
             FirstIn(partial', c)
      PROVE  FirstOnly(c)'
  BY <1>l DEF Leave, NoHashes, NoRow
<1>k. ASSUME UNCHANGED <<src, tar, packed>>,
             hashes' = hashes \/ hashes' = NoHashes,
             ckpt' = ckpt \/ ckpt' = [d \in Day |-> NoRow],
             FirstIn(partial', c)
      PROVE  FirstOnly(c)'
  BY <1>k DEF NoHashes, NoRow
<1>1. CASE SelectDue \/ SelectTarget \/ Scan
  BY <1>1, <1>k DEF SelectDue, SelectTarget, Scan
<1>2. CASE SkipExisting \/ PromoteFails \/ VerifyErrs \/ RemovalDone
  BY <1>2, <1>l DEF SkipExisting, PromoteFails, VerifyErrs, RemovalDone
<1>3. CASE ResumeFresh \/ ResumeMissing \/ ResumeShort
  BY <1>3, <1>k DEF ResumeFresh, ResumeMissing, ResumeShort, ResumeAt, FirstIn
<1>4. CASE ResumeSaved
  <2>1. hashes' = SavedHashes /\ UNCHANGED <<packed, partial, tar, src, ckpt>>
    BY <1>4 DEF ResumeSaved, ResumeAt
  <2>2. SavedHashes[c] \in {0, 1}
    BY DayOfAssumption DEF SavedHashes
  <2>3. QED
    BY <2>1, <2>2
<1>5. CASE StartDay
  <2>1. FirstIn(partial', c)
    <3>1. partial' = [entries |-> SubSeq(Entries(partial), 1, offset), torn |-> FALSE]
      BY <1>5 DEF StartDay
    <3>2. CASE partial = NoFile
      <4>1. Entries(partial) = <<>> /\ offset = 0
        BY <1>5, <3>2 DEF StartDay, Entries, AppendNeverExtends, TypeOK
      <4>2. partial'.entries = <<>>
        BY <3>1, <4>1
      <4>3. QED
        BY <4>2 DEF FirstIn
    <3>3. CASE partial # NoFile
      <4>1. partial \in File /\ Entries(partial) = partial.entries
        BY <3>3 DEF TypeOK, Entries
      <4>2. offset \in 0..Len(partial.entries)
        BY <1>5, <4>1 DEF StartDay, AppendNeverExtends, TypeOK, File
      <4>3. QED
        BY <3>1, <4>1, <4>2, PrefixFirst
    <3>4. QED
      BY <3>2, <3>3
  <2>2. QED
    BY <1>5, <2>1 DEF StartDay, NoHashes
<1>6. CASE PackClip
  <2>1. PICK b \in Live : /\ AppendEntry(b, src[b])
                          /\ packed' = [packed EXCEPT ![b] = src[b]]
    BY <1>6 DEF PackClip
  <2>2. partial \in File /\ [clip |-> b, ver |-> src[b]] \in Entry
    BY <1>6 DEF PackClip, TypeOK, Live, Hashes, Entry
  <2>3. b = c => src[b] = 1
    BY <2>1 DEF Live
  <2>4. FirstIn(partial', c)
    BY <2>1, <2>2, <2>3, AppendFirst DEF AppendEntry
  <2>5. packed'[c] \in {0, 1}
    BY <2>1, <2>3 DEF TypeOK, Hashes
  <2>6. QED
    BY <1>6, <2>4, <2>5 DEF PackClip
<1>7. CASE PackGrowingClip
  <2>1. PICK b \in Live : /\ newest[b] \in 1..(MaxVer - 1)
                          /\ src' = [src EXCEPT ![b] = newest[b] + 1]
                          /\ newest' = [newest EXCEPT ![b] = newest[b] + 1]
                          /\ AppendEntry(b, Garbled)
                          /\ packed' = [packed EXCEPT ![b] = newest[b] + 1]
    BY <1>7 DEF PackGrowingClip
  <2>2. b # c
    BY <2>1 DEF TypeOK
  <2>3. partial \in File /\ [clip |-> b, ver |-> Garbled] \in Entry
    BY <1>7, BoundAssumption DEF PackGrowingClip, TypeOK, Live, Garbled, Content, Entry
  <2>4. FirstIn(partial', c)
    BY <2>1, <2>2, <2>3, AppendFirst DEF AppendEntry
  <2>5. packed'[c] = packed[c] /\ src'[c] = src[c]
    BY <2>1, <2>2 DEF TypeOK, Hashes
  <2>6. QED
    BY <1>7, <2>4, <2>5 DEF PackGrowingClip
<1>8. CASE PackFails
  <2>1. partial \in File
    BY <1>8 DEF PackFails, TypeOK
  <2>2. partial' # NoFile => partial'.entries = partial.entries
    BY <1>8, <2>1 DEF PackFails, File
  <2>3. FirstIn(partial', c)
    BY <2>1, <2>2, NoFileAssumption DEF FirstIn
  <2>4. QED
    BY <1>8, <1>l, <2>3 DEF PackFails
<1>9. CASE EndDay
  <2>1. Extend(hashes, packed)[c] \in {0, 1}
    BY DEF Extend
  <2>2. QED
    BY <1>9, <2>1 DEF EndDay
<1>10. CASE SaveCheckpoint
  <2>1. \A d \in Day : ckpt'[d].hashes[c] \in {0, 1}
    BY <1>10 DEF SaveCheckpoint, TypeOK
  <2>2. QED
    BY <1>10, <2>1 DEF SaveCheckpoint, NoHashes
<1>11. CASE Promote
  BY <1>11 DEF Promote, FirstIn
<1>12. CASE Discard
  BY <1>12 DEF Discard, FirstIn
<1>13. CASE VerifyPasses \/ VerifyRejects \/ ClearCheckpoints
  BY <1>13, <1>k DEF VerifyPasses, VerifyRejects, ClearCheckpoints
<1>14. CASE DiscardCheckpoints
  BY <1>14, <1>l DEF DiscardCheckpoints
<1>15. CASE RecordArchive
  BY <1>15 DEF RecordArchive, Leave, NoHashes
<1>16. CASE RemoveDayDir
  <2>1. src'[c] \in {0, src[c]}
    BY <1>16 DEF RemoveDayDir
  <2>2. QED
    BY <1>16, <2>1 DEF RemoveDayDir
<1>17. CASE StartRestore \/ SetPin \/ Settle
  BY <1>17, <1>k DEF StartRestore, SetPin, Settle
<1>18. CASE RestoreEntry
  <2>1. tar \in File /\ tar # NoFile
    BY <1>18, NoFileAssumption DEF RestoreEntry, TypeOK
  <2>2. src' = [src EXCEPT ![tar.entries[pos].clip] = tar.entries[pos].ver]
    BY <1>18 DEF RestoreEntry
  <2>3. src'[c] \in {1, src[c]}
    BY <1>18, <2>1, <2>2 DEF RestoreEntry, FirstIn, TypeOK, Hashes
  <2>4. QED
    BY <1>18, <2>3 DEF RestoreEntry
<1>19. CASE RestoreFails \/ RestoreDone
  BY <1>19, <1>l DEF RestoreFails, RestoreDone
<1>20. CASE BackfillClip
  BY <1>20 DEF BackfillClip, TypeOK, Hashes
<1>21. CASE RewriteClip
  <2>1. PICK b \in Live : /\ newest[b] \in 1..(MaxVer - 1)
                          /\ src' = [src EXCEPT ![b] = newest[b] + 1]
                          /\ newest' = [newest EXCEPT ![b] = newest[b] + 1]
    BY <1>21 DEF RewriteClip
  <2>2. b # c
    BY <2>1 DEF TypeOK
  <2>3. src'[c] = src[c]
    BY <2>1, <2>2 DEF TypeOK, Hashes
  <2>4. QED
    BY <1>21, <2>3 DEF RewriteClip
<1>22. CASE PurgeClip
  BY <1>22 DEF PurgeClip, TypeOK, Hashes
<1>23. CASE Crash
  <2>1. FirstIn(partial', c)
    <3>1. CASE partial' = partial
      BY <3>1
    <3>2. CASE pc = "append" /\ partial' # partial
      <4>1. partial \in File /\ Entries(partial) = partial.entries
        BY <3>2, NoFileAssumption DEF TypeOK, Entries
      <4>2. PICK n \in offset..Len(partial.entries), t \in BOOLEAN :
              partial' = [entries |-> SubSeq(partial.entries, 1, n), torn |-> t]
        BY <1>23, <3>2 DEF Crash
      <4>3. n \in 0..Len(partial.entries)
        BY <4>1, <4>2 DEF TypeOK, File
      <4>4. QED
        BY <4>1, <4>2, <4>3, PrefixFirst
    <3>3. QED
      BY <1>23, <3>1, <3>2 DEF Crash
  <2>2. QED
    BY <1>23, <1>l, <2>1 DEF Crash
<1>24. CASE Restart
  BY <1>24, <1>k DEF Restart, FirstIn
<1>25. CASE UNCHANGED vars
  BY <1>25, <1>k DEF vars
<1>26. QED
  BY <1>1, <1>2, <1>3, <1>4, <1>5, <1>6, <1>7, <1>8, <1>9, <1>10, <1>11, <1>12,
     <1>13, <1>14, <1>15, <1>16, <1>17, <1>18, <1>19, <1>20, <1>21, <1>22, <1>23,
     <1>24, <1>25, Steps

(* Until clips expire, versions only go up, and a kind of fault once met stays met. *)
LEMMA NewestGrows ==
  ASSUME TypeInv, [Next]_vars, NEW c \in Clip, "purge" \notin suffered'
  PROVE  "purge" \notin suffered /\ newest[c] <= newest'[c]
<1> USE DEF TypeInv, disk, NoFault, Fault
<1>1. CASE PackGrowingClip
  BY <1>1 DEF PackGrowingClip, TypeOK, Live
<1>2. CASE RewriteClip
  BY <1>2 DEF RewriteClip, TypeOK, Live
<1>3. CASE BackfillClip
  BY <1>3 DEF BackfillClip, TypeOK
<1>4. CASE PurgeClip
  BY <1>4 DEF PurgeClip
<1>5. CASE UNCHANGED newest /\ suffered \subseteq suffered'
  BY <1>5 DEF TypeOK
<1>6. \/ PackGrowingClip \/ RewriteClip \/ BackfillClip \/ PurgeClip
      \/ UNCHANGED newest /\ suffered \subseteq suffered'
  BY Steps
  DEF SelectDue, SelectTarget, Scan, SkipExisting, ResumeFresh, ResumeMissing,
      ResumeShort, ResumeSaved, StartDay, PackClip, PackFails, EndDay,
      SaveCheckpoint, Promote, PromoteFails, VerifyPasses, VerifyRejects,
      VerifyErrs, Discard, DiscardCheckpoints, ClearCheckpoints, RecordArchive,
      RemoveDayDir, RemovalDone, StartRestore, RestoreEntry, RestoreFails,
      RestoreDone, SetPin, Settle, Crash, Restart, vars
<1>7. QED
  BY <1>1, <1>2, <1>3, <1>4, <1>5, <1>6

(* Every step keeps FirstInv. *)
LEMMA FirstInvStep == TypeInv /\ FirstInv /\ [Next]_vars => FirstInv'
<1> SUFFICES ASSUME TypeInv, FirstInv, [Next]_vars, "purge" \notin suffered',
                    NEW c \in Clip, newest'[c] <= 1
             PROVE  FirstOnly(c)'
  BY DEF FirstInv
<1>1. "purge" \notin suffered /\ newest[c] <= newest'[c]
  BY NewestGrows
<1>2. newest[c] \in Nat /\ newest'[c] \in Nat
  BY TypeInvStep, BoundAssumption DEF TypeInv, TypeOK
<1>3. newest[c] <= 1 /\ FirstOnly(c)
  BY <1>1, <1>2 DEF FirstInv
<1>4. QED
  BY <1>3, FirstOnlyStep

(* A step that leaves both copies of a clip alone loses nothing of it; the steps *)
(* that touch one are few.                                                       *)
LEMMA LosingSteps ==
  ASSUME TypeInv, TarInv, [Next]_vars, NEW c \in Clip,
         newest[c] # 0, newest'[c] = newest[c], Kept(c), ~Kept(c)'
  PROVE  RemoveDayDir \/ RestoreEntry
<1> USE DEF TypeInv, disk, store, NoFault
<1>1. CASE src'[c] = src[c] /\ tar' = tar
  BY <1>1 DEF Kept, Holds
<1>2. CASE Promote
  BY <1>2 DEF Promote, TarInv, Kept
<1>3. CASE Discard
  BY <1>3 DEF Discard, TarInv, StillLive, Kept
<1>4. CASE PackGrowingClip
  BY <1>4 DEF PackGrowingClip, TypeOK, Hashes, Kept, Live
<1>5. CASE BackfillClip
  BY <1>5 DEF BackfillClip, TypeOK, Hashes, Kept
<1>6. CASE RewriteClip
  BY <1>6 DEF RewriteClip, TypeOK, Hashes, Kept, Live
<1>7. CASE PurgeClip
  BY <1>7 DEF PurgeClip, TypeOK, Hashes, Kept, Live
<1>8. \/ UNCHANGED <<src, tar>>
      \/ Promote \/ Discard \/ PackGrowingClip \/ BackfillClip \/ RewriteClip
      \/ PurgeClip \/ RemoveDayDir \/ RestoreEntry
  BY Steps
  DEF SelectDue, SelectTarget, Scan, SkipExisting, ResumeFresh, ResumeMissing,
      ResumeShort, ResumeSaved, StartDay, PackClip, PackFails, EndDay,
      SaveCheckpoint, PromoteFails, VerifyPasses, VerifyRejects, VerifyErrs,
      DiscardCheckpoints, ClearCheckpoints, RecordArchive, RemovalDone,
      StartRestore, RestoreFails, RestoreDone, SetPin, Settle, Crash, Restart,
      vars
<1>9. QED
  BY <1>1, <1>2, <1>3, <1>4, <1>5, <1>6, <1>7, <1>8

(* The property, for one clip and one step. *)
LEMMA LossStep ==
  ASSUME TypeInv, Accounted, TarInv, FirstInv, [Next]_vars, NEW c \in Clip,
         "purge" \notin suffered', newest[c] # 0, newest'[c] = newest[c],
         Kept(c), ~Kept(c)'
  PROVE  \/ pc = "remove" /\ DayOf[c] \in snapDirs /\ (c \notin snap \/ newest[c] > 1)
         \/ pc = "restore" /\ newest[c] > 1
<1> USE DEF TypeInv, disk, store, NoFault
<1>1. "purge" \notin suffered /\ newest[c] \in Nat
  BY NewestGrows, BoundAssumption DEF TypeOK
<1>2. newest[c] = 1 => FirstOnly(c)
  BY <1>1 DEF FirstInv
<1>3. CASE RemoveDayDir
  <2>1. pc = "remove" /\ Proven /\ doomed \subseteq snapDirs /\ tar' = tar /\ tar # NoFile
    BY <1>3 DEF RemoveDayDir, Accounted, TarInv
  <2>2. DayOf[c] \in doomed
    BY <1>3, DayOfAssumption DEF RemoveDayDir, Kept, Holds, TypeOK, Hashes
  <2>3. ASSUME c \in snap, newest[c] = 1 PROVE FALSE
    <3>1. hashes[c] # 0 /\ Holds(tar, c, hashes[c])
      BY <2>1, <2>3 DEF Proven, Matches, Keys
    <3>2. Holds(tar, c, 1)
      BY <1>2, <2>3, <3>1 DEF FirstOnly
    <3>3. Kept(c)'
      BY <2>1, <2>3, <3>2 DEF Kept, Holds
    <3>4. QED
      BY <3>3
  <2>4. QED
    BY <1>1, <2>1, <2>2, <2>3
<1>4. CASE RestoreEntry
  <2>1. pc = "restore" /\ tar' = tar /\ tar \in File /\ tar # NoFile
    BY <1>4, NoFileAssumption DEF RestoreEntry, TypeOK
  <2>2. /\ pos \in DOMAIN tar.entries
        /\ src' = [src EXCEPT ![tar.entries[pos].clip] = tar.entries[pos].ver]
    BY <1>4 DEF RestoreEntry
  <2>3. newest[c] # 1
    BY <1>2, <2>1, <2>2 DEF FirstOnly, FirstIn, Kept, Holds, TypeOK, Hashes
  <2>4. QED
    BY <1>1, <2>1, <2>3
<1>5. QED
  BY <1>3, <1>4, LosingSteps

(* run.rs:803, pack.rs:243: whatever crashes, fails, resumes or is written at any  *)
(* time, a version is lost only to the removal of a scanned directory it came into *)
(* later, or of a clip written again, or to a restore over a clip written again.   *)
THEOREM LossIsLate == Spec => LossIsLateWrite
<1> DEFINE Loss ==
      "purge" \notin suffered' =>
        \A c \in Clip :
          newest[c] # 0 /\ newest'[c] = newest[c] /\ Kept(c) /\ ~Kept(c)' =>
            \/ pc = "remove" /\ DayOf[c] \in snapDirs
                 /\ (c \notin snap \/ newest[c] > 1)
            \/ pc = "restore" /\ newest[c] > 1
<1>1. TypeInv /\ Accounted /\ TarInv /\ FirstInv /\ [Next]_vars => [Loss]_vars
  BY LossStep
<1>2. TypeInv => TypeOK
  BY DEF TypeInv
<1>3. QED
  BY <1>1, <1>2, InitTypeInv, TypeInvStep, InitAccounted, AccountedStep, InitTarInv,
     TarInvStep, InitFirst, FirstInvStep, PTL
  DEF Spec, LossIsLateWrite

(***************************************************************************)
(* Restores.  While one runs, the live directory has the last copy of each *)
(* entry that has been unpacked so far, unless the clip has expired.  Only *)
(* the backup service could write over it, and is assumed not to.          *)
(***************************************************************************)

Unpacked ==
  pc = "restore" =>
    /\ pos \in 1..(Len(tar.entries) + 1)
    /\ \A c \in Clip : newest[c] # 0 =>
         \A i \in 1..(pos - 1) :
           /\ tar.entries[i].clip = c
           /\ \A j \in 1..(pos - 1) : tar.entries[j].clip = c => j <= i
           => src[c] = tar.entries[i].ver

(* One more entry is unpacked. *)
LEMMA UnpackedEntry ==
  ASSUME TypeInv, TarInv, Unpacked, RestoreEntry
  PROVE  Unpacked'
<1> USE DEF TypeInv, NoFault
<1>1. /\ pc = "restore" /\ pc' = pc /\ tar' = tar /\ newest' = newest
      /\ pos \in DOMAIN tar.entries /\ pos' = pos + 1
      /\ src' = [src EXCEPT ![tar.entries[pos].clip] = tar.entries[pos].ver]
      /\ tar \in File
  BY DEF RestoreEntry, TypeOK, store
<1>2. tar.entries \in Seq(Entry) /\ DOMAIN tar.entries = 1..Len(tar.entries)
  BY <1>1 DEF File
<1>3. pos \in 1..Len(tar.entries) /\ Len(tar.entries) \in Nat
  BY <1>1, <1>2
<1>4. pos' \in 1..(Len(tar'.entries) + 1)
  BY <1>1, <1>3
<1>5. ASSUME NEW c \in Clip, newest'[c] # 0, NEW i \in 1..(pos' - 1),
             tar'.entries[i].clip = c,
             \A j \in 1..(pos' - 1) : tar'.entries[j].clip = c => j <= i
      PROVE  src'[c] = tar'.entries[i].ver
  <2>1. CASE i = pos
    BY <1>1, <1>5, <2>1 DEF TypeOK, Hashes
  <2>2. CASE i # pos
    <3>1. i \in 1..(pos - 1) /\ pos \in 1..(pos' - 1)
      BY <1>1, <1>3, <1>5, <2>2
    <3>2. tar.entries[pos].clip # c
      BY <1>1, <1>3, <1>5, <3>1
    <3>3. src'[c] = src[c]
      BY <1>1, <3>2 DEF TypeOK, Hashes
    <3>4. \A j \in 1..(pos - 1) : tar.entries[j].clip = c => j <= i
      BY <1>1, <1>3, <1>5
    <3>5. QED
      BY <1>1, <1>5, <3>1, <3>3, <3>4 DEF Unpacked
  <2>3. QED
    BY <2>1, <2>2
<1>6. QED
  BY <1>4, <1>5 DEF Unpacked

(* Every step keeps Unpacked, when nothing is written during jobs. *)
LEMMA UnpackedStep ==
  ASSUME "write_during_job" \notin Behaviours, TypeInv, TarInv, Unpacked, [Next]_vars
  PROVE  Unpacked'
<1> USE DEF TypeInv, disk, store, locals, NoFault
<1>1. CASE pc' # "restore"
  BY <1>1 DEF Unpacked
<1>2. CASE pc = "restore" /\ UNCHANGED <<src, newest, tar, pos>>
  BY <1>2 DEF Unpacked
<1>3. CASE StartRestore
  BY <1>3 DEF StartRestore, Unpacked, TypeOK, File
<1>4. CASE RestoreEntry
  BY <1>4, UnpackedEntry
<1>5. CASE PurgeClip
  <2>1. PICK b \in Live : /\ src' = [src EXCEPT ![b] = 0]
                          /\ newest' = [newest EXCEPT ![b] = 0]
    BY <1>5 DEF PurgeClip
  <2>2. \A c \in Clip : newest'[c] # 0 => newest[c] # 0 /\ src'[c] = src[c]
    BY <2>1 DEF TypeOK, Hashes
  <2>3. QED
    BY <1>5, <2>2 DEF PurgeClip, Unpacked
<1>6. \/ pc' # "restore"
      \/ pc = "restore" /\ UNCHANGED <<src, newest, tar, pos>>
      \/ StartRestore \/ RestoreEntry \/ PurgeClip
  BY Steps
  DEF SelectDue, SelectTarget, Scan, SkipExisting, ResumeFresh, ResumeMissing,
      ResumeShort, ResumeSaved, ResumeAt, StartDay, PackClip, PackGrowingClip,
      PackFails, EndDay, SaveCheckpoint, Promote, PromoteFails, VerifyPasses,
      VerifyRejects, VerifyErrs, Discard, DiscardCheckpoints, ClearCheckpoints,
      RecordArchive, RemoveDayDir, RemovalDone, RestoreFails, RestoreDone, SetPin,
      BackfillClip, RewriteClip, MayWriteNow, JobActive, Settle, Crash, Restart,
      Goto, Leave, vars
<1>7. QED
  BY <1>1, <1>2, <1>3, <1>4, <1>5, <1>6

(* The only step that ends a restore with a pin is the one at the end of the tar. *)
LEMMA RestoreEnds ==
  ASSUME TypeInv, TarInv, Unpacked, [Next]_vars, pc = "restore", pc' = "idle",
         row # "pinned", row' = "pinned", NEW c \in Clip, NEW v \in Content,
         Holds(tar, c, v), newest[c] # 0
  PROVE  src[c] = v
<1> USE DEF TypeInv, NoFault
<1>1. RestoreDone
  BY Steps
  DEF SelectDue, SelectTarget, Scan, SkipExisting, ResumeFresh, ResumeMissing,
      ResumeShort, ResumeSaved, StartDay, PackClip, PackGrowingClip, PackFails,
      EndDay, SaveCheckpoint, Promote, PromoteFails, VerifyPasses, VerifyRejects,
      VerifyErrs, Discard, DiscardCheckpoints, ClearCheckpoints, RecordArchive,
      RemoveDayDir, RemovalDone, StartRestore, RestoreEntry, RestoreFails, SetPin,
      BackfillClip, RewriteClip, PurgeClip, Settle, Crash, Restart, Goto, disk,
      store, db, vars
<1>2. tar \in File /\ Len(tar.entries) \in Nat /\ DOMAIN tar.entries = 1..Len(tar.entries)
  BY DEF TypeOK, File
<1>3. pos = Len(tar.entries) + 1
  BY <1>1, <1>2 DEF RestoreDone, Unpacked
<1>4. PICK i \in 1..Len(tar.entries) :
        /\ tar.entries[i] = [clip |-> c, ver |-> v]
        /\ \A j \in 1..Len(tar.entries) : tar.entries[j].clip = c => j <= i
  BY <1>2 DEF Holds
<1>5. i \in 1..(pos - 1) /\ pos - 1 = Len(tar.entries)
  BY <1>2, <1>3
<1>6. /\ tar.entries[i].clip = c /\ tar.entries[i].ver = v
      /\ \A j \in 1..(pos - 1) : tar.entries[j].clip = c => j <= i
  BY <1>4, <1>5
<1>7. QED
  BY <1>5, <1>6 DEF Unpacked

(* run.rs:1068: a restore that pins its month has put everything back. *)
THEOREM PinsMeanLive ==
  ASSUME "write_during_job" \notin Behaviours
  PROVE  Spec => RestoredIsLive
<1> DEFINE Back ==
      pc = "restore" /\ pc' = "idle" /\ row # "pinned" /\ row' = "pinned"
        => \A c \in Clip, v \in Content : Holds(tar, c, v) => src[c] = v \/ newest[c] = 0
<1>1. TypeInv /\ TarInv /\ Unpacked /\ [Next]_vars => [Back]_vars
  BY RestoreEnds
<1>2. TypeInv /\ TarInv /\ Unpacked /\ [Next]_vars => Unpacked'
  BY UnpackedStep
<1>3. Init => Unpacked
  BY DEF Init, Unpacked
<1>4. QED
  BY <1>1, <1>2, <1>3, InitTypeInv, TypeInvStep, InitTarInv, TarInvStep, PTL
  DEF Spec, RestoredIsLive

(***************************************************************************)
(* Checkpoints.  As long as no statement has failed, the row a resume      *)
(* would start from describes the partial: it is written when the partial  *)
(* ends where it says, and nothing is ever cut below it.                   *)
(***************************************************************************)

\* Among the first n entries of f, the last one of clip c has version v.
LastIn(f, n, c, v) ==
  \E i \in 1..n :
    /\ f.entries[i] = [clip |-> c, ver |-> v]
    /\ \A j \in 1..n : f.entries[j].clip = c => j <= i

RowDescribes(d) ==
  /\ ckpt[d].off <= Len(partial.entries)
  /\ \A c \in Keys(ckpt[d].hashes) :
       LastIn(partial, ckpt[d].off, c, ckpt[d].hashes[c])

LastRow ==
  /\ partial # NoFile => \A d \in Saved : IsLast(d, Saved) => RowDescribes(d)
  /\ pc \in {"pick", "append", "checkpoint"} =>
       \A d \in Saved : IsLast(d, Saved) => partial # NoFile /\ ckpt[d].off <= offset

PackedIsThere ==
  /\ pc \in {"append", "checkpoint"} =>
       \A c \in Keys(packed) : LastIn(partial, Len(partial.entries), c, packed[c])
  /\ pc = "checkpoint" => offset = Len(partial.entries)

CkptInv == PackedIsThere /\ ("db" \notin suffered => LastRow)

(* Entries below n decide what is last among them. *)
LEMMA SamePrefix ==
  ASSUME NEW f, NEW g, NEW n \in Nat, NEW c, NEW v,
         \A i \in 1..n : f.entries[i] = g.entries[i], LastIn(f, n, c, v)
  PROVE  LastIn(g, n, c, v)
  BY DEF LastIn

(* The prefix as a file of its own. *)
LEMMA LastInHolds ==
  ASSUME NEW f \in File, NEW n \in 0..Len(f.entries), NEW c \in Clip, NEW v \in Content,
         LastIn(f, n, c, v)
  PROVE  Holds([entries |-> SubSeq(f.entries, 1, n)], c, v)
<1>1. f.entries \in Seq(Entry) /\ n \in Nat /\ n <= Len(f.entries)
  BY DEF File
<1>2. /\ DOMAIN SubSeq(f.entries, 1, n) = 1..n
      /\ \A i \in 1..n : SubSeq(f.entries, 1, n)[i] = f.entries[i]
  BY <1>1
<1>3. PICK i \in 1..n : /\ f.entries[i] = [clip |-> c, ver |-> v]
                        /\ \A j \in 1..n : f.entries[j].clip = c => j <= i
  BY DEF LastIn
<1>4. /\ SubSeq(f.entries, 1, n)[i] = [clip |-> c, ver |-> v]
      /\ \A j \in 1..n : SubSeq(f.entries, 1, n)[j].clip = c => j <= i
  BY <1>2, <1>3
<1>5. QED
  BY <1>2, <1>4 DEF Holds

(* The row at which a resume would start stays true of a partial that only    *)
(* changes beyond it.                                                         *)
LEMMA LastRowKept ==
  ASSUME TypeInv, TypeInv', partial # NoFile => partial' # NoFile, ckpt' = ckpt,
         LastRow,
         \A d \in Saved : IsLast(d, Saved) =>
           /\ partial # NoFile
           /\ ckpt[d].off <= Len(partial'.entries)
           /\ \A i \in 1..ckpt[d].off : partial'.entries[i] = partial.entries[i]
  PROVE  \A d \in Saved' : IsLast(d, Saved') => RowDescribes(d)'
<1> SUFFICES ASSUME NEW d \in Saved, IsLast(d, Saved)
             PROVE  RowDescribes(d)'
  BY DEF Saved, IsLast
<1>1. RowDescribes(d) /\ ckpt[d].off \in Nat
  BY DEF LastRow, TypeInv, TypeOK, Saved, Row
<1>2. QED
  BY <1>1, SamePrefix DEF RowDescribes

(* Appending leaves the earlier entries alone. *)
LEMMA AppendKeeps ==
  ASSUME NEW f \in File, NEW e \in Entry
  PROVE  LET g == [f EXCEPT !.entries = Append(@, e)]
         IN  /\ Len(g.entries) = Len(f.entries) + 1
             /\ g.entries[Len(f.entries) + 1] = e
             /\ \A i \in 1..Len(f.entries) : g.entries[i] = f.entries[i]
<1>1. f.entries \in Seq(Entry)
  BY DEF File
<1>2. [f EXCEPT !.entries = Append(@, e)].entries = Append(f.entries, e)
  BY DEF File
<1>3. QED
  BY <1>1, <1>2

(* Cutting does, too. *)
LEMMA PrefixKeeps ==
  ASSUME NEW f \in File, NEW n \in 0..Len(f.entries), NEW t \in BOOLEAN
  PROVE  LET g == [entries |-> SubSeq(f.entries, 1, n), torn |-> t]
         IN  /\ Len(g.entries) = n
             /\ \A i \in 1..n : g.entries[i] = f.entries[i]
<1>1. f.entries \in Seq(Entry) /\ n \in Nat /\ n <= Len(f.entries)
  BY DEF File
<1>2. QED
  BY <1>1, PrefixIsFile

(* What append_day has hashed so far is in the partial, as long as no clip is    *)
(* written while it is read.                                                     *)
LEMMA PackedStep ==
  ASSUME ~({"write_during_job", "rewrite"} \subseteq Behaviours),
         TypeInv, PackedIsThere, [Next]_vars
  PROVE  PackedIsThere'
<1> USE DEF TypeInv, disk, store, db, work, locals, NoFault, Goto
<1>1. CASE pc' \notin {"append", "checkpoint"}
  BY <1>1 DEF PackedIsThere
<1>2. CASE StartDay
  BY <1>2 DEF StartDay, PackedIsThere, NoHashes, Keys
<1>3. CASE PackClip
  <2>1. PICK b \in Live : /\ AppendEntry(b, src[b])
                          /\ packed' = [packed EXCEPT ![b] = src[b]]
    BY <1>3 DEF PackClip
  <2>2. partial \in File /\ [clip |-> b, ver |-> src[b]] \in Entry /\ pc = "append" /\ pc' = pc
    BY <1>3 DEF PackClip, TypeOK, Live, Hashes, Entry
  <2>3. /\ Len(partial'.entries) = Len(partial.entries) + 1
        /\ partial'.entries[Len(partial.entries) + 1] = [clip |-> b, ver |-> src[b]]
        /\ \A i \in 1..Len(partial.entries) : partial'.entries[i] = partial.entries[i]
    BY <2>1, <2>2, AppendKeeps DEF AppendEntry
  <2>4. Len(partial.entries) \in Nat
    BY <2>2 DEF File
  <2>5. ASSUME NEW c \in Keys(packed')
        PROVE  LastIn(partial', Len(partial'.entries), c, packed'[c])
    <3>1. CASE c = b
      <4>1. packed'[c] = src[b]
        BY <2>1, <3>1 DEF TypeOK, Hashes, Keys
      <4>2. Len(partial.entries) + 1 \in 1..Len(partial'.entries)
        BY <2>3, <2>4
      <4>3. \A j \in 1..Len(partial'.entries) : j <= Len(partial.entries) + 1
        BY <2>3, <2>4
      <4>4. QED
        BY <2>3, <3>1, <4>1, <4>2, <4>3 DEF LastIn
    <3>2. CASE c # b
      <4>1. c \in Keys(packed) /\ packed'[c] = packed[c]
        BY <2>1, <3>2 DEF TypeOK, Hashes, Keys
      <4>2. PICK i \in 1..Len(partial.entries) :
              /\ partial.entries[i] = [clip |-> c, ver |-> packed[c]]
              /\ \A j \in 1..Len(partial.entries) : partial.entries[j].clip = c => j <= i
        BY <2>2, <4>1 DEF PackedIsThere, LastIn
      <4>3. i \in 1..Len(partial'.entries)
        BY <2>3, <2>4
      <4>4. \A j \in 1..Len(partial'.entries) : partial'.entries[j].clip = c => j <= i
        <5> SUFFICES ASSUME NEW j \in 1..Len(partial'.entries), partial'.entries[j].clip = c
                     PROVE  j <= i
          OBVIOUS
        <5>1. j # Len(partial.entries) + 1
          BY <2>3, <3>2
        <5>2. j \in 1..Len(partial.entries)
          BY <2>3, <2>4, <5>1
        <5>3. QED
          BY <2>3, <4>2, <5>2
      <4>5. QED
        BY <2>3, <4>1, <4>2, <4>3, <4>4 DEF LastIn
    <3>3. QED
      BY <3>1, <3>2
  <2>6. QED
    BY <2>2, <2>5 DEF PackedIsThere
<1>4. CASE PackGrowingClip
  BY <1>4 DEF PackGrowingClip
<1>5. CASE EndDay
  BY <1>5 DEF EndDay, PackedIsThere
<1>6. CASE UNCHANGED <<pc, partial, packed, offset>>
  BY <1>6 DEF PackedIsThere
<1>7. \/ pc' \notin {"append", "checkpoint"}
      \/ StartDay \/ PackClip \/ PackGrowingClip \/ EndDay
      \/ UNCHANGED <<pc, partial, packed, offset>>
  BY Steps
  DEF SelectDue, SelectTarget, Scan, SkipExisting, ResumeFresh, ResumeMissing,
      ResumeShort, ResumeSaved, ResumeAt, PackFails, SaveCheckpoint, Promote,
      PromoteFails, VerifyPasses, VerifyRejects, VerifyErrs, Discard,
      DiscardCheckpoints, ClearCheckpoints, RecordArchive, RemoveDayDir,
      RemovalDone, StartRestore, RestoreEntry, RestoreFails, RestoreDone, SetPin,
      BackfillClip, RewriteClip, PurgeClip, Settle, Crash, Restart, Leave, vars
<1>8. QED
  BY <1>1, <1>2, <1>3, <1>4, <1>5, <1>6, <1>7

(* Every step whose statements succeed keeps the row of the last day true. *)
LEMMA LastRowStep ==
  ASSUME TypeInv, TypeInv', PackedIsThere, LastRow, [Next]_vars, "db" \notin suffered'
  PROVE  LastRow'
<1> USE DEF TypeInv, disk, store, db, work, locals, NoFault, Goto
<1>s. Saved' = {d \in Day : ckpt'[d].on}
  BY DEF Saved
\* Nothing the invariant is about has changed, or it has become void.
<1>k. ASSUME UNCHANGED ckpt,
             partial' = partial \/ partial' = NoFile,
             \/ pc' \notin {"pick", "append", "checkpoint"}
             \/ /\ pc' \in {"pick", "append", "checkpoint"}
                /\ pc \in {"pick", "append", "checkpoint"}
                /\ UNCHANGED <<offset, partial>>
      PROVE  LastRow'
  BY <1>k DEF LastRow, Saved, IsLast, RowDescribes, LastIn
<1>e. ASSUME Saved' = {} PROVE LastRow'
  BY <1>e DEF LastRow
<1>n. (ckpt' = [d \in Day |-> NoRow]) => Saved' = {}
  BY <1>s DEF NoRow
<1>1. CASE SelectDue \/ SelectTarget \/ Scan
  BY <1>1, <1>k DEF SelectDue, SelectTarget, Scan
<1>2. CASE SkipExisting \/ PromoteFails \/ VerifyErrs \/ RemovalDone
  BY <1>2, <1>k DEF SkipExisting, PromoteFails, VerifyErrs, RemovalDone, Leave
<1>3. CASE ResumeFresh
  <2>1. Saved = {} /\ ckpt' = ckpt
    BY <1>3 DEF ResumeFresh, Fault
  <2>2. QED
    BY <1>e, <2>1 DEF Saved
<1>4. CASE ResumeMissing
  BY <1>4, <1>e, <1>n DEF ResumeMissing, Fault
<1>5. CASE ResumeShort
  BY <1>5, <1>k DEF ResumeShort
<1>6. CASE ResumeSaved
  <2>1. PICK d \in Saved : IsLast(d, Saved) /\ ResumeAt(ckpt[d].off, SavedHashes)
    BY <1>6 DEF ResumeSaved
  <2>2. UNCHANGED <<ckpt, partial>> /\ offset' = ckpt[d].off /\ partial # NoFile
    BY <1>6, <2>1 DEF ResumeSaved, ResumeAt
  <2>3. \A e \in Saved : IsLast(e, Saved) => e = d
    BY <2>1, DayAssumption DEF IsLast, Saved
  <2>4. ckpt[d].off \in Nat
    BY DEF TypeOK, Saved, Row
  <2>5. QED
    BY <2>2, <2>3, <2>4 DEF LastRow, Saved, IsLast, RowDescribes, LastIn
<1>7. CASE StartDay
  <2>1. CASE Saved = {}
    BY <1>7, <1>e, <2>1 DEF StartDay, Saved
  <2>2. CASE \A d \in Saved : ~IsLast(d, Saved)
    BY <1>7, <2>2 DEF StartDay, LastRow, Saved, IsLast
  <2>3. CASE \E d \in Saved : IsLast(d, Saved)
    <3>1. partial # NoFile /\ partial \in File /\ Entries(partial) = partial.entries
      BY <1>7, <2>3 DEF StartDay, LastRow, TypeOK, Entries
    <3>2. offset \in 0..Len(partial.entries)
      BY <1>7, <3>1 DEF StartDay, AppendNeverExtends, TypeOK, File
    <3>3. /\ Len(partial'.entries) = offset
          /\ \A i \in 1..offset : partial'.entries[i] = partial.entries[i]
      BY <1>7, <3>1, <3>2, PrefixKeeps DEF StartDay
    <3>4. \A d \in Saved : IsLast(d, Saved) => ckpt[d].off <= offset /\ ckpt[d].off \in Nat
      BY <1>7 DEF StartDay, LastRow, TypeOK, Saved, Row
    <3>5. partial' # NoFile /\ ckpt' = ckpt /\ offset' = offset /\ offset \in Nat
      BY <1>7 DEF StartDay, TypeOK
    <3>6. \A d \in Saved : IsLast(d, Saved) =>
            \A i \in 1..ckpt[d].off : partial'.entries[i] = partial.entries[i]
      BY <3>3, <3>4, <3>5
    <3>7. \A d \in Saved' : IsLast(d, Saved') => RowDescribes(d)'
      BY <3>1, <3>3, <3>4, <3>5, <3>6, LastRowKept
    <3>8. QED
      BY <3>4, <3>5, <3>7 DEF LastRow, Saved, IsLast
  <2>4. QED
    BY <2>2, <2>3
<1>8. CASE PackClip
  <2>1. PICK b \in Live : AppendEntry(b, src[b])
    BY <1>8 DEF PackClip
  <2>2. partial \in File /\ [clip |-> b, ver |-> src[b]] \in Entry /\ partial # NoFile
    BY <1>8, NoFileAssumption DEF PackClip, TypeOK, Live, Hashes, Entry
  <2>3. /\ Len(partial'.entries) = Len(partial.entries) + 1
        /\ \A i \in 1..Len(partial.entries) : partial'.entries[i] = partial.entries[i]
    BY <2>1, <2>2, AppendKeeps DEF AppendEntry
  <2>4. Len(partial.entries) \in Nat /\ ckpt' = ckpt /\ offset' = offset
    BY <1>8, <2>2 DEF PackClip, File
  <2>5. partial' # NoFile
    BY <1>8 DEF PackClip, TypeOK
  <2>6. \A d \in Saved : IsLast(d, Saved) =>
          ckpt[d].off \in Nat /\ ckpt[d].off <= Len(partial.entries)
    BY <2>2 DEF LastRow, RowDescribes, TypeOK, Saved, Row
  <2>7. \A d \in Saved' : IsLast(d, Saved') => RowDescribes(d)'
    BY <2>2, <2>3, <2>4, <2>5, <2>6, LastRowKept
  <2>8. QED
    BY <1>8, <2>4, <2>5, <2>7 DEF PackClip, LastRow, Saved, IsLast
<1>9. CASE PackGrowingClip
  <2>1. PICK b \in Live : AppendEntry(b, Garbled)
    BY <1>9 DEF PackGrowingClip
  <2>2. partial \in File /\ [clip |-> b, ver |-> Garbled] \in Entry /\ partial # NoFile
    BY <1>9, NoFileAssumption, BoundAssumption
    DEF PackGrowingClip, TypeOK, Live, Garbled, Content, Entry
  <2>3. /\ Len(partial'.entries) = Len(partial.entries) + 1
        /\ \A i \in 1..Len(partial.entries) : partial'.entries[i] = partial.entries[i]
    BY <2>1, <2>2, AppendKeeps DEF AppendEntry
  <2>4. Len(partial.entries) \in Nat /\ ckpt' = ckpt /\ offset' = offset
    BY <1>9, <2>2 DEF PackGrowingClip, File
  <2>5. partial' # NoFile
    BY <1>9 DEF PackGrowingClip, TypeOK
  <2>6. \A d \in Saved : IsLast(d, Saved) =>
          ckpt[d].off \in Nat /\ ckpt[d].off <= Len(partial.entries)
    BY <2>2 DEF LastRow, RowDescribes, TypeOK, Saved, Row
  <2>7. \A d \in Saved' : IsLast(d, Saved') => RowDescribes(d)'
    BY <2>2, <2>3, <2>4, <2>5, <2>6, LastRowKept
  <2>8. QED
    BY <1>9, <2>4, <2>5, <2>7 DEF PackGrowingClip, LastRow, Saved, IsLast
<1>10. CASE PackFails
  <2>1. partial \in File /\ partial # NoFile /\ partial' \in File
    BY <1>10, NoFileAssumption DEF PackFails, TypeOK, File
  <2>2. partial'.entries = partial.entries /\ ckpt' = ckpt /\ partial' # NoFile
    BY <1>10, <2>1, NoFileAssumption DEF PackFails, File
  <2>3. \A d \in Saved' : IsLast(d, Saved') => RowDescribes(d)'
    BY <2>1, <2>2 DEF LastRow, RowDescribes, LastIn, Saved, IsLast
  <2>4. QED
    BY <1>10, <2>3 DEF PackFails, Leave, LastRow
<1>11. CASE EndDay
  <2>1. \A d \in Saved : IsLast(d, Saved) => partial # NoFile /\ ckpt[d].off <= offset'
    BY <1>11 DEF EndDay, LastRow, RowDescribes
  <2>2. QED
    BY <1>11, <2>1 DEF EndDay, LastRow, Saved, IsLast, RowDescribes, LastIn
<1>12. CASE SaveCheckpoint
  <2>1. ckpt' = [ckpt EXCEPT ![day] = [on |-> TRUE, off |-> offset, hashes |-> packed]]
    BY <1>12 DEF SaveCheckpoint, Fault
  <2>2. /\ pc = "checkpoint" /\ day \in Day /\ partial # NoFile /\ partial' = partial
        /\ offset' = offset /\ offset = Len(partial.entries) /\ offset \in Nat
    BY <1>12 DEF SaveCheckpoint, TypeOK, PackedIsThere
  <2>3. \A e \in Day : ckpt'[e] = IF e = day THEN [on |-> TRUE, off |-> offset, hashes |-> packed]
                                  ELSE ckpt[e]
    BY <2>1, <2>2 DEF TypeOK
  <2>4. \A c \in Keys(packed) : LastIn(partial, offset, c, packed[c])
    BY <2>2 DEF PackedIsThere
  <2>5. ASSUME NEW d \in Saved', IsLast(d, Saved')
        PROVE  RowDescribes(d)' /\ ckpt'[d].off <= offset
    <3>1. CASE d = day
      BY <2>2, <2>3, <2>4, <3>1 DEF RowDescribes, LastIn, Keys
    <3>2. CASE d # day
      <4>1. d \in Saved /\ IsLast(d, Saved) /\ ckpt'[d] = ckpt[d]
        BY <1>s, <2>3, <2>5, <3>2 DEF Saved, IsLast
      <4>2. RowDescribes(d) /\ ckpt[d].off <= offset
        BY <2>2, <4>1 DEF LastRow
      <4>3. QED
        BY <2>2, <4>1, <4>2 DEF RowDescribes, LastIn, Keys
    <3>3. QED
      BY <3>1, <3>2
  <2>6. QED
    BY <2>2, <2>5 DEF LastRow
<1>13. CASE Promote
  BY <1>13, <1>k DEF Promote
<1>14. CASE VerifyPasses \/ VerifyRejects \/ Discard
  BY <1>14, <1>k DEF VerifyPasses, VerifyRejects, Discard
<1>15. CASE DiscardCheckpoints \/ ClearCheckpoints
  BY <1>15, <1>e, <1>n DEF DiscardCheckpoints, ClearCheckpoints, Fault
<1>16. CASE RecordArchive
  BY <1>16, <1>k DEF RecordArchive, Leave
<1>17. CASE RemoveDayDir \/ StartRestore \/ RestoreEntry \/ RestoreFails \/ RestoreDone
  BY <1>17, <1>k
  DEF RemoveDayDir, StartRestore, RestoreEntry, RestoreFails, RestoreDone, Leave
<1>18. CASE SetPin \/ Settle \/ BackfillClip \/ RewriteClip \/ PurgeClip \/ UNCHANGED vars
  BY <1>18, <1>k DEF SetPin, Settle, BackfillClip, RewriteClip, PurgeClip, vars
<1>19. CASE Crash
  <2>1. CASE partial' = partial
    BY <1>19, <1>k, <2>1 DEF Crash, Leave
  <2>2. CASE pc = "append" /\ partial' # partial
    <3>1. partial \in File /\ Entries(partial) = partial.entries /\ partial # NoFile
      BY <2>2, NoFileAssumption DEF TypeOK, Entries
    <3>2. PICK n \in offset..Len(partial.entries), t \in BOOLEAN :
            partial' = [entries |-> SubSeq(partial.entries, 1, n), torn |-> t]
      BY <1>19, <2>2 DEF Crash
    <3>3. n \in 0..Len(partial.entries) /\ offset \in Nat /\ n \in Nat /\ offset <= n
      BY <3>1, <3>2 DEF TypeOK, File
    <3>4. /\ Len(partial'.entries) = n
          /\ \A i \in 1..n : partial'.entries[i] = partial.entries[i]
      BY <3>1, <3>2, <3>3, PrefixKeeps
    <3>5. \A d \in Saved : IsLast(d, Saved) => ckpt[d].off <= n /\ ckpt[d].off \in Nat
      <4>1. \A d \in Saved : ckpt[d].off \in Nat
        BY DEF TypeOK, Saved, Row
      <4>2. \A d \in Saved : IsLast(d, Saved) => ckpt[d].off <= offset
        BY <2>2 DEF LastRow
      <4>3. QED
        BY <3>3, <4>1, <4>2
    <3>6. \A d \in Saved : IsLast(d, Saved) =>
            \A i \in 1..ckpt[d].off : partial'.entries[i] = partial.entries[i]
      BY <3>3, <3>4, <3>5
    <3>7. partial' # NoFile /\ ckpt' = ckpt
      BY <1>19, <3>1, <3>2, <3>3, PrefixIsFile, NoFileAssumption DEF Crash
    <3>8. \A d \in Saved' : IsLast(d, Saved') => RowDescribes(d)'
      BY <3>1, <3>4, <3>5, <3>6, <3>7, LastRowKept
    <3>9. QED
      BY <1>19, <3>8 DEF Crash, Leave, LastRow
  <2>3. QED
    BY <1>19, <2>1, <2>2 DEF Crash
<1>20. CASE Restart
  <2>1. /\ pc' = "idle"
        /\ partial' = partial \/ partial' = NoFile
        /\ ckpt' = ckpt \/ ckpt' = [d \in Day |-> NoRow]
    BY <1>20 DEF Restart
  <2>2. QED
    BY <1>20, <1>e, <1>k, <1>n, <2>1 DEF Restart
<1>21. QED
  BY <1>1, <1>2, <1>3, <1>4, <1>5, <1>6, <1>7, <1>8, <1>9, <1>10, <1>11, <1>12,
     <1>13, <1>14, <1>15, <1>16, <1>17, <1>18, <1>19, <1>20, Steps

(* A kind of fault once met stays met. *)
LEMMA SufferedGrows == [Next]_vars => suffered \subseteq suffered'
<1> SUFFICES ASSUME [Next]_vars PROVE suffered \subseteq suffered'
  OBVIOUS
<1> USE DEF Fault, NoFault
<1>1. QED
  BY Steps
  DEF SelectDue, SelectTarget, Scan, SkipExisting, ResumeFresh, ResumeMissing,
      ResumeShort, ResumeSaved, StartDay, PackClip, PackGrowingClip, PackFails,
      EndDay, SaveCheckpoint, Promote, PromoteFails, VerifyPasses, VerifyRejects,
      VerifyErrs, Discard, DiscardCheckpoints, ClearCheckpoints, RecordArchive,
      RemoveDayDir, RemovalDone, StartRestore, RestoreEntry, RestoreFails,
      RestoreDone, SetPin, BackfillClip, RewriteClip, PurgeClip, Settle, Crash,
      Restart, vars

(* db.rs:334-336: a row is never early.  Nothing is assumed but that no clip is  *)
(* rewritten under the job's hands: a hash taken then is of other bytes.          *)
THEOREM RowsNeverEarly ==
  ASSUME ~({"write_during_job", "rewrite"} \subseteq Behaviours)
  PROVE  Spec => []CheckpointsDescribePartial
<1>1. TypeInv /\ CkptInv => CheckpointsDescribePartial
  <2> SUFFICES ASSUME TypeInv, CkptInv, "db" \notin suffered, partial # NoFile,
                      NEW d \in Saved, IsLast(d, Saved)
               PROVE  /\ ckpt[d].off <= Len(partial.entries)
                      /\ \A c \in Keys(ckpt[d].hashes) :
                           Holds([entries |-> SubSeq(partial.entries, 1, ckpt[d].off)],
                                 c, ckpt[d].hashes[c])
    BY DEF CheckpointsDescribePartial
  <2>1. RowDescribes(d)
    BY DEF CkptInv, LastRow
  <2>2. partial \in File /\ ckpt[d].off \in 0..Len(partial.entries)
    BY <2>1 DEF TypeInv, TypeOK, RowDescribes, Saved, Row, File
  <2>3. \A c \in Keys(ckpt[d].hashes) : c \in Clip /\ ckpt[d].hashes[c] \in Content
    BY DEF TypeInv, TypeOK, Saved, Row, Hashes, Keys
  <2>4. QED
    BY <2>1, <2>2, <2>3, LastInHolds DEF RowDescribes
<1>2. TypeInv /\ CkptInv /\ [Next]_vars => CkptInv'
  <2> SUFFICES ASSUME TypeInv, CkptInv, [Next]_vars PROVE CkptInv'
    OBVIOUS
  <2>1. PackedIsThere'
    BY PackedStep DEF CkptInv
  <2>2. ASSUME "db" \notin suffered' PROVE LastRow'
    BY <2>2, LastRowStep, TypeInvStep, SufferedGrows DEF CkptInv
  <2>3. QED
    BY <2>1, <2>2 DEF CkptInv
<1>3. Init => CkptInv
  BY DEF Init, CkptInv, PackedIsThere, LastRow
<1>4. QED
  BY <1>1, <1>2, <1>3, InitTypeInv, TypeInvStep, PTL DEF Spec

(***************************************************************************)
(* The abstract specification.  FootageSafe knows two copies of a clip;    *)
(* each step of the pipeline is one of its steps or changes neither copy.  *)
(***************************************************************************)

(* A set of numbers below a bound that is not empty has a largest one. *)
LEMMA LargestBelow ==
  ASSUME NEW n \in Nat, NEW S, S \subseteq 1..n, S # {}
  PROVE  \E i \in S : \A j \in S : j <= i
<1> DEFINE T == {k \in Nat : n - k \in S}
<1>1. PICK s \in S : TRUE
  OBVIOUS
<1>2. n - s \in Nat /\ n - (n - s) = s
  OBVIOUS
<1>3. T \subseteq Nat /\ T # {}
  BY <1>1, <1>2
<1>4. PICK k \in T : \A m \in T : ~(<<m, k>> \in OpToRel(<, Nat))
  BY <1>3, NatLessThanWellFounded, WFMin
<1>5. \A m \in T : ~(m < k)
  BY <1>4 DEF OpToRel
<1>6. ASSUME NEW j \in S PROVE j <= n - k
  <2>1. n - j \in Nat /\ n - (n - j) = j
    OBVIOUS
  <2>2. n - j \in T
    BY <2>1
  <2>3. ~(n - j < k)
    BY <1>5, <2>2
  <2>4. QED
    BY <2>1, <2>3
<1>7. n - k \in S
  OBVIOUS
<1>8. QED
  BY <1>6, <1>7

(* Of a clip's entries in a file, one is the last. *)
LEMMA LastEntry ==
  ASSUME NEW f \in File, NEW i \in DOMAIN f.entries
  PROVE  \E v \in Content : Holds(f, f.entries[i].clip, v)
<1> DEFINE c == f.entries[i].clip
           S == {j \in 1..Len(f.entries) : f.entries[j].clip = c}
<1>1. /\ f.entries \in Seq(Entry) /\ Len(f.entries) \in Nat
      /\ DOMAIN f.entries = 1..Len(f.entries)
  BY DEF File
<1>2. i \in S
  BY <1>1
<1>3. PICK l \in S : \A j \in S : j <= l
  <2> HIDE DEF S
  <2>1. S \subseteq 1..Len(f.entries)
    BY DEF S
  <2>2. QED
    BY <1>1, <1>2, <2>1, LargestBelow
<1>4. f.entries[l] \in Entry /\ f.entries[l].clip = c
  BY <1>1, <1>3
<1>5. f.entries[l] = [clip |-> c, ver |-> f.entries[l].ver] /\ f.entries[l].ver \in Content
  BY <1>4 DEF Entry
<1>6. \A j \in DOMAIN f.entries : f.entries[j].clip = c => j <= l
  BY <1>1, <1>3
<1>7. Holds(f, c, f.entries[l].ver)
  BY <1>1, <1>5, <1>6 DEF Holds
<1>8. QED
  BY <1>5, <1>7

(* A file has one last entry of a clip at most. *)
LEMMA HoldsOne ==
  ASSUME NEW f \in File, NEW c, NEW v, NEW w, Holds(f, c, v), Holds(f, c, w)
  PROVE  v = w
<1>1. DOMAIN f.entries \subseteq Nat
  BY DEF File
<1>2. PICK i \in DOMAIN f.entries :
        /\ f.entries[i] = [clip |-> c, ver |-> v]
        /\ \A j \in DOMAIN f.entries : f.entries[j].clip = c => j <= i
  BY DEF Holds
<1>3. PICK k \in DOMAIN f.entries :
        /\ f.entries[k] = [clip |-> c, ver |-> w]
        /\ \A j \in DOMAIN f.entries : f.entries[j].clip = c => j <= k
  BY DEF Holds
<1>4. f.entries[i].clip = c /\ f.entries[k].clip = c
  BY <1>2, <1>3
<1>5. k <= i /\ i <= k /\ i \in Nat /\ k \in Nat
  BY <1>1, <1>2, <1>3, <1>4
<1>6. i = k
  BY <1>5
<1>7. [clip |-> c, ver |-> v] = [clip |-> c, ver |-> w]
  BY <1>2, <1>3, <1>6
<1>8. [clip |-> c, ver |-> v].ver = v /\ [clip |-> c, ver |-> w].ver = w
  OBVIOUS
<1>9. QED
  BY <1>7, <1>8

(* The stored copy is what the tar holds, 0 when it holds nothing of the clip. *)
LEMMA StoredCopyIs ==
  ASSUME tar \in File \cup {NoFile}, NEW c \in Clip
  PROVE  /\ StoredCopy(c) \in 0..(MaxVer + 1)
         /\ \A v \in Content : tar # NoFile /\ Holds(tar, c, v) => StoredCopy(c) = v
         /\ tar = NoFile \/ (\A v \in Content : ~Holds(tar, c, v)) => StoredCopy(c) = 0
<1>1. CASE tar = NoFile \/ (\A v \in Content : ~Holds(tar, c, v))
  <2>1. StoredCopy(c) = 0
    BY <1>1 DEF StoredCopy
  <2>2. 0 \in 0..(MaxVer + 1)
    BY BoundAssumption
  <2>3. QED
    BY <1>1, <2>1, <2>2
<1>2. CASE tar # NoFile /\ \E v \in Content : Holds(tar, c, v)
  <2>1. StoredCopy(c) = CHOOSE v \in Content : Holds(tar, c, v)
    BY <1>2 DEF StoredCopy
  <2>2. StoredCopy(c) \in Content /\ Holds(tar, c, StoredCopy(c))
    BY <1>2, <2>1
  <2>3. StoredCopy(c) \in 0..(MaxVer + 1)
    BY <2>2, BoundAssumption DEF Content
  <2>4. QED
    BY <1>2, <2>2, <2>3, HoldsOne
<1>3. QED
  BY <1>1, <1>2

(* A step that leaves the tar alone leaves every stored copy alone. *)
LEMMA SameStored ==
  ASSUME tar \in File \cup {NoFile}, tar' = tar
  PROVE  [c \in Clip |-> StoredCopy(c)]' = [c \in Clip |-> StoredCopy(c)]
<1>1. ASSUME NEW c \in Clip PROVE StoredCopy(c)' = StoredCopy(c)
  BY DEF StoredCopy, Holds
<1>2. QED
  BY <1>1

(* The tar appears, or goes away, while every last version is live. *)
LEMMA TarChanges ==
  ASSUME TypeInv', UNCHANGED <<src, newest>>,
         \A c \in Clip : newest[c] # 0 => src[c] = newest[c]
  PROVE  Footage!ChangeArchive
<1>1. 0 \in 0..(MaxVer + 1) /\ Content \subseteq 0..(MaxVer + 1)
  BY BoundAssumption DEF Content
<1>2. ASSUME NEW c \in Clip PROVE StoredCopy(c)' \in 0..(MaxVer + 1)
  <2>1. CASE tar' = NoFile \/ \A v \in Content : ~Holds(tar', c, v)
    BY <1>1, <2>1 DEF StoredCopy
  <2>2. CASE tar' # NoFile /\ \E v \in Content : Holds(tar', c, v)
    <3>1. StoredCopy(c)' = CHOOSE v \in Content : Holds(tar', c, v)
      BY <2>2 DEF StoredCopy
    <3>2. StoredCopy(c)' \in Content
      BY <2>2, <3>1
    <3>3. QED
      BY <1>1, <3>2
  <2>3. QED
    BY <2>1, <2>2
<1>3. [c \in Clip |-> StoredCopy(c)]' \in [Clip -> 0..(MaxVer + 1)]
  BY <1>2
<1>4. QED
  BY <1>3 DEF Footage!ChangeArchive, Footage!Copy

(* Live copies go or come back, and nothing is lost. *)
LEMMA LiveChanges ==
  ASSUME TypeInv, TypeInv', NothingLost', UNCHANGED <<tar, newest>>,
         \A c \in Clip : src'[c] \in {src[c], 0, StoredCopy(c)}
  PROVE  Footage!ChangeLive
<1>1. [c \in Clip |-> StoredCopy(c)]' = [c \in Clip |-> StoredCopy(c)]
  BY SameStored DEF TypeInv, TypeOK
<1>2. src' \in [Clip -> 0..(MaxVer + 1)]
  BY BoundAssumption DEF TypeInv, TypeOK, Hashes, Content
<1>3. ASSUME NEW c \in Clip, newest[c] # 0
      PROVE  src'[c] = newest[c] \/ StoredCopy(c) = newest[c]
  <2>1. src'[c] = newest[c] \/ (tar # NoFile /\ Holds(tar, c, newest[c]))
    BY <1>3 DEF NothingLost, Kept, Holds
  <2>2. newest[c] \in Content
    BY <1>3, BoundAssumption DEF TypeInv, TypeOK, Content
  <2>3. tar # NoFile /\ Holds(tar, c, newest[c]) => StoredCopy(c) = newest[c]
    BY <2>2, StoredCopyIs DEF TypeInv, TypeOK
  <2>4. QED
    BY <2>1, <2>3
<1>4. QED
  BY <1>1, <1>2, <1>3 DEF Footage!ChangeLive, Footage!Copy, Footage!Kept

(* The first states map to first states. *)
LEMMA InitFootage == Init => Footage!Init
<1> SUFFICES ASSUME Init PROVE Footage!Init
  OBVIOUS
<1>1. src \in [Clip -> 0..(MaxVer + 1)] /\ newest = src
  BY BoundAssumption DEF Init
<1>2. \A c \in Clip : StoredCopy(c) = 0
  BY DEF Init, StoredCopy
<1>3. QED
  BY <1>1, <1>2 DEF Footage!Init, Footage!Copy

(* Every step is a step of FootageSafe or changes neither copy. *)
LEMMA FootageStep ==
  ASSUME Polite, TypeInv, Accounted, SafeInv, TypeInv', SafeInv', [Next]_vars
  PROVE  [Footage!Next]_(Footage!vars)
<1> USE DEF TypeInv, disk, store, NoFault
<1>1. CASE UNCHANGED <<src, newest, tar>>
  <2>1. [c \in Clip |-> StoredCopy(c)]' = [c \in Clip |-> StoredCopy(c)]
    BY <1>1, SameStored DEF TypeOK
  <2>2. QED
    BY <1>1, <2>1 DEF Footage!vars
<1>2. CASE Promote \/ Discard
  <2>1. /\ UNCHANGED <<src, newest>>
        /\ \A c \in Clip : newest[c] # 0 => src[c] = newest[c]
    BY <1>2 DEF Promote, Discard, SafeInv, StillLive
  <2>2. QED
    BY <2>1, TarChanges DEF Footage!Next
<1>3. CASE RemoveDayDir
  <2>1. \A c \in Clip : src'[c] \in {src[c], 0, StoredCopy(c)}
    BY <1>3 DEF RemoveDayDir, TypeOK, Hashes
  <2>2. UNCHANGED <<tar, newest>> /\ NothingLost'
    BY <1>3 DEF RemoveDayDir, SafeInv
  <2>3. QED
    BY <2>1, <2>2, LiveChanges DEF Footage!Next
<1>4. CASE RestoreEntry
  <2>1. /\ tar # NoFile /\ tar \in File /\ pos \in DOMAIN tar.entries
        /\ src' = [src EXCEPT ![tar.entries[pos].clip] = tar.entries[pos].ver]
    BY <1>4 DEF RestoreEntry, TypeOK
  <2> DEFINE e == tar.entries[pos]
  <2>2. e.clip \in Clip /\ e.ver = 1
    <3>1. e \in Entry
      BY <2>1 DEF File
    <3>2. e.clip \in Clip
      BY <3>1 DEF Entry
    <3>3. e.ver = 1
      BY <2>1 DEF SafeInv, Once, OnceIn
    <3>4. QED
      BY <3>2, <3>3
  <2>3. PICK v \in Content : Holds(tar, e.clip, v)
    BY <2>1, LastEntry
  <2>4. v = 1
    BY <2>1, <2>3 DEF Holds, SafeInv, Once, OnceIn
  <2>5. StoredCopy(e.clip) = 1
    BY <2>1, <2>2, <2>3, <2>4, StoredCopyIs
  <2>6. \A c \in Clip : src'[c] \in {src[c], 0, StoredCopy(c)}
    BY <2>1, <2>2, <2>5 DEF TypeOK, Hashes
  <2>7. UNCHANGED <<tar, newest>> /\ NothingLost'
    BY <1>4 DEF RestoreEntry, SafeInv
  <2>8. QED
    BY <2>6, <2>7, LiveChanges DEF Footage!Next
<1>5. CASE BackfillClip
  <2>1. PICK c \in Clip : /\ newest[c] = 0
                          /\ src' = [src EXCEPT ![c] = 1]
                          /\ newest' = [newest EXCEPT ![c] = 1]
    BY <1>5 DEF BackfillClip
  <2>2. [k \in Clip |-> StoredCopy(k)]' = [k \in Clip |-> StoredCopy(k)]
    BY <1>5, SameStored DEF BackfillClip, TypeOK
  <2>3. newest[c] < MaxVer /\ newest[c] + 1 = 1
    BY <2>1, BoundAssumption
  <2>4. newest' = [newest EXCEPT ![c] = newest[c] + 1]
        /\ src' = [src EXCEPT ![c] = newest[c] + 1]
    BY <2>1, <2>3
  <2>5. Footage!Write(c)
    BY <2>2, <2>3, <2>4 DEF Footage!Write
  <2>6. QED
    BY <2>5 DEF Footage!Next
<1>6. CASE PurgeClip
  <2>1. PICK c \in Live : /\ src' = [src EXCEPT ![c] = 0]
                          /\ newest' = [newest EXCEPT ![c] = 0]
    BY <1>6 DEF PurgeClip
  <2>2. [k \in Clip |-> StoredCopy(k)]' = [k \in Clip |-> StoredCopy(k)]
    BY <1>6, SameStored DEF PurgeClip, TypeOK
  <2>3. Footage!Expire(c) /\ c \in Clip
    BY <2>1, <2>2 DEF Footage!Expire, Live
  <2>4. QED
    BY <2>3 DEF Footage!Next
<1>7. \/ UNCHANGED <<src, newest, tar>>
      \/ Promote \/ Discard \/ RemoveDayDir \/ RestoreEntry \/ BackfillClip \/ PurgeClip
  BY Steps
  DEF Polite, SelectDue, SelectTarget, Scan, SkipExisting, ResumeFresh, ResumeMissing,
      ResumeShort, ResumeSaved, StartDay, PackClip, PackGrowingClip, PackFails, EndDay,
      SaveCheckpoint, PromoteFails, VerifyPasses, VerifyRejects, VerifyErrs,
      DiscardCheckpoints, ClearCheckpoints, RecordArchive, RemovalDone,
      StartRestore, RestoreFails, RestoreDone, SetPin, RewriteClip, Settle, Crash,
      Restart, vars
<1>8. QED
  BY <1>1, <1>2, <1>3, <1>4, <1>5, <1>6, <1>7

(* The pipeline implements FootageSafe: it never gives up one copy of the last *)
(* version of a clip without having the other.                                 *)
THEOREM RefinesFootageSafe ==
  ASSUME Polite
  PROVE  Spec => ImplementsFootageSafe
<1>1. TypeInv /\ Accounted /\ SafeInv /\ [Next]_vars => SafeInv'
  BY SafeInvStep
<1>2. TypeInv /\ Accounted /\ SafeInv /\ TypeInv' /\ SafeInv' /\ [Next]_vars
        => [Footage!Next]_(Footage!vars)
  BY FootageStep
<1>3. TypeInv => TypeOK
  BY DEF TypeInv
<1>4. QED
  BY <1>1, <1>2, <1>3, InitTypeInv, TypeInvStep, InitAccounted, AccountedStep,
     InitSafeInv, InitFootage, PTL
  DEF Spec, ImplementsFootageSafe, Footage!Spec

=============================================================================

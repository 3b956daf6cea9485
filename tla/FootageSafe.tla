---------------------------- MODULE FootageSafe ----------------------------
(***************************************************************************)
(* What the archive pipeline promises about a camera-month, without saying *)
(* how: each clip has a live copy, a copy in the archive, or both, and the *)
(* manager never gives up one copy of the version the backup service last  *)
(* wrote unless it has the other.  ArchiveRun implements this.             *)
(***************************************************************************)
EXTENDS Naturals

CONSTANTS Clip, MaxVer

VARIABLES
  live,    \* clip -> version in the live directory, 0 when absent
  stored,  \* clip -> version in the month's archive, 0 when absent
  newest   \* clip -> last version the backup service wrote, 0 when none

vars == <<live, stored, newest>>

Copy == 0..(MaxVer + 1)

Init == /\ live \in [Clip -> Copy]
        /\ newest = live
        /\ stored = [c \in Clip |-> 0]

\* The last version written of c is in one of the two places.
Kept(c, l, s, n) == n[c] # 0 => l[c] = n[c] \/ s[c] = n[c]

\* The backup service writes a clip.
Write(c) ==
  /\ newest[c] < MaxVer
  /\ newest' = [newest EXCEPT ![c] = @ + 1]
  /\ live' = [live EXCEPT ![c] = newest[c] + 1]
  /\ UNCHANGED stored

\* The backup service's own retention drops a clip.
Expire(c) ==
  /\ newest' = [newest EXCEPT ![c] = 0]
  /\ live' = [live EXCEPT ![c] = 0]
  /\ UNCHANGED stored

\* The archive appears, or one that was never relied on goes away.
ChangeArchive ==
  /\ stored' \in [Clip -> Copy]
  /\ \A c \in Clip : newest[c] # 0 => live[c] = newest[c]
  /\ UNCHANGED <<live, newest>>

\* Live copies are removed, or brought back from the archive.
ChangeLive ==
  /\ live' \in [Clip -> Copy]
  /\ \A c \in Clip : live'[c] \in {live[c], 0, stored[c]}
  /\ \A c \in Clip : Kept(c, live', stored, newest)
  /\ UNCHANGED <<stored, newest>>

Next == \/ \E c \in Clip : Write(c) \/ Expire(c)
        \/ ChangeArchive
        \/ ChangeLive

Spec == Init /\ [][Next]_vars
=============================================================================

--------------------------- MODULE MCArchiveRun ---------------------------
(* ArchiveRun on a month of two days: clip 1 on day 1, clips 2 and 3 on day 2. *)
EXTENDS ArchiveRun

MCClip  == 1..3
MCDay   == 1..2
MCDayOf == [c \in MCClip |-> IF c = 1 THEN 1 ELSE 2]
=============================================================================

---------------------------- MODULE MCMediaCache ----------------------------
(* MediaCache with three requests.  Two clips are on disk; the file of the second has a
   name that is no clip's id.  The third has still to come; browsers play it, and if they
   are thought not to, its file has the name of the first one's. *)
EXTENDS MediaCache

CONSTANTS r1, r2, r3, c1, c2, c3, name

MCSafeName == [c \in {c1, c2, c3} |-> IF c = c2 THEN name ELSE c1]
MCStored == {{c1, c2}}

Asking(clip1, clip2, clip3) ==
  [r \in {r1, r2, r3} |-> CASE r = r1 -> clip1 [] r = r2 -> clip2 [] r = r3 -> clip3]

MCWanted == {Asking(c1, c1, c3), Asking(c1, c2, c3)}
=============================================================================

---------------------------- MODULE MCEventIndex ----------------------------
(* EventIndex with one event: one that is recorded with its container picked, one that
   is backed up with one of two containers picked, one that has still to happen with
   no container picked. *)
EXTENDS EventIndex

CONSTANTS e1, k1, k2

MCStart == {[up |-> [e \in {e1} |-> "event"], exists |-> {k1}, picked |-> k1],
            [up |-> [e \in {e1} |-> "clip"], exists |-> {k1, k2}, picked |-> k1],
            [up |-> [e \in {e1} |-> "absent"], exists |-> {k1}, picked |-> NoContainer]}
=============================================================================

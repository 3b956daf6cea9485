----------------------------- MODULE MCJobBoard -----------------------------
(* JobBoard with a few interchangeable requests. *)
EXTENDS JobBoard, TLC

Requests == Permutations(Run)
=============================================================================

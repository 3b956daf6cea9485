------------------------------ MODULE MCJobRuns ------------------------------
(* JobRuns with a few interchangeable requests. *)
EXTENDS JobRuns, TLC

Requests == Permutations(Run)
=============================================================================

------------------------------ MODULE MCSignIn ------------------------------
(* SignIn with two clients, two worker threads and two sessions, the delays scaled down
   so that blocks grow, expire and are forgotten within the last instant: behaviours of
   many wrong passwords, and behaviours of several sign-ins. *)
EXTENDS SignIn, TLC

CONSTANTS c1, c2, w1, w2, s1, s2

MCPlan == {[wrong |-> 8, right |-> 0], [wrong |-> 3, right |-> 1], [wrong |-> 0, right |-> 2]}

MCSymmetry == Permutations({c1, c2}) \cup Permutations({w1, w2}) \cup Permutations({s1, s2})
=============================================================================

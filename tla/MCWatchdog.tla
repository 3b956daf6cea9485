----------------------------- MODULE MCWatchdog -----------------------------
(* Watchdog with a grace period of one turn and a cooldown of three. *)
EXTENDS Watchdog

MCConfigs == {[enabled |-> on, auto |-> auto, grace |-> 1, cooldown |-> 3] :
                on \in BOOLEAN, auto \in {TRUE}}
=============================================================================

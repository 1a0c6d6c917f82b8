---------------------------- MODULE MCHeartbeatWake ----------------------------
(* Three requests for two targets: the ticking interval, an action that goes *)
(* at once and outranks it, and one for another target, for TLC.            *)
EXTENDS HeartbeatWake

MCTarget == [r \in Requests |-> IF r = "other" THEN "t2" ELSE "t1"]
MCPriority == [r \in Requests |-> IF r = "action" THEN 3 ELSE 1]
MCDelay == [r \in Requests |-> IF r = "action" THEN 0 ELSE 1]
=============================================================================

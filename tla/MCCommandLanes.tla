--------------------------- MODULE MCCommandLanes ---------------------------
(* Model values and a small instance for CommandLanes.                     *)
EXTENDS CommandLanes

CONSTANTS main, probe,  \* two lanes
          a1, a2, b1    \* entries: two for main, both timed, one for probe

MCLaneOf == [e \in Entries |-> IF e = b1 THEN probe ELSE main]
=============================================================================

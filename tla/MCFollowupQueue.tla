--------------------------- MODULE MCFollowupQueue ---------------------------
(* Small sessions for TLC.  a and b come from one sender on one route, c from   *)
(* another sender, r on another route; s carries runtime-only metadata.         *)
EXTENDS FollowupQueue

MCRoute == [m \in Msgs |-> IF m = "r" THEN "other" ELSE "here"]
MCSender == [m \in Msgs |-> IF m = "c" THEN "guest" ELSE "owner"]

MCSettings(modes, caps, drops) == [mode : modes, cap : caps, drop : drops]

\* A session that turns messages away; one that drops old or new ones and one
\* that summarizes, each in either mode; one that drops old ones.
Refusing == {MCSettings({"followup", "collect"}, {2}, {"new"})}
Dissolving == {MCSettings({"followup", "collect"}, {1, 2}, {"old", "new"}),
               MCSettings({"followup", "collect"}, {1, 2}, {"summarize"})}
DroppingOld == {MCSettings({"followup"}, {2}, {"old"})}
=============================================================================

--------------------------- MODULE MCDeliveryQueue ---------------------------
(* A message of any kind, or of one kind.                                      *)
EXTENDS DeliveryQueue

AllKinds == SUBSET {"bestEffort", "required", "reconciles"}
Swallowing == {{"bestEffort"}}
=============================================================================

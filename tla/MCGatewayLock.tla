--------------------------- MODULE MCGatewayLock ---------------------------
(* A few processes that serve on one port, for TLC. *)
EXTENDS GatewayLock

SamePort == [p \in Procs |-> CHOOSE n \in Ports : TRUE]
=============================================================================

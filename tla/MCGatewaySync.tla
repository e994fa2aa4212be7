--------------------------- MODULE MCGatewaySync ---------------------------
(* Model values for GatewaySync: one service on one Kong, and two syncs. *)
EXTENDS GatewaySync

CONSTANTS a, w1, w2

MCSite == [n \in Names |-> n]
=============================================================================

------------------------ MODULE MCIntegrationAccess ------------------------
(* Model values for IntegrationAccess, and what is watched. *)
EXTENDS IntegrationAccess

CONSTANTS s1, s2, x, h1

(* Two decisions on different details.  Once the second service has its      *)
(* connection, no handler goes on: what it would grant of one service is     *)
(* watched while the other has none.                                       *)
Watched ==
    /\ Cardinality(reviewed) <= 2
    /\ record[s2].exists => \A e \in Handlers : handler[e].pc \in {"idle", "posted"}
=============================================================================

---------------------------- MODULE MCConnection ----------------------------
(* Model values for Connection. *)
EXTENDS Connection

CONSTANTS c1, c2

OneCaller == {c1}
TwoCallers == {c1, c2}
=============================================================================

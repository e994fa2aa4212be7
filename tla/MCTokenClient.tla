--------------------------- MODULE MCTokenClient ---------------------------
(* Model values for TokenClient. *)
EXTENDS TokenClient

CONSTANTS c1, c2

TwoCallers == {c1, c2}
=============================================================================

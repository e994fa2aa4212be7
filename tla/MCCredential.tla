---------------------------- MODULE MCCredential ----------------------------
(* Model values for Credential. *)
EXTENDS Credential, TLC

CONSTANTS w1, w2

TwoWorkers == {w1, w2}

(* Bound: nothing goes on where handlers have overlapped and, besides, one   *)
(* met another attempt's credential or a failure was not looked at.         *)
Watched == ~(history.overlapped /\ (history.astray \/ history.dirty))

Symmetry == Permutations(TwoWorkers)
=============================================================================

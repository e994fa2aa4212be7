---------------------------- MODULE MCNamespace ----------------------------
(* Model values for Namespace: one unit of the data catalogue and one unit  *)
(* of another organization, two requests that overlap.                      *)
EXTENDS Namespace, TLC

CONSTANTS u1, u2, s1, s2

(* What arrives during a delete concerns neither the attributes nor the     *)
(* permissions: it is watched until something was assigned or undone.       *)
Watched == ~(history.late /\ (history.lost \/ history.assigned))

Symmetry == Permutations({s1, s2})
=============================================================================

----------------------------- MODULE MCSdxKeys -----------------------------
(* Model values for SdxKeys: three kids and three public keys, two of the   *)
(* kids being the indexed ones, two handlers that overlap.                  *)
EXTENDS SdxKeys, TLC

CONSTANTS k0, k1, k2, m1, m2, m3, h1, h2

MCKids == {k0, k1, k2}
MCMaterials == {m1, m2, m3}
MCIndexKid == <<k0, k1>>
MCHandlers == {h1, h2}
MCSuppliedNone == {}
MCSuppliedAll == MCKids

(* Handlers and public keys are interchangeable; kids are not. *)
Symmetry == Permutations(MCHandlers) \cup Permutations(MCMaterials)
=============================================================================

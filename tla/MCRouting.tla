----------------------------- MODULE MCRouting -----------------------------
(***************************************************************************)
(* EnvelopeRouting for TLC. No definition tells one holder or one route     *)
(* from another, and every property is about all of them.                   *)
(***************************************************************************)
EXTENDS EnvelopeRouting, TLC

Symmetry == Permutations(Holders) \cup Permutations(Routes)
=============================================================================

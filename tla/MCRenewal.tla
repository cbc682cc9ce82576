----------------------------- MODULE MCRenewal -----------------------------
(* Callers are alike. *)
EXTENDS Renewal, TLC

Symmetry == Permutations(Callers)
=============================================================================

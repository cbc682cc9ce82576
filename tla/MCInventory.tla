----------------------------- MODULE MCInventory -----------------------------
(* A small shop for TLC. *)
EXTENDS Inventory, TLC

CONSTANTS here, there, s1, s2

Interchangeable == Permutations(Locations) \cup Permutations(Sweepers)
=============================================================================

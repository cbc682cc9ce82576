------------------------------ MODULE MCOrder ------------------------------
(* One order of one or two lines, for TLC. *)
EXTENDS Order, TLC

CONSTANTS c1, c2, s1, s2, shirt, box

Two     == [l \in Lines |-> 2]
One     == [l \in Lines |-> 1]
Shirts  == (shirt :> 1) @@ (box :> 0)
Symmetry == Permutations(Staff) \cup Permutations(Changes)
=============================================================================

------------------------------ MODULE MCPayment ------------------------------
(* One order and the staff that work on it, for TLC. *)
EXTENDS Payment

CONSTANTS w1, w2
=============================================================================

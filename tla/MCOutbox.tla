------------------------------ MODULE MCOutbox ------------------------------
(* Two rows, numbered by created_at. *)
EXTENDS Outbox

Written == 1 .. 2
=============================================================================

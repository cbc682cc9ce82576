----------------------------- MODULE MCWorkflow -----------------------------
(* Small plans and passes for TLC. *)
EXTENDS Workflow

CONSTANTS c1, c2, l1

\* A step, then one that reaches a provider.
Pair  == <<1, 2>>
\* Two steps at once, then a last one.
Fork  == <<1, 1, 2>>
=============================================================================

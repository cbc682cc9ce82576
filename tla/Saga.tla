-------------------------------- MODULE Saga --------------------------------
(***************************************************************************)
(* What a workflow run promises, whoever drives it and however often the   *)
(* drivers die (src/workflow.rs, its module documentation): each step      *)
(* takes effect at most once and in order; when one fails, what took       *)
(* effect is undone, once and latest first; and a run that says how it     *)
(* ended says so once, and truly.                                          *)
(***************************************************************************)
EXTENDS Integers

CONSTANTS N, SlotOf

Steps == 1 .. N

VARIABLES
    phase,    \* how far the run is
    stands,   \* 1 for a step whose effect stands, 0 for one whose does not
    passed,   \* steps the run has gone past
    stuck     \* steps whose compensation was refused and written down

vars == <<phase, stands, passed, stuck>>

Init ==
    /\ phase = "none"
    /\ stands = [s \in Steps |-> 0]
    /\ passed = {}
    /\ stuck = {}

Begin ==
    /\ phase = "none"
    /\ phase' = "running"
    /\ UNCHANGED <<stands, passed, stuck>>

\* A step takes effect, or the run goes past it, or both; every step of the
\* slots before it is behind the run.
Perform(s) ==
    /\ phase = "running"
    /\ s \notin passed
    /\ \A t \in Steps : SlotOf[t] < SlotOf[s] => t \in passed
    /\ \E e \in {stands[s], 1} : stands' = [stands EXCEPT ![s] = e]
    /\ passed' \in {passed, passed \cup {s}}
    /\ UNCHANGED <<phase, stuck>>

\* The run stops at a step that waits for somebody.
Park ==
    /\ phase = "running"
    /\ passed # Steps
    /\ phase' = "waiting"
    /\ UNCHANGED <<stands, passed, stuck>>

Finish ==
    /\ phase = "running"
    /\ passed = Steps
    /\ phase' = "done"
    /\ UNCHANGED <<stands, passed, stuck>>

Refuse ==
    /\ phase = "running"
    /\ phase' = "compensating"
    /\ UNCHANGED <<stands, passed, stuck>>

Undo(s) ==
    /\ phase = "compensating"
    /\ stands[s] = 1
    /\ \A t \in Steps : t > s => stands[t] = 0 \/ t \in stuck
    /\ stands' = [stands EXCEPT ![s] = 0]
    /\ passed' = passed \ {s}
    /\ UNCHANGED <<phase, stuck>>

Stick(s) ==
    /\ phase = "compensating"
    /\ stuck' = stuck \cup {s}
    /\ UNCHANGED <<phase, stands, passed>>

\* Reverted says everything was undone; Failed says what was not is written
\* down.
Settle ==
    /\ phase = "compensating"
    /\ \/ /\ \A s \in Steps : stands[s] = 0
          /\ phase' = "reverted"
       \/ /\ \A s \in Steps : stands[s] = 1 => s \in stuck
          /\ phase' = "failed"
    /\ UNCHANGED <<stands, passed, stuck>>

Next ==
    \/ Begin \/ Park \/ Finish \/ Refuse \/ Settle
    \/ \E s \in Steps : Perform(s) \/ Undo(s) \/ Stick(s)

Spec == Init /\ [][Next]_vars
=============================================================================

------------------------------ MODULE Workflow ------------------------------
(***************************************************************************)
(* The workflow engine (src/workflow.rs): one run of a workflow, the rows  *)
(* the database keeps of it, and the passes that drive it.                 *)
(*                                                                         *)
(* Every action is one database transaction, one call to the outside, or   *)
(* one branch of the code between two of them.  A pass is one execution of *)
(* `run` or of the body of a `work` loop; the engine gives each a fresh    *)
(* worker id, so when a pass ends the rows it still holds are held by      *)
(* Gone, an id nobody has any more.                                        *)
(***************************************************************************)
EXTENDS Integers, FiniteSets

CONSTANTS
    Callers,      \* passes of `run`: a request handler, a cron, a retry
    Loops,        \* passes of `work`
    N,            \* number of steps, numbered in the order they are declared
    SlotOf,       \* slot of each step: steps of one slot run at once
    Reaching,     \* steps that are a ReachingStep; the others are a Step
    MaySkip,      \* steps that may answer Outcome::Skipped
    MayWait,      \* steps that may answer Outcome::Waiting
    MayStick,     \* steps whose compensation may fail
    MaxAttempts,  \* Step::max_attempts
    Locked,       \* the workflow is locked by a key: `run` takes the lock
    Recovers,     \* the host calls `recover` itself
    MaxFaults,    \* bound: passes that die, database calls that fail
    MaxPending    \* bound: `record` answering Retry, the provider undecided

Steps   == 1 .. N
Workers == Callers \cup Loops
Nobody  == "nobody"
Gone    == "gone"

ASSUME CountsAssumption ==
    /\ N \in Nat \ {0}
    /\ MaxAttempts \in Nat \ {0}
    /\ MaxFaults \in Nat
    /\ MaxPending \in Nat
    /\ Locked \in BOOLEAN
    /\ Recovers \in BOOLEAN

ASSUME PlanAssumption ==
    /\ SlotOf \in [Steps -> Nat \ {0}]
    /\ Reaching \subseteq Steps
    /\ \A s \in Steps, t \in Steps : s < t => SlotOf[s] <= SlotOf[t]
    \* `parallel` takes direct steps only: a reaching one has a slot to itself.
    /\ \A s \in Reaching, t \in Steps : SlotOf[s] = SlotOf[t] => s = t

ASSUME WorkersAssumption ==
    /\ Nobody \notin Workers
    /\ Gone \notin Workers

VARIABLES
    run,        \* workflow_run.state, "none" before the row is there
    step,       \* workflow_step.state
    attempts,   \* workflow_step.attempts
    prepared,   \* what prepare wrote down: a question, or nothing to ask
    lease,      \* workflow_step.lease_until: none, live or expired
    holder,     \* workflow_step.locked_by
    dead,       \* steps with a row in workflow_dead_letter
    lock,       \* who holds the advisory lock
    pc,         \* where a pass is
    at,         \* its slot going forward, its step going back
    clean,      \* unwind's `ok`
    view,       \* what lease_run's statement saw when it began
    child,      \* the futures of the slot a pass is running
    tries,      \* `attempts` as the future knows it
    applied,    \* how often the writes of a step were committed
    undone,     \* how often they were compensated
    heard,      \* steps whose provider was called, by `call` or by a replay
    faults,     \* passes and database calls that failed so far
    pendings    \* `record` answers that were Retry so far

rows  == <<step, attempts, prepared, lease, holder>>
pass  == <<pc, at, clean, view, child, tries>>
world == <<applied, undone, heard>>
env   == <<faults, pendings>>
vars  == <<run, rows, dead, lock, pass, world, env>>

StepStates  == {"pending", "invoking", "called", "done", "skipped",
                "waiting", "failed", "reverted"}
RunStates   == {"none", "running", "compensating", "waiting",
                "done", "reverted", "failed"}
Settled     == {"done", "reverted", "failed"}
Passed      == {"done", "skipped"}
UndoableDone == {"done"}
Undoable    == {"done", "called"}
Results     == {"out", "waits", "lost", "notyet", "refused"}
ChildStates == Results \cup
    {"off", "claim", "invoking", "rejecting", "pclaim", "preparing",
     "calling", "call_retry", "call_final",
     "asking", "ask_retry", "ask_final", "recording"}
PassStates  == {"idle", "claim", "lease", "leasing", "head", "slot",
                "running", "release", "park", "finish",
                "mark", "unwind", "undo", "settle"}

Slot(k) == {s \in Steps : SlotOf[s] = k}
LastSlot == SlotOf[N]

\* A lease may be taken on a row nobody holds, or whose holder let it expire.
FreeAlways(s) == TRUE
Free(s) == lease[s] # "live"

NoChild  == [s \in Steps |-> "off"]
NoTries  == [s \in Steps |-> 0]
NoView   == [due |-> {}, contested |-> FALSE]

Init ==
    /\ run = "none"
    /\ step = [s \in Steps |-> "pending"]
    /\ attempts = [s \in Steps |-> 0]
    /\ prepared = [s \in Steps |-> "none"]
    /\ lease = [s \in Steps |-> "none"]
    /\ holder = [s \in Steps |-> Nobody]
    /\ dead = {}
    /\ lock = Nobody
    /\ pc = [w \in Workers |-> "idle"]
    /\ at = [w \in Workers |-> 0]
    /\ clean = [w \in Workers |-> TRUE]
    /\ view = [w \in Workers |-> NoView]
    /\ child = [w \in Workers |-> NoChild]
    /\ tries = [w \in Workers |-> NoTries]
    /\ applied = [s \in Steps |-> 0]
    /\ undone = [s \in Steps |-> 0]
    /\ heard = {}
    /\ faults = 0
    /\ pendings = 0

Goto(w, l) == pc' = [pc EXCEPT ![w] = l]

\* The pass is over, one way or another: its worker id is nobody's from here
\* on, and the connection its advisory lock lived in is closed.  `held` is
\* the holder column as the pass leaves it.
End(w, held) ==
    /\ Goto(w, "idle")
    /\ at' = [at EXCEPT ![w] = 0]
    /\ clean' = [clean EXCEPT ![w] = TRUE]
    /\ view' = [view EXCEPT ![w] = NoView]
    /\ child' = [child EXCEPT ![w] = NoChild]
    /\ tries' = [tries EXCEPT ![w] = NoTries]
    /\ holder' = [s \in Steps |-> IF held[s] = w THEN Gone ELSE held[s]]
    /\ lock' = IF lock = w THEN Nobody ELSE lock

-----------------------------------------------------------------------------
(***************************************************************************)
(* Taking a run: `run` up to its call of `held`, and `take`.               *)
(***************************************************************************)

\* `run` is called; a workflow that is locked by something takes the lock
\* first.  A caller that cannot take it within lock_wait gets a conflict and
\* leaves no trace, which is this action not happening.
Acquire(w) ==
    /\ w \in Callers
    /\ pc[w] = "idle"
    /\ Locked => lock = Nobody
    /\ lock' = IF Locked THEN w ELSE lock
    /\ Goto(w, "claim")
    /\ UNCHANGED <<run, rows, dead, at, clean, view, child, tries, world, env>>

\* The run and its steps are inserted, unless the key already made them.
Claim(w) ==
    /\ pc[w] = "claim"
    /\ run' = IF run = "none" THEN "running" ELSE run
    /\ Goto(w, "lease")
    /\ UNCHANGED <<rows, dead, lock, at, clean, view, child, tries, world, env>>

\* `start`: the row is written and left for a work loop.
Start ==
    /\ Loops # {}
    /\ run = "none"
    /\ run' = "running"
    /\ UNCHANGED <<rows, dead, lock, pass, world, env>>

\* lease_run is one statement, and READ COMMITTED gives it one snapshot: the
\* rows it will try to lease, and whether somebody else is holding any, are
\* read here.
LeaseSnapshot(w) ==
    /\ pc[w] = "lease"
    /\ view' = [view EXCEPT ![w] =
         [due |-> {s \in Steps : step[s] \in {"pending", "failed", "called"}
                                 /\ Free(s)},
          contested |-> \E s \in Steps :
                            /\ step[s] \in {"pending", "invoking", "called"}
                            /\ ~Free(s)]]
    /\ Goto(w, "leasing")
    /\ UNCHANGED <<run, rows, dead, lock, at, clean, child, tries, world, env>>

\* The rows are locked and looked at again; those still due are leased.
\* Nothing leased while somebody holds the run is a conflict.
LeaseRun(w) ==
    LET due == {s \in view[w].due : step[s] \in {"pending", "failed", "called"}
                                    /\ Free(s)}
    IN  /\ pc[w] = "leasing"
        /\ IF due = {} /\ view[w].contested
             THEN /\ End(w, holder)
                  /\ lease' = lease
             ELSE /\ lease' = [s \in Steps |->
                                 IF s \in due THEN "live" ELSE lease[s]]
                  /\ holder' = [s \in Steps |->
                                 IF s \in due THEN w ELSE holder[s]]
                  /\ Goto(w, "head")
                  /\ view' = [view EXCEPT ![w] = NoView]
                  /\ UNCHANGED <<lock, at, clean, child, tries>>
        /\ UNCHANGED <<run, step, attempts, prepared, dead, world, env>>

\* The work loop's claim: a run that is running or compensating with a step
\* that is due.  A failed step is not one, and the advisory lock is not asked.
DuePending(s) == step[s] = "pending" /\ Free(s)
Due(s) == step[s] \in {"pending", "called"} /\ Free(s)

Take(w) ==
    LET due == {s \in Steps : Due(s)}
    IN  /\ w \in Loops
        /\ pc[w] = "idle"
        /\ run \in {"running", "compensating"}
        /\ due # {}
        /\ lease' = [s \in Steps |-> IF s \in due THEN "live" ELSE lease[s]]
        /\ holder' = [s \in Steps |-> IF s \in due THEN w ELSE holder[s]]
        /\ Goto(w, "head")
        /\ UNCHANGED <<run, step, attempts, prepared, dead, lock, at, clean,
                       view, child, tries, world, env>>

\* Steps whose worker died: an invoking one goes back to pending, a called
\* one only loses its lease.
RecoveredAlike(state) == "pending"
Recovered(state) == IF state = "invoking" THEN "pending" ELSE state

Recover ==
    /\ Recovers \/ \E w \in Loops : pc[w] = "idle"
    /\ \E s \in Steps : step[s] \in {"invoking", "called"} /\ lease[s] = "expired"
    /\ LET stale == {s \in Steps : step[s] \in {"invoking", "called"}
                                   /\ lease[s] = "expired"}
       IN  /\ step' = [s \in Steps |-> IF s \in stale THEN Recovered(step[s])
                                        ELSE step[s]]
           /\ lease' = [s \in Steps |-> IF s \in stale THEN "none" ELSE lease[s]]
           /\ holder' = [s \in Steps |-> IF s \in stale THEN Nobody ELSE holder[s]]
    /\ UNCHANGED <<run, attempts, prepared, dead, lock, pass, world, env>>

\* Time passes.  `held` touches the rows of a pass that is still going well
\* within LEASE, so only a lease whose pass is over runs out.  `touch` leaves
\* a failed row out; what is done to one is taken to be done within LEASE.
Expire(s) ==
    /\ lease[s] = "live"
    /\ holder[s] \notin Workers
    /\ lease' = [lease EXCEPT ![s] = "expired"]
    /\ UNCHANGED <<run, step, attempts, prepared, holder, dead, lock, pass,
                   world, env>>

-----------------------------------------------------------------------------
(***************************************************************************)
(* `drive`, going forward.                                                 *)
(***************************************************************************)

\* A settled run is reported, one that is unwinding is unwound, and any other
\* is driven from its first slot.
Head(w) ==
    /\ pc[w] = "head"
    /\ IF run \in Settled
         THEN End(w, holder)
         ELSE /\ IF run = "compensating"
                   THEN Goto(w, "mark") /\ at' = at
                   ELSE Goto(w, "slot") /\ at' = [at EXCEPT ![w] = 1]
              /\ UNCHANGED <<holder, lock, clean, view, child, tries>>
    /\ UNCHANGED <<run, step, attempts, prepared, lease, dead, world, env>>

\* Where the future of a step starts, from the row drive read.
EntryUncounted(s) ==
    IF step[s] \in Passed THEN "off"
    ELSE IF s \notin Reaching THEN "claim"
    ELSE IF step[s] = "called" THEN "asking"
    ELSE "pclaim"

Entry(s) ==
    IF step[s] \in Passed THEN "off"
    ELSE IF attempts[s] >= MaxAttempts THEN "refused"
    ELSE IF s \notin Reaching THEN "claim"
    ELSE IF step[s] = "called" THEN "asking"
    ELSE "pclaim"

\* The rows of a slot are read: a waiting one ends the pass, and what has
\* neither run nor been skipped is invoked, all at once.
ReadSlot(w) ==
    /\ pc[w] = "slot"
    /\ at[w] <= LastSlot
    /\ IF \E s \in Slot(at[w]) : step[s] = "waiting"
         THEN End(w, holder)
         ELSE /\ child' = [child EXCEPT ![w] =
                    [s \in Steps |-> IF s \in Slot(at[w]) THEN Entry(s) ELSE "off"]]
              /\ tries' = [tries EXCEPT ![w] =
                    [s \in Steps |-> IF s \in Slot(at[w]) /\ Entry(s) # "off"
                                       THEN attempts[s] ELSE 0]]
              /\ Goto(w, "running")
              /\ UNCHANGED <<holder, lock, at, clean, view>>
    /\ UNCHANGED <<run, step, attempts, prepared, lease, dead, world, env>>

Answered(w) == {child[w][s] : s \in Steps} \ {"off"}

\* Where a pass goes from what the steps of its slot answered: a refusal
\* outranks a step that did not settle, and that one a step that waits.
VerdictHasty(answers) ==
    IF "refused" \in answers THEN "mark"
    ELSE IF "waits" \in answers THEN "park"
    ELSE "slot"

Verdict(answers) ==
    IF "refused" \in answers THEN "mark"
    ELSE IF "notyet" \in answers THEN "release"
    ELSE IF "waits" \in answers THEN "park"
    ELSE "slot"

\* Every future of the slot has answered; a row that was lost ends the pass.
Join(w) ==
    /\ pc[w] = "running"
    /\ Answered(w) \subseteq Results
    /\ IF "lost" \in Answered(w)
         THEN End(w, holder)
         ELSE /\ child' = [child EXCEPT ![w] = NoChild]
              /\ tries' = [tries EXCEPT ![w] = NoTries]
              /\ Goto(w, Verdict(Answered(w)))
              /\ at' = [at EXCEPT ![w] = @ + 1]
              /\ UNCHANGED <<holder, lock, clean, view>>
    /\ UNCHANGED <<run, step, attempts, prepared, lease, dead, world, env>>

\* A pass that stopped at a step without an answer gives back every row it
\* still holds.
Release(w) ==
    /\ pc[w] = "release"
    /\ lease' = [s \in Steps |-> IF holder[s] = w THEN "none" ELSE lease[s]]
    /\ End(w, [s \in Steps |-> IF holder[s] = w THEN Nobody ELSE holder[s]])
    /\ UNCHANGED <<run, step, attempts, prepared, dead, world, env>>

\* set_state(Waiting): the run is parked on what a step waits for.
Park(w) ==
    /\ pc[w] = "park"
    /\ run' = "waiting"
    /\ End(w, holder)
    /\ UNCHANGED <<step, attempts, prepared, lease, dead, world, env>>

\* finish(Done), after the last slot.
Finish(w) ==
    /\ pc[w] = "slot"
    /\ at[w] > LastSlot
    /\ run' = "done"
    /\ End(w, holder)
    /\ UNCHANGED <<step, attempts, prepared, lease, dead, world, env>>

-----------------------------------------------------------------------------
(***************************************************************************)
(* One step of a slot: invoke_direct and invoke_reaching.                  *)
(***************************************************************************)

Answer(w, s, c) == child' = [child EXCEPT ![w][s] = c]

\* What only a future's own database calls and the world can change.
DriverUnchanged == UNCHANGED <<run, dead, lock, pc, at, clean, view>>

\* The claim both kinds of step make before running anything, on a row that
\* is still theirs; it commits on its own, so the attempt counts whatever
\* happens next.  A claim that finds no such row has lost it.
Attempt(w, s, states, next, working) ==
    IF step[s] \in states /\ attempts[s] < MaxAttempts /\ holder[s] = w
      THEN /\ step' = [step EXCEPT ![s] = next]
           /\ attempts' = [attempts EXCEPT ![s] = @ + 1]
           /\ lease' = [lease EXCEPT ![s] = "live"]
           /\ tries' = [tries EXCEPT ![w][s] = attempts[s] + 1]
           /\ Answer(w, s, working)
      ELSE /\ Answer(w, s, "lost")
           /\ UNCHANGED <<step, attempts, lease, tries>>

ClaimDirect(w, s) ==
    /\ child[w][s] = "claim"
    /\ Attempt(w, s, {"pending", "invoking", "failed"}, "invoking", "invoking")
    /\ UNCHANGED <<prepared, holder, world, env>>
    /\ DriverUnchanged

\* Step::invoke and the row's new state are one transaction.  The row is
\* written whoever holds it and whatever it says by now.
InvokeDirect(w, s) ==
    /\ child[w][s] = "invoking"
    /\ \E o \in {"done"} \cup (IF s \in MaySkip THEN {"skipped"} ELSE {})
                         \cup (IF s \in MayWait THEN {"waiting"} ELSE {}) :
          /\ step' = [step EXCEPT ![s] = o]
          /\ lease' = [lease EXCEPT ![s] = "none"]
          /\ applied' = [applied EXCEPT ![s] = @ + (IF o = "done" THEN 1 ELSE 0)]
          /\ Answer(w, s, IF o = "waiting" THEN "waits" ELSE "out")
    /\ UNCHANGED <<attempts, prepared, holder, tries, undone, heard, env>>
    /\ DriverUnchanged

\* Nothing was written: a retryable failure goes round again while attempts
\* remain, any other is written down as the step's.
InvokeFails(w, s) ==
    /\ child[w][s] \in {"invoking", "preparing"}
    /\ \/ /\ tries[w][s] < MaxAttempts
          /\ Answer(w, s, IF s \in Reaching THEN "pclaim" ELSE "claim")
       \/ Answer(w, s, "rejecting")
    /\ UNCHANGED <<rows, tries, world, env>>
    /\ DriverUnchanged

Reject(w, s) ==
    /\ child[w][s] = "rejecting"
    /\ IF holder[s] = w
         THEN /\ step' = [step EXCEPT ![s] = "failed"]
              /\ lease' = [lease EXCEPT ![s] = "none"]
         ELSE UNCHANGED <<step, lease>>
    /\ Answer(w, s, "refused")
    /\ UNCHANGED <<attempts, prepared, holder, tries, world, env>>
    /\ DriverUnchanged

ClaimPrepare(w, s) ==
    /\ child[w][s] = "pclaim"
    /\ Attempt(w, s, {"pending", "failed"}, step[s], "preparing")
    /\ UNCHANGED <<prepared, holder, world, env>>
    /\ DriverUnchanged

\* `prepare` and the move to called are one transaction.  A step that finds
\* nothing to ask for writes nothing of its own.
Prepare(w, s) ==
    /\ child[w][s] = "preparing"
    /\ \E plan \in {"ask"} \cup (IF s \in MaySkip THEN {"skip"} ELSE {}) :
          /\ prepared' = [prepared EXCEPT ![s] = plan]
          /\ applied' = [applied EXCEPT ![s] = @ + (IF plan = "ask" THEN 1 ELSE 0)]
    /\ step' = [step EXCEPT ![s] = "called"]
    /\ Answer(w, s, "calling")
    /\ UNCHANGED <<attempts, lease, holder, tries, undone, heard, env>>
    /\ DriverUnchanged

\* `call`, with no transaction open: the provider answers, refuses, or cannot
\* be reached.
Call(w, s) ==
    /\ child[w][s] = "calling"
    /\ IF prepared[s] = "skip"
         THEN Answer(w, s, "recording") /\ heard' = heard
         ELSE /\ heard' = heard \cup {s}
              /\ \E c \in {"recording", "call_retry", "call_final"} : Answer(w, s, c)
    /\ UNCHANGED <<rows, tries, applied, undone, env>>
    /\ DriverUnchanged

\* `resume`, for a row found called: a provider that can look the question up
\* is asked what happened, and one that cannot, or that found nothing, is called
\* once more with what was prepared, as the default does.
Resume(w, s) ==
    /\ child[w][s] = "asking"
    /\ IF prepared[s] = "skip"
         THEN Answer(w, s, "recording") /\ heard' = heard
         ELSE /\ heard' \in {heard, heard \cup {s}}
              /\ \E c \in {"recording", "ask_retry", "ask_final"} : Answer(w, s, c)
    /\ UNCHANGED <<rows, tries, applied, undone, env>>
    /\ DriverUnchanged

\* A resume counts as an attempt; a call was counted by its prepare.
BumpAlways(from) == 1
Bump(from) == IF from \in {"ask_retry", "ask_final"} THEN 1 ELSE 0

\* Neither told: the lease is given up, and the step is refused once it has no
\* attempt left or the failure is final.
Stall(w, s) ==
    /\ child[w][s] \in {"call_retry", "call_final", "ask_retry", "ask_final"}
    /\ IF holder[s] # w
         THEN Answer(w, s, "lost") /\ UNCHANGED <<attempts, lease, holder>>
         ELSE LET now == attempts[s] + Bump(child[w][s])
              IN  /\ attempts' = [attempts EXCEPT ![s] = now]
                  /\ lease' = [lease EXCEPT ![s] = "none"]
                  /\ holder' = [holder EXCEPT ![s] = Nobody]
                  /\ Answer(w, s,
                       IF child[w][s] \in {"call_final", "ask_final"}
                          \/ now >= MaxAttempts THEN "refused" ELSE "notyet")
    /\ UNCHANGED <<step, prepared, tries, world, env>>
    /\ DriverUnchanged

\* `record` and the row's new state are one transaction, and a row that is
\* no longer called takes both back.
Record(w, s) ==
    /\ child[w][s] = "recording"
    /\ IF step[s] # "called"
         THEN Answer(w, s, "lost") /\ UNCHANGED <<step, lease, holder>>
         ELSE \E o \in IF prepared[s] = "skip" THEN {"skipped"}
                       ELSE {"done"} \cup (IF s \in MayWait THEN {"waiting"} ELSE {}) :
                /\ step' = [step EXCEPT ![s] = o]
                /\ lease' = [lease EXCEPT ![s] = "none"]
                /\ holder' = [holder EXCEPT ![s] = Nobody]
                /\ Answer(w, s, IF o = "waiting" THEN "waits" ELSE "out")
    /\ UNCHANGED <<attempts, prepared, tries, world, env>>
    /\ DriverUnchanged

\* `record` refuses the answer, or finds it undecided: the row stays called.
RecordFails(w, s) ==
    /\ child[w][s] = "recording"
    /\ prepared[s] = "ask"
    /\ \/ Answer(w, s, "refused") /\ pendings' = pendings
       \/ /\ pendings < MaxPending
          /\ pendings' = pendings + 1
          /\ Answer(w, s, IF tries[w][s] >= MaxAttempts THEN "refused" ELSE "notyet")
    /\ UNCHANGED <<rows, tries, world, faults>>
    /\ DriverUnchanged

-----------------------------------------------------------------------------
(***************************************************************************)
(* `unwind`.                                                               *)
(***************************************************************************)

\* set_state(Compensating), whatever the run says.
Mark(w) ==
    /\ pc[w] = "mark"
    /\ run' = "compensating"
    /\ at' = [at EXCEPT ![w] = N]
    /\ Goto(w, "unwind")
    /\ UNCHANGED <<rows, dead, lock, clean, view, child, tries, world, env>>

\* The next step back is read, on its own: only done and called are undone.
ReadBack(w) ==
    /\ pc[w] = "unwind"
    /\ IF at[w] = 0
         THEN Goto(w, "settle") /\ at' = at
         ELSE IF step[at[w]] \in Undoable
                THEN Goto(w, "undo") /\ at' = at
                ELSE at' = [at EXCEPT ![w] = @ - 1] /\ pc' = pc
    /\ UNCHANGED <<run, rows, dead, lock, clean, view, child, tries, world, env>>

\* What a row's compensation has to undo: a reaching step that found nothing
\* to ask for kept nothing, and its compensation does nothing.
Kept(s) == IF prepared[s] = "skip" THEN 0 ELSE 1

\* The compensation and the row's move to reverted are one transaction.
Undo(w) ==
    LET s == at[w]
    IN  /\ pc[w] = "undo"
        /\ step' = [step EXCEPT ![s] = "reverted"]
        /\ lease' = [lease EXCEPT ![s] = "none"]
        /\ holder' = [holder EXCEPT ![s] = w]
        /\ undone' = [undone EXCEPT ![s] = @ + Kept(s)]
        /\ Goto(w, "unwind")
        /\ at' = [at EXCEPT ![w] = @ - 1]
        /\ UNCHANGED <<run, attempts, prepared, dead, lock, clean, view, child,
                       tries, applied, heard, env>>

DeadLetterAgain(w) ==
    /\ pc[w] = "undo"
    /\ at[w] \in MayStick
    /\ dead' = dead \cup {at[w]}
    /\ clean' = [clean EXCEPT ![w] = FALSE]
    /\ Goto(w, "unwind")
    /\ UNCHANGED <<run, rows, lock, at, view, child, tries, world, env>>

\* A compensation that fails leaves a dead letter, and the walk goes on.
DeadLetter(w) ==
    /\ pc[w] = "undo"
    /\ at[w] \in MayStick
    /\ dead' = dead \cup {at[w]}
    /\ clean' = [clean EXCEPT ![w] = FALSE]
    /\ Goto(w, "unwind")
    /\ at' = [at EXCEPT ![w] = @ - 1]
    /\ UNCHANGED <<run, rows, lock, view, child, tries, world, env>>

\* finish(Reverted) or finish(Failed).
Settle(w) ==
    /\ pc[w] = "settle"
    /\ run' = IF clean[w] THEN "reverted" ELSE "failed"
    /\ End(w, holder)
    /\ UNCHANGED <<step, attempts, prepared, lease, dead, world, env>>

-----------------------------------------------------------------------------
(***************************************************************************)
(* What goes wrong.                                                        *)
(***************************************************************************)

\* The pass stops where it is: the process died, the handler's future was
\* dropped, or a database call outside a step failed.
Die(w) ==
    /\ pc[w] # "idle"
    /\ faults < MaxFaults
    /\ faults' = faults + 1
    /\ End(w, holder)
    /\ UNCHANGED <<run, step, attempts, prepared, lease, dead, world, pendings>>

\* A database call of a step's own phases fails: nothing is written and the
\* step is refused.
DatabaseFails(w, s) ==
    /\ child[w][s] \in {"claim", "invoking", "rejecting", "pclaim", "preparing",
                        "call_retry", "call_final", "ask_retry", "ask_final",
                        "recording"}
    /\ faults < MaxFaults
    /\ faults' = faults + 1
    /\ Answer(w, s, "refused")
    /\ UNCHANGED <<rows, tries, world, pendings>>
    /\ DriverUnchanged

-----------------------------------------------------------------------------
Future(w, s) ==
    \/ ClaimDirect(w, s) \/ InvokeDirect(w, s) \/ InvokeFails(w, s) \/ Reject(w, s)
    \/ ClaimPrepare(w, s) \/ Prepare(w, s)
    \/ Call(w, s) \/ Resume(w, s) \/ Stall(w, s)
    \/ Record(w, s) \/ RecordFails(w, s)

Going(w) ==
    \/ Claim(w) \/ LeaseSnapshot(w) \/ LeaseRun(w)
    \/ Head(w) \/ ReadSlot(w) \/ Join(w) \/ Release(w) \/ Park(w) \/ Finish(w)
    \/ Mark(w) \/ ReadBack(w) \/ Undo(w) \/ DeadLetter(w) \/ Settle(w)
    \/ \E s \in Steps : Future(w, s)

Next ==
    \/ Start
    \/ Recover
    \/ \E s \in Steps : Expire(s)
    \/ \E w \in Workers :
          \/ Acquire(w) \/ Take(w) \/ Going(w) \/ Die(w)
          \/ \E s \in Steps : DatabaseFails(w, s)

Spec == Init /\ [][Next]_vars

\* A pass that is going keeps going, and time passes.  A loop, where a host runs
\* one, takes what it finds, and recovers each time before it does.  Nobody is
\* bound to ask for a run, or to ask for it again.
Fairness ==
    /\ \A s \in Steps : WF_vars(Expire(s))
    /\ \A w \in Workers : WF_vars(Going(w))
    /\ \A w \in Loops : SF_vars(Recover) /\ WF_vars(Take(w))

FairSpec == Spec /\ Fairness

-----------------------------------------------------------------------------
(***************************************************************************)
(* Properties.                                                             *)
(***************************************************************************)

RowsOK ==
    /\ run \in RunStates
    /\ step \in [Steps -> StepStates]
    /\ attempts \in [Steps -> 0 .. MaxAttempts]
    /\ prepared \in [Steps -> {"none", "ask", "skip"}]
    /\ lease \in [Steps -> {"none", "live", "expired"}]
    /\ holder \in [Steps -> Workers \cup {Nobody, Gone}]
    /\ dead \subseteq Steps
    /\ lock \in Workers \cup {Nobody}

PassesOK ==
    /\ pc \in [Workers -> PassStates]
    /\ at \in [Workers -> Nat]
    /\ clean \in [Workers -> BOOLEAN]
    /\ view \in [Workers -> [due : SUBSET Steps, contested : BOOLEAN]]
    /\ child \in [Workers -> [Steps -> ChildStates]]
    /\ tries \in [Workers -> [Steps -> 0 .. MaxAttempts]]

CountsOK ==
    /\ applied \in [Steps -> Nat]
    /\ undone \in [Steps -> Nat]
    /\ heard \subseteq Steps
    /\ faults \in 0 .. MaxFaults
    /\ pendings \in 0 .. MaxPending

\* Every column and local holds what its type allows, and no row uses more
\* attempts than max_attempts (the claims and `stall` are what count them).
TypeOK == RowsOK /\ PassesOK /\ CountsOK

\* A run that says how it ended says what its rows say: Done, that every step
\* ran or was skipped; Reverted, that nothing is left to undo; Failed, that
\* what could not be undone is in the dead letters (State, `unwind`).
SettledFaithful ==
    /\ run = "done" => \A s \in Steps : step[s] \in Passed
    /\ run = "reverted" => \A s \in Steps : step[s] \notin {"done", "called"}
    /\ run = "failed" => \A s \in Steps : step[s] \in {"done", "called"} => s \in dead

\* No two passes are inside the same step, from its claim until its writes are
\* committed and, for one that reaches out, its call has come back (the claims,
\* `lease_run`, `take`).  A pass that finds the row called and asks what became of
\* it is not inside the step: it may be beside the one that is (ResumedAlone).
OneInvoker ==
    \A s \in Steps, v \in Workers, w \in Workers :
        /\ child[v][s] \in {"invoking", "preparing", "calling"}
        /\ child[w][s] \in {"invoking", "preparing", "calling"}
        => v = w

\* The comment of `lease_run`: called rows are leased like pending ones, or a
\* second run of the key could resume a step while the first one drives it.
ResumedAlone ==
    \A s \in Steps, v \in Workers, w \in Workers :
        /\ child[v][s] = "asking"
        /\ child[w][s] \in {"calling", "asking", "recording"}
        => v = w

\* Whatever dies and whoever takes over, a provider hears of a step under one
\* idempotency key: what prepare wrote is committed before the first call and
\* never written again, so that a later pass can look it up or replay it
\* (ReachingStep::prepare, ::resume, `recover`).
OneQuestion ==
    /\ \A s \in Reaching : applied[s] <= 1
    /\ \A s \in heard : applied[s] = 1 /\ step[s] \notin {"pending", "invoking", "failed"}

\* The run a caller drives is the saga it promises.  The effect of a step
\* stands while it was committed more often than it was compensated.
Promise == INSTANCE Saga WITH
    phase  <- run,
    stands <- [s \in Steps |-> applied[s] - undone[s]],
    passed <- {s \in Steps : step[s] \in Passed},
    stuck  <- dead

IsSaga == Promise!Spec

\* Whoever asks for a run, or takes one, is done with it some day: no step is
\* tried for ever, no walk back turns in a circle, nobody waits on nobody
\* (`run`, `drive`, `unwind`).
PassesEnd == \A w \in Workers : pc[w] # "idle" ~> pc[w] = "idle"

\* Every run that was begun ends, or stops at a step that waits for somebody: "Nothing
\* is left half-done for somebody to find in the morning" (the module's doc).
Parked == \E s \in Steps : step[s] = "waiting"
Concludes == run # "none" ~> (run \in Settled \/ Parked)

\* What a work loop does about it, however many passes die: it ends a run unless
\* a step was written failed, which `take` does not lease, or no step is due any
\* more (`recover`, `take`, `work`).
Overlooked ==
    \/ \E s \in Steps : step[s] = "failed"
    \/ \A s \in Steps : step[s] \notin {"pending", "invoking", "called"}
WorkedOff == run # "none" ~> (run \in Settled \/ Parked \/ Overlooked)
=============================================================================

--------------------------- MODULE WorkflowProofs ---------------------------
(***************************************************************************)
(* What holds of the workflow engine whatever the plan, the number of      *)
(* passes, the attempts, and whether or not the workflow is locked: the    *)
(* types, that no two passes are inside one step, and that a provider      *)
(* hears of a step under one key.  And, of a run with one driver at a      *)
(* time, that it is the saga it promises.                                  *)
(***************************************************************************)
EXTENDS Workflow, TLAPS

\* The row has not been carried out: a claim may still match it.
Fresh == {"pending", "invoking", "failed"}

\* The row is leased to w, and the lease has not run out.
Holds(w, s) == holder[s] = w /\ lease[s] = "live"

\* Only a pass inside `drive`'s slot has futures.
FuturesInv ==
    \A w \in Workers : pc[w] # "running" => \A s \in Steps : child[w][s] = "off"

\* `unwind` walks over steps of the plan, and what it read as done or called
\* never becomes claimable again.
UnwindInv ==
    \A w \in Workers :
        /\ pc[w] = "unwind" => at[w] \in 0 .. N
        /\ pc[w] = "undo" => at[w] \in Steps /\ step[at[w]] \notin Fresh

\* A future that has claimed a step holds its row until it has written it.
ClaimInv ==
    \A w \in Workers, s \in Steps :
        /\ child[w][s] = "invoking" => Holds(w, s) /\ step[s] = "invoking"
        /\ child[w][s] = "preparing" => Holds(w, s) /\ step[s] \in {"pending", "failed"}
        /\ child[w][s] = "rejecting" => Holds(w, s) /\ step[s] \in Fresh

\* Each kind of step goes through its own phases.
KindInv ==
    \A w \in Workers, s \in Steps :
        /\ child[w][s] \in {"claim", "invoking"} => s \notin Reaching
        /\ child[w][s] \in {"pclaim", "preparing", "calling", "asking"} => s \in Reaching

\* A holder that is asking has an attempt left to ask with.
AskInv ==
    \A w \in Workers, s \in Steps :
        child[w][s] \in {"asking", "ask_retry", "ask_final"} /\ holder[s] = w
            => attempts[s] < MaxAttempts

\* A row that can be claimed was never prepared, and any other was, once: what
\* its provider heard of it is what prepare wrote.
PrepareInv ==
    /\ \A s \in Reaching :
          /\ applied[s] = IF prepared[s] = "ask" THEN 1 ELSE 0
          /\ step[s] \in Fresh => step[s] # "invoking" /\ prepared[s] = "none"
          /\ step[s] \notin Fresh => prepared[s] # "none"
    /\ \A s \in heard : s \in Reaching /\ prepared[s] = "ask"

\* A call is made from a row that was prepared, by one pass.
CallInv ==
    /\ PrepareInv
    /\ \A w \in Workers, s \in Steps :
          child[w][s] \in {"calling", "asking"} => step[s] \notin Fresh
    /\ \A v, w \in Workers, s \in Steps :
          child[v][s] = "calling" /\ child[w][s] = "calling" => v = w

IndInv ==
    /\ TypeOK
    /\ FuturesInv
    /\ UnwindInv
    /\ ClaimInv
    /\ KindInv
    /\ AskInv
    /\ CallInv

-----------------------------------------------------------------------------
(***************************************************************************)
(* Steps of a pass outside its futures.                                    *)
(***************************************************************************)

\* What such a step of w leaves to the others: its own futures are gone, no
\* row another pass holds changes hands, and no row becomes claimable.
Quiet(w) ==
    /\ \A t \in Steps : child'[w][t] = "off"
    /\ \A v \in Workers \ {w} :
          /\ pc'[v] = pc[v]
          /\ at'[v] = at[v]
          /\ \A t \in Steps : child'[v][t] = child[v][t]
    /\ \A v \in Workers \ {w}, t \in Steps :
          /\ Holds(v, t) /\ step[t] \in Fresh => Holds(v, t)'
          /\ holder'[t] = v => holder[t] = v
    /\ \A t \in Steps : \/ step'[t] = step[t]
                        \/ step[t] \notin Fresh /\ step'[t] = "reverted"
    /\ heard' = heard
    /\ \A t \in Steps : /\ attempts'[t] = attempts[t]
                        /\ applied'[t] = applied[t]
                        /\ prepared'[t] = prepared[t]
    /\ pc'[w] = "unwind" => at'[w] \in 0 .. N
    /\ pc'[w] = "undo" => at'[w] \in Steps /\ step'[at'[w]] \notin Fresh

\* A quiet step keeps the invariant.
LEMMA QuietKeeps ==
    ASSUME FuturesInv, UnwindInv, ClaimInv, KindInv, AskInv, CallInv,
           NEW w \in Workers, Quiet(w),
           Reaching \subseteq Steps, heard \subseteq Steps
    PROVE  /\ FuturesInv' /\ UnwindInv' /\ ClaimInv' /\ KindInv' /\ AskInv'
           /\ CallInv'
<1>1. FuturesInv'
  BY DEF FuturesInv, Quiet
<1>2. UnwindInv'
  BY DEF UnwindInv, Quiet, Fresh
<1>3. ClaimInv'
  BY DEF ClaimInv, Quiet, Fresh
<1>4. KindInv'
  BY DEF KindInv, Quiet
<1>5. AskInv'
  BY DEF AskInv, Quiet
<1>6. CallInv'
  BY DEF CallInv, PrepareInv, Quiet, Fresh
<1> QED
  BY <1>1, <1>2, <1>3, <1>4, <1>5, <1>6

\* Every step of a pass that is not one of its futures' is quiet.
LEMMA PassIsQuiet ==
    ASSUME TypeOK, FuturesInv, UnwindInv, NEW w \in Workers
    PROVE  ( \/ Acquire(w) \/ Claim(w) \/ LeaseSnapshot(w) \/ LeaseRun(w)
             \/ Take(w) \/ Head(w) \/ Join(w) \/ Release(w)
             \/ Park(w) \/ Finish(w) \/ Mark(w) \/ ReadBack(w)
             \/ Undo(w) \/ DeadLetter(w) \/ Settle(w) \/ Die(w) )
           => Quiet(w)
<1>1. ASSUME Acquire(w) PROVE Quiet(w)
    BY <1>1, WorkersAssumption, CountsAssumption
       DEF Acquire, Quiet, Holds, Fresh, TypeOK, RowsOK, PassesOK, FuturesInv, UnwindInv, End, Goto, NoChild,
           rows, world, env, pass, Steps, Undoable
<1>2. ASSUME Claim(w) PROVE Quiet(w)
    BY <1>2, WorkersAssumption, CountsAssumption
       DEF Claim, Quiet, Holds, Fresh, TypeOK, RowsOK, PassesOK, FuturesInv, UnwindInv, End, Goto, NoChild,
           rows, world, env, pass, Steps, Undoable
<1>3. ASSUME LeaseSnapshot(w) PROVE Quiet(w)
    BY <1>3, WorkersAssumption, CountsAssumption
       DEF LeaseSnapshot, Quiet, Holds, Fresh, TypeOK, RowsOK, PassesOK, FuturesInv, UnwindInv, End, Goto, NoChild,
           rows, world, env, pass, Steps, Undoable
<1>4. ASSUME LeaseRun(w) PROVE Quiet(w)
  <2>1. \A t \in Steps : child'[w][t] = "off"
    <3>1. pc[w] # "running"
      BY <1>4 DEF LeaseRun
    <3>2. child' = child \/ child' = [child EXCEPT ![w] = NoChild]
      BY <1>4 DEF LeaseRun, End, Free, Goto, rows, world, env, pass
    <3> QED
      BY <3>1, <3>2 DEF FuturesInv, TypeOK, RowsOK, PassesOK, NoChild
  <2>2. \A v \in Workers \ {w} :
           /\ pc'[v] = pc[v]
           /\ at'[v] = at[v]
           /\ \A t \in Steps : child'[v][t] = child[v][t]
    BY <1>4 DEF TypeOK, RowsOK, PassesOK, LeaseRun, End, Free, Goto, rows, world, env, pass
  <2>3. \A v \in Workers \ {w}, t \in Steps :
           /\ Holds(v, t) /\ step[t] \in Fresh => Holds(v, t)'
           /\ holder'[t] = v => holder[t] = v
    BY <1>4, WorkersAssumption DEF TypeOK, RowsOK, PassesOK, UnwindInv, Holds, Fresh, LeaseRun, End, Free, Goto, rows, world, env, pass
  <2>4. \A t \in Steps : \/ step'[t] = step[t]
                         \/ step[t] \notin Fresh /\ step'[t] = "reverted"
    BY <1>4 DEF TypeOK, RowsOK, PassesOK, UnwindInv, LeaseRun, End, Free, Goto, rows, world, env, pass
  <2>5. /\ heard' = heard
        /\ \A t \in Steps : /\ attempts'[t] = attempts[t]
                            /\ applied'[t] = applied[t]
                            /\ prepared'[t] = prepared[t]
    BY <1>4 DEF LeaseRun, End, Free, Goto, rows, world, env, pass
  <2>6. /\ pc'[w] = "unwind" => at'[w] \in 0 .. N
        /\ pc'[w] = "undo" => at'[w] \in Steps /\ step'[at'[w]] \notin Fresh
    BY <1>4, CountsAssumption DEF TypeOK, RowsOK, PassesOK, UnwindInv, Steps, Fresh, LeaseRun, End, Free, Goto, rows, world, env, pass
  <2> QED
    BY <2>1, <2>2, <2>3, <2>4, <2>5, <2>6 DEF Quiet
<1>5. ASSUME Take(w) PROVE Quiet(w)
  <2>1. \A t \in Steps : child'[w][t] = "off"
    BY <1>5 DEF FuturesInv, TypeOK, RowsOK, PassesOK, NoChild, Take, Due, Free, Goto, rows, world, env, pass
  <2>2. \A v \in Workers \ {w} :
           /\ pc'[v] = pc[v]
           /\ at'[v] = at[v]
           /\ \A t \in Steps : child'[v][t] = child[v][t]
    BY <1>5 DEF TypeOK, RowsOK, PassesOK, Take, Due, Free, Goto, rows, world, env, pass
  <2>3. \A v \in Workers \ {w}, t \in Steps :
           /\ Holds(v, t) /\ step[t] \in Fresh => Holds(v, t)'
           /\ holder'[t] = v => holder[t] = v
    BY <1>5, WorkersAssumption DEF TypeOK, RowsOK, PassesOK, UnwindInv, Holds, Fresh, Take, Due, Free, Goto, rows, world, env, pass
  <2>4. \A t \in Steps : \/ step'[t] = step[t]
                         \/ step[t] \notin Fresh /\ step'[t] = "reverted"
    BY <1>5 DEF TypeOK, RowsOK, PassesOK, UnwindInv, Take, Due, Free, Goto, rows, world, env, pass
  <2>5. /\ heard' = heard
        /\ \A t \in Steps : /\ attempts'[t] = attempts[t]
                            /\ applied'[t] = applied[t]
                            /\ prepared'[t] = prepared[t]
    BY <1>5 DEF Take, Due, Free, Goto, rows, world, env, pass
  <2>6. /\ pc'[w] = "unwind" => at'[w] \in 0 .. N
        /\ pc'[w] = "undo" => at'[w] \in Steps /\ step'[at'[w]] \notin Fresh
    BY <1>5, CountsAssumption DEF TypeOK, RowsOK, PassesOK, UnwindInv, Steps, Fresh, Take, Due, Free, Goto, rows, world, env, pass
  <2> QED
    BY <2>1, <2>2, <2>3, <2>4, <2>5, <2>6 DEF Quiet
<1>6. ASSUME Head(w) PROVE Quiet(w)
  <2>1. \A t \in Steps : child'[w][t] = "off"
    <3>1. pc[w] # "running"
      BY <1>6 DEF Head
    <3>2. child' = child \/ child' = [child EXCEPT ![w] = NoChild]
      BY <1>6 DEF Head, End, Goto, rows, world, env, pass
    <3> QED
      BY <3>1, <3>2 DEF FuturesInv, TypeOK, RowsOK, PassesOK, NoChild
  <2>2. \A v \in Workers \ {w} :
           /\ pc'[v] = pc[v]
           /\ at'[v] = at[v]
           /\ \A t \in Steps : child'[v][t] = child[v][t]
    BY <1>6 DEF TypeOK, RowsOK, PassesOK, Head, End, Goto, rows, world, env, pass
  <2>3. \A v \in Workers \ {w}, t \in Steps :
           /\ Holds(v, t) /\ step[t] \in Fresh => Holds(v, t)'
           /\ holder'[t] = v => holder[t] = v
    BY <1>6, WorkersAssumption DEF TypeOK, RowsOK, PassesOK, UnwindInv, Holds, Fresh, Head, End, Goto, rows, world, env, pass
  <2>4. \A t \in Steps : \/ step'[t] = step[t]
                         \/ step[t] \notin Fresh /\ step'[t] = "reverted"
    BY <1>6 DEF TypeOK, RowsOK, PassesOK, UnwindInv, Head, End, Goto, rows, world, env, pass
  <2>5. /\ heard' = heard
        /\ \A t \in Steps : /\ attempts'[t] = attempts[t]
                            /\ applied'[t] = applied[t]
                            /\ prepared'[t] = prepared[t]
    BY <1>6 DEF Head, End, Goto, rows, world, env, pass
  <2>6. /\ pc'[w] = "unwind" => at'[w] \in 0 .. N
        /\ pc'[w] = "undo" => at'[w] \in Steps /\ step'[at'[w]] \notin Fresh
    BY <1>6, CountsAssumption DEF TypeOK, RowsOK, PassesOK, UnwindInv, Steps, Fresh, Head, End, Goto, rows, world, env, pass
  <2> QED
    BY <2>1, <2>2, <2>3, <2>4, <2>5, <2>6 DEF Quiet
<1>7. ASSUME Join(w) PROVE Quiet(w)
  <2>1. \A t \in Steps : child'[w][t] = "off"
    BY <1>7 DEF FuturesInv, TypeOK, RowsOK, PassesOK, NoChild, Join, End, Verdict, Goto, rows, world, env, pass
  <2>2. \A v \in Workers \ {w} :
           /\ pc'[v] = pc[v]
           /\ at'[v] = at[v]
           /\ \A t \in Steps : child'[v][t] = child[v][t]
    BY <1>7 DEF TypeOK, RowsOK, PassesOK, Join, End, Verdict, Goto, rows, world, env, pass
  <2>3. \A v \in Workers \ {w}, t \in Steps :
           /\ Holds(v, t) /\ step[t] \in Fresh => Holds(v, t)'
           /\ holder'[t] = v => holder[t] = v
    BY <1>7, WorkersAssumption DEF TypeOK, RowsOK, PassesOK, UnwindInv, Holds, Fresh, Join, End, Verdict, Goto, rows, world, env, pass
  <2>4. \A t \in Steps : \/ step'[t] = step[t]
                         \/ step[t] \notin Fresh /\ step'[t] = "reverted"
    BY <1>7 DEF TypeOK, RowsOK, PassesOK, UnwindInv, Join, End, Verdict, Goto, rows, world, env, pass
  <2>5. /\ heard' = heard
        /\ \A t \in Steps : /\ attempts'[t] = attempts[t]
                            /\ applied'[t] = applied[t]
                            /\ prepared'[t] = prepared[t]
    BY <1>7 DEF Join, End, Verdict, Goto, rows, world, env, pass
  <2>6. /\ pc'[w] = "unwind" => at'[w] \in 0 .. N
        /\ pc'[w] = "undo" => at'[w] \in Steps /\ step'[at'[w]] \notin Fresh
    BY <1>7, CountsAssumption DEF TypeOK, RowsOK, PassesOK, UnwindInv, Steps, Fresh, Join, End, Verdict, Goto, rows, world, env, pass
  <2> QED
    BY <2>1, <2>2, <2>3, <2>4, <2>5, <2>6 DEF Quiet
<1>8. ASSUME Release(w) PROVE Quiet(w)
    BY <1>8, WorkersAssumption, CountsAssumption
       DEF Release, Quiet, Holds, Fresh, TypeOK, RowsOK, PassesOK, FuturesInv, UnwindInv, End, Goto, NoChild,
           rows, world, env, pass, Steps, Undoable
<1>9. ASSUME Park(w) PROVE Quiet(w)
    BY <1>9, WorkersAssumption, CountsAssumption
       DEF Park, Quiet, Holds, Fresh, TypeOK, RowsOK, PassesOK, FuturesInv, UnwindInv, End, Goto, NoChild,
           rows, world, env, pass, Steps, Undoable
<1>10. ASSUME Finish(w) PROVE Quiet(w)
    BY <1>10, WorkersAssumption, CountsAssumption
       DEF Finish, Quiet, Holds, Fresh, TypeOK, RowsOK, PassesOK, FuturesInv, UnwindInv, End, Goto, NoChild,
           rows, world, env, pass, Steps, Undoable
<1>11. ASSUME Mark(w) PROVE Quiet(w)
  <2>1. \A t \in Steps : child'[w][t] = "off"
    BY <1>11 DEF FuturesInv, TypeOK, RowsOK, PassesOK, NoChild, Mark, Goto, rows, world, env, pass
  <2>2. \A v \in Workers \ {w} :
           /\ pc'[v] = pc[v]
           /\ at'[v] = at[v]
           /\ \A t \in Steps : child'[v][t] = child[v][t]
    BY <1>11 DEF TypeOK, RowsOK, PassesOK, Mark, Goto, rows, world, env, pass
  <2>3. \A v \in Workers \ {w}, t \in Steps :
           /\ Holds(v, t) /\ step[t] \in Fresh => Holds(v, t)'
           /\ holder'[t] = v => holder[t] = v
    BY <1>11, WorkersAssumption DEF TypeOK, RowsOK, PassesOK, UnwindInv, Holds, Fresh, Mark, Goto, rows, world, env, pass
  <2>4. \A t \in Steps : \/ step'[t] = step[t]
                         \/ step[t] \notin Fresh /\ step'[t] = "reverted"
    BY <1>11 DEF TypeOK, RowsOK, PassesOK, UnwindInv, Mark, Goto, rows, world, env, pass
  <2>5. /\ heard' = heard
        /\ \A t \in Steps : /\ attempts'[t] = attempts[t]
                            /\ applied'[t] = applied[t]
                            /\ prepared'[t] = prepared[t]
    BY <1>11 DEF Mark, Goto, rows, world, env, pass
  <2>6. /\ pc'[w] = "unwind" => at'[w] \in 0 .. N
        /\ pc'[w] = "undo" => at'[w] \in Steps /\ step'[at'[w]] \notin Fresh
    BY <1>11, CountsAssumption DEF TypeOK, RowsOK, PassesOK, UnwindInv, Steps, Fresh, Mark, Goto, rows, world, env, pass
  <2> QED
    BY <2>1, <2>2, <2>3, <2>4, <2>5, <2>6 DEF Quiet
<1>12. ASSUME ReadBack(w) PROVE Quiet(w)
  <2>1. \A t \in Steps : child'[w][t] = "off"
    BY <1>12 DEF FuturesInv, TypeOK, RowsOK, PassesOK, NoChild, ReadBack, Undoable, Goto, rows, world, env, pass
  <2>2. \A v \in Workers \ {w} :
           /\ pc'[v] = pc[v]
           /\ at'[v] = at[v]
           /\ \A t \in Steps : child'[v][t] = child[v][t]
    BY <1>12 DEF TypeOK, RowsOK, PassesOK, ReadBack, Undoable, Goto, rows, world, env, pass
  <2>3. \A v \in Workers \ {w}, t \in Steps :
           /\ Holds(v, t) /\ step[t] \in Fresh => Holds(v, t)'
           /\ holder'[t] = v => holder[t] = v
    BY <1>12, WorkersAssumption DEF TypeOK, RowsOK, PassesOK, UnwindInv, Holds, Fresh, ReadBack, Undoable, Goto, rows, world, env, pass
  <2>4. \A t \in Steps : \/ step'[t] = step[t]
                         \/ step[t] \notin Fresh /\ step'[t] = "reverted"
    BY <1>12 DEF TypeOK, RowsOK, PassesOK, UnwindInv, ReadBack, Undoable, Goto, rows, world, env, pass
  <2>5. /\ heard' = heard
        /\ \A t \in Steps : /\ attempts'[t] = attempts[t]
                            /\ applied'[t] = applied[t]
                            /\ prepared'[t] = prepared[t]
    BY <1>12 DEF ReadBack, Undoable, Goto, rows, world, env, pass
  <2>6. /\ pc'[w] = "unwind" => at'[w] \in 0 .. N
        /\ pc'[w] = "undo" => at'[w] \in Steps /\ step'[at'[w]] \notin Fresh
    BY <1>12, CountsAssumption DEF TypeOK, RowsOK, PassesOK, UnwindInv, Steps, Fresh, ReadBack, Undoable, Goto, rows, world, env, pass
  <2> QED
    BY <2>1, <2>2, <2>3, <2>4, <2>5, <2>6 DEF Quiet
<1>13. ASSUME Undo(w) PROVE Quiet(w)
  <2>1. \A t \in Steps : child'[w][t] = "off"
    BY <1>13 DEF FuturesInv, TypeOK, RowsOK, PassesOK, NoChild, Undo, Goto, rows, world, env, pass
  <2>2. \A v \in Workers \ {w} :
           /\ pc'[v] = pc[v]
           /\ at'[v] = at[v]
           /\ \A t \in Steps : child'[v][t] = child[v][t]
    BY <1>13 DEF TypeOK, RowsOK, PassesOK, Undo, Goto, rows, world, env, pass
  <2>3. \A v \in Workers \ {w}, t \in Steps :
           /\ Holds(v, t) /\ step[t] \in Fresh => Holds(v, t)'
           /\ holder'[t] = v => holder[t] = v
    BY <1>13, WorkersAssumption DEF TypeOK, RowsOK, PassesOK, UnwindInv, Holds, Fresh, Undo, Goto, rows, world, env, pass
  <2>4. \A t \in Steps : \/ step'[t] = step[t]
                         \/ step[t] \notin Fresh /\ step'[t] = "reverted"
    BY <1>13 DEF TypeOK, RowsOK, PassesOK, UnwindInv, Undo, Goto, rows, world, env, pass
  <2>5. /\ heard' = heard
        /\ \A t \in Steps : /\ attempts'[t] = attempts[t]
                            /\ applied'[t] = applied[t]
                            /\ prepared'[t] = prepared[t]
    BY <1>13 DEF Undo, Goto, rows, world, env, pass
  <2>6. /\ pc'[w] = "unwind" => at'[w] \in 0 .. N
        /\ pc'[w] = "undo" => at'[w] \in Steps /\ step'[at'[w]] \notin Fresh
    <3>1. at[w] \in 1 .. N
      BY <1>13 DEF UnwindInv, Steps, Undo
    <3>2. pc'[w] = "unwind" /\ at'[w] = at[w] - 1
      BY <1>13 DEF TypeOK, RowsOK, PassesOK, Undo, Goto
    <3> QED
      BY <3>1, <3>2, CountsAssumption
  <2> QED
    BY <2>1, <2>2, <2>3, <2>4, <2>5, <2>6 DEF Quiet
<1>14. ASSUME DeadLetter(w) PROVE Quiet(w)
  <2>1. \A t \in Steps : child'[w][t] = "off"
    BY <1>14 DEF FuturesInv, TypeOK, RowsOK, PassesOK, NoChild, DeadLetter, Goto, rows, world, env, pass
  <2>2. \A v \in Workers \ {w} :
           /\ pc'[v] = pc[v]
           /\ at'[v] = at[v]
           /\ \A t \in Steps : child'[v][t] = child[v][t]
    BY <1>14 DEF TypeOK, RowsOK, PassesOK, DeadLetter, Goto, rows, world, env, pass
  <2>3. \A v \in Workers \ {w}, t \in Steps :
           /\ Holds(v, t) /\ step[t] \in Fresh => Holds(v, t)'
           /\ holder'[t] = v => holder[t] = v
    BY <1>14, WorkersAssumption DEF TypeOK, RowsOK, PassesOK, UnwindInv, Holds, Fresh, DeadLetter, Goto, rows, world, env, pass
  <2>4. \A t \in Steps : \/ step'[t] = step[t]
                         \/ step[t] \notin Fresh /\ step'[t] = "reverted"
    BY <1>14 DEF TypeOK, RowsOK, PassesOK, UnwindInv, DeadLetter, Goto, rows, world, env, pass
  <2>5. /\ heard' = heard
        /\ \A t \in Steps : /\ attempts'[t] = attempts[t]
                            /\ applied'[t] = applied[t]
                            /\ prepared'[t] = prepared[t]
    BY <1>14 DEF DeadLetter, Goto, rows, world, env, pass
  <2>6. /\ pc'[w] = "unwind" => at'[w] \in 0 .. N
        /\ pc'[w] = "undo" => at'[w] \in Steps /\ step'[at'[w]] \notin Fresh
    <3>1. at[w] \in 1 .. N
      BY <1>14 DEF UnwindInv, Steps, DeadLetter
    <3>2. pc'[w] = "unwind" /\ at'[w] = at[w] - 1
      BY <1>14 DEF TypeOK, RowsOK, PassesOK, DeadLetter, Goto
    <3> QED
      BY <3>1, <3>2, CountsAssumption
  <2> QED
    BY <2>1, <2>2, <2>3, <2>4, <2>5, <2>6 DEF Quiet
<1>15. ASSUME Settle(w) PROVE Quiet(w)
    BY <1>15, WorkersAssumption, CountsAssumption
       DEF Settle, Quiet, Holds, Fresh, TypeOK, RowsOK, PassesOK, FuturesInv, UnwindInv, End, Goto, NoChild,
           rows, world, env, pass, Steps, Undoable
<1>16. ASSUME Die(w) PROVE Quiet(w)
    BY <1>16, WorkersAssumption, CountsAssumption
       DEF Die, Quiet, Holds, Fresh, TypeOK, RowsOK, PassesOK, FuturesInv, UnwindInv, End, Goto, NoChild,
           rows, world, env, pass, Steps, Undoable
<1> QED
  BY <1>1, <1>2, <1>3, <1>4, <1>5, <1>6, <1>7, <1>8, <1>9,
     <1>10, <1>11, <1>12, <1>13, <1>14, <1>15, <1>16

-----------------------------------------------------------------------------
(***************************************************************************)
(* Steps of one future.                                                    *)
(***************************************************************************)

\* What such a step of (w, s) leaves alone: every other future and row.
Local(w, s) ==
    /\ pc' = pc /\ at' = at
    /\ \A v \in Workers, t \in Steps :
          (v # w \/ t # s) => child'[v][t] = child[v][t]
    /\ \A t \in Steps \ {s} :
          /\ step'[t] = step[t]
          /\ lease'[t] = lease[t]
          /\ holder'[t] = holder[t]
          /\ attempts'[t] = attempts[t]
          /\ applied'[t] = applied[t]
          /\ prepared'[t] = prepared[t]

\* What it does to its own: it holds what it claims, keeps what another pass
\* holds, never makes a row claimable again, and calls from its own prepare.
Point(w, s) ==
    /\ child[w][s] # "off"
    /\ child'[w][s] = "invoking" => Holds(w, s)' /\ step'[s] = "invoking"
    /\ child'[w][s] = "preparing" => Holds(w, s)' /\ step'[s] \in {"pending", "failed"}
    /\ child'[w][s] = "rejecting" => Holds(w, s)' /\ step'[s] \in Fresh
    /\ child'[w][s] \in {"claim", "invoking"} => s \notin Reaching
    /\ child'[w][s] \in {"pclaim", "preparing", "calling"} => s \in Reaching
    /\ child'[w][s] # "asking"
    /\ child'[w][s] \in {"asking", "ask_retry", "ask_final"} /\ holder'[s] = w
         => attempts'[s] < MaxAttempts
    /\ \A v \in Workers \ {w} :
          /\ Holds(v, s) /\ step[s] \in Fresh => Holds(v, s)' /\ step'[s] = step[s]
          /\ holder'[s] = v => holder[s] = v /\ attempts'[s] = attempts[s]
    /\ step[s] \notin Fresh => step'[s] \notin Fresh
    /\ s \in Reaching =>
          /\ applied'[s] = IF prepared'[s] = "ask" THEN 1 ELSE 0
          /\ step'[s] \in Fresh => step'[s] # "invoking" /\ prepared'[s] = "none"
          /\ step'[s] \notin Fresh => prepared'[s] # "none"
          /\ step[s] \notin Fresh => prepared'[s] = prepared[s]
    /\ heard' \subseteq heard \cup {s}
    /\ s \in heard' => s \in Reaching /\ prepared'[s] = "ask"
    /\ child'[w][s] = "calling" => step[s] \in Fresh /\ step'[s] \notin Fresh

\* A step that is local to one future, and does to its row what Point says,
\* keeps the invariant.
LEMMA PointKeeps ==
    ASSUME FuturesInv, UnwindInv, ClaimInv, KindInv, AskInv, CallInv,
           NEW w \in Workers, NEW s \in Steps, Local(w, s), Point(w, s),
           Reaching \subseteq Steps, heard \subseteq Steps
    PROVE  /\ FuturesInv' /\ UnwindInv' /\ ClaimInv' /\ KindInv' /\ AskInv'
           /\ CallInv'
<1>1. FuturesInv'
  BY DEF FuturesInv, Local, Point
<1>2. UnwindInv'
  BY DEF UnwindInv, Local, Point
<1>3. ClaimInv'
  BY DEF ClaimInv, Local, Point, Holds, Fresh
<1>4. KindInv'
  BY DEF KindInv, Local, Point
<1>5. AskInv'
  BY DEF AskInv, Local, Point
<1>6. CallInv'
  BY DEF CallInv, PrepareInv, Local, Point
<1> QED
  BY <1>1, <1>2, <1>3, <1>4, <1>5, <1>6

\* Every phase of invoke_direct and invoke_reaching is such a step.
LEMMA FutureIsLocal ==
    ASSUME TypeOK, ClaimInv, KindInv, AskInv, CallInv,
           NEW w \in Workers, NEW s \in Steps
    PROVE  ( \/ ClaimDirect(w, s) \/ InvokeDirect(w, s) \/ InvokeFails(w, s) \/ Reject(w, s)
             \/ ClaimPrepare(w, s) \/ Prepare(w, s) \/ Call(w, s) \/ Resume(w, s)
             \/ Stall(w, s) \/ Record(w, s) \/ RecordFails(w, s) \/ DatabaseFails(w, s) )
           => Local(w, s) /\ Point(w, s)
<1>1. ASSUME ClaimDirect(w, s) PROVE Local(w, s) /\ Point(w, s)
  <2>1. Local(w, s)
    BY <1>1 DEF ClaimDirect, Local, TypeOK, RowsOK, PassesOK, CountsOK, Answer, Attempt,
           DriverUnchanged, rows, world, env
  <2>2. Point(w, s)
    BY <1>1, WorkersAssumption
       DEF ClaimDirect, Point, TypeOK, RowsOK, PassesOK, CountsOK, ClaimInv, KindInv, AskInv,
           CallInv, PrepareInv, Holds, Fresh, Answer, Attempt, DriverUnchanged, rows, world, env
  <2> QED
    BY <2>1, <2>2
<1>2. ASSUME InvokeDirect(w, s) PROVE Local(w, s) /\ Point(w, s)
  <2>1. Local(w, s)
    BY <1>2 DEF InvokeDirect, Local, TypeOK, RowsOK, PassesOK, CountsOK, Answer, Attempt,
           DriverUnchanged, rows, world, env
  <2>2. Point(w, s)
    BY <1>2, WorkersAssumption
       DEF InvokeDirect, Point, TypeOK, RowsOK, PassesOK, CountsOK, ClaimInv, KindInv, AskInv,
           CallInv, PrepareInv, Holds, Fresh, Answer, Attempt, DriverUnchanged, rows, world, env
  <2> QED
    BY <2>1, <2>2
<1>3. ASSUME InvokeFails(w, s) PROVE Local(w, s) /\ Point(w, s)
  <2>1. Local(w, s)
    BY <1>3 DEF InvokeFails, Local, TypeOK, RowsOK, PassesOK, CountsOK, Answer, Attempt,
           DriverUnchanged, rows, world, env
  <2>2. Point(w, s)
    BY <1>3, WorkersAssumption
       DEF InvokeFails, Point, TypeOK, RowsOK, PassesOK, CountsOK, ClaimInv, KindInv, AskInv,
           CallInv, PrepareInv, Holds, Fresh, Answer, Attempt, DriverUnchanged, rows, world, env
  <2> QED
    BY <2>1, <2>2
<1>4. ASSUME Reject(w, s) PROVE Local(w, s) /\ Point(w, s)
  <2>1. Local(w, s)
    BY <1>4 DEF Reject, Local, TypeOK, RowsOK, PassesOK, CountsOK, Answer, Attempt,
           DriverUnchanged, rows, world, env
  <2>2. Point(w, s)
    BY <1>4, WorkersAssumption
       DEF Reject, Point, TypeOK, RowsOK, PassesOK, CountsOK, ClaimInv, KindInv, AskInv,
           CallInv, PrepareInv, Holds, Fresh, Answer, Attempt, DriverUnchanged, rows, world, env
  <2> QED
    BY <2>1, <2>2
<1>5. ASSUME ClaimPrepare(w, s) PROVE Local(w, s) /\ Point(w, s)
  <2>1. Local(w, s)
    BY <1>5 DEF ClaimPrepare, Local, TypeOK, RowsOK, PassesOK, CountsOK, Answer, Attempt,
           DriverUnchanged, rows, world, env
  <2>2. Point(w, s)
    BY <1>5, WorkersAssumption
       DEF ClaimPrepare, Point, TypeOK, RowsOK, PassesOK, CountsOK, ClaimInv, KindInv, AskInv,
           CallInv, PrepareInv, Holds, Fresh, Answer, Attempt, DriverUnchanged, rows, world, env
  <2> QED
    BY <2>1, <2>2
<1>6. ASSUME Prepare(w, s) PROVE Local(w, s) /\ Point(w, s)
  <2>1. Local(w, s)
    BY <1>6 DEF Prepare, Local, TypeOK, RowsOK, PassesOK, CountsOK, Answer, Attempt,
           DriverUnchanged, rows, world, env
  <2>2. Point(w, s)
    BY <1>6, WorkersAssumption
       DEF Prepare, Point, TypeOK, RowsOK, PassesOK, CountsOK, ClaimInv, KindInv, AskInv,
           CallInv, PrepareInv, Holds, Fresh, Answer, Attempt, DriverUnchanged, rows, world, env
  <2> QED
    BY <2>1, <2>2
<1>7. ASSUME Call(w, s) PROVE Local(w, s) /\ Point(w, s)
  <2>1. Local(w, s)
    BY <1>7 DEF Call, Local, TypeOK, RowsOK, PassesOK, CountsOK, Answer, Attempt,
           DriverUnchanged, rows, world, env
  <2>2. Point(w, s)
    BY <1>7, WorkersAssumption
       DEF Call, Point, TypeOK, RowsOK, PassesOK, CountsOK, ClaimInv, KindInv, AskInv,
           CallInv, PrepareInv, Holds, Fresh, Answer, Attempt, DriverUnchanged, rows, world, env
  <2> QED
    BY <2>1, <2>2
<1>8. ASSUME Resume(w, s) PROVE Local(w, s) /\ Point(w, s)
  <2>1. Local(w, s)
    BY <1>8 DEF Resume, Local, TypeOK, RowsOK, PassesOK, CountsOK, Answer, Attempt,
           DriverUnchanged, rows, world, env
  <2>2. Point(w, s)
    BY <1>8, WorkersAssumption
       DEF Resume, Point, TypeOK, RowsOK, PassesOK, CountsOK, ClaimInv, KindInv, AskInv,
           CallInv, PrepareInv, Holds, Fresh, Answer, Attempt, DriverUnchanged, rows, world, env
  <2> QED
    BY <2>1, <2>2
<1>9. ASSUME Stall(w, s) PROVE Local(w, s) /\ Point(w, s)
  <2>1. Local(w, s)
    BY <1>9 DEF Stall, Local, TypeOK, RowsOK, PassesOK, CountsOK, Answer, Attempt,
           DriverUnchanged, rows, world, env
  <2>2. Point(w, s)
    BY <1>9, WorkersAssumption
       DEF Stall, Point, TypeOK, RowsOK, PassesOK, CountsOK, ClaimInv, KindInv, AskInv,
           CallInv, PrepareInv, Holds, Fresh, Answer, Attempt, DriverUnchanged, rows, world, env
  <2> QED
    BY <2>1, <2>2
<1>10. ASSUME Record(w, s) PROVE Local(w, s) /\ Point(w, s)
  <2>1. Local(w, s)
    BY <1>10 DEF Record, Local, TypeOK, RowsOK, PassesOK, CountsOK, Answer, Attempt,
           DriverUnchanged, rows, world, env
  <2>2. Point(w, s)
    BY <1>10, WorkersAssumption
       DEF Record, Point, TypeOK, RowsOK, PassesOK, CountsOK, ClaimInv, KindInv, AskInv,
           CallInv, PrepareInv, Holds, Fresh, Answer, Attempt, DriverUnchanged, rows, world, env
  <2> QED
    BY <2>1, <2>2
<1>11. ASSUME RecordFails(w, s) PROVE Local(w, s) /\ Point(w, s)
  <2>1. Local(w, s)
    BY <1>11 DEF RecordFails, Local, TypeOK, RowsOK, PassesOK, CountsOK, Answer, Attempt,
           DriverUnchanged, rows, world, env
  <2>2. Point(w, s)
    BY <1>11, WorkersAssumption
       DEF RecordFails, Point, TypeOK, RowsOK, PassesOK, CountsOK, ClaimInv, KindInv, AskInv,
           CallInv, PrepareInv, Holds, Fresh, Answer, Attempt, DriverUnchanged, rows, world, env
  <2> QED
    BY <2>1, <2>2
<1>12. ASSUME DatabaseFails(w, s) PROVE Local(w, s) /\ Point(w, s)
  <2>1. Local(w, s)
    BY <1>12 DEF DatabaseFails, Local, TypeOK, RowsOK, PassesOK, CountsOK, Answer, Attempt,
           DriverUnchanged, rows, world, env
  <2>2. Point(w, s)
    BY <1>12, WorkersAssumption
       DEF DatabaseFails, Point, TypeOK, RowsOK, PassesOK, CountsOK, ClaimInv, KindInv, AskInv,
           CallInv, PrepareInv, Holds, Fresh, Answer, Attempt, DriverUnchanged, rows, world, env
  <2> QED
    BY <2>1, <2>2
<1> QED
  BY <1>1, <1>2, <1>3, <1>4, <1>5, <1>6, <1>7, <1>8, <1>9,
     <1>10, <1>11, <1>12

-----------------------------------------------------------------------------
(***************************************************************************)
(* Types.                                                                  *)
(***************************************************************************)

\* The pass is over.
LEMMA EndType ==
    ASSUME PassesOK, lock \in Workers \cup {Nobody}, NEW w \in Workers,
           NEW held \in [Steps -> Workers \cup {Nobody, Gone}], End(w, held)
    PROVE  /\ PassesOK'
           /\ lock' \in Workers \cup {Nobody}
           /\ holder' \in [Steps -> Workers \cup {Nobody, Gone}]
  BY CountsAssumption
     DEF PassesOK, End, Goto, NoChild, NoTries, NoView, PassStates, ChildStates

\* A pass moves on, its slot or step with it.
LEMMA MoveType ==
    ASSUME PassesOK, NEW w \in Workers, NEW l \in PassStates, NEW k \in Nat,
           Goto(w, l), at' \in {at, [at EXCEPT ![w] = k]},
           UNCHANGED <<clean, view, child, tries>>
    PROVE  PassesOK'
  BY DEF PassesOK, Goto

\* One entry of a table of futures changes.
LEMMA TableType ==
    ASSUME NEW S, NEW f \in [Workers -> [Steps -> S]],
           NEW w \in Workers, NEW s \in Steps, NEW c \in S
    PROVE  [f EXCEPT ![w][s] = c] \in [Workers -> [Steps -> S]]
  OBVIOUS

\* A future moves on.
LEMMA AnswerType ==
    ASSUME PassesOK, NEW w \in Workers, NEW s \in Steps, NEW c \in ChildStates,
           Answer(w, s, c), UNCHANGED <<pc, at, clean, view, tries>>
    PROVE  PassesOK'
<1>1. child' \in [Workers -> [Steps -> ChildStates]]
  BY TableType DEF PassesOK, Answer
<1> QED
  BY <1>1 DEF PassesOK

\* Steps of a pass outside its futures keep the types.
LEMMA PassType ==
    ASSUME TypeOK, UnwindInv, NEW w \in Workers
    PROVE  ( \/ Acquire(w) \/ Claim(w) \/ LeaseSnapshot(w) \/ LeaseRun(w)
             \/ Take(w) \/ Head(w) \/ ReadSlot(w) \/ Join(w)
             \/ Release(w) \/ Park(w) \/ Finish(w) \/ Mark(w)
             \/ ReadBack(w) \/ Undo(w) \/ DeadLetter(w) \/ Settle(w)
             \/ Die(w) )
           => TypeOK'
<1>1. ASSUME Acquire(w) PROVE TypeOK'
    BY <1>1, WorkersAssumption, CountsAssumption
       DEF Acquire, TypeOK, RowsOK, PassesOK, CountsOK, End, Goto, NoChild, NoTries, NoView, Verdict, Settled, rows, world, env, pass,
           RunStates, PassStates, StepStates, ChildStates, Results
<1>2. ASSUME Claim(w) PROVE TypeOK'
    BY <1>2, WorkersAssumption, CountsAssumption
       DEF Claim, TypeOK, RowsOK, PassesOK, CountsOK, End, Goto, NoChild, NoTries, NoView, Verdict, Settled, rows, world, env, pass,
           RunStates, PassStates, StepStates, ChildStates, Results
<1>3. ASSUME LeaseSnapshot(w) PROVE TypeOK'
    BY <1>3, WorkersAssumption, CountsAssumption
       DEF LeaseSnapshot, TypeOK, RowsOK, PassesOK, CountsOK, End, Goto, NoChild, NoTries, NoView, Verdict, Settled, rows, world, env, pass,
           RunStates, PassStates, StepStates, ChildStates, Results
<1>4. ASSUME LeaseRun(w) PROVE TypeOK'
  <2> DEFINE due == {s \in view[w].due : step[s] \in {"pending", "failed", "called"}
                                          /\ Free(s)}
  <2>1. CASE due = {} /\ view[w].contested
    BY <1>4, <2>1, EndType DEF LeaseRun, TypeOK, RowsOK, CountsOK, world, env
  <2>2. CASE ~(due = {} /\ view[w].contested)
    <3>1. RowsOK' /\ CountsOK'
      BY <1>4, <2>2 DEF LeaseRun, TypeOK, RowsOK, CountsOK, world, env
    <3>2. pc' \in [Workers -> PassStates]
      BY <1>4, <2>2 DEF LeaseRun, TypeOK, PassesOK, Goto, PassStates
    <3>3. view' \in [Workers -> [due : SUBSET Steps, contested : BOOLEAN]]
      <4>1. NoView \in [due : SUBSET Steps, contested : BOOLEAN]
        BY DEF NoView
      <4> QED
        BY <1>4, <2>2, <4>1 DEF LeaseRun, TypeOK, PassesOK
    <3>4. PassesOK'
      BY <1>4, <2>2, <3>2, <3>3 DEF LeaseRun, TypeOK, PassesOK
    <3> QED
      BY <3>1, <3>4 DEF TypeOK
  <2> QED
    BY <2>1, <2>2
<1>5. ASSUME Take(w) PROVE TypeOK'
    BY <1>5, WorkersAssumption, CountsAssumption
       DEF Take, TypeOK, RowsOK, PassesOK, CountsOK, End, Goto, NoChild, NoTries, NoView, Verdict, Settled, rows, world, env, pass,
           RunStates, PassStates, StepStates, ChildStates, Results
<1>6. ASSUME Head(w) PROVE TypeOK'
  <2>1. CASE run \in Settled
    BY <1>6, <2>1, EndType DEF Head, TypeOK, RowsOK, CountsOK, world, env
  <2>2. CASE run \notin Settled
    <3>1. RowsOK' /\ CountsOK'
      BY <1>6, <2>2 DEF Head, TypeOK, RowsOK, CountsOK, world, env
    <3>2. \E l \in PassStates : Goto(w, l)
      BY <1>6, <2>2 DEF Head, PassStates
    <3>3. PassesOK'
      BY <1>6, <2>2, <3>2, MoveType DEF Head, TypeOK
    <3> QED
      BY <3>1, <3>3 DEF TypeOK
  <2> QED
    BY <2>1, <2>2
<1>7. ASSUME ReadSlot(w) PROVE TypeOK'
  <2>1. CASE \E s \in Slot(at[w]) : step[s] = "waiting"
    BY <1>7, <2>1, EndType DEF ReadSlot, TypeOK, RowsOK, CountsOK, world, env
  <2>2. CASE ~\E s \in Slot(at[w]) : step[s] = "waiting"
    <3>1. RowsOK' /\ CountsOK'
      BY <1>7, <2>2 DEF ReadSlot, TypeOK, RowsOK, CountsOK, world, env
    <3>2. pc' \in [Workers -> PassStates]
      BY <1>7, <2>2 DEF ReadSlot, TypeOK, PassesOK, Goto, PassStates
    <3>3. \A s \in Steps : Entry(s) \in ChildStates
      BY DEF Entry, ChildStates, Results
    <3>4. child' \in [Workers -> [Steps -> ChildStates]]
      <4>1. [s \in Steps |-> IF s \in Slot(at[w]) THEN Entry(s) ELSE "off"]
               \in [Steps -> ChildStates]
        BY <3>3 DEF ChildStates
      <4> QED
        BY <1>7, <2>2, <4>1 DEF ReadSlot, TypeOK, PassesOK
    <3>5. tries' \in [Workers -> [Steps -> 0 .. MaxAttempts]]
      <4>1. [s \in Steps |-> IF s \in Slot(at[w]) /\ Entry(s) # "off"
                              THEN attempts[s] ELSE 0] \in [Steps -> 0 .. MaxAttempts]
        BY CountsAssumption DEF TypeOK, RowsOK
      <4> QED
        BY <1>7, <2>2, <4>1 DEF ReadSlot, TypeOK, PassesOK
    <3> QED
      BY <1>7, <2>2, <3>1, <3>2, <3>4, <3>5 DEF ReadSlot, TypeOK, PassesOK
  <2> QED
    BY <2>1, <2>2
<1>8. ASSUME Join(w) PROVE TypeOK'
  <2>1. CASE "lost" \in Answered(w)
    BY <1>8, <2>1, EndType DEF Join, TypeOK, RowsOK, CountsOK, world, env
  <2>2. CASE "lost" \notin Answered(w)
    <3>1. RowsOK' /\ CountsOK'
      BY <1>8, <2>2 DEF Join, TypeOK, RowsOK, CountsOK, world, env
    <3>2. pc' \in [Workers -> PassStates]
      BY <1>8, <2>2 DEF Join, TypeOK, PassesOK, Goto, Verdict, PassStates
    <3>3. at' \in [Workers -> Nat]
      <4>1. at[w] + 1 \in Nat
        BY DEF TypeOK, PassesOK
      <4> QED
        BY <1>8, <2>2, <4>1 DEF Join, TypeOK, PassesOK
    <3>4. NoChild \in [Steps -> ChildStates] /\ NoTries \in [Steps -> 0 .. MaxAttempts]
      BY CountsAssumption DEF NoChild, NoTries, ChildStates
    <3>5. /\ child' \in [Workers -> [Steps -> ChildStates]]
          /\ tries' \in [Workers -> [Steps -> 0 .. MaxAttempts]]
      <4>1. /\ child' = [child EXCEPT ![w] = NoChild]
            /\ tries' = [tries EXCEPT ![w] = NoTries]
        BY <1>8, <2>2 DEF Join
      <4>2. child' \in [Workers -> [Steps -> ChildStates]]
        BY <3>4, <4>1 DEF TypeOK, PassesOK
      <4>3. tries' \in [Workers -> [Steps -> 0 .. MaxAttempts]]
        BY <3>4, <4>1 DEF TypeOK, PassesOK
      <4> QED
        BY <4>2, <4>3
    <3> QED
      BY <1>8, <2>2, <3>1, <3>2, <3>3, <3>5 DEF Join, TypeOK, PassesOK
  <2> QED
    BY <2>1, <2>2
<1>9. ASSUME Release(w) PROVE TypeOK'
    BY <1>9, WorkersAssumption, CountsAssumption
       DEF Release, TypeOK, RowsOK, PassesOK, CountsOK, End, Goto, NoChild, NoTries, NoView, Verdict, Settled, rows, world, env, pass,
           RunStates, PassStates, StepStates, ChildStates, Results
<1>10. ASSUME Park(w) PROVE TypeOK'
    BY <1>10, WorkersAssumption, CountsAssumption
       DEF Park, TypeOK, RowsOK, PassesOK, CountsOK, End, Goto, NoChild, NoTries, NoView, Verdict, Settled, rows, world, env, pass,
           RunStates, PassStates, StepStates, ChildStates, Results
<1>11. ASSUME Finish(w) PROVE TypeOK'
    BY <1>11, WorkersAssumption, CountsAssumption
       DEF Finish, TypeOK, RowsOK, PassesOK, CountsOK, End, Goto, NoChild, NoTries, NoView, Verdict, Settled, rows, world, env, pass,
           RunStates, PassStates, StepStates, ChildStates, Results
<1>12. ASSUME Mark(w) PROVE TypeOK'
    BY <1>12, WorkersAssumption, CountsAssumption
       DEF Mark, TypeOK, RowsOK, PassesOK, CountsOK, End, Goto, NoChild, NoTries, NoView, Verdict, Settled, rows, world, env, pass,
           RunStates, PassStates, StepStates, ChildStates, Results
<1>13. ASSUME ReadBack(w) PROVE TypeOK'
  <2>1. RowsOK' /\ CountsOK'
    BY <1>13 DEF ReadBack, TypeOK, RowsOK, CountsOK, rows, world, env
  <2>2. pc' \in [Workers -> PassStates]
    BY <1>13 DEF ReadBack, TypeOK, PassesOK, Goto, PassStates
  <2>3. at' \in [Workers -> Nat]
    <3>1. at' = at \/ (at[w] # 0 /\ at' = [at EXCEPT ![w] = at[w] - 1])
      BY <1>13 DEF ReadBack
    <3>2. at[w] \in Nat /\ (at[w] # 0 => at[w] - 1 \in Nat)
      BY DEF TypeOK, PassesOK
    <3> QED
      BY <3>1, <3>2 DEF TypeOK, PassesOK
  <2> QED
    BY <1>13, <2>1, <2>2, <2>3 DEF ReadBack, TypeOK, PassesOK
<1>14. ASSUME Undo(w) PROVE TypeOK'
  <2>1. at[w] \in Steps /\ at[w] - 1 \in Nat
    BY <1>14 DEF Undo, UnwindInv, Steps
  <2>2. RowsOK'
    BY <1>14, <2>1 DEF Undo, TypeOK, RowsOK, rows, StepStates
  <2>3. PassesOK'
    <3>1. pc' \in [Workers -> PassStates] /\ at' \in [Workers -> Nat]
      BY <1>14, <2>1 DEF Undo, TypeOK, PassesOK, Goto, PassStates
    <3> QED
      BY <1>14, <3>1 DEF Undo, TypeOK, PassesOK
  <2>4. CountsOK'
    BY <1>14, <2>1 DEF Undo, TypeOK, CountsOK, Kept, world, env
  <2> QED
    BY <2>2, <2>3, <2>4 DEF TypeOK
<1>15. ASSUME DeadLetter(w) PROVE TypeOK'
  <2>1. at[w] \in Steps /\ at[w] - 1 \in Nat
    BY <1>15 DEF DeadLetter, UnwindInv, Steps
  <2>2. RowsOK'
    BY <1>15, <2>1 DEF DeadLetter, TypeOK, RowsOK, rows, StepStates
  <2>3. PassesOK'
    <3>1. pc' \in [Workers -> PassStates] /\ at' \in [Workers -> Nat]
      BY <1>15, <2>1 DEF DeadLetter, TypeOK, PassesOK, Goto, PassStates
    <3> QED
      BY <1>15, <3>1 DEF DeadLetter, TypeOK, PassesOK
  <2>4. CountsOK'
    BY <1>15, <2>1 DEF DeadLetter, TypeOK, CountsOK, Kept, world, env
  <2> QED
    BY <2>2, <2>3, <2>4 DEF TypeOK
<1>16. ASSUME Settle(w) PROVE TypeOK'
    BY <1>16, WorkersAssumption, CountsAssumption
       DEF Settle, TypeOK, RowsOK, PassesOK, CountsOK, End, Goto, NoChild, NoTries, NoView, Verdict, Settled, rows, world, env, pass,
           RunStates, PassStates, StepStates, ChildStates, Results
<1>17. ASSUME Die(w) PROVE TypeOK'
    BY <1>17, WorkersAssumption, CountsAssumption
       DEF Die, TypeOK, RowsOK, PassesOK, CountsOK, End, Goto, NoChild, NoTries, NoView, Verdict, Settled, rows, world, env, pass,
           RunStates, PassStates, StepStates, ChildStates, Results
<1> QED
  BY <1>1, <1>2, <1>3, <1>4, <1>5, <1>6, <1>7, <1>8, <1>9,
     <1>10, <1>11, <1>12, <1>13, <1>14, <1>15, <1>16, <1>17

\* The phases of a future keep the types.
LEMMA FutureType ==
    ASSUME TypeOK, AskInv, NEW w \in Workers, NEW s \in Steps
    PROVE  ( \/ ClaimDirect(w, s) \/ InvokeDirect(w, s) \/ InvokeFails(w, s) \/ Reject(w, s)
             \/ ClaimPrepare(w, s) \/ Prepare(w, s) \/ Call(w, s) \/ Resume(w, s)
             \/ Stall(w, s) \/ Record(w, s) \/ RecordFails(w, s) \/ DatabaseFails(w, s) )
           => TypeOK'
<1>1. ASSUME ClaimDirect(w, s) PROVE TypeOK'
  <2>1. RowsOK'
    <3>1. attempts' \in [Steps -> 0 .. MaxAttempts]
      BY <1>1, CountsAssumption DEF ClaimDirect, Attempt, TypeOK, RowsOK
    <3> QED
      BY <1>1, <3>1 DEF ClaimDirect, TypeOK, RowsOK, Attempt, DriverUnchanged, StepStates
  <2>2. \E c \in ChildStates : Answer(w, s, c)
    BY <1>1 DEF ClaimDirect, Attempt, ChildStates, Results
  <2>3. child' \in [Workers -> [Steps -> ChildStates]]
    BY <2>2 DEF TypeOK, PassesOK, Answer
  <2>4. tries' \in [Workers -> [Steps -> 0 .. MaxAttempts]]
    <3>1. CASE tries' = tries
      BY <3>1 DEF TypeOK, PassesOK
    <3>2. CASE \E k \in 0 .. MaxAttempts : tries' = [tries EXCEPT ![w][s] = k]
      BY <3>2, TableType DEF TypeOK, PassesOK
    <3>3. attempts[s] < MaxAttempts => attempts[s] + 1 \in 0 .. MaxAttempts
      BY CountsAssumption DEF TypeOK, RowsOK
    <3> QED
      BY <1>1, <3>1, <3>2, <3>3 DEF ClaimDirect, Attempt
  <2>5. PassesOK'
    BY <1>1, <2>3, <2>4 DEF ClaimDirect, TypeOK, PassesOK, DriverUnchanged
  <2>6. CountsOK'
    BY <1>1 DEF ClaimDirect, TypeOK, CountsOK, world, env
  <2> QED
    BY <2>1, <2>5, <2>6 DEF TypeOK
<1>2. ASSUME InvokeDirect(w, s) PROVE TypeOK'
    BY <1>2, WorkersAssumption, CountsAssumption
       DEF InvokeDirect, TypeOK, RowsOK, PassesOK, CountsOK, Answer, DriverUnchanged, Attempt, Bump, rows, world, env,
           RunStates, PassStates, StepStates, ChildStates, Results
<1>3. ASSUME InvokeFails(w, s) PROVE TypeOK'
  <2>1. RowsOK'
    BY <1>3 DEF InvokeFails, TypeOK, RowsOK, Answer, DriverUnchanged, rows, StepStates
  <2>2. \E c \in ChildStates : Answer(w, s, c)
    BY <1>3 DEF InvokeFails, ChildStates, Results
  <2>3. UNCHANGED <<pc, at, clean, view, tries>>
    BY <1>3 DEF InvokeFails, DriverUnchanged
  <2>4. PassesOK'
    BY <2>2, <2>3, AnswerType DEF TypeOK
  <2>5. CountsOK'
    BY <1>3, CountsAssumption DEF InvokeFails, TypeOK, CountsOK, DriverUnchanged, world, env
  <2> QED
    BY <2>1, <2>4, <2>5 DEF TypeOK
<1>4. ASSUME Reject(w, s) PROVE TypeOK'
  <2>1. RowsOK'
    BY <1>4 DEF Reject, TypeOK, RowsOK, DriverUnchanged, StepStates
  <2>2. Answer(w, s, "refused") /\ "refused" \in ChildStates
    BY <1>4 DEF Reject, ChildStates, Results
  <2>3. UNCHANGED <<pc, at, clean, view, tries>>
    BY <1>4 DEF Reject, DriverUnchanged
  <2>4. PassesOK'
    BY <2>2, <2>3, AnswerType DEF TypeOK
  <2>5. CountsOK'
    BY <1>4 DEF Reject, TypeOK, CountsOK, world, env
  <2> QED
    BY <2>1, <2>4, <2>5 DEF TypeOK
<1>5. ASSUME ClaimPrepare(w, s) PROVE TypeOK'
  <2>1. RowsOK'
    <3>1. attempts' \in [Steps -> 0 .. MaxAttempts]
      BY <1>5, CountsAssumption DEF ClaimPrepare, Attempt, TypeOK, RowsOK
    <3> QED
      BY <1>5, <3>1 DEF ClaimPrepare, TypeOK, RowsOK, Attempt, DriverUnchanged, StepStates
  <2>2. \E c \in ChildStates : Answer(w, s, c)
    BY <1>5 DEF ClaimPrepare, Attempt, ChildStates, Results
  <2>3. child' \in [Workers -> [Steps -> ChildStates]]
    BY <2>2 DEF TypeOK, PassesOK, Answer
  <2>4. tries' \in [Workers -> [Steps -> 0 .. MaxAttempts]]
    <3>1. CASE tries' = tries
      BY <3>1 DEF TypeOK, PassesOK
    <3>2. CASE \E k \in 0 .. MaxAttempts : tries' = [tries EXCEPT ![w][s] = k]
      BY <3>2, TableType DEF TypeOK, PassesOK
    <3>3. attempts[s] < MaxAttempts => attempts[s] + 1 \in 0 .. MaxAttempts
      BY CountsAssumption DEF TypeOK, RowsOK
    <3> QED
      BY <1>5, <3>1, <3>2, <3>3 DEF ClaimPrepare, Attempt
  <2>5. PassesOK'
    BY <1>5, <2>3, <2>4 DEF ClaimPrepare, TypeOK, PassesOK, DriverUnchanged
  <2>6. CountsOK'
    BY <1>5 DEF ClaimPrepare, TypeOK, CountsOK, world, env
  <2> QED
    BY <2>1, <2>5, <2>6 DEF TypeOK
<1>6. ASSUME Prepare(w, s) PROVE TypeOK'
    BY <1>6, WorkersAssumption, CountsAssumption
       DEF Prepare, TypeOK, RowsOK, PassesOK, CountsOK, Answer, DriverUnchanged, Attempt, Bump, rows, world, env,
           RunStates, PassStates, StepStates, ChildStates, Results
<1>7. ASSUME Call(w, s) PROVE TypeOK'
  <2>1. RowsOK'
    BY <1>7 DEF Call, TypeOK, RowsOK, Answer, DriverUnchanged, rows, StepStates
  <2>2. \E c \in ChildStates : Answer(w, s, c)
    BY <1>7 DEF Call, ChildStates, Results
  <2>3. UNCHANGED <<pc, at, clean, view, tries>>
    BY <1>7 DEF Call, DriverUnchanged
  <2>4. PassesOK'
    BY <2>2, <2>3, AnswerType DEF TypeOK
  <2>5. CountsOK'
    BY <1>7, CountsAssumption DEF Call, TypeOK, CountsOK, DriverUnchanged, world, env
  <2> QED
    BY <2>1, <2>4, <2>5 DEF TypeOK
<1>8. ASSUME Resume(w, s) PROVE TypeOK'
  <2>1. RowsOK'
    BY <1>8 DEF Resume, TypeOK, RowsOK, Answer, DriverUnchanged, rows, StepStates
  <2>2. \E c \in ChildStates : Answer(w, s, c)
    BY <1>8 DEF Resume, ChildStates, Results
  <2>3. UNCHANGED <<pc, at, clean, view, tries>>
    BY <1>8 DEF Resume, DriverUnchanged
  <2>4. PassesOK'
    BY <2>2, <2>3, AnswerType DEF TypeOK
  <2>5. CountsOK'
    BY <1>8, CountsAssumption DEF Resume, TypeOK, CountsOK, DriverUnchanged, world, env
  <2> QED
    BY <2>1, <2>4, <2>5 DEF TypeOK
<1>9. ASSUME Stall(w, s) PROVE TypeOK'
  <2>1. RowsOK'
    <3>1. attempts' \in [Steps -> 0 .. MaxAttempts]
      <4>1. CASE holder[s] # w
        BY <1>9, <4>1 DEF Stall, TypeOK, RowsOK
      <4>2. CASE holder[s] = w
        <5>1. attempts[s] + Bump(child[w][s]) \in 0 .. MaxAttempts
          BY <1>9, <4>2, CountsAssumption DEF Stall, AskInv, Bump, TypeOK, RowsOK
        <5> QED
          BY <1>9, <4>2, <5>1 DEF Stall, TypeOK, RowsOK
      <4> QED
        BY <4>1, <4>2
    <3> QED
      BY <1>9, <3>1 DEF Stall, TypeOK, RowsOK, DriverUnchanged
  <2>2. \E c \in ChildStates : Answer(w, s, c)
    BY <1>9 DEF Stall, ChildStates, Results
  <2>3. UNCHANGED <<pc, at, clean, view, tries>>
    BY <1>9 DEF Stall, DriverUnchanged
  <2>4. PassesOK'
    BY <2>2, <2>3, AnswerType DEF TypeOK
  <2>5. CountsOK'
    BY <1>9, CountsAssumption DEF Stall, TypeOK, CountsOK, DriverUnchanged, world, env
  <2> QED
    BY <2>1, <2>4, <2>5 DEF TypeOK
<1>10. ASSUME Record(w, s) PROVE TypeOK'
  <2>1. RowsOK'
    BY <1>10 DEF Record, TypeOK, RowsOK, Answer, DriverUnchanged, rows, StepStates
  <2>2. \E c \in ChildStates : Answer(w, s, c)
    BY <1>10 DEF Record, ChildStates, Results
  <2>3. UNCHANGED <<pc, at, clean, view, tries>>
    BY <1>10 DEF Record, DriverUnchanged
  <2>4. PassesOK'
    BY <2>2, <2>3, AnswerType DEF TypeOK
  <2>5. CountsOK'
    BY <1>10, CountsAssumption DEF Record, TypeOK, CountsOK, DriverUnchanged, world, env
  <2> QED
    BY <2>1, <2>4, <2>5 DEF TypeOK
<1>11. ASSUME RecordFails(w, s) PROVE TypeOK'
  <2>1. RowsOK'
    BY <1>11 DEF RecordFails, TypeOK, RowsOK, Answer, DriverUnchanged, rows, StepStates
  <2>2. \E c \in ChildStates : Answer(w, s, c)
    BY <1>11 DEF RecordFails, ChildStates, Results
  <2>3. UNCHANGED <<pc, at, clean, view, tries>>
    BY <1>11 DEF RecordFails, DriverUnchanged
  <2>4. PassesOK'
    BY <2>2, <2>3, AnswerType DEF TypeOK
  <2>5. CountsOK'
    BY <1>11, CountsAssumption DEF RecordFails, TypeOK, CountsOK, DriverUnchanged, world, env
  <2> QED
    BY <2>1, <2>4, <2>5 DEF TypeOK
<1>12. ASSUME DatabaseFails(w, s) PROVE TypeOK'
    BY <1>12, WorkersAssumption, CountsAssumption
       DEF DatabaseFails, TypeOK, RowsOK, PassesOK, CountsOK, Answer, DriverUnchanged, Attempt, Bump, rows, world, env,
           RunStates, PassStates, StepStates, ChildStates, Results
<1> QED
  BY <1>1, <1>2, <1>3, <1>4, <1>5, <1>6, <1>7, <1>8, <1>9,
     <1>10, <1>11, <1>12

-----------------------------------------------------------------------------
(***************************************************************************)
(* The invariant.                                                          *)
(***************************************************************************)

\* Before the run is written nothing is held and nobody is driving.
LEMMA InitInv == Init => IndInv
<1> SUFFICES ASSUME Init PROVE IndInv
  OBVIOUS
<1>1. TypeOK
  BY CountsAssumption
     DEF Init, TypeOK, RowsOK, PassesOK, CountsOK, NoChild, NoTries, NoView,
         RunStates, StepStates, PassStates, ChildStates
<1>2. FuturesInv /\ UnwindInv /\ ClaimInv /\ KindInv /\ AskInv
  BY DEF Init, FuturesInv, UnwindInv, ClaimInv, KindInv, AskInv, NoChild
<1>3. CallInv
  BY PlanAssumption DEF Init, CallInv, PrepareInv, NoChild, Fresh
<1> QED
  BY <1>1, <1>2, <1>3 DEF IndInv

\* Reading a slot gives each of its steps the future its row calls for.
LEMMA ReadSlotKeeps ==
    ASSUME IndInv, NEW w \in Workers, ReadSlot(w)
    PROVE  /\ FuturesInv' /\ UnwindInv' /\ ClaimInv' /\ KindInv' /\ AskInv'
           /\ CallInv'
<1> USE DEF IndInv
<1>1. CASE \E s \in Slot(at[w]) : step[s] = "waiting"
  <2>1. Quiet(w)
    BY <1>1, WorkersAssumption
       DEF ReadSlot, Quiet, Holds, Fresh, TypeOK, RowsOK, PassesOK, End, Goto, NoChild, world
  <2> QED
    BY <2>1, QuietKeeps, PlanAssumption DEF TypeOK, CountsOK
<1>2. CASE ~\E s \in Slot(at[w]) : step[s] = "waiting"
  <2>1. /\ \A v \in Workers, t \in Steps :
              child'[v][t] = IF v = w THEN IF t \in Slot(at[w]) THEN Entry(t) ELSE "off"
                             ELSE child[v][t]
        /\ \A v \in Workers : pc'[v] = IF v = w THEN "running" ELSE pc[v]
        /\ UNCHANGED <<at, step, lease, holder, attempts, heard, applied, prepared>>
    BY <1>2 DEF ReadSlot, TypeOK, PassesOK, Goto, world
  <2>2. \A t \in Steps :
           /\ Entry(t) \in {"off", "refused", "claim", "asking", "pclaim"}
           /\ Entry(t) = "claim" => t \notin Reaching
           /\ Entry(t) = "pclaim" => t \in Reaching
           /\ Entry(t) = "asking" => /\ t \in Reaching
                                    /\ step[t] \notin Fresh
                                    /\ attempts[t] < MaxAttempts
    BY CountsAssumption DEF Entry, TypeOK, RowsOK, Fresh
  <2>3. FuturesInv' /\ UnwindInv'
    BY <2>1 DEF FuturesInv, UnwindInv
  <2>4. ClaimInv' /\ KindInv' /\ AskInv'
    BY <2>1, <2>2 DEF ClaimInv, KindInv, AskInv, Holds
  <2>5. CallInv'
    <3>1. PrepareInv'
      BY <2>1, PlanAssumption DEF CallInv, PrepareInv, TypeOK, CountsOK
    <3> QED
      BY <2>1, <2>2, <3>1 DEF CallInv
  <2> QED
    BY <2>3, <2>4, <2>5
<1> QED
  BY <1>1, <1>2

\* What no pass does: the run is written, leases run out, leases are cleared.
LEMMA OtherKeeps ==
    ASSUME IndInv, Start \/ Recover \/ (\E s \in Steps : Expire(s))
    PROVE  IndInv'
<1> USE DEF IndInv
<1>1. CASE Start
  <2>1. TypeOK'
    BY <1>1 DEF Start, TypeOK, RowsOK, PassesOK, CountsOK, rows, pass, world, env, RunStates
  <2> QED
    BY <1>1, <2>1 DEF Start, FuturesInv, UnwindInv, ClaimInv, KindInv, AskInv, CallInv,
                      PrepareInv, Holds, rows, pass, world, env
<1>2. CASE Recover
  <2>1. TypeOK'
    <3>1. RowsOK'
      BY <1>2 DEF Recover, TypeOK, RowsOK, Recovered, StepStates
    <3> QED
      BY <1>2, <3>1 DEF Recover, TypeOK, PassesOK, CountsOK, pass, world, env
  <2>2. \A t \in Steps :
           /\ step'[t] = step[t] \/ (step[t] = "invoking" /\ step'[t] = "pending")
           /\ lease[t] # "expired" => /\ lease'[t] = lease[t]
                                      /\ holder'[t] = holder[t]
                                      /\ step'[t] = step[t]
           /\ \A v \in Workers : holder'[t] = v => holder[t] = v
    BY <1>2, WorkersAssumption DEF Recover, TypeOK, RowsOK, Recovered
  <2>3. UNCHANGED <<pc, at, child, attempts, heard, applied, prepared>>
    BY <1>2 DEF Recover, pass, world
  <2>4. FuturesInv' /\ UnwindInv'
    BY <2>2, <2>3 DEF FuturesInv, UnwindInv, Fresh
  <2>5. ClaimInv' /\ KindInv' /\ AskInv'
    BY <2>2, <2>3 DEF ClaimInv, KindInv, AskInv, Holds
  <2>6. CallInv'
    BY <2>2, <2>3, PlanAssumption DEF CallInv, PrepareInv, Fresh
  <2> QED
    BY <2>1, <2>4, <2>5, <2>6
<1>3. CASE \E s \in Steps : Expire(s)
  <2> PICK s \in Steps : Expire(s)
    BY <1>3
  <2>1. TypeOK'
    BY DEF Expire, TypeOK, RowsOK, PassesOK, CountsOK, pass, world, env
  <2>2. /\ \A v \in Workers, t \in Steps : Holds(v, t) => Holds(v, t)'
        /\ UNCHANGED <<pc, at, child, step, holder, attempts, heard, applied, prepared>>
    BY DEF Expire, Holds, TypeOK, RowsOK, pass, world
  <2> QED
    BY <2>1, <2>2 DEF FuturesInv, UnwindInv, ClaimInv, KindInv, AskInv, CallInv, PrepareInv
<1> QED
  BY <1>1, <1>2, <1>3

\* The invariant is inductive.
LEMMA NextInv == IndInv /\ [Next]_vars => IndInv'
<1> SUFFICES ASSUME IndInv, [Next]_vars PROVE IndInv'
  OBVIOUS
<1> USE DEF IndInv
<1>1. CASE Start \/ Recover \/ (\E s \in Steps : Expire(s))
  BY <1>1, OtherKeeps
<1>2. ASSUME NEW w \in Workers, ReadSlot(w) PROVE IndInv'
  BY <1>2, PassType, ReadSlotKeeps
<1>3. ASSUME NEW w \in Workers,
             \/ Acquire(w) \/ Claim(w) \/ LeaseSnapshot(w) \/ LeaseRun(w)
             \/ Take(w) \/ Head(w) \/ Join(w) \/ Release(w)
             \/ Park(w) \/ Finish(w) \/ Mark(w) \/ ReadBack(w)
             \/ Undo(w) \/ DeadLetter(w) \/ Settle(w) \/ Die(w)
      PROVE  IndInv'
  <2>1. Quiet(w)
    BY <1>3, PassIsQuiet
  <2>2. TypeOK'
    BY <1>3, PassType
  <2> QED
    BY <2>1, <2>2, QuietKeeps, PlanAssumption DEF TypeOK, CountsOK
<1>4. ASSUME NEW w \in Workers, NEW s \in Steps, Future(w, s) \/ DatabaseFails(w, s)
      PROVE  IndInv'
  <2>1. Local(w, s) /\ Point(w, s)
    BY <1>4, FutureIsLocal DEF Future
  <2>2. TypeOK'
    BY <1>4, FutureType DEF Future
  <2> QED
    BY <2>1, <2>2, PointKeeps, PlanAssumption DEF TypeOK, CountsOK
<1>5. CASE UNCHANGED vars
  BY <1>5 DEF vars, rows, pass, world, env, TypeOK, RowsOK, PassesOK, CountsOK,
              FuturesInv, UnwindInv, ClaimInv, KindInv, AskInv, CallInv, PrepareInv, Holds
<1> QED
  BY <1>1, <1>2, <1>3, <1>4, <1>5 DEF Next, Going

\* Every reachable state of the engine satisfies the inductive invariant: who
\* claims a step holds its row until it has written it (the claims, `recover`).
THEOREM Invariance == Spec => []IndInv
  BY InitInv, NextInv, PTL DEF Spec

\* Types: every column and local of the engine, and the attempts of a row
\* never above its ceiling, whoever drives the run (the claims, `stall`).
THEOREM TypeCorrect == Spec => []TypeOK
<1>1. IndInv => TypeOK
  BY DEF IndInv
<1> QED
  BY <1>1, Invariance, PTL

\* However many passes want a run, locked or not, and whichever die, no two
\* of them are inside the same step (`lease_run`, `take`, the claims).
THEOREM OneInvokerAlways == Spec => []OneInvoker
<1>1. IndInv => OneInvoker
  BY DEF IndInv, ClaimInv, CallInv, OneInvoker, Holds, Fresh
<1> QED
  BY <1>1, Invariance, PTL

\* However many passes take a run over, a provider hears of a step under one
\* idempotency key: prepare commits once, before the first call, and the row
\* can never be claimed again (prepare_phase, `recover`).
THEOREM OneQuestionAlways == Spec => []OneQuestion
<1>1. IndInv => OneQuestion
  <2>1. IndInv => Reaching \subseteq Steps
    BY PlanAssumption
  <2> QED
    BY <2>1 DEF IndInv, TypeOK, RowsOK, CountsOK, CallInv, PrepareInv, OneQuestion, Fresh
<1> QED
  BY <1>1, Invariance, PTL

-----------------------------------------------------------------------------
(***************************************************************************)
(* A run with one driver at a time is the saga it promises.                *)
(***************************************************************************)

\* Only the pass that has the lock is anywhere.
SoleInv == \A w \in Workers : pc[w] # "idle" => lock = w

\* The run has not begun to unwind, and has not ended.
Forward == {"none", "running", "waiting"}

\* Every step of the slots before k is behind the run.
Past(k) == \A t \in Steps : SlotOf[t] < k => step[t] \in Passed

\* What the row of a step says stands of its effect.
Effect(s) ==
    IF \/ step[s] = "done"
       \/ step[s] \in {"called", "waiting"} /\ prepared[s] = "ask"
      THEN 1 ELSE 0

\* The row of a step tells what was committed of it, and its compensation
\* what there is to undo.
EffectInv ==
    \A s \in Steps :
        /\ applied[s] - undone[s] = Effect(s)
        /\ s \notin Reaching => prepared[s] = "none"
        /\ step[s] = "called" => prepared[s] \in {"ask", "skip"}
        /\ step[s] = "done" => prepared[s] # "skip"

\* A step is begun when everything before its slot is over.
OrderInv ==
    run \in Forward => \A s \in Steps : step[s] # "pending" => Past(SlotOf[s])

\* Phases that come after the row was moved to called.
Asked == {"calling", "call_retry", "call_final", "asking", "ask_retry", "ask_final",
          "recording"}

\* Phases of a future that has not settled its row.
Working == ChildStates \ {"off", "out", "waits", "lost"}

\* Where a future has got with its row: it has its answer, or the row still
\* waits for one.
FutureOf(w, s) ==
    /\ child[w][s] = "out" => step[s] \in Passed
    /\ child[w][s] = "waits" => step[s] = "waiting"
    /\ child[w][s] \in Asked => step[s] = "called"
    /\ child[w][s] \in Working => step[s] \notin Passed \cup {"waiting"}

\* The futures are those of the slot the pass is at, and none is needed for a
\* step that was behind the run already.
FuturesOf(w) ==
    \A s \in Steps :
        /\ pc[w] = "running" =>
              IF s \in Slot(at[w]) THEN child[w][s] = "off" => step[s] \in Passed
                                   ELSE child[w][s] = "off"
        /\ child[w][s] # "off" => run = "running"
        /\ FutureOf(w, s)

SlotInv == \A w \in Workers : FuturesOf(w)

\* No step that kept something is waiting.
NoneWaits == \A s \in Reaching : step[s] # "waiting"

\* What the run says where a pass is.
PhaseOf(w) ==
    /\ pc[w] \notin {"idle", "claim"} => run # "none"
    /\ pc[w] \in {"slot", "running"} => run \in {"running", "waiting"} /\ Past(at[w])
    /\ pc[w] \in {"release", "park"} => run = "running"
    /\ pc[w] = "park" => \E s \in Steps : step[s] = "waiting"
    /\ pc[w] = "mark" => run = "compensating" \/ (run = "running" /\ NoneWaits)
    /\ pc[w] \in {"unwind", "undo", "settle"} => run = "compensating"

PhaseInv == \A w \in Workers : PhaseOf(w)

\* A run waits for a step that does, and none that kept something waits
\* behind a run that unwinds.
WaitInv ==
    /\ run = "waiting" => \E s \in Steps : step[s] = "waiting"
    /\ run \notin Forward => NoneWaits

\* The walk back has left t behind it.
Behind(w, t) ==
    \/ pc[w] = "settle"
    \/ pc[w] \in {"unwind", "undo"} /\ t > at[w]

\* What the walk left standing it wrote down, and will not call reverted.
BackOf(w) ==
    /\ pc[w] = "undo" => step[at[w]] \in Undoable
    /\ \A t \in Steps :
          Behind(w, t) /\ step[t] \in Undoable => t \in dead /\ ~clean[w]

BackInv == \A w \in Workers : BackOf(w)

\* The inductive invariant of a run with one driver, on top of IndInv.
SagaInv ==
    /\ SoleInv
    /\ EffectInv
    /\ OrderInv
    /\ SlotInv
    /\ PhaseInv
    /\ WaitInv
    /\ BackInv
    /\ SettledFaithful

\* A step of the saga, or none that it sees.
SagaStep == [Promise!Next]_Promise!vars

\* Where one pass is, the others are not.
LEMMA OthersIdle ==
    ASSUME SoleInv, NEW w \in Workers, pc[w] # "idle"
    PROVE  \A v \in Workers \ {w} : pc[v] = "idle"
  BY DEF SoleInv

-----------------------------------------------------------------------------
(***************************************************************************)
(* Steps of one future, as the saga sees them.                             *)
(***************************************************************************)

\* Every other future and row is left alone, and so is the run.
Others(w, s) ==
    /\ UNCHANGED <<run, dead, lock, pc, at, clean, undone>>
    /\ \A v \in Workers, t \in Steps : (v # w \/ t # s) => child'[v][t] = child[v][t]
    /\ \A t \in Steps \ {s} : /\ step'[t] = step[t]
                              /\ prepared'[t] = prepared[t]
                              /\ applied'[t] = applied[t]

\* The row says what was committed of its step: nothing more, or its effect.
RowDeed(s) ==
    /\ applied'[s] - undone[s] \in {applied[s] - undone[s], 1}
    /\ applied'[s] - undone[s] = Effect(s)'
    /\ s \notin Reaching => prepared'[s] = "none"
    /\ step'[s] = "called" => prepared'[s] \in {"ask", "skip"}
    /\ step'[s] = "done" => prepared'[s] # "skip"

\* What a step of one future does: to its own row and effect, and the answer
\* it has then.
Deed(w, s) ==
    /\ child[w][s] # "off" /\ step[s] \notin Passed \cup {"waiting"}
    /\ Others(w, s)
    /\ RowDeed(s)
    /\ child'[w][s] # "off" /\ FutureOf(w, s)'

\* A deed keeps the invariant, and is the saga performing that step.
LEMMA DeedKeeps ==
    ASSUME TypeOK, FuturesInv, SagaInv,
           NEW w \in Workers, NEW s \in Steps, Deed(w, s)
    PROVE  SagaInv' /\ SagaStep
<1> USE DEF SagaInv
<1>1. /\ run = "running" /\ run' = "running"
      /\ pc[w] = "running" /\ pc' = pc /\ at' = at
      /\ s \in Slot(at[w]) /\ Past(at[w])
      /\ \A v \in Workers \ {w} : pc[v] = "idle" /\ pc'[v] = "idle"
  <2>1. run = "running" /\ run' = "running" /\ pc[w] = "running" /\ pc' = pc /\ at' = at
    BY DEF Deed, Others, RowDeed, SlotInv, FuturesOf, FuturesInv
  <2>2. s \in Slot(at[w]) /\ Past(at[w])
    BY <2>1 DEF Deed, Others, RowDeed, SlotInv, FuturesOf, PhaseInv, PhaseOf
  <2>3. \A v \in Workers \ {w} : pc[v] = "idle" /\ pc'[v] = "idle"
    BY <2>1, OthersIdle
  <2> QED
    BY <2>1, <2>2, <2>3
<1>2. /\ \A t \in Steps : step[t] \in Passed => step'[t] \in Passed
      /\ \A t \in Steps : step[t] = "waiting" => step'[t] = "waiting"
      /\ \A k : Past(k) => Past(k)'
  BY DEF Deed, Others, RowDeed, Past, Passed
<1>3. SoleInv' /\ WaitInv' /\ SettledFaithful'
  BY <1>1 DEF SoleInv, WaitInv, SettledFaithful, Deed, Others, RowDeed, Forward
<1>4. EffectInv'
  <2>1. \A t \in Steps \ {s} : Effect(t)' = Effect(t)
    BY DEF Effect, Deed, Others, RowDeed
  <2> QED
    BY <2>1 DEF EffectInv, Deed, Others, RowDeed
<1>5. OrderInv'
  <2>1. \A t \in Steps : step'[t] # "pending" => Past(SlotOf[t])
    BY <1>1 DEF OrderInv, Deed, Others, RowDeed, Slot, Forward
  <2> QED
    BY <2>1, <1>2 DEF OrderInv
<1>6. SlotInv'
  <2> SUFFICES ASSUME NEW v \in Workers, NEW t \in Steps
               PROVE  /\ pc'[v] = "running" =>
                            IF t \in Slot(at[v]) THEN child'[v][t] = "off" => step'[t] \in Passed
                                                 ELSE child'[v][t] = "off"
                      /\ FutureOf(v, t)'
    BY <1>1 DEF SlotInv, FuturesOf, Slot
  <2>1. CASE v = w /\ t = s
    BY <2>1, <1>1 DEF Deed, Others, RowDeed
  <2>2. CASE v = w /\ t # s
    BY <2>2, <1>1 DEF Deed, Others, RowDeed, SlotInv, FuturesOf, FutureOf
  <2>3. CASE v # w
    <3>1. child[v][t] = "off" /\ child'[v][t] = "off" /\ pc'[v] = "idle"
      BY <2>3, <1>1 DEF Deed, Others, RowDeed, FuturesInv
    <3> QED
      BY <3>1 DEF FutureOf, Asked, Working
  <2> QED
    BY <2>1, <2>2, <2>3
<1>7. PhaseInv'
  BY <1>1, <1>2 DEF PhaseInv, PhaseOf
<1>8. BackInv'
  BY <1>1 DEF BackInv, BackOf, Behind
<1>9. Promise!Perform(s)
  <2>1. Past(SlotOf[s])
    BY <1>1 DEF Slot
  <2>2. \A t \in Steps : SlotOf[t] < SlotOf[s] => t \in {u \in Steps : step[u] \in Passed}
    BY <2>1 DEF Past
  <2>3. PICK e \in {applied[s] - undone[s], 1} : e = applied'[s] - undone'[s]
    BY DEF Deed, Others, RowDeed
  <2>4. [t \in Steps |-> applied[t] - undone[t]]' =
           [[t \in Steps |-> applied[t] - undone[t]] EXCEPT ![s] = e]
    BY <2>3 DEF Deed, Others, RowDeed
  <2>5. {u \in Steps : step[u] \in Passed}' \in
           {{u \in Steps : step[u] \in Passed}, {u \in Steps : step[u] \in Passed} \cup {s}}
    <3>1. CASE step'[s] \in Passed
      BY <3>1 DEF Deed, Others, RowDeed
    <3>2. CASE step'[s] \notin Passed
      BY <3>2 DEF Deed, Others, RowDeed
    <3> QED
      BY <3>1, <3>2
  <2> QED
    BY <1>1, <2>2, <2>3, <2>4, <2>5 DEF Promise!Perform, Promise!Steps, Steps, Deed, Others, RowDeed
<1> QED
  BY <1>3, <1>4, <1>5, <1>6, <1>7, <1>8, <1>9 DEF SagaStep, Promise!Next, Promise!Steps, Steps

\* Every phase of invoke_direct and invoke_reaching is such a deed.
LEMMA FutureIsDeed ==
    ASSUME TypeOK, ClaimInv, KindInv, SagaInv, NEW w \in Workers, NEW s \in Steps
    PROVE  ( \/ ClaimDirect(w, s) \/ InvokeDirect(w, s) \/ InvokeFails(w, s) \/ Reject(w, s)
             \/ ClaimPrepare(w, s) \/ Prepare(w, s) \/ Call(w, s) \/ Resume(w, s)
             \/ Stall(w, s) \/ Record(w, s) \/ RecordFails(w, s) \/ DatabaseFails(w, s) )
           => Deed(w, s)
<1> USE DEF SagaInv
<1>1. ASSUME ClaimDirect(w, s) PROVE Deed(w, s)
  <2>1. Others(w, s)
    BY <1>1 DEF ClaimDirect, Others, TypeOK, RowsOK, PassesOK, CountsOK, Answer, Attempt,
              DriverUnchanged, rows, world, env
  <2>2. step[s] \notin Passed \cup {"waiting"}
    BY <1>1 DEF ClaimDirect, SlotInv, FuturesOf, FutureOf, Working, Asked, ChildStates, Results
  <2>3. RowDeed(s)
    BY <1>1 DEF ClaimDirect, RowDeed, Effect, EffectInv, ClaimInv, KindInv, TypeOK, RowsOK, CountsOK,
              Attempt, rows, world, Fresh
  <2>4. child'[w][s] # "off" /\ FutureOf(w, s)'
    BY <1>1, <2>2 DEF ClaimDirect, FutureOf, SlotInv, FuturesOf, ClaimInv, TypeOK, RowsOK, PassesOK, Answer, Attempt,
              rows, Asked, Working, ChildStates, Results, Passed, Fresh
  <2> QED
    BY <1>1, <2>1, <2>2, <2>3, <2>4 DEF Deed, ClaimDirect
<1>2. ASSUME InvokeDirect(w, s) PROVE Deed(w, s)
  <2>1. Others(w, s)
    BY <1>2 DEF InvokeDirect, Others, TypeOK, RowsOK, PassesOK, CountsOK, Answer, Attempt,
              DriverUnchanged, rows, world, env
  <2>2. step[s] \notin Passed \cup {"waiting"}
    BY <1>2 DEF InvokeDirect, SlotInv, FuturesOf, FutureOf, Working, Asked, ChildStates, Results
  <2>3. RowDeed(s)
    BY <1>2 DEF InvokeDirect, RowDeed, Effect, EffectInv, ClaimInv, KindInv, TypeOK, RowsOK, CountsOK,
              Attempt, rows, world, Fresh
  <2>4. child'[w][s] # "off" /\ FutureOf(w, s)'
    BY <1>2, <2>2 DEF InvokeDirect, FutureOf, SlotInv, FuturesOf, ClaimInv, TypeOK, RowsOK, PassesOK, Answer, Attempt,
              rows, Asked, Working, ChildStates, Results, Passed, Fresh
  <2> QED
    BY <1>2, <2>1, <2>2, <2>3, <2>4 DEF Deed, InvokeDirect
<1>3. ASSUME InvokeFails(w, s) PROVE Deed(w, s)
  <2>1. Others(w, s)
    BY <1>3 DEF InvokeFails, Others, TypeOK, RowsOK, PassesOK, CountsOK, Answer, Attempt,
              DriverUnchanged, rows, world, env
  <2>2. step[s] \notin Passed \cup {"waiting"}
    BY <1>3 DEF InvokeFails, SlotInv, FuturesOf, FutureOf, Working, Asked, ChildStates, Results
  <2>3. RowDeed(s)
    BY <1>3 DEF InvokeFails, RowDeed, Effect, EffectInv, ClaimInv, KindInv, TypeOK, RowsOK, CountsOK,
              Attempt, rows, world, Fresh
  <2>4. child'[w][s] # "off" /\ FutureOf(w, s)'
    BY <1>3, <2>2 DEF InvokeFails, FutureOf, SlotInv, FuturesOf, ClaimInv, TypeOK, RowsOK, PassesOK, Answer, Attempt,
              rows, Asked, Working, ChildStates, Results, Passed, Fresh
  <2> QED
    BY <1>3, <2>1, <2>2, <2>3, <2>4 DEF Deed, InvokeFails
<1>4. ASSUME Reject(w, s) PROVE Deed(w, s)
  <2>1. Others(w, s)
    BY <1>4 DEF Reject, Others, TypeOK, RowsOK, PassesOK, CountsOK, Answer, Attempt,
              DriverUnchanged, rows, world, env
  <2>2. step[s] \notin Passed \cup {"waiting"}
    BY <1>4 DEF Reject, SlotInv, FuturesOf, FutureOf, Working, Asked, ChildStates, Results
  <2>3. RowDeed(s)
    BY <1>4 DEF Reject, RowDeed, Effect, EffectInv, ClaimInv, KindInv, TypeOK, RowsOK, CountsOK,
              Attempt, rows, world, Fresh
  <2>4. child'[w][s] # "off" /\ FutureOf(w, s)'
    BY <1>4, <2>2 DEF Reject, FutureOf, SlotInv, FuturesOf, ClaimInv, TypeOK, RowsOK, PassesOK, Answer, Attempt,
              rows, Asked, Working, ChildStates, Results, Passed, Fresh
  <2> QED
    BY <1>4, <2>1, <2>2, <2>3, <2>4 DEF Deed, Reject
<1>5. ASSUME ClaimPrepare(w, s) PROVE Deed(w, s)
  <2>1. Others(w, s)
    BY <1>5 DEF ClaimPrepare, Others, TypeOK, RowsOK, PassesOK, CountsOK, Answer, Attempt,
              DriverUnchanged, rows, world, env
  <2>2. step[s] \notin Passed \cup {"waiting"}
    BY <1>5 DEF ClaimPrepare, SlotInv, FuturesOf, FutureOf, Working, Asked, ChildStates, Results
  <2>3. RowDeed(s)
    BY <1>5 DEF ClaimPrepare, RowDeed, Effect, EffectInv, ClaimInv, KindInv, TypeOK, RowsOK, CountsOK,
              Attempt, rows, world, Fresh
  <2>4. child'[w][s] # "off" /\ FutureOf(w, s)'
    BY <1>5, <2>2 DEF ClaimPrepare, FutureOf, SlotInv, FuturesOf, ClaimInv, TypeOK, RowsOK, PassesOK, Answer, Attempt,
              rows, Asked, Working, ChildStates, Results, Passed, Fresh
  <2> QED
    BY <1>5, <2>1, <2>2, <2>3, <2>4 DEF Deed, ClaimPrepare
<1>6. ASSUME Prepare(w, s) PROVE Deed(w, s)
  <2>1. Others(w, s)
    BY <1>6 DEF Prepare, Others, TypeOK, RowsOK, PassesOK, CountsOK, Answer, Attempt,
              DriverUnchanged, rows, world, env
  <2>2. step[s] \notin Passed \cup {"waiting"}
    BY <1>6 DEF Prepare, SlotInv, FuturesOf, FutureOf, Working, Asked, ChildStates, Results
  <2>3. RowDeed(s)
    BY <1>6 DEF Prepare, RowDeed, Effect, EffectInv, ClaimInv, KindInv, TypeOK, RowsOK, CountsOK,
              Attempt, rows, world, Fresh
  <2>4. child'[w][s] # "off" /\ FutureOf(w, s)'
    BY <1>6, <2>2 DEF Prepare, FutureOf, SlotInv, FuturesOf, ClaimInv, TypeOK, RowsOK, PassesOK, Answer, Attempt,
              rows, Asked, Working, ChildStates, Results, Passed, Fresh
  <2> QED
    BY <1>6, <2>1, <2>2, <2>3, <2>4 DEF Deed, Prepare
<1>7. ASSUME Call(w, s) PROVE Deed(w, s)
  <2>1. Others(w, s)
    BY <1>7 DEF Call, Others, TypeOK, RowsOK, PassesOK, CountsOK, Answer, Attempt,
              DriverUnchanged, rows, world, env
  <2>2. step[s] \notin Passed \cup {"waiting"}
    BY <1>7 DEF Call, SlotInv, FuturesOf, FutureOf, Working, Asked, ChildStates, Results
  <2>3. RowDeed(s)
    BY <1>7 DEF Call, RowDeed, Effect, EffectInv, ClaimInv, KindInv, TypeOK, RowsOK, CountsOK,
              Attempt, rows, world, Fresh
  <2>4. child'[w][s] # "off" /\ FutureOf(w, s)'
    BY <1>7, <2>2 DEF Call, FutureOf, SlotInv, FuturesOf, ClaimInv, TypeOK, RowsOK, PassesOK, Answer, Attempt,
              rows, Asked, Working, ChildStates, Results, Passed, Fresh
  <2> QED
    BY <1>7, <2>1, <2>2, <2>3, <2>4 DEF Deed, Call
<1>8. ASSUME Resume(w, s) PROVE Deed(w, s)
  <2>1. Others(w, s)
    BY <1>8 DEF Resume, Others, TypeOK, RowsOK, PassesOK, CountsOK, Answer, Attempt,
              DriverUnchanged, rows, world, env
  <2>2. step[s] \notin Passed \cup {"waiting"}
    BY <1>8 DEF Resume, SlotInv, FuturesOf, FutureOf, Working, Asked, ChildStates, Results
  <2>3. RowDeed(s)
    BY <1>8 DEF Resume, RowDeed, Effect, EffectInv, ClaimInv, KindInv, TypeOK, RowsOK, CountsOK,
              Attempt, rows, world, Fresh
  <2>4. child'[w][s] # "off" /\ FutureOf(w, s)'
    BY <1>8, <2>2 DEF Resume, FutureOf, SlotInv, FuturesOf, ClaimInv, TypeOK, RowsOK, PassesOK, Answer, Attempt,
              rows, Asked, Working, ChildStates, Results, Passed, Fresh
  <2> QED
    BY <1>8, <2>1, <2>2, <2>3, <2>4 DEF Deed, Resume
<1>9. ASSUME Stall(w, s) PROVE Deed(w, s)
  <2>1. Others(w, s)
    BY <1>9 DEF Stall, Others, TypeOK, RowsOK, PassesOK, CountsOK, Answer, Attempt,
              DriverUnchanged, rows, world, env
  <2>2. step[s] \notin Passed \cup {"waiting"}
    BY <1>9 DEF Stall, SlotInv, FuturesOf, FutureOf, Working, Asked, ChildStates, Results
  <2>3. RowDeed(s)
    BY <1>9 DEF Stall, RowDeed, Effect, EffectInv, ClaimInv, KindInv, TypeOK, RowsOK, CountsOK,
              Attempt, rows, world, Fresh
  <2>4. child'[w][s] # "off" /\ FutureOf(w, s)'
    BY <1>9, <2>2 DEF Stall, FutureOf, SlotInv, FuturesOf, ClaimInv, TypeOK, RowsOK, PassesOK, Answer, Attempt,
              rows, Asked, Working, ChildStates, Results, Passed, Fresh
  <2> QED
    BY <1>9, <2>1, <2>2, <2>3, <2>4 DEF Deed, Stall
<1>10. ASSUME Record(w, s) PROVE Deed(w, s)
  <2>1. Others(w, s)
    BY <1>10 DEF Record, Others, TypeOK, RowsOK, PassesOK, CountsOK, Answer, Attempt,
              DriverUnchanged, rows, world, env
  <2>2. step[s] \notin Passed \cup {"waiting"}
    BY <1>10 DEF Record, SlotInv, FuturesOf, FutureOf, Working, Asked, ChildStates, Results
  <2>3. RowDeed(s)
    BY <1>10 DEF Record, RowDeed, Effect, EffectInv, ClaimInv, KindInv, TypeOK, RowsOK, CountsOK,
              Attempt, rows, world, Fresh
  <2>4. child'[w][s] # "off" /\ FutureOf(w, s)'
    BY <1>10, <2>2 DEF Record, FutureOf, SlotInv, FuturesOf, ClaimInv, TypeOK, RowsOK, PassesOK, Answer, Attempt,
              rows, Asked, Working, ChildStates, Results, Passed, Fresh
  <2> QED
    BY <1>10, <2>1, <2>2, <2>3, <2>4 DEF Deed, Record
<1>11. ASSUME RecordFails(w, s) PROVE Deed(w, s)
  <2>1. Others(w, s)
    BY <1>11 DEF RecordFails, Others, TypeOK, RowsOK, PassesOK, CountsOK, Answer, Attempt,
              DriverUnchanged, rows, world, env
  <2>2. step[s] \notin Passed \cup {"waiting"}
    BY <1>11 DEF RecordFails, SlotInv, FuturesOf, FutureOf, Working, Asked, ChildStates, Results
  <2>3. RowDeed(s)
    BY <1>11 DEF RecordFails, RowDeed, Effect, EffectInv, ClaimInv, KindInv, TypeOK, RowsOK, CountsOK,
              Attempt, rows, world, Fresh
  <2>4. child'[w][s] # "off" /\ FutureOf(w, s)'
    BY <1>11, <2>2 DEF RecordFails, FutureOf, SlotInv, FuturesOf, ClaimInv, TypeOK, RowsOK, PassesOK, Answer, Attempt,
              rows, Asked, Working, ChildStates, Results, Passed, Fresh
  <2> QED
    BY <1>11, <2>1, <2>2, <2>3, <2>4 DEF Deed, RecordFails
<1>12. ASSUME DatabaseFails(w, s) PROVE Deed(w, s)
  <2>1. Others(w, s)
    BY <1>12 DEF DatabaseFails, Others, TypeOK, RowsOK, PassesOK, CountsOK, Answer, Attempt,
              DriverUnchanged, rows, world, env
  <2>2. step[s] \notin Passed \cup {"waiting"}
    BY <1>12 DEF DatabaseFails, SlotInv, FuturesOf, FutureOf, Working, Asked, ChildStates, Results
  <2>3. RowDeed(s)
    BY <1>12 DEF DatabaseFails, RowDeed, Effect, EffectInv, ClaimInv, KindInv, TypeOK, RowsOK, CountsOK,
              Attempt, rows, world, Fresh
  <2>4. child'[w][s] # "off" /\ FutureOf(w, s)'
    BY <1>12, <2>2 DEF DatabaseFails, FutureOf, SlotInv, FuturesOf, ClaimInv, TypeOK, RowsOK, PassesOK, Answer, Attempt,
              rows, Asked, Working, ChildStates, Results, Passed, Fresh
  <2> QED
    BY <1>12, <2>1, <2>2, <2>3, <2>4 DEF Deed, DatabaseFails
<1> QED
  BY <1>1, <1>2, <1>3, <1>4, <1>5, <1>6, <1>7, <1>8, <1>9, <1>10, <1>11, <1>12

-----------------------------------------------------------------------------
(***************************************************************************)
(* Steps of a pass outside its futures, as the saga sees them.             *)
(***************************************************************************)

\* Rows and effects stay as they are.
StillRows == UNCHANGED <<step, prepared, applied, undone>>

\* Nothing the saga says changes either.
LEMMA StillSaga ==
    ASSUME StillRows, UNCHANGED <<run, dead>>
    PROVE  SagaStep
  BY DEF StillRows, SagaStep, Promise!vars

\* A pass that is over leaves a run nobody drives.
LEMMA OverKeeps ==
    ASSUME TypeOK, FuturesInv, SagaInv, NEW w \in Workers, pc[w] # "idle",
           NEW held, End(w, held), StillRows,
           OrderInv', WaitInv', SettledFaithful'
    PROVE  SagaInv'
<1> USE DEF SagaInv
<1>1. \A v \in Workers : pc'[v] = "idle"
  BY OthersIdle DEF End, Goto, TypeOK, PassesOK
<1>2. \A v \in Workers, s \in Steps : child'[v][s] = "off"
  BY OthersIdle DEF End, NoChild, FuturesInv, TypeOK, PassesOK
<1>3. SoleInv' /\ PhaseInv' /\ BackInv'
  BY <1>1 DEF SoleInv, PhaseInv, PhaseOf, BackInv, BackOf, Behind
<1>4. SlotInv'
  BY <1>1, <1>2 DEF SlotInv, FuturesOf, FutureOf, Asked, Working
<1>5. EffectInv'
  BY DEF EffectInv, Effect, StillRows
<1> QED
  BY <1>3, <1>4, <1>5

\* A pass that stops leaves the run as it was.
LEMMA StopKeeps ==
    ASSUME TypeOK, FuturesInv, SagaInv, NEW w \in Workers, pc[w] # "idle",
           NEW held, End(w, held), StillRows, UNCHANGED <<run, dead>>
    PROVE  SagaInv' /\ SagaStep
<1>1. OrderInv' /\ WaitInv' /\ SettledFaithful'
  BY DEF SagaInv, StillRows, OrderInv, Past, WaitInv, NoneWaits, SettledFaithful
<1> QED
  BY <1>1, OverKeeps, StillSaga

\* A pass that moves on takes nobody else along.
Moves(w) ==
    /\ pc[w] # "idle"
    /\ UNCHANGED lock
    /\ \A v \in Workers \ {w} : /\ pc'[v] = pc[v]
                                 /\ \A s \in Steps : child'[v][s] = child[v][s]

\* It is where its own part of the invariant lets it be, and the others are
\* nowhere.
LEMMA MovesKeep ==
    ASSUME FuturesInv, SagaInv, NEW w \in Workers, Moves(w),
           FuturesOf(w)', PhaseOf(w)', BackOf(w)'
    PROVE  SoleInv' /\ SlotInv' /\ PhaseInv' /\ BackInv'
<1> USE DEF SagaInv
<1>1. \A v \in Workers \ {w} : pc[v] = "idle" /\ pc'[v] = "idle"
  BY OthersIdle DEF Moves
<1>2. SoleInv'
  BY <1>1 DEF SoleInv, Moves
<1>3. \A v \in Workers \ {w} : FuturesOf(v)'
  <2>1. \A v \in Workers \ {w}, s \in Steps : child'[v][s] = "off"
    BY <1>1 DEF FuturesInv, Moves
  <2> QED
    BY <1>1, <2>1 DEF FuturesOf, FutureOf, Asked, Working
<1>4. \A v \in Workers \ {w} : PhaseOf(v)' /\ BackOf(v)'
  BY <1>1 DEF PhaseOf, BackOf, Behind
<1> QED
  BY <1>2, <1>3, <1>4 DEF SlotInv, PhaseInv, BackInv

\* A pass that moves on over rows and a run it leaves as they are.
LEMMA WalkKeeps ==
    ASSUME FuturesInv, SagaInv, NEW w \in Workers, Moves(w),
           StillRows, UNCHANGED <<run, dead>>,
           FuturesOf(w)', PhaseOf(w)', BackOf(w)'
    PROVE  SagaInv' /\ SagaStep
<1>1. EffectInv' /\ OrderInv' /\ WaitInv' /\ SettledFaithful'
  BY DEF SagaInv, StillRows, EffectInv, Effect, OrderInv, Past, WaitInv, NoneWaits,
         SettledFaithful
<1> QED
  BY <1>1, MovesKeep, StillSaga DEF SagaInv

\* Outside a slot a pass has no futures to answer for.
LEMMA NoFutures ==
    ASSUME NEW w \in Workers, pc'[w] # "running", \A s \in Steps : child'[w][s] = "off"
    PROVE  FuturesOf(w)'
  BY DEF FuturesOf, FutureOf, Asked, Working

\* A pass takes the lock when nobody is anywhere.
LEMMA AcquireSaga ==
    ASSUME TypeOK, FuturesInv, SagaInv, Locked, NEW w \in Workers, Acquire(w)
    PROVE  SagaInv' /\ SagaStep
<1> USE DEF SagaInv
<1>1. \A v \in Workers : pc[v] = "idle"
  BY WorkersAssumption DEF Acquire, SoleInv
<1>2. \A v \in Workers : pc'[v] \in {"idle", "claim"} /\ (pc'[v] # "idle" => v = w)
  BY <1>1 DEF Acquire, Goto, TypeOK, PassesOK
<1>3. \A v \in Workers, s \in Steps : child'[v][s] = "off"
  BY <1>1 DEF Acquire, FuturesInv
<1>4. StillRows /\ UNCHANGED <<run, dead>>
  BY DEF Acquire, StillRows, rows, world
<1>5. SoleInv'
  BY <1>2 DEF SoleInv, Acquire
<1>6. SlotInv' /\ PhaseInv' /\ BackInv'
  BY <1>2, <1>3, NoFutures DEF SlotInv, PhaseInv, PhaseOf, BackInv, BackOf, Behind
<1>7. EffectInv' /\ OrderInv' /\ WaitInv' /\ SettledFaithful'
  BY <1>4 DEF StillRows, EffectInv, Effect, OrderInv, Past, WaitInv, NoneWaits,
              SettledFaithful
<1> QED
  BY <1>4, <1>5, <1>6, <1>7, StillSaga

\* Inserting the run begins it, unless it was there.
LEMMA ClaimSaga ==
    ASSUME TypeOK, FuturesInv, SagaInv, NEW w \in Workers, Claim(w)
    PROVE  SagaInv' /\ SagaStep
<1> USE DEF SagaInv
<1>1. Moves(w) /\ StillRows /\ UNCHANGED dead /\ pc'[w] = "lease"
  BY DEF Claim, Moves, StillRows, Goto, rows, world, TypeOK, PassesOK
<1>2. FuturesOf(w)'
  BY <1>1, NoFutures DEF Claim, FuturesInv
<1>3. PhaseOf(w)' /\ BackOf(w)'
  BY <1>1 DEF PhaseOf, BackOf, Behind, Claim
<1>4. SoleInv' /\ SlotInv' /\ PhaseInv' /\ BackInv'
  BY <1>1, <1>2, <1>3, MovesKeep
<1>5. EffectInv' /\ OrderInv' /\ WaitInv' /\ SettledFaithful'
  BY <1>1 DEF Claim, StillRows, EffectInv, Effect, OrderInv, Forward, Past, WaitInv,
              NoneWaits, SettledFaithful
<1>6. SagaStep
  <2>1. CASE run = "none"
    BY <2>1, <1>1 DEF Claim, StillRows, SagaStep, Promise!Next, Promise!Begin
  <2>2. CASE run # "none"
    BY <2>2, <1>1, StillSaga DEF Claim
  <2> QED
    BY <2>1, <2>2
<1> QED
  BY <1>4, <1>5, <1>6

\* Leasing the rows says nothing of what was done.
LEMMA LeaseSaga ==
    ASSUME TypeOK, FuturesInv, SagaInv, NEW w \in Workers,
           LeaseSnapshot(w) \/ LeaseRun(w)
    PROVE  SagaInv' /\ SagaStep
<1>1. CASE LeaseSnapshot(w)
  <2>1. Moves(w) /\ StillRows /\ UNCHANGED <<run, dead>> /\ pc'[w] = "leasing"
    BY <1>1 DEF LeaseSnapshot, Moves, StillRows, Goto, rows, world, TypeOK, PassesOK
  <2>2. FuturesOf(w)' /\ PhaseOf(w)' /\ BackOf(w)'
    BY <1>1, <2>1, NoFutures DEF LeaseSnapshot, FuturesInv, PhaseOf, BackOf, Behind,
                                 SagaInv, PhaseInv
  <2> QED
    BY <2>1, <2>2, WalkKeeps
<1>2. CASE LeaseRun(w)
  <2>1. pc[w] = "leasing" /\ StillRows /\ UNCHANGED <<run, dead>>
    BY <1>2 DEF LeaseRun, StillRows, world
  <2>2. CASE End(w, holder)
    BY <2>1, <2>2, StopKeeps
  <2>3. CASE ~End(w, holder)
    <3>1. Goto(w, "head") /\ UNCHANGED <<lock, child>>
      BY <1>2, <2>3 DEF LeaseRun
    <3>2. Moves(w) /\ pc'[w] = "head"
      BY <2>1, <3>1 DEF Moves, Goto, TypeOK, PassesOK
    <3>3. FuturesOf(w)' /\ PhaseOf(w)' /\ BackOf(w)'
      BY <2>1, <3>1, <3>2, NoFutures DEF FuturesInv, PhaseOf, BackOf, Behind, SagaInv, PhaseInv
    <3> QED
      BY <2>1, <3>2, <3>3, WalkKeeps
  <2> QED
    BY <2>2, <2>3
<1> QED
  BY <1>1, <1>2

\* `drive` looks at what the run says.
LEMMA HeadSaga ==
    ASSUME TypeOK, FuturesInv, SagaInv, NEW w \in Workers, Head(w)
    PROVE  SagaInv' /\ SagaStep
<1>1. pc[w] = "head" /\ StillRows /\ UNCHANGED <<run, dead>>
  BY DEF Head, StillRows, world
<1>2. CASE run \in Settled
  BY <1>1, <1>2, StopKeeps DEF Head
<1>3. CASE run \notin Settled
  <2>1. Moves(w) /\ \A s \in Steps : child'[w][s] = "off"
    BY <1>1, <1>3 DEF Head, Moves, Goto, TypeOK, PassesOK, FuturesInv
  <2>2. run # "none"
    BY <1>1 DEF SagaInv, PhaseInv, PhaseOf
  <2>3. CASE run = "compensating"
    <3>1. pc'[w] = "mark"
      BY <1>3, <2>3 DEF Head, Goto, TypeOK, PassesOK
    <3>2. FuturesOf(w)' /\ PhaseOf(w)' /\ BackOf(w)'
      BY <1>1, <2>1, <2>2, <2>3, <3>1, NoFutures DEF PhaseOf, BackOf, Behind
    <3> QED
      BY <1>1, <2>1, <3>2, WalkKeeps
  <2>4. CASE run # "compensating"
    <3>1. pc'[w] = "slot" /\ at'[w] = 1
      BY <1>3, <2>4 DEF Head, Goto, TypeOK, PassesOK
    <3>2. run \in {"running", "waiting"}
      BY <1>3, <2>2, <2>4 DEF Settled, TypeOK, RowsOK, RunStates
    <3>3. Past(1)'
      BY PlanAssumption DEF Past
    <3>4. FuturesOf(w)' /\ PhaseOf(w)' /\ BackOf(w)'
      BY <1>1, <2>1, <3>1, <3>2, <3>3, NoFutures DEF PhaseOf, BackOf, Behind
    <3> QED
      BY <1>1, <2>1, <3>4, WalkKeeps
  <2> QED
    BY <2>3, <2>4
<1> QED
  BY <1>2, <1>3

\* A slot that is read: the futures are those its rows call for.
LEMMA ReadSlotSaga ==
    ASSUME TypeOK, FuturesInv, SagaInv, NEW w \in Workers, ReadSlot(w)
    PROVE  SagaInv' /\ SagaStep
<1>1. pc[w] = "slot" /\ StillRows /\ UNCHANGED <<run, dead>>
  BY DEF ReadSlot, StillRows, world
<1>2. CASE \E s \in Slot(at[w]) : step[s] = "waiting"
  BY <1>1, <1>2, StopKeeps DEF ReadSlot
<1>3. CASE ~\E s \in Slot(at[w]) : step[s] = "waiting"
  <2>1. /\ Moves(w) /\ pc'[w] = "running" /\ at' = at
        /\ \A s \in Steps : child'[w][s] = IF s \in Slot(at[w]) THEN Entry(s) ELSE "off"
    BY <1>1, <1>3 DEF ReadSlot, Moves, Goto, TypeOK, PassesOK
  <2>2. run \in {"running", "waiting"} /\ Past(at[w])
    BY <1>1 DEF SagaInv, PhaseInv, PhaseOf
  <2>3. run = "waiting" => \A s \in Slot(at[w]) : step[s] \in Passed
    <3> SUFFICES ASSUME run = "waiting", NEW s \in Slot(at[w]) PROVE step[s] \in Passed
      OBVIOUS
    <3>1. PICK r \in Steps : step[r] = "waiting"
      BY DEF SagaInv, WaitInv
    <3>2. SlotOf[r] \in Nat /\ SlotOf[s] = at[w] /\ at[w] \in Nat /\ s \in Steps
      BY PlanAssumption DEF Slot, TypeOK, PassesOK
    <3>3. ~(SlotOf[r] < at[w])
      BY <2>2, <3>1 DEF Past, Passed
    <3>4. SlotOf[r] # at[w]
      BY <1>3, <3>1 DEF Slot
    <3>5. Past(SlotOf[r])
      BY <3>1 DEF SagaInv, OrderInv, Forward
    <3> QED
      BY <3>2, <3>3, <3>4, <3>5 DEF Past
  <2>4. \A s \in Slot(at[w]) :
           /\ Entry(s) = "off" <=> step[s] \in Passed
           /\ Entry(s) = "asking" => step[s] = "called"
           /\ Entry(s) \in {"off", "refused", "claim", "asking", "pclaim"}
    BY DEF Entry
  <2>5. FuturesOf(w)'
    <3> SUFFICES ASSUME NEW s \in Steps
                 PROVE  /\ IF s \in Slot(at[w]) THEN child'[w][s] = "off" => step[s] \in Passed
                                                ELSE child'[w][s] = "off"
                        /\ child'[w][s] # "off" => run = "running"
                        /\ FutureOf(w, s)'
      BY <1>1, <2>1 DEF FuturesOf, StillRows, Slot
    <3>1. CASE s \in Slot(at[w])
      BY <1>1, <1>3, <2>1, <2>2, <2>3, <2>4, <3>1 DEF FutureOf, StillRows, Asked, Working
    <3>2. CASE s \notin Slot(at[w])
      BY <2>1, <3>2 DEF FutureOf, Asked, Working
    <3> QED
      BY <3>1, <3>2
  <2>6. PhaseOf(w)' /\ BackOf(w)'
    BY <1>1, <2>1, <2>2 DEF PhaseOf, Past, BackOf, Behind, StillRows
  <2> QED
    BY <1>1, <2>1, <2>5, <2>6, WalkKeeps
<1> QED
  BY <1>2, <1>3

\* What the futures of a slot answered is what the run is told.
LEMMA JoinSaga ==
    ASSUME TypeOK, FuturesInv, SagaInv, NEW w \in Workers, Join(w)
    PROVE  SagaInv' /\ SagaStep
<1>1. pc[w] = "running" /\ StillRows /\ UNCHANGED <<run, dead>>
  BY DEF Join, StillRows, world
<1>2. CASE "lost" \in Answered(w)
  BY <1>1, <1>2, StopKeeps DEF Join
<1>3. CASE "lost" \notin Answered(w)
  <2> DEFINE l == Verdict(Answered(w))
  <2>1. /\ Moves(w) /\ pc'[w] = l /\ at'[w] = at[w] + 1
        /\ \A s \in Steps : child'[w][s] = "off"
    BY <1>1, <1>3 DEF Join, Moves, Goto, NoChild, TypeOK, PassesOK
  <2>2. \A s \in Steps : child[w][s] # "off" => run = "running" /\ s \in Slot(at[w])
    BY <1>1 DEF SagaInv, SlotInv, FuturesOf
  <2>3. run \in {"running", "waiting"} /\ Past(at[w])
    BY <1>1 DEF SagaInv, PhaseInv, PhaseOf
  <2>4. FuturesOf(w)'
    BY <2>1, NoFutures DEF Verdict
  <2>5. BackOf(w)'
    BY <2>1 DEF BackOf, Behind, Verdict
  <2>6. CASE "refused" \in Answered(w)
    <3>1. PICK s \in Steps : child[w][s] = "refused"
      BY <2>6 DEF Answered
    <3>2. run = "running" /\ s \in Slot(at[w]) /\ step[s] \notin Passed \cup {"waiting"}
      BY <2>2, <3>1 DEF SagaInv, SlotInv, FuturesOf, FutureOf, Working, ChildStates, Results
    <3>3. NoneWaits
      <4> SUFFICES ASSUME NEW r \in Reaching, step[r] = "waiting" PROVE FALSE
        BY DEF NoneWaits
      <4>1. r \in Steps /\ SlotOf[r] \in Nat /\ SlotOf[s] \in Nat /\ SlotOf[s] = at[w]
        BY <3>2, PlanAssumption DEF Slot
      <4>2. ~(SlotOf[r] < at[w])
        BY <2>3, <4>1 DEF Past, Passed
      <4>3. Past(SlotOf[r])
        BY <3>2, <4>1 DEF SagaInv, OrderInv, Forward
      <4>4. ~(SlotOf[s] < SlotOf[r])
        BY <3>2, <4>1, <4>3 DEF Past
      <4>5. SlotOf[r] = SlotOf[s]
        BY <4>1, <4>2, <4>4
      <4> QED
        BY <3>2, <4>5, PlanAssumption DEF Slot
    <3>4. PhaseOf(w)'
      BY <1>1, <2>1, <2>6, <3>2, <3>3 DEF PhaseOf, Verdict, NoneWaits, StillRows
    <3> QED
      BY <1>1, <2>1, <2>4, <2>5, <3>4, WalkKeeps
  <2>7. CASE "refused" \notin Answered(w) /\ "notyet" \in Answered(w)
    <3>1. run = "running"
      BY <2>2, <2>7 DEF Answered
    <3>2. PhaseOf(w)'
      BY <1>1, <2>1, <2>7, <3>1 DEF PhaseOf, Verdict
    <3> QED
      BY <1>1, <2>1, <2>4, <2>5, <3>2, WalkKeeps
  <2>8. CASE "refused" \notin Answered(w) /\ "notyet" \notin Answered(w)
             /\ "waits" \in Answered(w)
    <3>1. PICK s \in Steps : child[w][s] = "waits"
      BY <2>8 DEF Answered
    <3>2. run = "running" /\ step[s] = "waiting"
      BY <2>2, <3>1 DEF SagaInv, SlotInv, FuturesOf, FutureOf
    <3>3. PhaseOf(w)'
      BY <1>1, <2>1, <2>8, <3>2 DEF PhaseOf, Verdict, StillRows
    <3> QED
      BY <1>1, <2>1, <2>4, <2>5, <3>3, WalkKeeps
  <2>9. CASE {"refused", "notyet", "waits"} \cap Answered(w) = {}
    <3>1. \A s \in Steps : child[w][s] \in {"off", "out"}
      BY <1>3, <2>9 DEF Join, Answered, Results
    <3>2. \A s \in Slot(at[w]) : step[s] \in Passed
      BY <1>1, <3>1 DEF SagaInv, SlotInv, FuturesOf, FutureOf, Slot
    <3>3. Past(at[w] + 1)
      <4> SUFFICES ASSUME NEW t \in Steps, SlotOf[t] < at[w] + 1 PROVE step[t] \in Passed
        BY DEF Past
      <4>1. SlotOf[t] \in Nat /\ at[w] \in Nat
        BY PlanAssumption DEF TypeOK, PassesOK
      <4>2. SlotOf[t] < at[w] \/ SlotOf[t] = at[w]
        BY <4>1
      <4> QED
        BY <2>3, <3>2, <4>2 DEF Past, Slot
    <3>4. PhaseOf(w)'
      BY <1>1, <2>1, <2>3, <2>9, <3>3 DEF PhaseOf, Verdict, Past, StillRows
    <3> QED
      BY <1>1, <2>1, <2>4, <2>5, <3>4, WalkKeeps
  <2> QED
    BY <2>6, <2>7, <2>8, <2>9
<1> QED
  BY <1>2, <1>3

\* A pass that gives its rows back, or dies, says nothing of the run.
LEMMA StopSaga ==
    ASSUME TypeOK, FuturesInv, SagaInv, NEW w \in Workers, Release(w) \/ Die(w)
    PROVE  SagaInv' /\ SagaStep
<1>1. CASE Release(w)
  BY <1>1, StopKeeps DEF Release, StillRows, world
<1>2. CASE Die(w)
  BY <1>2, StopKeeps DEF Die, StillRows, world
<1> QED
  BY <1>1, <1>2

\* Parking says that a step waits.
LEMMA ParkSaga ==
    ASSUME TypeOK, FuturesInv, SagaInv, NEW w \in Workers, Park(w)
    PROVE  SagaInv' /\ SagaStep
<1>1. pc[w] = "park" /\ StillRows /\ UNCHANGED dead /\ End(w, holder) /\ run' = "waiting"
  BY DEF Park, StillRows, world
<1>2. run = "running" /\ \E s \in Steps : step[s] = "waiting"
  BY <1>1 DEF SagaInv, PhaseInv, PhaseOf
<1>3. OrderInv' /\ WaitInv' /\ SettledFaithful'
  BY <1>1, <1>2 DEF SagaInv, OrderInv, Forward, Past, WaitInv, SettledFaithful, StillRows
<1>4. SagaInv'
  BY <1>1, <1>3, OverKeeps
<1>5. Promise!Park
  BY <1>1, <1>2 DEF Promise!Park, Promise!Steps, Steps, StillRows, Passed
<1> QED
  BY <1>4, <1>5 DEF SagaStep, Promise!Next

\* A run is finished when nothing is left before it.
LEMMA FinishSaga ==
    ASSUME TypeOK, FuturesInv, SagaInv, NEW w \in Workers, Finish(w)
    PROVE  SagaInv' /\ SagaStep
<1>1. /\ pc[w] = "slot" /\ at[w] > LastSlot /\ End(w, holder) /\ run' = "done"
      /\ StillRows /\ UNCHANGED dead
  BY DEF Finish, StillRows, world
<1>2. run \in {"running", "waiting"} /\ Past(at[w])
  BY <1>1 DEF SagaInv, PhaseInv, PhaseOf
<1>3. \A s \in Steps : step[s] \in Passed
  <2> SUFFICES ASSUME NEW s \in Steps PROVE SlotOf[s] < at[w]
    BY <1>2 DEF Past
  <2>1. N \in Steps /\ SlotOf[s] \in Nat /\ SlotOf[N] \in Nat /\ at[w] \in Nat
    BY CountsAssumption, PlanAssumption DEF Steps, TypeOK, PassesOK
  <2>2. SlotOf[s] <= SlotOf[N]
    BY <2>1, CountsAssumption, PlanAssumption DEF Steps
  <2> QED
    BY <1>1, <2>1, <2>2 DEF LastSlot
<1>4. run = "running"
  BY <1>2, <1>3 DEF SagaInv, WaitInv, Passed
<1>5. OrderInv' /\ WaitInv' /\ SettledFaithful'
  BY <1>1, <1>3, PlanAssumption
     DEF OrderInv, Forward, WaitInv, NoneWaits, SettledFaithful, StillRows, Passed
<1>6. SagaInv'
  BY <1>1, <1>5, OverKeeps
<1>7. Promise!Finish
  BY <1>1, <1>3, <1>4 DEF Promise!Finish, Promise!Steps, Steps, StillRows
<1> QED
  BY <1>6, <1>7 DEF SagaStep, Promise!Next

\* A refused step turns the run back.
LEMMA MarkSaga ==
    ASSUME TypeOK, FuturesInv, SagaInv, NEW w \in Workers, Mark(w)
    PROVE  SagaInv' /\ SagaStep
<1> USE DEF SagaInv
<1>1. /\ pc[w] = "mark" /\ pc'[w] = "unwind" /\ at'[w] = N /\ run' = "compensating"
      /\ Moves(w) /\ StillRows /\ UNCHANGED dead
  BY DEF Mark, Moves, Goto, StillRows, rows, world, TypeOK, PassesOK
<1>2. NoneWaits /\ run \in {"running", "compensating"}
  BY <1>1 DEF PhaseInv, PhaseOf, WaitInv, Forward
<1>3. FuturesOf(w)'
  BY <1>1, NoFutures DEF Mark, FuturesInv
<1>4. PhaseOf(w)' /\ BackOf(w)'
  BY <1>1, CountsAssumption DEF PhaseOf, BackOf, Behind, Steps
<1>5. EffectInv' /\ OrderInv' /\ WaitInv' /\ SettledFaithful'
  BY <1>1, <1>2 DEF EffectInv, Effect, OrderInv, Forward, WaitInv, NoneWaits,
                    SettledFaithful, StillRows
<1>6. SagaInv'
  BY <1>1, <1>3, <1>4, <1>5, MovesKeep
<1>7. SagaStep
  <2>1. CASE run = "running"
    BY <1>1, <2>1 DEF SagaStep, Promise!Next, Promise!Refuse, StillRows
  <2>2. CASE run = "compensating"
    BY <1>1, <2>2, StillSaga
  <2> QED
    BY <1>2, <2>1, <2>2
<1> QED
  BY <1>6, <1>7

\* The walk back passes what has nothing to undo.
LEMMA ReadBackSaga ==
    ASSUME TypeOK, FuturesInv, UnwindInv, SagaInv, NEW w \in Workers, ReadBack(w)
    PROVE  SagaInv' /\ SagaStep
<1>1. /\ pc[w] = "unwind" /\ pc'[w] \in {"unwind", "undo", "settle"}
      /\ Moves(w) /\ StillRows /\ UNCHANGED <<run, dead, clean>>
  BY DEF ReadBack, Moves, Goto, StillRows, rows, world, TypeOK, PassesOK
<1>2. FuturesOf(w)'
  BY <1>1, NoFutures DEF ReadBack, FuturesInv
<1>3. PhaseOf(w)'
  BY <1>1 DEF PhaseOf, SagaInv, PhaseInv
<1>4. at[w] \in 0 .. N /\ BackOf(w)
  BY <1>1 DEF UnwindInv, SagaInv, BackInv
<1>5. BackOf(w)'
  <2>1. CASE at[w] = 0
    <3>1. pc'[w] = "settle" /\ \A t \in Steps : Behind(w, t)
      BY <1>1, <2>1, CountsAssumption DEF ReadBack, Goto, TypeOK, PassesOK, Behind, Steps
    <3> QED
      BY <1>1, <1>4, <3>1 DEF BackOf, StillRows
  <2>2. CASE at[w] # 0 /\ step[at[w]] \in Undoable
    <3>1. pc'[w] = "undo" /\ at' = at
      BY <2>2 DEF ReadBack, Goto, TypeOK, PassesOK
    <3> QED
      BY <1>1, <1>4, <2>2, <3>1 DEF BackOf, Behind, StillRows
  <2>3. CASE at[w] # 0 /\ step[at[w]] \notin Undoable
    <3>1. pc'[w] = "unwind" /\ at'[w] = at[w] - 1
      BY <1>1, <2>3 DEF ReadBack, TypeOK, PassesOK
    <3>2. \A t \in Steps : Behind(w, t)' => Behind(w, t) \/ t = at[w]
      BY <1>1, <1>4, <3>1, CountsAssumption DEF Behind, Steps
    <3> QED
      BY <1>1, <1>4, <2>3, <3>1, <3>2 DEF BackOf, StillRows
  <2> QED
    BY <2>1, <2>2, <2>3
<1> QED
  BY <1>1, <1>2, <1>3, <1>5, WalkKeeps

\* While a run unwinds, what stands is what the walk has still to read, or has
\* written down.
LEMMA WhatStands ==
    ASSUME EffectInv, WaitInv, run = "compensating", NEW t \in Steps,
           applied[t] - undone[t] # 0
    PROVE  step[t] \in Undoable /\ applied[t] - undone[t] = 1
  BY DEF EffectInv, Effect, WaitInv, NoneWaits, Forward, Undoable

\* A compensation takes the effect of its step away, and of no other.
LEMMA UndoSaga ==
    ASSUME TypeOK, FuturesInv, UnwindInv, SagaInv, NEW w \in Workers, Undo(w)
    PROVE  SagaInv' /\ SagaStep
<1> USE DEF SagaInv
<1> PICK k \in Steps : k = at[w]
  BY DEF Undo, UnwindInv
<1>1. k \in Steps /\ step[k] \in Undoable /\ run = "compensating"
  BY DEF Undo, UnwindInv, BackInv, BackOf, PhaseInv, PhaseOf
<1>2. /\ Moves(w) /\ pc'[w] = "unwind" /\ at'[w] = k - 1
      /\ UNCHANGED <<run, dead, clean, prepared>> /\ applied' = applied
      /\ step' = [step EXCEPT ![k] = "reverted"]
      /\ undone' = [undone EXCEPT ![k] = @ + Kept(k)]
  BY DEF Undo, Moves, Goto, TypeOK, PassesOK
<1>3. undone'[k] = undone[k] + Kept(k) /\ \A t \in Steps \ {k} : undone'[t] = undone[t]
  BY <1>1, <1>2 DEF TypeOK, CountsOK
<1>4. applied[k] \in Nat /\ undone[k] \in Nat /\ applied[k] - undone[k] = Kept(k)
  BY <1>1 DEF EffectInv, Effect, Kept, Undoable, TypeOK, CountsOK
<1>5. applied'[k] - undone'[k] = 0
  BY <1>2, <1>3, <1>4 DEF Kept
<1>6. EffectInv'
  BY <1>1, <1>2, <1>3, <1>5 DEF EffectInv, Effect, TypeOK, RowsOK
<1>7. OrderInv' /\ WaitInv' /\ SettledFaithful'
  BY <1>1, <1>2 DEF OrderInv, Forward, WaitInv, NoneWaits, SettledFaithful, TypeOK, RowsOK
<1>8. FuturesOf(w)'
  BY <1>2, NoFutures DEF Undo, FuturesInv
<1>9. PhaseOf(w)'
  BY <1>1, <1>2 DEF PhaseOf
<1>10. BackOf(w)'
  <2>1. \A t \in Steps : Behind(w, t)' => t = k \/ Behind(w, t)
    BY <1>1, <1>2 DEF Undo, Behind, Steps
  <2>2. BackOf(w)
    BY DEF BackInv
  <2> QED
    BY <1>1, <1>2, <2>1, <2>2 DEF BackOf, Undoable, TypeOK, RowsOK
<1>11. SagaInv'
  BY <1>2, <1>6, <1>7, <1>8, <1>9, <1>10, MovesKeep
<1>12. SagaStep
  <2>1. {u \in Steps : step[u] \in Passed}' = {u \in Steps : step[u] \in Passed} \ {k}
    BY <1>1, <1>2 DEF Passed, TypeOK, RowsOK
  <2>2. CASE Kept(k) = 1
    <3>1. \A t \in Steps : t > k => applied[t] - undone[t] = 0 \/ t \in dead
      <4> SUFFICES ASSUME NEW t \in Steps, t > k, applied[t] - undone[t] # 0
                   PROVE  t \in dead
        OBVIOUS
      <4>1. step[t] \in Undoable
        BY <1>1, WhatStands
      <4> QED
        BY <4>1 DEF Undo, Behind, BackInv, BackOf
    <3>2. [t \in Steps |-> applied[t] - undone[t]]' =
             [[t \in Steps |-> applied[t] - undone[t]] EXCEPT ![k] = 0]
      <4>1. \A t \in Steps : applied'[t] - undone'[t] =
                               IF t = k THEN 0 ELSE applied[t] - undone[t]
        BY <1>2, <1>3, <1>5
      <4> QED
        BY <4>1
    <3>3. Promise!Undo(k)
      BY <1>1, <1>2, <1>4, <2>1, <2>2, <3>1, <3>2 DEF Promise!Undo, Promise!Steps, Steps
    <3> QED
      BY <1>1, <3>3 DEF SagaStep, Promise!Next, Promise!Steps, Steps
  <2>3. CASE Kept(k) = 0
    <3>1. step[k] \notin Passed
      BY <1>1, <2>3 DEF Kept, EffectInv, Passed, Undoable
    <3>2. [t \in Steps |-> applied[t] - undone[t]]' = [t \in Steps |-> applied[t] - undone[t]]
      BY <1>2, <1>3, <1>4, <1>5, <2>3
    <3> QED
      BY <1>2, <2>1, <3>1, <3>2 DEF SagaStep, Promise!vars
  <2> QED
    BY <2>2, <2>3 DEF Kept
<1> QED
  BY <1>11, <1>12

\* A compensation that is refused is written down.
LEMMA DeadLetterSaga ==
    ASSUME TypeOK, FuturesInv, UnwindInv, SagaInv, NEW w \in Workers, DeadLetter(w)
    PROVE  SagaInv' /\ SagaStep
<1> USE DEF SagaInv
<1>1. /\ at[w] \in Steps /\ run = "compensating"
      /\ Moves(w) /\ pc'[w] = "unwind" /\ at'[w] = at[w] - 1
      /\ StillRows /\ UNCHANGED run /\ dead' = dead \cup {at[w]} /\ ~clean'[w]
  BY DEF DeadLetter, UnwindInv, PhaseInv, PhaseOf, Moves, Goto, StillRows, rows, world,
         TypeOK, PassesOK
<1>2. FuturesOf(w)' /\ PhaseOf(w)'
  BY <1>1, NoFutures DEF DeadLetter, FuturesInv, PhaseOf
<1>3. BackOf(w)'
  <2>1. \A t \in Steps : Behind(w, t)' => t = at[w] \/ Behind(w, t)
    BY <1>1 DEF DeadLetter, Behind, Steps
  <2>2. BackOf(w)
    BY DEF BackInv
  <2> QED
    BY <1>1, <2>1, <2>2 DEF BackOf, StillRows
<1>4. EffectInv' /\ OrderInv' /\ WaitInv' /\ SettledFaithful'
  BY <1>1 DEF EffectInv, Effect, OrderInv, Forward, WaitInv, NoneWaits, SettledFaithful,
              StillRows
<1>5. SagaInv'
  BY <1>1, <1>2, <1>3, <1>4, MovesKeep
<1>6. Promise!Stick(at[w])
  BY <1>1 DEF Promise!Stick, StillRows
<1> QED
  BY <1>1, <1>5, <1>6 DEF SagaStep, Promise!Next, Promise!Steps, Steps

\* The walk is over, and the run says what it left.
LEMMA SettleSaga ==
    ASSUME TypeOK, FuturesInv, SagaInv, NEW w \in Workers, Settle(w)
    PROVE  SagaInv' /\ SagaStep
<1> USE DEF SagaInv
<1>1. /\ pc[w] = "settle" /\ End(w, holder) /\ StillRows /\ UNCHANGED dead
      /\ run' = IF clean[w] THEN "reverted" ELSE "failed"
  BY DEF Settle, StillRows, world
<1>2. run = "compensating"
  BY <1>1 DEF PhaseInv, PhaseOf
<1>3. \A t \in Steps : step[t] \in Undoable => t \in dead /\ ~clean[w]
  BY <1>1 DEF BackInv, BackOf, Behind
<1>4. OrderInv' /\ WaitInv' /\ SettledFaithful'
  BY <1>1, <1>2, <1>3 DEF OrderInv, Forward, WaitInv, NoneWaits, SettledFaithful, StillRows,
                          Undoable
<1>5. SagaInv'
  BY <1>1, <1>4, OverKeeps
<1>6. \A t \in Steps : applied[t] - undone[t] # 0 => t \in dead /\ ~clean[w]
  BY <1>2, <1>3, WhatStands
<1>7. Promise!Settle
  BY <1>1, <1>2, <1>6 DEF Promise!Settle, Promise!Steps, Steps, StillRows
<1> QED
  BY <1>5, <1>7 DEF SagaStep, Promise!Next

\* What no pass does says nothing of the run: leases run out and are cleared,
\* and a step a dead pass was inside is as it was before it.
LEMMA RowsSaga ==
    ASSUME TypeOK, UnwindInv, SagaInv, Recover \/ (\E s \in Steps : Expire(s))
    PROVE  SagaInv' /\ SagaStep
<1> USE DEF SagaInv
<1>1. \A t \in Steps : \/ step'[t] = step[t]
                       \/ step[t] = "invoking" /\ step'[t] = "pending"
  BY DEF Recover, Recovered, Expire
<1>2. /\ run' = run /\ dead' = dead /\ lock' = lock
      /\ pc' = pc /\ at' = at /\ clean' = clean /\ child' = child
      /\ prepared' = prepared /\ applied' = applied /\ undone' = undone
  BY DEF Recover, Expire, rows, pass, world
<1>3. \A t \in Steps : Effect(t)' = Effect(t)
  BY <1>1, <1>2 DEF Effect
<1>4. /\ \A t \in Steps : step[t] \in Passed <=> step'[t] \in Passed
      /\ \A t \in Steps : step[t] \in Undoable <=> step'[t] \in Undoable
      /\ \A t \in Steps : step[t] = "waiting" <=> step'[t] = "waiting"
      /\ \A t \in Steps : step'[t] # "pending" => step[t] # "pending"
  BY <1>1 DEF Passed, Undoable
<1>5. SoleInv' /\ EffectInv'
  BY <1>1, <1>2, <1>3 DEF SoleInv, EffectInv
<1>6. OrderInv' /\ WaitInv' /\ SettledFaithful'
  BY <1>1, <1>2, <1>4, PlanAssumption
     DEF OrderInv, Past, WaitInv, NoneWaits, SettledFaithful, Passed
<1>7. SlotInv'
  BY <1>1, <1>2 DEF SlotInv, FuturesOf, FutureOf, Slot, Passed, Asked
<1>8. PhaseInv' /\ BackInv'
  <2> SUFFICES ASSUME NEW w \in Workers PROVE PhaseOf(w)' /\ BackOf(w)'
    BY DEF PhaseInv, BackInv
  <2>1. PhaseOf(w) /\ BackOf(w)
    BY DEF PhaseInv, BackInv
  <2>2. PhaseOf(w)'
    <3>1. Past(at[w]) => Past(at[w])'
      BY <1>2, <1>4 DEF Past
    <3>2. NoneWaits => NoneWaits'
      BY <1>4, PlanAssumption DEF NoneWaits
    <3>3. (\E s \in Steps : step[s] = "waiting") => (\E s \in Steps : step'[s] = "waiting")
      BY <1>4
    <3> QED
      BY <1>2, <2>1, <3>1, <3>2, <3>3 DEF PhaseOf
  <2>3. BackOf(w)'
    <3>1. pc[w] = "undo" => at[w] \in Steps
      BY DEF UnwindInv
    <3>2. pc'[w] = "undo" => step'[at'[w]] \in Undoable
      BY <1>2, <1>4, <2>1, <3>1 DEF BackOf
    <3>3. \A t \in Steps : Behind(w, t)' <=> Behind(w, t)
      BY <1>2 DEF Behind
    <3> QED
      BY <1>2, <1>4, <2>1, <3>2, <3>3 DEF BackOf
  <2> QED
    BY <2>2, <2>3
<1>9. {t \in Steps : step[t] \in Passed}' = {t \in Steps : step[t] \in Passed}
  BY <1>1 DEF Passed
<1>10. SagaStep
  BY <1>2, <1>9 DEF SagaStep, Promise!vars
<1> QED
  BY <1>5, <1>6, <1>7, <1>8, <1>10

\* Before anything happened nothing stands.
LEMMA InitSaga == Init => SagaInv /\ Promise!Init
<1> SUFFICES ASSUME Init PROVE SagaInv /\ Promise!Init
  OBVIOUS
<1>1. SoleInv /\ OrderInv /\ PhaseInv /\ WaitInv /\ BackInv /\ SettledFaithful
  BY DEF Init, SoleInv, OrderInv, Forward, PhaseInv, PhaseOf, WaitInv, BackInv, BackOf,
         Behind, SettledFaithful
<1>2. EffectInv /\ SlotInv
  BY DEF Init, EffectInv, Effect, SlotInv, FuturesOf, FutureOf, NoChild, Asked, Working
<1>3. Promise!Init
  BY DEF Init, Promise!Init, Promise!Steps, Steps, Passed
<1> QED
  BY <1>1, <1>2, <1>3 DEF SagaInv

\* With one driver at a time, every step of the engine is a step of the saga
\* or none.
LEMMA NextSaga ==
    ASSUME Locked, Loops = {}
    PROVE  IndInv /\ SagaInv /\ [Next]_vars => SagaInv' /\ SagaStep
<1> SUFFICES ASSUME IndInv, SagaInv, [Next]_vars PROVE SagaInv' /\ SagaStep
  OBVIOUS
<1> USE DEF IndInv
<1>1. CASE Recover \/ (\E s \in Steps : Expire(s))
  BY <1>1, RowsSaga
<1>2. ASSUME NEW w \in Workers, Acquire(w) \/ Claim(w) \/ LeaseSnapshot(w) \/ LeaseRun(w)
      PROVE  SagaInv' /\ SagaStep
  BY <1>2, AcquireSaga, ClaimSaga, LeaseSaga
<1>3. ASSUME NEW w \in Workers,
             Head(w) \/ ReadSlot(w) \/ Join(w) \/ Release(w) \/ Park(w) \/ Finish(w)
      PROVE  SagaInv' /\ SagaStep
  BY <1>3, HeadSaga, ReadSlotSaga, JoinSaga, StopSaga, ParkSaga, FinishSaga
<1>4. ASSUME NEW w \in Workers,
             Mark(w) \/ ReadBack(w) \/ Undo(w) \/ DeadLetter(w) \/ Settle(w) \/ Die(w)
      PROVE  SagaInv' /\ SagaStep
  BY <1>4, MarkSaga, ReadBackSaga, UndoSaga, DeadLetterSaga, SettleSaga, StopSaga
<1>5. ASSUME NEW w \in Workers, NEW s \in Steps, Future(w, s) \/ DatabaseFails(w, s)
      PROVE  SagaInv' /\ SagaStep
  <2>1. Deed(w, s)
    BY <1>5, FutureIsDeed DEF Future
  <2> QED
    BY <2>1, DeedKeeps
<1>6. CASE UNCHANGED vars
  <2>1. StillRows /\ UNCHANGED <<run, dead, lock, pc, at, clean, child>>
    BY <1>6 DEF vars, rows, pass, world, StillRows
  <2>2. SagaInv'
    BY <2>1 DEF StillRows, SagaInv, SoleInv, EffectInv, Effect, OrderInv, Past, SlotInv,
                FuturesOf, FutureOf, Slot, PhaseInv, PhaseOf, NoneWaits, WaitInv, BackInv,
                BackOf, Behind, SettledFaithful
  <2> QED
    BY <2>1, <2>2, StillSaga
<1>7. ~Start /\ \A w \in Workers : ~Take(w)
  BY DEF Start, Take
<1> QED
  BY <1>1, <1>2, <1>3, <1>4, <1>5, <1>6, <1>7 DEF Next, Going

\* A run of a workflow that is locked_by a key, and that no work loop takes,
\* says what its rows say however many passes die and whoever asks again: Done,
\* that every step ran or was skipped; Reverted, that nothing is left to undo;
\* Failed, that what is left is in the dead letters (`drive`, `unwind`).
THEOREM SettledFaithfully ==
    ASSUME Locked, Loops = {}
    PROVE  Spec => []SettledFaithful
<1>1. Init => SagaInv
  BY InitSaga
<1>2. IndInv /\ SagaInv /\ [Next]_vars => SagaInv'
  BY NextSaga
<1>3. SagaInv => SettledFaithful
  BY DEF SagaInv
<1> QED
  BY <1>1, <1>2, <1>3, Invariance, PTL DEF Spec

\* Such a run is the saga its documentation promises: each step takes effect
\* at most once and in order, a refusal undoes what took effect once and latest
\* first, and a run that says how it ended says so truly (`run`, `drive`,
\* `unwind`).
THEOREM RunsAreSagas ==
    ASSUME Locked, Loops = {}
    PROVE  Spec => IsSaga
<1>1. Init => SagaInv /\ Promise!Init
  BY InitSaga
<1>2. IndInv /\ SagaInv /\ [Next]_vars => SagaInv' /\ [Promise!Next]_Promise!vars
  BY NextSaga DEF SagaStep
<1> QED
  BY <1>1, <1>2, Invariance, PTL DEF Spec, IsSaga, Promise!Spec
=============================================================================

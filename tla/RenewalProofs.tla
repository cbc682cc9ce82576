--------------------------- MODULE RenewalProofs ---------------------------
(***************************************************************************)
(* What holds of Renewal for any number of callers, cycles, attempts,      *)
(* deaths and requests.                                                    *)
(***************************************************************************)
EXTENDS Renewal, TLAPS

Ordered == {"charge", "advance", "uncharge", "unorder", "done"}
Paid    == {"advance", "uncharge", "done"}

Within ==
    /\ ~HasEnded => contract.attempts < MaxAttempts
    /\ skip.reading => skip.cycle < Sold

Drv(w) == call[w].pc \in {"driving", "ordering"}
OneDriver == \A v, w \in Callers : Drv(v) /\ Drv(w) => v = w

Loaded   == \A k \in Keys : run[k].at \in Ordered \cup {"order"} => run[k].cycle \in Cycles
HasOrder == \A k \in Keys : run[k].at \in Ordered => billed[run[k].cycle] = k
Rows     == \A c \in Cycles : billed[c] # NoKey =>
                run[billed[c]].cycle = c /\ run[billed[c]].at \in Ordered
Charged  == \A k \in Keys : k \in held <=> run[k].at \in Paid

ReadStill == \A w \in Callers : call[w].pc = "ordering" =>
                /\ call[w].key \in Keys /\ run[call[w].key].at = "order"
                /\ call[w].read \subseteq contract.owing

Fresh == /\ contract.owing \subseteq 1 .. requests
         /\ \A k \in Keys : run[k].owing \subseteq 1 .. requests

Passed == /\ \A k \in Keys : \A c \in 1 .. (run[k].cycle - 1) : Accounted(c)
          /\ \A c \in 1 .. skip.cycle : Accounted(c)

Books  == Loaded /\ HasOrder /\ Rows /\ Charged
Owing  == ReadStill /\ Fresh /\ CollectedOnce
Counts == CyclesPaid /\ Passed

IndInv == TypeOK /\ Within /\ OneDriver /\ Books /\ Owing /\ Counts

ContractType ==
    [status : {"active", "past_due", "paused", "cancelled", "expired"},
     cycle : 0 .. Sold, attempts : 0 .. MaxAttempts, end : Nat, next : Nat,
     stopping : BOOLEAN, until : Nat, owing : SUBSET Swaps]
RunType  == [at : {"none"} \cup Underway \cup Settled, cycle : 0 .. Sold,
             start : Nat, owing : SUBSET Swaps, why : {"none", "charge", "other"}]
CallType == [pc : {"idle", "asked", "driving", "ordering", "refused"},
             key : Keys \cup {NoKey}, read : SUBSET Swaps]
SkipType == [reading : BOOLEAN, cycle : 0 .. Sold, end : Nat]
RunStates == {"none", "load", "order", "charge", "advance", "uncharge", "unorder",
              "done", "reverted"}

\* TypeOK, part by part.
LEMMA TypeParts ==
    TypeOK <=> /\ clock \in Nat /\ contract \in ContractType
               /\ run \in [Keys -> RunType]
               /\ billed \in [Cycles -> Keys \cup {NoKey}]
               /\ held \subseteq Keys
               /\ call \in [Callers -> CallType]
               /\ skip \in SkipType /\ skipped \subseteq Cycles
               /\ deaths \in Nat /\ requests \in Nat
BY DEF TypeOK, ContractType, RunType, CallType, SkipType

\* The bounds, and that NoKey is no key.
LEMMA Bounds ==
    /\ Sold \in Nat \ {0} /\ MaxAttempts \in Nat \ {0} /\ MaxRequests \in Nat
    /\ Cycles = 1 .. Sold + 1 /\ Swaps = 1 .. MaxRequests
    /\ NoKey \notin Keys
    /\ \A c \in Cycles, a \in 0 .. MaxAttempts : <<c, a>> \in Keys
    /\ {"none"} \cup Underway \cup Settled = RunStates
<1>1. Sold \in Nat \ {0} /\ MaxAttempts \in Nat \ {0} /\ MaxRequests \in Nat
  BY PlanAssumption
<1>2. NoKey \notin Keys BY <1>1 DEF NoKey, Keys, Cycles
<1>3. \A c \in Cycles, a \in 0 .. MaxAttempts : <<c, a>> \in Keys BY DEF Keys
<1> QED BY <1>1, <1>2, <1>3 DEF Cycles, Swaps, Underway, Settled, RunStates

\* The constants of the module are of their types.
LEMMA Blanks == Free \in CallType /\ NoRun \in RunType /\ NoSkip \in SkipType
BY Bounds DEF Free, CallType, NoRun, RunType, NoSkip, SkipType, RunStates

-----------------------------------------------------------------------------
(* Types. *)

\* A row of its type, moved or failed, is of its type.
LEMMA RowsKeepType ==
    ASSUME run \in [Keys -> RunType], NEW k \in Keys, NEW to \in RunStates,
           NEW why \in {"none", "charge", "other"},
           Moves(k, to) \/ Fails(k, why, to)
    PROVE  run' \in [Keys -> RunType]
<1>1. run[k] \in RunType OBVIOUS
<1>2. /\ [run[k] EXCEPT !.at = to] \in RunType
      /\ [run[k] EXCEPT !.at = to, !.why = why] \in RunType
  BY <1>1, Bounds DEF RunType
<1> QED BY <1>2 DEF Moves, Fails, Writes

\* What callers do keeps types.
LEMMA CallsKeepTypes ==
    ASSUME TypeOK, Within, NEW w \in Callers,
           \/ Ask(w) \/ Take(w) \/ GiveUp(w) \/ Told(w) \/ Decline(w) \/ Die(w)
    PROVE  TypeOK' /\ Within'
<1>1. /\ clock \in Nat /\ contract \in ContractType
      /\ run \in [Keys -> RunType] /\ call \in [Callers -> CallType]
      /\ deaths \in Nat
  BY TypeParts
<1>2. CASE Ask(w)
  <2>1. contract.cycle + 1 \in Cycles /\ contract.attempts \in 0 .. MaxAttempts
    BY <1>1, Bounds DEF ContractType
  <2>2. <<contract.cycle + 1, contract.attempts>> \in Keys BY <2>1, Bounds
  <2>3. [Free EXCEPT !.pc = "asked", !.key = <<contract.cycle + 1, contract.attempts>>]
          \in CallType
    BY <2>2, Blanks DEF CallType, Free
  <2>4. call' \in [Callers -> CallType] BY <1>1, <1>2, <2>3 DEF Ask
  <2> QED BY <1>2, <2>4 DEF Ask, TypeOK, CallType, Within, HasEnded
<1>3. CASE Take(w)
  <2>1. call' \in [Callers -> CallType] BY <1>1, <1>3 DEF Take, CallType
  <2>2. run' \in [Keys -> RunType]
    <3>1. call[w].key \in Keys \cup {NoKey} BY <1>1 DEF CallType
    <3>2. CASE call[w].key = NoKey
      BY <1>1, <1>3, <3>2, Bounds DEF Take, Moves, Writes
    <3>3. CASE call[w].key \in Keys
      BY <1>1, <1>3, <3>3, RowsKeepType DEF Take, RunStates
    <3> QED BY <3>1, <3>2, <3>3
  <2> QED BY <1>3, <2>1, <2>2 DEF Take, TypeOK, CallType, RunType, Within, HasEnded
<1>4. CASE GiveUp(w)
  <2>1. call' \in [Callers -> CallType] BY <1>1, <1>4, Blanks DEF GiveUp
  <2> QED BY <1>4, <2>1 DEF GiveUp, TypeOK, CallType, Within, HasEnded
<1>5. CASE Told(w)
  <2>1. [call[w] EXCEPT !.pc = "refused"] \in CallType BY <1>1 DEF CallType
  <2>2. call' \in [Callers -> CallType] BY <1>1, <1>5, <2>1, Blanks DEF Told
  <2> QED BY <1>5, <2>2 DEF Told, TypeOK, CallType, Within, HasEnded
<1>6. CASE Decline(w)
  <2>1. call' \in [Callers -> CallType] BY <1>1, <1>6, Blanks DEF Decline
  <2>2. /\ contract' \in ContractType
        /\ ~HasEnded' => contract'.attempts < MaxAttempts
    <3>1. CASE ~IsLive BY <1>1, <1>6, <3>1 DEF Decline, HasEnded, Within
    <3>2. CASE IsLive
      <4>1. contract.attempts < MaxAttempts /\ contract.attempts \in Nat
        BY <1>1, <3>2, Bounds DEF IsLive, HasEnded, Within, ContractType
      <4>2. contract.attempts + 1 \in 0 .. MaxAttempts BY <4>1, Bounds
      <4>3. contract' = [contract EXCEPT !.attempts = @ + 1, !.status =
                           IF contract.attempts + 1 >= MaxAttempts THEN "cancelled"
                           ELSE "past_due"]
        BY <1>6, <3>2 DEF Decline
      <4>4. contract' \in ContractType BY <1>1, <4>2, <4>3 DEF ContractType
      <4>5. ~HasEnded' => contract'.attempts < MaxAttempts
        BY <1>1, <4>1, <4>2, <4>3, Bounds DEF ContractType, HasEnded
      <4> QED BY <4>4, <4>5
    <3> QED BY <3>1, <3>2
  <2> QED BY <1>6, <2>1, <2>2 DEF Decline, TypeOK, CallType, ContractType, Within
<1>7. CASE Die(w)
  <2>1. call' \in [Callers -> CallType] BY <1>1, <1>7, Blanks DEF Die
  <2> QED BY <1>1, <1>7, <2>1 DEF Die, TypeOK, CallType, Within, HasEnded
<1> QED BY <1>2, <1>3, <1>4, <1>5, <1>6, <1>7

\* What a run does keeps types.
LEMMA RunsKeepTypes ==
    ASSUME TypeOK, Within, Loaded, NEW w \in Callers, NEW k \in Keys, Step(w, k)
    PROVE  TypeOK' /\ Within'
<1>1. /\ contract \in ContractType /\ run \in [Keys -> RunType]
      /\ billed \in [Cycles -> Keys \cup {NoKey}]
      /\ call \in [Callers -> CallType]
  BY TypeParts
<1>2. CASE LoadContract(w, k)
  <2>1. run' \in [Keys -> RunType]
    <3>1. CASE MayRenew
      <4>1. run[k] \in RunType /\ contract.cycle + 1 \in 0 .. Sold /\ contract.end \in Nat
        BY <1>1, <3>1, Bounds DEF CycleLeft, MayRenew, ContractType
      <4>2. [run[k] EXCEPT !.at = "order", !.cycle = contract.cycle + 1,
                           !.start = contract.end] \in RunType
        BY <4>1, Bounds DEF RunType, RunStates
      <4> QED BY <1>1, <1>2, <3>1, <4>2 DEF LoadContract, Writes
    <3>2. CASE ~MayRenew BY <1>1, <1>2, <3>2, RowsKeepType DEF LoadContract, RunStates
    <3> QED BY <3>1, <3>2
  <2> QED BY <1>2, <2>1 DEF LoadContract, Rest, TypeOK, RunType, Within, HasEnded
<1>3. CASE Unable(w, k)
  <2>1. run' \in [Keys -> RunType]
    BY <1>1, <1>3, RowsKeepType DEF Unable, RunStates
  <2> QED BY <1>3, <2>1 DEF Unable, Rest, TypeOK, RunType, Within, HasEnded
<1>4. CASE ReadOwing(w, k)
  <2>1. call[w] \in CallType /\ contract.owing \in SUBSET Swaps BY <1>1 DEF ContractType
  <2>2. [call[w] EXCEPT !.pc = "ordering", !.read = contract.owing] \in CallType
    BY <2>1 DEF CallType
  <2>3. call' = [call EXCEPT ![w] = [call[w] EXCEPT !.pc = "ordering", !.read = contract.owing]]
    BY <1>1, <1>4 DEF ReadOwing
  <2>4. call' \in [Callers -> CallType] BY <1>1, <2>2, <2>3
  <2> QED BY <1>4, <2>4 DEF ReadOwing, Rest, TypeOK, CallType, Within, HasEnded
<1>5. CASE CreateOrder(w, k)
  <2>1. call' \in [Callers -> CallType]
    <3>1. call[w] \in CallType BY <1>1
    <3>2. [call[w] EXCEPT !.pc = "driving", !.read = {}] \in CallType BY <3>1 DEF CallType
    <3>3. call' = [call EXCEPT ![w] = [call[w] EXCEPT !.pc = "driving", !.read = {}]]
      BY <1>1, <1>5 DEF CreateOrder
    <3> QED BY <1>1, <3>2, <3>3
  <2>2. run' \in [Keys -> RunType]
    <3>1. CASE billed[run[k].cycle] = NoKey
      <4>1. run[k] \in RunType /\ call[w].read \in SUBSET Swaps BY <1>1 DEF CallType
      <4>2. [run[k] EXCEPT !.at = "charge", !.owing = call[w].read] \in RunType
        BY <4>1, Bounds DEF RunType, RunStates
      <4> QED BY <1>1, <1>5, <3>1, <4>2 DEF Vacant, Cleared, CreateOrder, Writes
    <3>2. CASE billed[run[k].cycle] # NoKey
      BY <1>1, <1>5, <3>2, RowsKeepType DEF Vacant, Cleared, CreateOrder, RunStates
    <3> QED BY <3>1, <3>2
  <2>3. billed' \in [Cycles -> Keys \cup {NoKey}] BY <1>1, <1>5 DEF CreateOrder
  <2>4. /\ contract' \in ContractType /\ contract'.status = contract.status
        /\ contract'.attempts = contract.attempts
    BY <1>1, <1>5 DEF Vacant, Cleared, CreateOrder, ContractType
  <2> QED BY <1>5, <2>1, <2>2, <2>3, <2>4
          DEF CreateOrder, Rest, TypeOK, CallType, RunType, ContractType, Within, HasEnded
<1>6. CASE ChargeStoredMethod(w, k)
  <2>1. run' \in [Keys -> RunType]
    BY <1>1, <1>6, RowsKeepType DEF ChargeStoredMethod, RunStates
  <2> QED BY <1>6, <2>1 DEF ChargeStoredMethod, Rest, TypeOK, RunType, Within, HasEnded
<1>7. CASE Refuse(w, k)
  <2>1. run' \in [Keys -> RunType]
    BY <1>1, <1>7, RowsKeepType DEF Refuse, RunStates
  <2> QED BY <1>7, <2>1 DEF Refuse, Rest, TypeOK, RunType, Within, HasEnded
<1>8. CASE AdvancePeriod(w, k)
  <2>1. run' \in [Keys -> RunType]
    BY <1>1, <1>8, RowsKeepType DEF AdvancePeriod, RunStates
  <2>2. run[k] \in RunType BY <1>1
  <2>3. Advanced(k) \in ContractType /\ Advanced(k).attempts = 0
    <3>1. run[k].cycle \in 0 .. Sold /\ run[k].start + 1 \in Nat /\ 0 \in 0 .. MaxAttempts
      BY <2>2, Bounds DEF RunType
    <3> QED BY <1>1, <3>1 DEF Advanced, ContractType
  <2>4. contract' \in ContractType /\ (~HasEnded' => contract'.attempts < MaxAttempts)
    BY <1>1, <1>8, <2>3, Bounds DEF AdvancePeriod, Within, HasEnded
  <2> QED BY <1>8, <2>1, <2>4
          DEF AdvancePeriod, Rest, TypeOK, RunType, ContractType, Within
<1>9. CASE UndoCharge(w, k)
  <2>1. run' \in [Keys -> RunType]
    BY <1>1, <1>9, RowsKeepType DEF UndoCharge, RunStates
  <2> QED BY <1>9, <2>1 DEF UndoCharge, Rest, TypeOK, RunType, Within, HasEnded
<1>10. CASE UndoOrder(w, k)
  <2>1. run' \in [Keys -> RunType]
    BY <1>1, <1>10, RowsKeepType DEF UndoOrder, RunStates
  <2>2. billed' \in [Cycles -> Keys \cup {NoKey}] BY <1>1, <1>10 DEF UndoOrder
  <2>3. /\ contract' \in ContractType /\ contract'.status = contract.status
        /\ contract'.attempts = contract.attempts
    BY <1>1, <1>10 DEF UndoOrder, ContractType, RunType
  <2> QED BY <1>10, <2>1, <2>2, <2>3
          DEF UndoOrder, Rest, TypeOK, RunType, ContractType, Within, HasEnded
<1> QED BY <1>2, <1>3, <1>4, <1>5, <1>6, <1>7, <1>8, <1>9, <1>10 DEF Step

Requests == Cancel \/ CancelAtPeriodEnd \/ Pause \/ Resume \/ Swap \/ SkipRead

\* What the shopper asks, and time, keep types.
LEMMA RequestsKeepTypes ==
    ASSUME TypeOK, Within, Requests \/ SkipNext \/ Tick
    PROVE  TypeOK' /\ Within'
<1>1. /\ clock \in Nat /\ contract \in ContractType /\ requests \in Nat
      /\ skip \in SkipType /\ skipped \subseteq Cycles
  BY TypeParts
<1>2. CASE Cancel \/ CancelAtPeriodEnd \/ Pause \/ Resume
  <2>1. requests' \in Nat /\ UNCHANGED <<clock, run, billed, held, call, deaths, skip, skipped>>
    BY <1>1, <1>2 DEF Cancel, CancelAtPeriodEnd, Pause, Resume, Request
  <2>2. contract' \in ContractType
    <3>1. CASE Cancel BY <1>1, <3>1 DEF Cancel, ContractType
    <3>2. CASE CancelAtPeriodEnd BY <1>1, <3>2 DEF CancelAtPeriodEnd, ContractType
    <3>3. CASE Pause
      <4>1. PICK until \in {0, clock + 1} :
              contract' = [contract EXCEPT !.status = "paused", !.until = until]
        BY <3>3 DEF Pause
      <4>2. until \in Nat BY <1>1
      <4> QED BY <1>1, <4>1, <4>2 DEF ContractType
    <3>4. CASE Resume
      <4>1. (IF contract.next < clock THEN clock ELSE contract.next) \in Nat
        BY <1>1 DEF ContractType
      <4> QED BY <1>1, <3>4, <4>1 DEF Resume, ContractType
    <3> QED BY <1>2, <3>1, <3>2, <3>3, <3>4
  <2>3. contract.status \notin {"cancelled", "expired"} /\ contract'.attempts = contract.attempts
    BY <1>1, <1>2 DEF Cancel, CancelAtPeriodEnd, Pause, Resume, IsLive, ContractType
  <2> QED BY <2>1, <2>2, <2>3 DEF TypeOK, ContractType, Within, HasEnded
<1>3. CASE Swap
  <2>1. requests + 1 \in Swaps BY <1>1, <1>3, Bounds DEF Swap, Request
  <2>2. /\ contract' \in ContractType /\ contract'.status = contract.status
        /\ contract'.attempts = contract.attempts
    BY <1>1, <1>3, <2>1 DEF Swap, ContractType
  <2> QED BY <1>1, <1>3, <2>2 DEF Swap, Request, TypeOK, ContractType, Within, HasEnded
<1>4. CASE SkipRead
  <2>1. skip' \in SkipType /\ skip'.cycle < Sold
    BY <1>1, <1>4, Bounds DEF CycleLeft, SkipRead, SkipType, ContractType
  <2> QED BY <1>1, <1>4, <2>1 DEF SkipRead, Request, TypeOK, SkipType, Within, HasEnded
<1>5. CASE SkipNext
  <2>1. skip.cycle + 1 \in 1 .. Sold /\ skip.end + 1 \in Nat
    BY <1>1, <1>5, Bounds DEF SkipNext, Within, SkipType
  <2>2. contract' \in ContractType /\ contract'.attempts = 0
    <3>1. 0 \in 0 .. MaxAttempts /\ skip.cycle + 1 \in 0 .. Sold BY <2>1, Bounds
    <3> QED BY <1>1, <1>5, <2>1, <3>1 DEF SkipNext, ContractType
  <2>3. skipped' \subseteq Cycles BY <1>1, <1>5, <2>1, Bounds DEF SkipNext
  <2>4. skip' \in SkipType /\ ~skip'.reading BY <1>5, Blanks DEF SkipNext, NoSkip
  <2>5. TypeOK' BY <1>5, <2>2, <2>3, <2>4 DEF SkipNext, TypeOK, ContractType, SkipType
  <2>6. Within' BY <2>2, <2>4, Bounds DEF Within
  <2> QED BY <2>5, <2>6
<1>6. CASE Tick BY <1>1, <1>6 DEF Tick, TypeOK, Within, HasEnded
<1> QED BY <1>2, <1>3, <1>4, <1>5, <1>6 DEF Requests

\* Every step, and stuttering, keeps types.
LEMMA TypesKept == TypeOK /\ Within /\ Loaded /\ [Next]_vars => TypeOK' /\ Within'
<1> SUFFICES ASSUME TypeOK, Within, Loaded, [Next]_vars PROVE TypeOK' /\ Within'
  OBVIOUS
<1>1. CASE UNCHANGED vars BY <1>1 DEF vars, TypeOK, Within, HasEnded
<1>2. CASE Next BY <1>2, CallsKeepTypes, RunsKeepTypes, RequestsKeepTypes
                DEF Next, CallStep, Requests
<1> QED BY <1>1, <1>2

-----------------------------------------------------------------------------
(* One driver, and what it has read. *)

\* Who begins to drive found nobody driving.
LEMMA OneDriverKept ==
    ASSUME TypeOK, OneDriver, [Next]_vars
    PROVE  OneDriver'
<1>1. call \in [Callers -> CallType] BY TypeParts
<1>2. CASE UNCHANGED call BY <1>2 DEF OneDriver, Drv
<1>3. ASSUME NEW w \in Callers, Take(w) PROVE OneDriver'
  BY <1>1, <1>3 DEF Take, OneDriver, Drv, Locked, CallType
<1>4. ASSUME NEW w \in Callers,
             \/ Ask(w) \/ GiveUp(w) \/ Told(w) \/ Decline(w) \/ Die(w)
             \/ \E k \in Keys : ReadOwing(w, k) \/ CreateOrder(w, k)
      PROVE  OneDriver'
  <2>1. /\ \A v \in Callers \ {w} : call'[v] = call[v]
        /\ call'[w].pc \in {"driving", "ordering"} => Drv(w)
    <3>1. CASE \/ Ask(w) \/ GiveUp(w) \/ Told(w) \/ Decline(w) \/ Die(w)
      <4>1. call[w] \in CallType /\ [call[w] EXCEPT !.pc = "refused"].pc = "refused"
        BY <1>1 DEF CallType
      <4>2. Free.pc = "idle" /\ \A k : [Free EXCEPT !.pc = "asked", !.key = k].pc = "asked"
        BY DEF Free
      <4> QED BY <1>1, <3>1, <4>1, <4>2 DEF Ask, GiveUp, Told, Decline, Die, Drv
    <3>2. CASE \E k \in Keys : ReadOwing(w, k) \/ CreateOrder(w, k)
      BY <1>1, <3>2 DEF ReadOwing, CreateOrder, Drives, Drv, CallType
    <3> QED BY <1>4, <3>1, <3>2
  <2> QED BY <2>1 DEF OneDriver, Drv
<1> QED BY <1>2, <1>3, <1>4
        DEF Next, CallStep, Step, LoadContract, Unable, ChargeStoredMethod, Refuse,
            AdvancePeriod, UndoCharge, UndoOrder, Rest, Cancel, CancelAtPeriodEnd, Pause,
            Resume, Swap, SkipRead, SkipNext, Request, Tick, vars

-----------------------------------------------------------------------------
(* Orders and charges. *)

\* What a step may do to the row of its run: from a stage to a later one, by the
\* caller that drives.
BookSteps(w, k) ==
    LoadContract(w, k) \/ Unable(w, k) \/ CreateOrder(w, k) \/ ChargeStoredMethod(w, k)
    \/ Refuse(w, k) \/ AdvancePeriod(w, k) \/ UndoCharge(w, k) \/ UndoOrder(w, k)

\* Taking a run that is new only loads it; the rest of what a caller does leaves
\* runs, orders and charges alone.
LEMMA BooksStay ==
    ASSUME TypeOK, [Next]_vars,
           ~ \E w \in Callers, k \in Keys : BookSteps(w, k)
    PROVE  /\ UNCHANGED <<billed, held>>
           /\ \A k \in Keys : /\ run'[k].cycle = run[k].cycle
                              /\ run'[k].owing = run[k].owing
                              /\ \/ run'[k].at = run[k].at
                                 \/ run[k].at = "none" /\ run'[k].at = "load"
<1>1. run \in [Keys -> RunType] /\ call \in [Callers -> CallType] BY TypeParts
<1>2. CASE UNCHANGED <<run, billed, held>> BY <1>2
<1>3. ASSUME NEW w \in Callers, Take(w)
      PROVE  /\ UNCHANGED <<billed, held>>
             /\ \A k \in Keys : /\ run'[k].cycle = run[k].cycle
                                /\ run'[k].owing = run[k].owing
                                /\ \/ run'[k].at = run[k].at
                                   \/ run[k].at = "none" /\ run'[k].at = "load"
  <2>1. UNCHANGED <<billed, held>> BY <1>3 DEF Take
  <2>2. ASSUME NEW k \in Keys, k # call[w].key \/ run[call[w].key].at # "none"
        PROVE  run'[k] = run[k]
    BY <1>1, <1>3, <2>2 DEF Take, Moves, Writes
  <2>3. ASSUME NEW k \in Keys, k = call[w].key, run[k].at = "none"
        PROVE  /\ run'[k].cycle = run[k].cycle /\ run'[k].owing = run[k].owing
               /\ run'[k].at = "load"
    <3>1. run[k] \in RunType BY <1>1
    <3>2. run'[k] = [run[k] EXCEPT !.at = "load"] BY <1>1, <1>3, <2>3 DEF Take, Moves, Writes
    <3> QED BY <3>1, <3>2 DEF RunType
  <2> QED BY <2>1, <2>2, <2>3
<1>4. CASE \E w \in Callers, k \in Keys : ReadOwing(w, k) BY <1>2, <1>4 DEF ReadOwing
<1>5. CASE ~ \E w \in Callers, k \in Keys : ReadOwing(w, k)
  <2>1. ~ \E w \in Callers, k \in Keys : Step(w, k) BY <1>5 DEF Step, BookSteps
  <2> QED BY <1>2, <1>3, <2>1
          DEF Next, CallStep, Ask, GiveUp, Told, Decline, Die, Cancel, CancelAtPeriodEnd,
              Pause, Resume, Swap, SkipRead, SkipNext, Request, Tick, vars
<1> QED BY <1>4, <1>5

\* A step writes the row of its own run, from the stage it was in.
LEMMA OneRow ==
    ASSUME TypeOK, ReadStill, NEW w \in Callers, NEW k \in Keys, BookSteps(w, k)
    PROVE  /\ \A j \in Keys \ {k} : run'[j] = run[j]
           /\ run[k].at \in {"load", "order", "charge", "advance", "uncharge", "unorder"}
           /\ \A j \in Keys \ {k} : j \in held' <=> j \in held
<1>1. run \in [Keys -> RunType] /\ held \subseteq Keys BY TypeParts
<1>2. \A j \in Keys \ {k} : run'[j] = run[j]
  BY <1>1 DEF BookSteps, LoadContract, Unable, CreateOrder, ChargeStoredMethod, Refuse,
              AdvancePeriod, UndoCharge, UndoOrder, Writes, Moves, Fails
<1>3. run[k].at \in {"load", "order", "charge", "advance", "uncharge", "unorder"}
  BY DEF BookSteps, LoadContract, Unable, CreateOrder, ChargeStoredMethod, Refuse,
         AdvancePeriod, UndoCharge, UndoOrder, Drives, ReadStill
<1>4. \A j \in Keys \ {k} : j \in held' <=> j \in held
  BY DEF BookSteps, LoadContract, Unable, CreateOrder, ChargeStoredMethod, Refuse,
         AdvancePeriod, UndoCharge, UndoOrder
<1> QED BY <1>2, <1>3, <1>4

\* What a step makes of its row and of the orders.
Dropped(k)  == /\ run[k].at \in {"load", "order"} /\ run'[k].at = "reverted"
               /\ run'[k].cycle = run[k].cycle /\ run'[k].owing = run[k].owing
               /\ UNCHANGED <<billed, held>>
Loads(k)    == /\ run[k].at = "load" /\ run'[k].at = "order"
               /\ run'[k].cycle \in Cycles /\ run'[k].cycle = contract.cycle + 1
               /\ run'[k].owing = run[k].owing
               /\ UNCHANGED <<billed, held>>
Orders(k)   == /\ run[k].at = "order" /\ run'[k].at = "charge"
               /\ run'[k].cycle = run[k].cycle /\ billed[run[k].cycle] = NoKey
               /\ billed' = [billed EXCEPT ![run[k].cycle] = k] /\ UNCHANGED held
Proceeds(k) == /\ \/ run[k].at = "charge" /\ run'[k].at = "advance" /\ k \in held'
                  \/ run[k].at = "charge" /\ run'[k].at = "unorder" /\ UNCHANGED held
                  \/ run[k].at = "advance" /\ run'[k].at \in {"uncharge", "done"}
                     /\ UNCHANGED held
                  \/ run[k].at = "uncharge" /\ run'[k].at = "unorder" /\ k \notin held'
               /\ run'[k].cycle = run[k].cycle /\ run'[k].owing = run[k].owing
               /\ UNCHANGED billed
Unorders(k) == /\ run[k].at = "unorder" /\ run'[k].at = "reverted"
               /\ run'[k].cycle = run[k].cycle /\ run'[k].owing = run[k].owing
               /\ billed' = [billed EXCEPT ![run[k].cycle] = NoKey] /\ UNCHANGED held

LEMMA RowMoves ==
    ASSUME TypeOK, ReadStill, NEW w \in Callers, NEW k \in Keys, BookSteps(w, k)
    PROVE  Dropped(k) \/ Loads(k) \/ Orders(k) \/ Proceeds(k) \/ Unorders(k)
<1>1. /\ run \in [Keys -> RunType] /\ held \subseteq Keys /\ run[k] \in RunType
      /\ contract \in ContractType
  BY TypeParts
<1>2. \A row : Writes(k, row) => run'[k] = row BY <1>1 DEF Writes
<1>3. \A to, why : Fails(k, why, to) => run'[k].at = to /\ run'[k].cycle = run[k].cycle
                                        /\ run'[k].owing = run[k].owing
  BY <1>1, <1>2 DEF Fails, RunType
<1>4. \A to : Moves(k, to) => run'[k].at = to /\ run'[k].cycle = run[k].cycle
                              /\ run'[k].owing = run[k].owing
  BY <1>1, <1>2 DEF Moves, RunType
<1>5. CASE LoadContract(w, k)
  <2>1. CASE MayRenew
    <3>1. contract.cycle + 1 \in Cycles BY <1>1, <2>1, Bounds DEF MayRenew, ContractType
    <3>2. run'[k].at = "order" /\ run'[k].cycle = contract.cycle + 1
          /\ run'[k].owing = run[k].owing
      BY <1>1, <1>2, <1>5, <2>1 DEF LoadContract, RunType
    <3> QED BY <1>5, <3>1, <3>2 DEF LoadContract, Drives, Loads
  <2>2. CASE ~MayRenew BY <1>3, <1>5, <2>2 DEF LoadContract, Drives, Dropped
  <2> QED BY <2>1, <2>2
<1>6. CASE Unable(w, k) BY <1>3, <1>6 DEF Unable, Drives, Dropped
<1>7. CASE CreateOrder(w, k)
  <2>1. run[k].at = "order" BY <1>7 DEF CreateOrder, ReadStill
  <2>2. CASE billed[run[k].cycle] = NoKey
    <3>1. run'[k].at = "charge" /\ run'[k].cycle = run[k].cycle
      BY <1>1, <1>2, <1>7, <2>2 DEF Vacant, Cleared, CreateOrder, RunType
    <3> QED BY <1>7, <2>1, <2>2, <3>1 DEF Vacant, Cleared, CreateOrder, Orders
  <2>3. CASE billed[run[k].cycle] # NoKey
    BY <1>3, <1>7, <2>1, <2>3 DEF Vacant, Cleared, CreateOrder, Dropped
  <2> QED BY <2>2, <2>3
<1>8. CASE ChargeStoredMethod(w, k)
  BY <1>4, <1>8 DEF ChargeStoredMethod, Drives, Proceeds
<1>9. CASE Refuse(w, k) BY <1>3, <1>9 DEF Refuse, Drives, Proceeds
<1>10. CASE AdvancePeriod(w, k)
  BY <1>3, <1>4, <1>10 DEF AdvancePeriod, Drives, Proceeds
<1>11. CASE UndoCharge(w, k) BY <1>4, <1>11 DEF UndoCharge, Drives, Proceeds
<1>12. CASE UndoOrder(w, k) BY <1>4, <1>12 DEF UndoOrder, Drives, Unorders
<1> QED BY <1>5, <1>6, <1>7, <1>8, <1>9, <1>10, <1>11, <1>12 DEF BookSteps

\* Orders, runs and charges go on agreeing.
LEMMA BooksKept ==
    ASSUME TypeOK, ReadStill, Books, [Next]_vars
    PROVE  Books'
<1>1. /\ run \in [Keys -> RunType] /\ held \subseteq Keys
      /\ billed \in [Cycles -> Keys \cup {NoKey}]
  BY TypeParts
<1>2. CASE ~ \E w \in Callers, k \in Keys : BookSteps(w, k)
  <2>1. /\ UNCHANGED <<billed, held>>
        /\ \A k \in Keys : /\ run'[k].cycle = run[k].cycle
                           /\ run'[k].owing = run[k].owing
                           /\ \/ run'[k].at = run[k].at
                              \/ run[k].at = "none" /\ run'[k].at = "load"
    BY <1>2, BooksStay
  <2>2. \A k \in Keys : /\ run'[k].at \in Ordered <=> run[k].at \in Ordered
                        /\ run'[k].at \in Paid <=> run[k].at \in Paid
                        /\ run'[k].at \in Ordered \cup {"order"}
                             <=> run[k].at \in Ordered \cup {"order"}
    BY <2>1 DEF Ordered, Paid
  <2>3. Loaded' /\ HasOrder' /\ Charged'
    BY <2>1, <2>2 DEF Books, Loaded, HasOrder, Charged
  <2>4. Rows'
    <3> SUFFICES ASSUME NEW c \in Cycles, billed[c] # NoKey
                 PROVE  run'[billed[c]].cycle = c /\ run'[billed[c]].at \in Ordered
      BY <2>1 DEF Rows
    <3>1. billed[c] \in Keys BY <1>1
    <3> QED BY <2>1, <2>2, <3>1 DEF Books, Rows
  <2> QED BY <2>3, <2>4 DEF Books
<1>3. ASSUME NEW w \in Callers, NEW k \in Keys, BookSteps(w, k) PROVE Books'
  <2>1. /\ \A j \in Keys \ {k} : run'[j] = run[j]
        /\ \A j \in Keys \ {k} : j \in held' <=> j \in held
    BY <1>3, OneRow
  <2>2. Loaded' /\ Charged'
    BY <1>3, <2>1, RowMoves
    DEF Books, Loaded, Charged, Ordered, Paid, Dropped, Loads, Orders, Proceeds, Unorders
  <2>3. run[k].at \in Ordered \cup {"order"} => run[k].cycle \in Cycles
    BY DEF Books, Loaded
  <2>4. HasOrder' /\ Rows'
    <3>1. CASE Dropped(k) \/ Loads(k) \/ Proceeds(k)
      BY <1>1, <2>1, <3>1
      DEF Books, HasOrder, Rows, Ordered, Dropped, Loads, Proceeds
    <3>2. CASE Orders(k)
      <4>1. /\ run[k].cycle \in Cycles
            /\ billed'[run[k].cycle] = k
            /\ \A c \in Cycles \ {run[k].cycle} : billed'[c] = billed[c]
        BY <1>1, <2>3, <3>2 DEF Orders
      <4>2. \A j \in Keys \ {k} : run[j].at \in Ordered => run[j].cycle # run[k].cycle
        BY <3>2, Bounds DEF Orders, Books, HasOrder
      <4>3. HasOrder'
        BY <2>1, <3>2, <4>1, <4>2 DEF Orders, Books, HasOrder, Loaded, Ordered
      <4>4. \A c \in Cycles \ {run[k].cycle} : billed[c] # k
        BY <3>2, Bounds DEF Orders, Books, Rows, Ordered
      <4>5. Rows' BY <1>1, <2>1, <3>2, <4>1, <4>4 DEF Orders, Books, Rows, Ordered
      <4> QED BY <4>3, <4>5
    <3>3. CASE Unorders(k)
      <4>1. /\ run[k].cycle \in Cycles /\ billed[run[k].cycle] = k
            /\ billed'[run[k].cycle] = NoKey
            /\ \A c \in Cycles \ {run[k].cycle} : billed'[c] = billed[c]
        BY <1>1, <2>3, <3>3 DEF Unorders, Ordered, Books, HasOrder
      <4>2. \A j \in Keys \ {k} : run[j].at \in Ordered => run[j].cycle # run[k].cycle
        BY <4>1 DEF Books, HasOrder
      <4>3. HasOrder'
        BY <2>1, <3>3, <4>1, <4>2 DEF Unorders, Books, HasOrder, Loaded, Ordered
      <4>4. \A c \in Cycles \ {run[k].cycle} : billed[c] # k
        BY <4>1, Bounds DEF Books, Rows
      <4>5. Rows' BY <1>1, <2>1, <3>3, <4>1, <4>4 DEF Books, Rows
      <4> QED BY <4>3, <4>5
    <3> QED BY <1>3, <3>1, <3>2, <3>3, RowMoves
  <2> QED BY <2>2, <2>4 DEF Books
<1> QED BY <1>2, <1>3

-----------------------------------------------------------------------------
(* Cycles. *)

\* A cycle that was paid or skipped stays so.
LEMMA AccountedStays ==
    ASSUME TypeOK, ReadStill, Books, [Next]_vars, NEW c, Accounted(c)
    PROVE  Accounted(c)'
<1>1. held \subseteq Keys /\ run \in [Keys -> RunType] BY TypeParts
<1>2. skipped \subseteq skipped'
  <2>1. CASE \E w \in Callers, k \in Keys : Step(w, k)
    BY <2>1 DEF Step, LoadContract, Unable, ReadOwing, CreateOrder, ChargeStoredMethod,
                Refuse, AdvancePeriod, UndoCharge, UndoOrder, Rest
  <2>2. CASE ~ \E w \in Callers, k \in Keys : Step(w, k)
    BY <2>2 DEF Next, CallStep, Ask, Take, GiveUp, Told, Decline, Die, Cancel,
                CancelAtPeriodEnd, Pause, Resume, Swap, SkipRead, SkipNext, Tick, vars
  <2> QED BY <2>1, <2>2
<1>3. CASE c \in skipped BY <1>2, <1>3 DEF Accounted
<1>4. ASSUME NEW k \in held, run[k].cycle = c, run[k].at = "done" PROVE Accounted(c)'
  <2>1. CASE ~ \E w \in Callers, j \in Keys : BookSteps(w, j)
    <3>1. run'[k].cycle = c /\ run'[k].at = "done" /\ k \in held'
      BY <1>1, <1>4, <2>1, BooksStay
    <3> QED BY <1>4, <3>1 DEF Accounted
  <2>2. ASSUME NEW w \in Callers, NEW j \in Keys, BookSteps(w, j) PROVE Accounted(c)'
    <3>1. j # k BY <1>4, <2>2, OneRow
    <3>2. run'[k] = run[k] /\ k \in held' BY <1>1, <2>2, <3>1, OneRow
    <3> QED BY <1>4, <3>2 DEF Accounted
  <2> QED BY <2>1, <2>2
<1> QED BY <1>3, <1>4 DEF Accounted

\* The contract counts on only by a renewal that comes to its end, or a skip.
LEMMA CycleMoves ==
    ASSUME TypeOK, [Next]_vars
    PROVE  \/ contract'.cycle = contract.cycle
           \/ \E w \in Callers, k \in Keys : /\ AdvancePeriod(w, k)
                                             /\ contract'.cycle = run[k].cycle
                                             /\ run'[k].at = "done"
                                             /\ run'[k].cycle = run[k].cycle
           \/ SkipNext /\ contract'.cycle = skip.cycle + 1
<1>1. contract \in ContractType /\ run \in [Keys -> RunType] BY TypeParts
<1>2. ASSUME NEW w \in Callers, NEW k \in Keys, AdvancePeriod(w, k)
      PROVE  \/ contract'.cycle = contract.cycle
             \/ /\ contract'.cycle = run[k].cycle
                /\ run'[k].at = "done" /\ run'[k].cycle = run[k].cycle
  <2>1. CASE HasEnded /\ run[k].cycle < Sold BY <1>2, <2>1 DEF Barred, AdvancePeriod
  <2>2. CASE ~(HasEnded /\ run[k].cycle < Sold)
    <3>1. contract' = Advanced(k) /\ Moves(k, "done") BY <1>2, <2>2 DEF Barred, AdvancePeriod
    <3>2. contract'.cycle = run[k].cycle BY <1>1, <3>1 DEF Advanced, ContractType
    <3>3. run[k] \in RunType /\ run'[k] = [run[k] EXCEPT !.at = "done"]
      BY <1>1, <3>1 DEF Moves, Writes
    <3>4. run'[k].at = "done" /\ run'[k].cycle = run[k].cycle BY <3>3 DEF RunType
    <3> QED BY <3>2, <3>4
  <2> QED BY <2>1, <2>2
<1>3. SkipNext => contract'.cycle = skip.cycle + 1 BY <1>1 DEF SkipNext, ContractType
<1>4. \A w \in Callers, k \in Keys :
        CreateOrder(w, k) \/ UndoOrder(w, k) => contract'.cycle = contract.cycle
  BY <1>1 DEF Vacant, Cleared, CreateOrder, UndoOrder, ContractType
<1>5. Cancel \/ CancelAtPeriodEnd \/ Resume \/ Swap => contract'.cycle = contract.cycle
  BY <1>1 DEF Cancel, CancelAtPeriodEnd, Resume, Swap, ContractType
<1>6. Pause => contract'.cycle = contract.cycle BY <1>1 DEF Pause, ContractType
<1>7. CASE \E w \in Callers, k \in Keys : Step(w, k)
  <2>1. PICK w \in Callers, k \in Keys : Step(w, k) BY <1>7
  <2>2. \/ AdvancePeriod(w, k) \/ CreateOrder(w, k) \/ UndoOrder(w, k)
        \/ UNCHANGED contract
    BY <2>1 DEF Step, LoadContract, Unable, ReadOwing, ChargeStoredMethod, Refuse, UndoCharge
  <2> QED BY <1>2, <1>4, <2>2
<1>8. CASE ~ \E w \in Callers, k \in Keys : Step(w, k)
  <2>1. \/ UNCHANGED contract \/ \E w \in Callers : Decline(w)
        \/ Cancel \/ CancelAtPeriodEnd \/ Pause \/ Resume \/ Swap \/ SkipNext
    BY <1>8 DEF Next, CallStep, Ask, Take, GiveUp, Told, Die, SkipRead, Tick, vars
  <2>2. ASSUME NEW w \in Callers, Decline(w) PROVE contract'.cycle = contract.cycle
    BY <1>1, <2>2 DEF Decline, ContractType
  <2> QED BY <1>3, <1>5, <1>6, <2>1, <2>2
<1> QED BY <1>7, <1>8

\* Every cycle counted, loaded or read by a skip comes after accounted ones.
LEMMA CountsKept ==
    ASSUME TypeOK, ReadStill, Books, Counts, [Next]_vars
    PROVE  Counts'
<1>1. /\ contract \in ContractType /\ run \in [Keys -> RunType] /\ skip \in SkipType
      /\ held \subseteq Keys
  BY TypeParts
<1>2. \A c : Accounted(c) => Accounted(c)' BY AccountedStays
<1>3. \A c \in 1 .. contract.cycle : Accounted(c)' BY <1>2 DEF Counts, CyclesPaid
<1>4. \A c \in 1 .. skip.cycle : Accounted(c)' BY <1>2 DEF Counts, Passed
<1>5. \A k \in Keys : \A c \in 1 .. (run[k].cycle - 1) : Accounted(c)'
  BY <1>2 DEF Counts, Passed
<1>6. CyclesPaid'
  <2>1. CASE contract'.cycle = contract.cycle BY <1>3, <2>1 DEF CyclesPaid
  <2>2. ASSUME NEW w \in Callers, NEW k \in Keys, AdvancePeriod(w, k),
               contract'.cycle = run[k].cycle, run'[k].at = "done",
               run'[k].cycle = run[k].cycle
        PROVE  CyclesPaid'
    <3>1. k \in held' BY <2>2 DEF AdvancePeriod, Drives, Books, Charged, Paid
    <3>2. Accounted(run[k].cycle)' BY <2>2, <3>1 DEF Accounted
    <3>3. run[k].cycle \in Nat BY <1>1, Bounds DEF RunType
    <3> QED BY <1>5, <2>2, <3>2, <3>3 DEF CyclesPaid
  <2>3. CASE SkipNext /\ contract'.cycle = skip.cycle + 1
    <3> SUFFICES ASSUME NEW c \in 1 .. contract'.cycle PROVE Accounted(c)'
      BY DEF CyclesPaid
    <3>1. skip.cycle \in Nat BY <1>1, Bounds DEF SkipType
    <3>2. CASE c = skip.cycle + 1
      <4>1. c \in skipped' BY <2>3, <3>2 DEF SkipNext
      <4> QED BY <4>1 DEF Accounted
    <3>3. CASE c # skip.cycle + 1
      <4>1. c \in 1 .. skip.cycle BY <2>3, <3>1, <3>3
      <4> QED BY <1>4, <4>1
    <3> QED BY <3>2, <3>3
  <2> QED BY <2>1, <2>2, <2>3, CycleMoves
<1>7. \A k \in Keys : \A c \in 1 .. (run'[k].cycle - 1) : Accounted(c)'
  <2>1. CASE ~ \E w \in Callers, k \in Keys : BookSteps(w, k)
    <3>1. \A k \in Keys : run'[k].cycle = run[k].cycle
      BY <2>1, BooksStay
    <3> QED BY <1>5, <3>1
  <2>2. ASSUME NEW w \in Callers, NEW j \in Keys, BookSteps(w, j)
        PROVE  \A k \in Keys : \A c \in 1 .. (run'[k].cycle - 1) : Accounted(c)'
    <3>1. run'[j].cycle = run[j].cycle \/ run'[j].cycle = contract.cycle + 1
      BY <2>2, RowMoves DEF Dropped, Loads, Orders, Proceeds, Unorders
    <3>2. contract.cycle \in Nat BY <1>1, Bounds DEF ContractType
    <3>3. \A c \in 1 .. (run'[j].cycle - 1) : Accounted(c)'
      BY <1>3, <1>5, <3>1, <3>2
    <3> QED BY <1>5, <2>2, <3>3, OneRow
  <2> QED BY <2>1, <2>2
<1>8. \A c \in 1 .. skip'.cycle : Accounted(c)'
  <2>1. CASE UNCHANGED skip BY <1>4, <2>1
  <2>2. CASE SkipRead
    <3>1. skip'.cycle = contract.cycle BY <2>2 DEF SkipRead
    <3> QED BY <1>3, <3>1
  <2>3. CASE SkipNext
    <3>1. skip'.cycle = 0 BY <2>3 DEF SkipNext, NoSkip
    <3> QED BY <3>1
  <2>4. CASE \E w \in Callers, k \in Keys : Step(w, k)
    BY <2>1, <2>4 DEF Step, LoadContract, Unable, ReadOwing, CreateOrder, ChargeStoredMethod,
                      Refuse, AdvancePeriod, UndoCharge, UndoOrder, Rest
  <2>5. CASE ~ \E w \in Callers, k \in Keys : Step(w, k)
    BY <2>1, <2>2, <2>3, <2>5
    DEF Next, CallStep, Ask, Take, GiveUp, Told, Decline, Die, Cancel, CancelAtPeriodEnd,
        Pause, Resume, Swap, Tick, vars
  <2> QED BY <2>4, <2>5
<1> QED BY <1>6, <1>7, <1>8 DEF Counts, Passed

-----------------------------------------------------------------------------
(* What is owed for plan changes. *)

\* A swap read is still owed while its order is being written.
LEMMA ReadKept ==
    ASSUME TypeOK, OneDriver, ReadStill, [Next]_vars
    PROVE  ReadStill'
<1>1. /\ call \in [Callers -> CallType] /\ run \in [Keys -> RunType]
      /\ contract \in ContractType
  BY TypeParts
<1>2. ASSUME NEW w \in Callers,
             Take(w) \/ \E k \in Keys : BookSteps(w, k)
      PROVE  ReadStill'
  <2>1. \A v \in Callers : call'[v].pc # "ordering"
    <3>1. CASE Take(w) BY <1>1, <3>1 DEF Take, Locked, CallType
    <3>2. ASSUME NEW k \in Keys, BookSteps(w, k)
          PROVE  \A v \in Callers : call'[v].pc # "ordering"
      <4>1. /\ \A v \in Callers \ {w} : call'[v] = call[v]
            /\ call'[w].pc = "driving" /\ Drv(w)
        BY <1>1, <3>2
        DEF BookSteps, LoadContract, Unable, CreateOrder, ChargeStoredMethod, Refuse,
            AdvancePeriod, UndoCharge, UndoOrder, Drives, Drv, CallType
      <4> QED BY <4>1 DEF OneDriver, Drv
    <3> QED BY <1>2, <3>1, <3>2
  <2> QED BY <2>1 DEF ReadStill
<1>3. ASSUME NEW w \in Callers, NEW k \in Keys, ReadOwing(w, k) PROVE ReadStill'
  <2>1. /\ \A v \in Callers \ {w} : call'[v] = call[v]
        /\ call'[w].key = k /\ call'[w].read = contract.owing
        /\ UNCHANGED <<run, contract>> /\ Drv(w) /\ run[k].at = "order"
    BY <1>1, <1>3 DEF ReadOwing, Drives, Drv, CallType
  <2>2. \A v \in Callers \ {w} : call'[v].pc # "ordering" BY <2>1 DEF OneDriver, Drv
  <2> QED BY <2>1, <2>2 DEF ReadStill
<1>4. ASSUME NEW w \in Callers, Ask(w) \/ GiveUp(w) \/ Told(w) \/ Decline(w) \/ Die(w)
      PROVE  ReadStill'
  <2>1. /\ \A v \in Callers \ {w} : call'[v] = call[v]
        /\ UNCHANGED run /\ contract'.owing = contract.owing
    BY <1>1, <1>4 DEF Ask, GiveUp, Told, Decline, Die, ContractType
  <2>2. call'[w].pc # "ordering"
    <3>1. [call[w] EXCEPT !.pc = "refused"].pc = "refused" BY <1>1 DEF CallType
    <3>2. Free.pc = "idle" /\ \A k : [Free EXCEPT !.pc = "asked", !.key = k].pc = "asked"
      BY DEF Free
    <3> QED BY <1>1, <1>4, <3>1, <3>2 DEF Ask, GiveUp, Told, Decline, Die
  <2> QED BY <2>1, <2>2 DEF ReadStill
<1>5. ASSUME Requests \/ SkipNext \/ Tick PROVE ReadStill'
  <2>1. UNCHANGED <<run, call>>
    BY <1>5 DEF Requests, Cancel, CancelAtPeriodEnd, Pause, Resume, Swap, SkipRead, SkipNext,
                Request, Tick
  <2>2. contract.owing \subseteq contract'.owing
    BY <1>1, <1>5 DEF Requests, Cancel, CancelAtPeriodEnd, Pause, Resume, Swap, SkipRead,
                      SkipNext, Request, Tick, ContractType
  <2> QED BY <2>1, <2>2 DEF ReadStill
<1>6. CASE UNCHANGED vars BY <1>6 DEF vars, ReadStill
<1> QED BY <1>2, <1>3, <1>4, <1>5, <1>6 DEF Next, CallStep, Step, BookSteps, Requests

\* What a contract owes, step by step: it grows by a swap and by an order taken
\* back, and is cleared by an order alone.
OwingMoves ==
    \/ contract'.owing = contract.owing
    \/ /\ contract'.owing = contract.owing \cup {requests + 1}
       /\ requests' = requests + 1 /\ UNCHANGED <<run, billed>>
    \/ \E w \in Callers, k \in Keys : CreateOrder(w, k) \/ UndoOrder(w, k)

LEMMA OwingMoved == TypeOK /\ [Next]_vars => OwingMoves
<1> SUFFICES ASSUME TypeOK, [Next]_vars PROVE OwingMoves OBVIOUS
<1>1. contract \in ContractType BY TypeParts
<1>2. CASE \E w \in Callers, k \in Keys : Step(w, k)
  <2>1. PICK w \in Callers, k \in Keys : Step(w, k) BY <1>2
  <2>2. AdvancePeriod(w, k) => contract'.owing = contract.owing
    BY <1>1 DEF AdvancePeriod, Advanced, ContractType
  <2>3. \/ AdvancePeriod(w, k) \/ CreateOrder(w, k) \/ UndoOrder(w, k)
        \/ UNCHANGED contract
    BY <2>1 DEF Step, LoadContract, Unable, ReadOwing, ChargeStoredMethod, Refuse, UndoCharge
  <2> QED BY <2>2, <2>3 DEF OwingMoves
<1>3. CASE ~ \E w \in Callers, k \in Keys : Step(w, k)
  <2>1. \/ UNCHANGED contract \/ \E w \in Callers : Decline(w)
        \/ Cancel \/ CancelAtPeriodEnd \/ Pause \/ Resume \/ Swap \/ SkipNext
    BY <1>3 DEF Next, CallStep, Ask, Take, GiveUp, Told, Die, SkipRead, Tick, vars
  <2>2. ASSUME NEW w \in Callers, Decline(w) PROVE contract'.owing = contract.owing
    BY <1>1, <2>2 DEF Decline, ContractType
  <2>3. CASE Cancel \/ CancelAtPeriodEnd \/ Pause \/ Resume \/ SkipNext
    BY <1>1, <2>3 DEF Cancel, CancelAtPeriodEnd, Pause, Resume, SkipNext, ContractType,
                      OwingMoves
  <2>4. CASE Swap BY <1>1, <2>4 DEF Swap, Request, ContractType, OwingMoves
  <2> QED BY <2>1, <2>2, <2>3, <2>4 DEF OwingMoves
<1> QED BY <1>2, <1>3

\* Two orders collect for no plan change twice, nor for one still owed.
LEMMA CollectedKept ==
    ASSUME TypeOK, Books, Owing, [Next]_vars
    PROVE  CollectedOnce' /\ Fresh'
<1>1. /\ contract \in ContractType /\ run \in [Keys -> RunType] /\ requests \in Nat
      /\ billed \in [Cycles -> Keys \cup {NoKey}] /\ call \in [Callers -> CallType]
  BY TypeParts
<1>2. requests' \in Nat /\ requests' >= requests
  <2>1. CASE \E w \in Callers, k \in Keys : Step(w, k)
    <3>1. UNCHANGED requests
      BY <2>1 DEF Step, LoadContract, Unable, ReadOwing, CreateOrder, ChargeStoredMethod,
                  Refuse, AdvancePeriod, UndoCharge, UndoOrder, Rest
    <3> QED BY <1>1, <3>1
  <2>2. CASE ~ \E w \in Callers, k \in Keys : Step(w, k)
    <3>1. UNCHANGED requests \/ requests' = requests + 1
      BY <2>2 DEF Next, CallStep, Ask, Take, GiveUp, Told, Decline, Die, Cancel,
                  CancelAtPeriodEnd, Pause, Resume, Swap, SkipRead, SkipNext, Request, Tick,
                  vars
    <3> QED BY <1>1, <3>1
  <2> QED BY <2>1, <2>2
<1>3. 1 .. requests \subseteq 1 .. requests' BY <1>1, <1>2
<1>4. ASSUME NEW w \in Callers, NEW k \in Keys, CreateOrder(w, k)
      PROVE  CollectedOnce' /\ Fresh'
  <2>1. /\ run[k].at = "order" /\ run[k].cycle \in Cycles
        /\ call[w].read \subseteq contract.owing
    BY <1>4 DEF CreateOrder, Owing, ReadStill, Books, Loaded, Ordered
  <2>2. CASE billed[run[k].cycle] # NoKey
    <3>1. run' = [run EXCEPT ![k] = [run[k] EXCEPT !.at = "reverted", !.why = "other"]]
          /\ UNCHANGED <<billed, contract>>
      BY <1>4, <2>2 DEF Vacant, Cleared, CreateOrder, Fails, Writes
    <3>2. \A j \in Keys : run'[j].owing = run[j].owing BY <1>1, <3>1 DEF RunType
    <3>3. Fresh' BY <1>3, <3>1, <3>2 DEF Owing, Fresh
    <3>4. CollectedOnce' BY <1>1, <3>1, <3>2 DEF Owing, CollectedOnce
    <3> QED BY <3>3, <3>4
  <2>3. CASE billed[run[k].cycle] = NoKey
    <3>1. /\ run'[k].owing = call[w].read
          /\ \A j \in Keys \ {k} : run'[j] = run[j]
      <4>1. /\ run[k] \in RunType
            /\ run' = [run EXCEPT ![k] = [run[k] EXCEPT !.at = "charge",
                                                       !.owing = call[w].read]]
        BY <1>1, <1>4, <2>3 DEF Vacant, Cleared, CreateOrder, Writes
      <4>2. run'[k] = [run[k] EXCEPT !.at = "charge", !.owing = call[w].read]
        BY <1>1, <4>1
      <4> QED BY <1>1, <4>1, <4>2 DEF RunType
    <3>2. /\ billed'[run[k].cycle] = k
          /\ \A c \in Cycles \ {run[k].cycle} : billed'[c] = billed[c]
          /\ contract'.owing = (IF call[w].read = {} THEN contract.owing ELSE {})
      BY <1>1, <1>4, <2>1, <2>3 DEF Vacant, Cleared, CreateOrder, ContractType
    <3>3. Fresh' BY <1>3, <2>1, <3>1, <3>2 DEF Owing, Fresh
    <3>4. run'[k].owing \cap contract'.owing = {} BY <3>1, <3>2
    <3>5. ASSUME NEW c \in Cycles \ {run[k].cycle}, billed[c] # NoKey
          PROVE  /\ billed[c] \in Keys /\ run'[billed[c]] = run[billed[c]]
                 /\ run[billed[c]].owing \cap contract.owing = {}
      <4>1. billed[c] \in Keys BY <1>1, <3>5
      <4>2. billed[c] # k BY <2>1, <3>5 DEF Books, Rows, Ordered
      <4> QED BY <3>1, <3>5, <4>1, <4>2 DEF Owing, CollectedOnce
    <3>6. \A c \in Cycles \ {run[k].cycle} : billed[c] # NoKey =>
            /\ run'[billed[c]].owing \cap contract'.owing = {}
            /\ run'[billed[c]].owing \cap run'[k].owing = {}
      BY <2>1, <3>1, <3>2, <3>5
    <3>7. \A c, d \in Cycles \ {run[k].cycle} : c # d /\ billed[c] # NoKey /\ billed[d] # NoKey
            => run'[billed[c]].owing \cap run'[billed[d]].owing = {}
      BY <3>5 DEF Owing, CollectedOnce
    <3>8. CollectedOnce' BY <3>2, <3>4, <3>6, <3>7 DEF CollectedOnce
    <3> QED BY <3>3, <3>8
  <2> QED BY <2>2, <2>3
<1>5. ASSUME NEW w \in Callers, NEW k \in Keys, UndoOrder(w, k)
      PROVE  CollectedOnce' /\ Fresh'
  <2>1. /\ run[k].at = "unorder" /\ run[k].cycle \in Cycles
        /\ billed[run[k].cycle] = k
    BY <1>5 DEF UndoOrder, Drives, Books, Loaded, HasOrder, Ordered
  <2>2. /\ \A j \in Keys : run'[j].owing = run[j].owing
        /\ contract'.owing = contract.owing \cup run[k].owing
    BY <1>1, <1>5 DEF UndoOrder, Moves, Writes, RunType, ContractType
  <2>3. /\ billed'[run[k].cycle] = NoKey
        /\ \A c \in Cycles \ {run[k].cycle} : billed'[c] = billed[c]
    BY <1>1, <1>5, <2>1 DEF UndoOrder
  <2>4. Fresh' BY <1>3, <2>2 DEF Owing, Fresh
  <2>5. ASSUME NEW c \in Cycles \ {run[k].cycle}, billed[c] # NoKey
        PROVE  /\ billed[c] \in Keys
               /\ run[billed[c]].owing \cap (contract.owing \cup run[k].owing) = {}
    <3>1. billed[c] \in Keys BY <1>1, <2>5
    <3>2. run[billed[c]].owing \cap contract.owing = {}
      BY <2>5 DEF Owing, CollectedOnce
    <3>3. run[billed[c]].owing \cap run[k].owing = {}
      BY <2>1, <2>5, Bounds DEF Owing, CollectedOnce
    <3> QED BY <3>1, <3>2, <3>3
  <2>6. \A c, d \in Cycles \ {run[k].cycle} : c # d /\ billed[c] # NoKey /\ billed[d] # NoKey
          => run[billed[c]].owing \cap run[billed[d]].owing = {}
    BY DEF Owing, CollectedOnce
  <2>7. CollectedOnce' BY <2>2, <2>3, <2>5, <2>6 DEF CollectedOnce
  <2> QED BY <2>4, <2>7
<1>6. CASE ~ \E w \in Callers, k \in Keys : CreateOrder(w, k) \/ UndoOrder(w, k)
  <2>1. UNCHANGED billed /\ \A k \in Keys : run'[k].owing = run[k].owing
    <3>1. CASE ~ \E w \in Callers, k \in Keys : BookSteps(w, k) BY <3>1, BooksStay
    <3>2. ASSUME NEW w \in Callers, NEW k \in Keys, BookSteps(w, k)
          PROVE  UNCHANGED billed /\ \A j \in Keys : run'[j].owing = run[j].owing
      <4>1. \A j \in Keys \ {k} : run'[j] = run[j] BY <3>2, OneRow DEF Owing
      <4>2. UNCHANGED billed
        BY <1>6, <3>2 DEF BookSteps, LoadContract, Unable, ChargeStoredMethod, Refuse,
                          AdvancePeriod, UndoCharge
      <4>3. run'[k].owing = run[k].owing
        <5>1. Dropped(k) \/ Loads(k) \/ Orders(k) \/ Proceeds(k) \/ Unorders(k)
          BY <3>2, RowMoves DEF Owing
        <5>2. ~Orders(k)
          <6>1. run[k].cycle \in Cycles \/ ~Orders(k)
            BY DEF Orders, Books, Loaded
          <6> QED BY <1>1, <4>2, <6>1, Bounds DEF Orders
        <5> QED BY <5>1, <5>2 DEF Dropped, Loads, Proceeds, Unorders
      <4> QED BY <4>1, <4>2, <4>3
    <3> QED BY <3>1, <3>2
  <2>2. \A c \in Cycles : billed[c] # NoKey => billed[c] \in Keys BY <1>1
  <2>3. CASE contract'.owing = contract.owing
    <3>1. Fresh' BY <1>3, <2>1, <2>3 DEF Owing, Fresh
    <3>2. CollectedOnce' BY <2>1, <2>2, <2>3 DEF Owing, CollectedOnce
    <3> QED BY <3>1, <3>2
  <2>4. CASE contract'.owing = contract.owing \cup {requests + 1} /\ requests' = requests + 1
    <3>1. Fresh' BY <1>1, <2>1, <2>4 DEF Owing, Fresh
    <3>2. \A k \in Keys : requests + 1 \notin run[k].owing BY <1>1 DEF Owing, Fresh
    <3>3. \A c \in Cycles : billed[c] # NoKey =>
            /\ run'[billed[c]].owing \cap contract'.owing = {}
            /\ \A d \in Cycles \ {c} : billed[d] # NoKey =>
                 run'[billed[c]].owing \cap run'[billed[d]].owing = {}
      BY <2>1, <2>2, <2>4, <3>2 DEF Owing, CollectedOnce
    <3> QED BY <2>1, <3>1, <3>3 DEF CollectedOnce
  <2> QED BY <1>6, <2>3, <2>4, OwingMoved DEF OwingMoves
<1> QED BY <1>4, <1>5, <1>6

-----------------------------------------------------------------------------
(* The invariant. *)

LEMMA InitHolds == Init => IndInv
<1> SUFFICES ASSUME Init PROVE IndInv OBVIOUS
<1>1. /\ contract \in ContractType /\ contract.attempts = 0 /\ contract.cycle = 0
      /\ contract.owing = {}
  BY Bounds DEF Init, ContractType
<1>2. TypeOK
  <2>1. run \in [Keys -> RunType] BY Blanks DEF Init
  <2>2. call \in [Callers -> CallType] BY Blanks DEF Init
  <2>3. skip \in SkipType BY Blanks DEF Init
  <2> QED BY <1>1, <2>1, <2>2, <2>3, TypeParts DEF Init
<1>3. /\ \A k \in Keys : run[k].at = "none" /\ run[k].cycle = 0 /\ run[k].owing = {}
      /\ \A w \in Callers : call[w].pc = "idle"
      /\ \A c \in Cycles : billed[c] = NoKey
      /\ skip.cycle = 0 /\ ~skip.reading
  BY DEF Init, NoRun, Free, NoSkip
<1>4. Within BY <1>1, <1>3, Bounds DEF Within
<1>5. OneDriver BY <1>3 DEF OneDriver, Drv
<1>6. Books BY <1>3 DEF Init, Books, Loaded, HasOrder, Rows, Charged, Ordered, Paid
<1>7. Owing BY <1>1, <1>3 DEF Owing, ReadStill, Fresh, CollectedOnce
<1>8. Counts BY <1>1, <1>3 DEF Counts, CyclesPaid, Passed
<1> QED BY <1>2, <1>4, <1>5, <1>6, <1>7, <1>8 DEF IndInv

LEMMA NextKeeps == IndInv /\ [Next]_vars => IndInv'
<1> SUFFICES ASSUME IndInv, [Next]_vars PROVE IndInv' OBVIOUS
<1>1. TypeOK' /\ Within' BY TypesKept DEF IndInv, Books
<1>2. OneDriver' BY OneDriverKept DEF IndInv
<1>3. Books' BY BooksKept DEF IndInv, Owing
<1>4. Owing'
  <2>1. ReadStill' BY ReadKept DEF IndInv, Owing
  <2>2. CollectedOnce' /\ Fresh' BY CollectedKept DEF IndInv
  <2> QED BY <2>1, <2>2 DEF Owing
<1>5. Counts' BY CountsKept DEF IndInv, Owing
<1> QED BY <1>1, <1>2, <1>3, <1>4, <1>5 DEF IndInv

\* The inductive invariant holds of every behaviour (renew; the steps of the
\* renewal; cancel, pause, resume, swap, skip_next).
THEOREM RenewalInvariance == Spec => []IndInv
BY InitHolds, NextKeeps, PTL DEF Spec

\* Contract, runs, rows and callers keep their types (subscription, workflow_run,
\* subscription_order).
THEOREM RenewalTypeCorrect == Spec => []TypeOK
<1>1. IndInv => TypeOK BY DEF IndInv
<1> QED BY <1>1, RenewalInvariance, PTL

\* No cycle is charged for twice, whatever keys and callers led to the charges
\* (subscription_order_cycle_key; CreateOrder, ChargeStoredMethod).
THEOREM ChargedOnceAlways == Spec => []ChargedOnce
<1>1. IndInv => ChargedOnce
  <2> SUFFICES ASSUME IndInv, NEW j \in held, NEW k \in held, run[j].cycle = run[k].cycle
               PROVE  j = k
    BY DEF ChargedOnce
  <2>1. j \in Keys /\ k \in Keys BY TypeParts DEF IndInv
  <2>2. run[j].at \in Ordered /\ run[k].at \in Ordered
    BY <2>1 DEF IndInv, Books, Charged, Paid, Ordered
  <2> QED BY <2>1, <2>2 DEF IndInv, Books, HasOrder
<1> QED BY <1>1, RenewalInvariance, PTL

\* Every cycle a contract has counted was paid for or skipped (AdvancePeriod;
\* skip_next).
THEOREM CyclesAlwaysPaid == Spec => []CyclesPaid
<1>1. IndInv => CyclesPaid BY DEF IndInv, Counts
<1> QED BY <1>1, RenewalInvariance, PTL

\* What a plan change costs is collected once (CreateOrder and its compensation;
\* swap).
THEOREM CollectedOnceAlways == Spec => []CollectedOnce
<1>1. IndInv => CollectedOnce BY DEF IndInv, Owing
<1> QED BY <1>1, RenewalInvariance, PTL

\* A contract that has ended stays so, in spite of a renewal under way
\* (AdvancePeriod and subscription_ended_valid).
THEOREM EndedStaysEnded == Spec => EndedStays
<1>1. TypeOK /\ [Next]_vars => (HasEnded => HasEnded')
  <2> SUFFICES ASSUME TypeOK, [Next]_vars, HasEnded PROVE HasEnded' OBVIOUS
  <2>1. contract \in ContractType BY TypeParts
  <2>2. CASE \E w \in Callers, k \in Keys : Step(w, k)
    <3>1. PICK w \in Callers, k \in Keys : Step(w, k) BY <2>2
    <3>2. CASE AdvancePeriod(w, k)
      <4>1. CASE run[k].cycle < Sold BY <3>2, <4>1 DEF Barred, AdvancePeriod, HasEnded
      <4>2. CASE ~(run[k].cycle < Sold)
        <5>1. contract' = Advanced(k) BY <3>2, <4>2 DEF Barred, AdvancePeriod
        <5>2. run \in [Keys -> RunType] BY TypeParts
        <5>3. run[k].cycle \in Nat BY <5>2, Bounds DEF RunType
        <5>4. run[k].cycle >= Sold BY <4>2, <5>3, Bounds
        <5>5. contract'.status = "expired" BY <2>1, <5>1, <5>4 DEF Advanced, ContractType
        <5> QED BY <5>5 DEF HasEnded
      <4> QED BY <4>1, <4>2
    <3>3. CASE CreateOrder(w, k) \/ UndoOrder(w, k)
      BY <2>1, <3>3 DEF Vacant, Cleared, CreateOrder, UndoOrder, ContractType, HasEnded
    <3>4. UNCHANGED contract \/ AdvancePeriod(w, k) \/ CreateOrder(w, k) \/ UndoOrder(w, k)
      BY <3>1 DEF Step, LoadContract, Unable, ReadOwing, ChargeStoredMethod, Refuse, UndoCharge
    <3> QED BY <3>2, <3>3, <3>4 DEF HasEnded
  <2>3. CASE ~ \E w \in Callers, k \in Keys : Step(w, k)
    <3>1. ~IsLive /\ contract.status # "paused" BY DEF HasEnded, IsLive
    <3>2. UNCHANGED contract \/ SkipNext
      BY <2>3, <3>1 DEF Next, CallStep, Ask, Take, GiveUp, Told, Decline, Die, Cancel,
                        CancelAtPeriodEnd, Pause, Resume, Swap, SkipRead, Tick, vars
    <3>3. SkipNext => contract'.status = contract.status BY <2>1 DEF SkipNext, ContractType
    <3> QED BY <3>2, <3>3 DEF HasEnded
  <2> QED BY <2>2, <2>3
<1>2. IndInv => TypeOK BY DEF IndInv
<1> QED BY <1>1, <1>2, RenewalInvariance, PTL DEF Spec, EndedStays
=============================================================================

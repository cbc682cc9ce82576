------------------------------ MODULE Renewal ------------------------------
(***************************************************************************)
(* One subscription contract and the renewals that bill it                 *)
(* (src/subscription.rs): the cron, the dunning job and staff call renew,  *)
(* each call asks the engine for the run of a key, and the shopper         *)
(* cancels, pauses, resumes and skips while a run is under way.            *)
(*                                                                         *)
(* The engine is taken for what Saga says of it, with its lock on the      *)
(* contract: one caller at a time drives a run, a run left by a caller     *)
(* that died goes on where it stopped, and one that settled never changes. *)
(***************************************************************************)
EXTENDS Integers

CONSTANTS
    Callers,      \* cron, job workers, staff: whoever calls renew
    Sold,         \* selling_plan.max_cycles
    MinCycles,    \* selling_plan.min_cycles, 0 for null
    MaxAttempts,  \* selling_plan.dunning_max_attempts
    MaxClock, MaxDeaths, MaxRequests \* bounds

ASSUME PlanAssumption ==
    /\ Sold \in Nat \ {0} /\ MinCycles \in Nat /\ MaxAttempts \in Nat \ {0}
    /\ MaxClock \in Nat /\ MaxDeaths \in Nat /\ MaxRequests \in Nat

VARIABLES
    clock,    \* in billing periods: period n lasts from n - 1 to n
    contract, \* subscription
    run,      \* workflow_run and what it carries, by transaction key
    billed,   \* subscription_order: the key of the run that wrote the row
    held,     \* keys of the runs whose charge is held
    call,     \* how far each caller of renew is
    skip,     \* what a skip_next under way has read
    skipped,  \* history: the cycles that were skipped
    deaths, requests

vars == <<clock, contract, run, billed, held, call, skip, skipped, deaths, requests>>

Cycles  == 1 .. Sold + 1

\* "subscription:{id}:{cycle}" or, after a refusal, ":{attempts}" as well.
Keys    == Cycles \X (0 .. MaxAttempts)
NoKey   == <<0, 0>>

NoSkip  == [reading |-> FALSE, cycle |-> 0, end |-> 0]
NoRun   == [at |-> "none", cycle |-> 0, start |-> 0, owing |-> {}, why |-> "none"]
Free    == [pc |-> "idle", key |-> NoKey, read |-> {}]
Underway == {"load", "order", "charge", "advance", "uncharge", "unorder"}
Settled == {"done", "reverted"}

\* The plan changes a renewal has to collect for: pending_adjustment.
Swaps   == 1 .. MaxRequests

Locked    == \E w \in Callers : call[w].pc \in {"driving", "ordering"}
IsLive    == contract.status \in {"active", "past_due"}
HasEnded  == contract.status \in {"cancelled", "expired"}

Init ==
    /\ clock = 0
    /\ contract = [status |-> "active", cycle |-> 0, attempts |-> 0, end |-> 1, next |-> 1,
                   stopping |-> FALSE, until |-> 0, owing |-> {}]
    /\ run = [k \in Keys |-> NoRun]
    /\ billed = [c \in Cycles |-> NoKey]
    /\ held = {}
    /\ call = [w \in Callers |-> Free]
    /\ skip = NoSkip
    /\ skipped = {}
    /\ deaths = 0 /\ requests = 0

Writes(k, row)   == run' = [run EXCEPT ![k] = row]
Moves(k, to)     == Writes(k, [run[k] EXCEPT !.at = to])
Fails(k, why, to) == Writes(k, [run[k] EXCEPT !.at = to, !.why = why])

-----------------------------------------------------------------------------
(* renew: what a caller reads, the run it is given, what it does after.    *)

\* A contract that is not due is left alone, and the call changes nothing.
Ask(w) ==
    /\ call[w].pc = "idle"
    /\ contract.next <= clock
    /\ call' = [call EXCEPT ![w] = [Free EXCEPT !.pc = "asked",
                                    !.key = <<contract.cycle + 1, contract.attempts>>]]
    /\ UNCHANGED <<clock, contract, run, billed, held, skip, skipped, deaths, requests>>

\* workflow::run: the lock on the contract, then the run of this key, new or old.
Take(w) ==
    LET k == call[w].key IN
    /\ call[w].pc = "asked" /\ ~Locked
    /\ call' = [call EXCEPT ![w].pc = "driving"]
    /\ IF run[k].at = "none" THEN Moves(k, "load") ELSE UNCHANGED run
    /\ UNCHANGED <<clock, contract, billed, held, skip, skipped, deaths, requests>>

\* The lock was not to be had in time: the caller is told to try again.
GiveUp(w) ==
    /\ call[w].pc = "asked" /\ Locked
    /\ call' = [call EXCEPT ![w] = Free]
    /\ UNCHANGED <<clock, contract, run, billed, held, skip, skipped, deaths, requests>>

\* A run that has settled is handed back, to whoever asks and as often.
Told(w) ==
    LET k == call[w].key IN
    /\ call[w].pc = "driving" /\ run[k].at \in Settled
    /\ call' = [call EXCEPT ![w] = IF run[k].why = "charge" THEN [@ EXCEPT !.pc = "refused"]
                                   ELSE Free]
    /\ UNCHANGED <<clock, contract, run, billed, held, skip, skipped, deaths, requests>>

\* Looks at nothing but the status: neither the cycle nor the attempt.
Decline(w) ==
    /\ call[w].pc = "refused"
    /\ call' = [call EXCEPT ![w] = Free]
    /\ contract' = IF ~IsLive THEN contract
                   ELSE [contract EXCEPT
                           !.attempts = @ + 1,
                           !.status = IF contract.attempts + 1 >= MaxAttempts THEN "cancelled"
                                      ELSE "past_due"]
    /\ UNCHANGED <<clock, run, billed, held, skip, skipped, deaths, requests>>

\* The process dies: its connection and with it the lock are gone.
Die(w) ==
    /\ deaths < MaxDeaths /\ call[w].pc # "idle"
    /\ deaths' = deaths + 1
    /\ call' = [call EXCEPT ![w] = Free]
    /\ UNCHANGED <<clock, contract, run, billed, held, skip, skipped, requests>>

-----------------------------------------------------------------------------
(* The steps of a run, driven by the caller that holds the lock.           *)

Drives(w, k, at) == call[w].pc = "driving" /\ call[w].key = k /\ run[k].at = at

Rest == UNCHANGED <<clock, skip, skipped, deaths, requests>>

\* A plan may have a last cycle.
CycleLeftAlways == TRUE
CycleLeft == contract.cycle + 1 <= Sold

\* The cycle is the contract's of now, whatever cycle the key was made of.
MayRenew ==
    /\ IsLive /\ contract.until <= clock /\ ~contract.stopping
    /\ CycleLeft
    /\ billed[contract.cycle + 1] = NoKey

LoadContract(w, k) ==
    /\ Drives(w, k, "load")
    /\ IF MayRenew
       THEN Writes(k, [run[k] EXCEPT !.at = "order", !.cycle = contract.cycle + 1,
                                      !.start = contract.end])
       ELSE Fails(k, "other", "reverted")
    /\ UNCHANGED <<call, contract, billed, held>> /\ Rest

\* No price, no stock, no tax: the three steps before the order.  Whatever is not
\* the card refusing is no refusal to renew.
Unable(w, k) ==
    /\ Drives(w, k, "order")
    /\ Fails(k, "other", "reverted")
    /\ UNCHANGED <<call, contract, billed, held>> /\ Rest

\* CreateOrder is one transaction that reads the contract first and clears what
\* it read last, while a swap may commit; dying in between undoes it.
ReadOwing(w, k) ==
    /\ Drives(w, k, "order")
    /\ call' = [call EXCEPT ![w].pc = "ordering", ![w].read = contract.owing]
    /\ UNCHANGED <<contract, run, billed, held>> /\ Rest

\* subscription_order_cycle_key lets one order into a cycle.
VacantAlways(c) == TRUE
Vacant(c) == billed[c] = NoKey

\* The adjustment is cleared if one was read, and whatever it says by then.
ClearedNever(owing) == contract
Cleared(owing) == IF owing = {} THEN contract ELSE [contract EXCEPT !.owing = {}]

CreateOrder(w, k) ==
    LET c == run[k].cycle
        owing == call[w].read IN
    /\ call[w].pc = "ordering" /\ call[w].key = k
    /\ call' = [call EXCEPT ![w].pc = "driving", ![w].read = {}]
    /\ IF Vacant(c)
       THEN /\ Writes(k, [run[k] EXCEPT !.at = "charge", !.owing = owing])
            /\ billed' = [billed EXCEPT ![c] = k]
            /\ contract' = Cleared(owing)
       ELSE Fails(k, "other", "reverted") /\ UNCHANGED <<contract, billed>>
    /\ UNCHANGED held /\ Rest

ChargeStoredMethod(w, k) ==
    /\ Drives(w, k, "charge")
    /\ Moves(k, "advance")
    /\ held' = held \cup {k}
    /\ UNCHANGED <<call, contract, billed>> /\ Rest

\* Also a provider that never answers, once the attempts are used up.
Refuse(w, k) ==
    /\ Drives(w, k, "charge")
    /\ Fails(k, "charge", "unorder")
    /\ UNCHANGED <<call, contract, billed, held>> /\ Rest

\* The row is written whatever it says.
AdvancedOnce(k) ==
    [contract EXCEPT !.end = run[k].start + 1, !.next = run[k].start + 1,
                     !.cycle = @ + 1, !.attempts = 0,
                     !.status = IF run[k].cycle >= Sold THEN "expired" ELSE "active"]

Advanced(k) ==
    [contract EXCEPT !.end = run[k].start + 1, !.next = run[k].start + 1,
                     !.cycle = run[k].cycle, !.attempts = 0,
                     !.status = IF run[k].cycle >= Sold THEN "expired" ELSE "active"]

\* But ended_at stays on a contract that was cancelled, and
\* subscription_ended_valid wants such a one ended.
BarredNever(k) == FALSE
Barred(k) == HasEnded /\ run[k].cycle < Sold

AdvancePeriod(w, k) ==
    /\ Drives(w, k, "advance")
    /\ IF Barred(k)
       THEN Fails(k, "other", "uncharge") /\ UNCHANGED contract
       ELSE Moves(k, "done") /\ contract' = Advanced(k)
    /\ UNCHANGED <<call, billed, held>> /\ Rest

UndoCharge(w, k) ==
    /\ Drives(w, k, "uncharge")
    /\ Moves(k, "unorder")
    /\ held' = held \ {k}
    /\ UNCHANGED <<call, contract, billed>> /\ Rest

UndoOrder(w, k) ==
    /\ Drives(w, k, "unorder")
    /\ Moves(k, "reverted")
    /\ billed' = [billed EXCEPT ![run[k].cycle] = NoKey]
    /\ contract' = [contract EXCEPT !.owing = @ \cup run[k].owing]
    /\ UNCHANGED <<call, held>> /\ Rest

Step(w, k) ==
    \/ LoadContract(w, k) \/ Unable(w, k) \/ ReadOwing(w, k) \/ CreateOrder(w, k)
    \/ ChargeStoredMethod(w, k) \/ Refuse(w, k) \/ AdvancePeriod(w, k)
    \/ UndoCharge(w, k) \/ UndoOrder(w, k)

-----------------------------------------------------------------------------
(* What the shopper and staff ask of the contract meanwhile.               *)

Request ==
    /\ requests < MaxRequests
    /\ requests' = requests + 1
    /\ UNCHANGED <<clock, run, billed, held, call, deaths>>

Cancel ==
    /\ Request /\ IsLive /\ contract.cycle >= MinCycles
    /\ contract' = [contract EXCEPT !.status = "cancelled", !.stopping = TRUE]
    /\ UNCHANGED <<skip, skipped>>

CancelAtPeriodEnd ==
    /\ Request /\ IsLive
    /\ contract' = [contract EXCEPT !.stopping = TRUE]
    /\ UNCHANGED <<skip, skipped>>

\* Until told to go on, or until a moment that only LoadContract looks at.
Pause ==
    /\ Request /\ IsLive
    /\ \E until \in {0, clock + 1} :
         contract' = [contract EXCEPT !.status = "paused", !.until = until]
    /\ UNCHANGED <<skip, skipped>>

Resume ==
    /\ Request /\ contract.status = "paused"
    /\ contract' = [contract EXCEPT !.status = "active", !.until = 0,
                                    !.next = IF @ < clock THEN clock ELSE @]
    /\ UNCHANGED <<skip, skipped>>

\* A dearer plan: what it costs more for the rest of the period is owed with the
\* next renewal.  A cheaper one is granted as store credit at once.
Swap ==
    /\ Request /\ IsLive
    /\ contract' = [contract EXCEPT !.owing = @ \cup {requests + 1}]
    /\ UNCHANGED <<skip, skipped>>

\* skip_next reads the contract, and writes what follows from what it read.
SkipRead ==
    /\ Request /\ IsLive /\ ~skip.reading
    /\ CycleLeft
    /\ skip' = [reading |-> TRUE, cycle |-> contract.cycle, end |-> contract.end]
    /\ UNCHANGED <<contract, skipped>>

SkipNext ==
    /\ skip.reading
    /\ contract' = [contract EXCEPT !.cycle = skip.cycle + 1, !.end = skip.end + 1,
                                    !.next = skip.end + 1, !.attempts = 0]
    /\ skipped' = skipped \cup {skip.cycle + 1}
    /\ skip' = NoSkip
    /\ UNCHANGED <<clock, run, billed, held, call, deaths, requests>>

Tick ==
    /\ clock < MaxClock
    /\ clock' = clock + 1
    /\ UNCHANGED <<contract, run, billed, held, call, skip, skipped, deaths, requests>>

CallStep(w) ==
    \/ Ask(w) \/ Take(w) \/ GiveUp(w) \/ Told(w) \/ Decline(w)
    \/ \E k \in Keys : Step(w, k)

Next ==
    \/ \E w \in Callers : CallStep(w) \/ Die(w)
    \/ Cancel \/ CancelAtPeriodEnd \/ Pause \/ Resume \/ Swap \/ SkipRead \/ SkipNext
    \/ Tick

Spec == Init /\ [][Next]_vars

\* A call that is under way goes on; polls and clocks do not stop.
FairSpec == Spec /\ WF_vars(Tick) /\ \A w \in Callers : WF_vars(CallStep(w))

-----------------------------------------------------------------------------
TypeOK ==
    /\ clock \in Nat
    /\ contract \in [status : {"active", "past_due", "paused", "cancelled", "expired"},
                     cycle : 0 .. Sold, attempts : 0 .. MaxAttempts, end : Nat, next : Nat,
                     stopping : BOOLEAN, until : Nat, owing : SUBSET Swaps]
    /\ run \in [Keys -> [at : {"none"} \cup Underway \cup Settled, cycle : 0 .. Sold,
                         start : Nat, owing : SUBSET Swaps, why : {"none", "charge", "other"}]]
    /\ billed \in [Cycles -> Keys \cup {NoKey}]
    /\ held \subseteq Keys
    /\ call \in [Callers -> [pc : {"idle", "asked", "driving", "ordering", "refused"},
                             key : Keys \cup {NoKey}, read : SUBSET Swaps]]
    /\ skip \in [reading : BOOLEAN, cycle : 0 .. Sold, end : Nat]
    /\ skipped \subseteq Cycles
    /\ deaths \in Nat /\ requests \in Nat

\* One charge at most is held for a cycle, whatever keys, callers, crashes and
\* late answers led to it (subscription_order_cycle_key; renew).
ChargedOnce ==
    \A j, k \in held : run[j].cycle = run[k].cycle => j = k

\* Every cycle the contract counts was paid for, by a charge still held, or
\* skipped (AdvancePeriod comes last; skip_next).
Accounted(c) == c \in skipped \/ \E k \in held : run[k].cycle = c /\ run[k].at = "done"
CyclesPaid == \A c \in 1 .. contract.cycle : Accounted(c)

\* What a plan change costs is on one order at most, or still owed: an order that
\* is taken back gives it back (CreateOrder and its compensation; swap).
CollectedOnce ==
    \A c \in Cycles : billed[c] # NoKey =>
        LET owing == run[billed[c]].owing IN
        /\ owing \cap contract.owing = {}
        /\ \A d \in Cycles \ {c} : billed[d] # NoKey => owing \cap run[billed[d]].owing = {}

\* A contract that has ended stays so, though a renewal that was loaded before
\* goes on and writes the status at its end (AdvancePeriod; cancel, decline).
EndedStays == [][HasEnded => HasEnded']_vars

\* A contract that is due and may renew is billed or ends: "the next poll retries
\* the same cycle" (the doc of Renewals::workflow).
Renews ==
    \A c \in 0 .. Sold :
        contract.cycle = c /\ contract.next <= clock /\ MayRenew
            ~> contract.cycle # c \/ HasEnded
=============================================================================

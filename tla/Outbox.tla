------------------------------- MODULE Outbox -------------------------------
(***************************************************************************)
(* The two tables the server writes for later and the loops that empty     *)
(* them: server_event, posted to one destination (deliver.rs), and         *)
(* server_job, dispatched in the process (host.rs).  A row is claimed by   *)
(* moving its next attempt out, worked on outside any transaction, and     *)
(* its outcome written after.  Nothing says whose claim it was, so a claim *)
(* that lapses early is taken by another loop and both write an outcome.   *)
(*                                                                         *)
(* The tables share the form of a row and nothing else, so a behaviour is  *)
(* of one of them.                                                         *)
(***************************************************************************)
EXTENDS Integers, FiniteSets

CONSTANTS
    Rows,         \* by created_at
    Loops,        \* one in every process of the server
    Batch,        \* BATCH
    MaxAttempts,  \* MAX_ATTEMPTS
    MaxDeaths     \* bound: processes that die, outcomes that cannot be written

ASSUME OutboxAssumption ==
    /\ Rows \subseteq Nat /\ Batch \in Nat \ {0}
    /\ MaxAttempts \in Nat /\ MaxAttempts >= 3
    /\ MaxDeaths \in Nat /\ IsFiniteSet(Loops)

VARIABLES
    table,    \* the one this behaviour is of
    row,      \* its rows
    due,      \* next_attempt_at, run_after: null or past
    hand,     \* the claimed rows a loop has still to work on
    read,     \* the attempts it read of each when it claimed it
    told,     \* what came of the one it is at
    late,     \* whose claim of which row has lapsed
    tries,    \* history: the times a row was tried and failed, up to MaxAttempts
    deaths

vars == <<table, row, due, hand, read, told, late, tries, deaths>>

Absent == [there |-> FALSE, attempts |-> 0, done |-> FALSE, dead |-> FALSE]

Ended(r) == row[r].done \/ row[r].dead
Open(r)  == row[r].there /\ ~Ended(r)
Due      == {r \in Rows : Open(r) /\ r \in due}
Holders(r) == {w \in Loops : r \in hand[w]}

Init ==
    /\ table \in {"event", "job"}
    /\ row = [r \in Rows |-> Absent]
    /\ due = {}
    /\ hand = [w \in Loops |-> {}]
    /\ read = [w \in Loops |-> [r \in Rows |-> 0]]
    /\ told = [w \in Loops |-> "nothing"]
    /\ late = {}
    /\ tries = [r \in Rows |-> 0]
    /\ deaths = 0

-----------------------------------------------------------------------------
\* A job may be asked for later, by run_after.
Emit(r) ==
    /\ ~row[r].there
    /\ row' = [row EXCEPT ![r].there = TRUE]
    /\ due' \in IF table = "event" THEN {due \cup {r}} ELSE {due, due \cup {r}}
    /\ UNCHANGED <<table, hand, read, told, late, tries, deaths>>

\* backoff has passed.  The claim of an event that was never tried lasts a minute
\* and a batch may take BATCH answers of ten seconds: it can lapse under the loop
\* that took it, later ones cannot.  A job takes as long as it takes.
MayLapse(r) ==
    table = "event" =>
        \A w \in Holders(r) : <<w, r>> \notin late /\ read[w][r] = 0

Lapse(r) ==
    /\ Open(r) /\ r \notin due /\ MayLapse(r)
    /\ due' = due \cup {r}
    /\ late' = late \cup (Holders(r) \X {r})
    /\ UNCHANGED <<table, row, hand, read, told, tries, deaths>>

\* "order by created_at limit 10 for update skip locked"
Taken == {r \in Due : Cardinality({q \in Due : q < r}) < Batch}

Claim(w) ==
    /\ hand[w] = {} /\ Due # {}
    /\ hand' = [hand EXCEPT ![w] = Taken]
    /\ read' = [read EXCEPT ![w] =
                  [r \in Rows |-> IF r \in Taken THEN row[r].attempts ELSE 0]]
    /\ due' = due \ Taken
    /\ UNCHANGED <<table, row, told, late, tries, deaths>>

AtHand(w, r) == r \in hand[w] /\ \A q \in hand[w] : r <= q

\* send, dispatcher.run.  The answer of what was received may be lost.
Try(w, r) ==
    /\ AtHand(w, r) /\ told[w] = "nothing"
    /\ \/ told' = [told EXCEPT ![w] = "ok"] /\ UNCHANGED tries
       \/ /\ told' = [told EXCEPT ![w] = "failed"]
          /\ tries' = [tries EXCEPT ![r] = IF @ < MaxAttempts THEN @ + 1 ELSE @]
    /\ UNCHANGED <<table, row, due, hand, read, late, deaths>>

\* One try fewer than there may be, and one more.
SpentSoon(w, r) == read[w][r] + 2 >= MaxAttempts
SpentLate(w, r) == read[w][r] + 1 > MaxAttempts

Spent(w, r) == read[w][r] + 1 >= MaxAttempts

\* A job that counts none of its tries.
FailedUncounted(w, r) ==
    IF table = "event"
    THEN [row[r] EXCEPT !.attempts = @ + 1, !.dead = @ \/ Spent(w, r)]
    ELSE [row[r] EXCEPT !.attempts = read[w][r], !.dead = Spent(w, r)]

\* An event counts in the row, a job from what was read; a job's failure writes
\* dead_at either way.
Failed(w, r) ==
    IF table = "event"
    THEN [row[r] EXCEPT !.attempts = @ + 1, !.dead = @ \/ Spent(w, r)]
    ELSE [row[r] EXCEPT !.attempts = read[w][r] + 1, !.dead = Spent(w, r)]

Record(w, r) ==
    /\ AtHand(w, r) /\ told[w] # "nothing"
    /\ row' = [row EXCEPT ![r] = IF told[w] = "ok" THEN [@ EXCEPT !.done = TRUE]
                                 ELSE Failed(w, r)]
    /\ told' = [told EXCEPT ![w] = "nothing"]
    /\ hand' = [hand EXCEPT ![w] = @ \ {r}]
    /\ read' = [read EXCEPT ![w][r] = 0]
    /\ late' = late \ {<<w, r>>}
    /\ UNCHANGED <<table, due, tries, deaths>>

\* The process dies, or an outcome cannot be written: the rest of the batch is
\* dropped where it stands.
Die(w) ==
    /\ deaths < MaxDeaths /\ hand[w] # {}
    /\ deaths' = deaths + 1
    /\ hand' = [hand EXCEPT ![w] = {}]
    /\ told' = [told EXCEPT ![w] = "nothing"]
    /\ read' = [read EXCEPT ![w] = [r \in Rows |-> 0]]
    /\ late' = late \ ({w} \X Rows)
    /\ UNCHANGED <<table, row, due, tries>>

Drain(w) == Claim(w) \/ \E r \in Rows : Try(w, r) \/ Record(w, r)

Next ==
    \/ \E r \in Rows : Emit(r) \/ Lapse(r)
    \/ \E w \in Loops : Drain(w) \/ Die(w)

Spec == Init /\ [][Next]_vars

\* The loops tick every five seconds, a try ends, and time passes.
FairSpec ==
    /\ Spec
    /\ \A w \in Loops : WF_vars(Drain(w))
    /\ \A r \in Rows : WF_vars(Lapse(r))

-----------------------------------------------------------------------------
TypeOK ==
    /\ table \in {"event", "job"}
    /\ row \in [Rows -> [there : BOOLEAN, attempts : Nat, done : BOOLEAN, dead : BOOLEAN]]
    /\ due \subseteq Rows
    /\ hand \in [Loops -> SUBSET Rows]
    /\ read \in [Loops -> [Rows -> Nat]]
    /\ told \in [Loops -> {"nothing", "ok", "failed"}]
    /\ late \subseteq Loops \X Rows
    /\ tries \in [Rows -> 0 .. MaxAttempts]
    /\ deaths \in Nat
    /\ table = "job" => \A r \in Rows : row[r].attempts <= MaxAttempts

\* Nothing is given up that was not tried as often as it may be and failed every
\* time counted, and no event that its receiver took and said so: two loops that
\* hold one row, or a crash between, use up none of its attempts
\* (drain_once; "How many times a refused event is tried").
GivenUp ==
    \A r \in Rows : row[r].dead =>
        /\ tries[r] >= MaxAttempts
        /\ table = "event" => ~row[r].done

\* Whatever is written is done or given up in the end, and stays so, though a
\* late loop writes back what it read (drain_once, by both loops).
Settles == \A r \in Rows : row[r].there ~> [](Ended(r))
=============================================================================

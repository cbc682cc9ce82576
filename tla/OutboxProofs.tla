---------------------------- MODULE OutboxProofs ----------------------------
(***************************************************************************)
(* What holds of Outbox for any number of rows, loops and deaths, and      *)
(* three attempts or more.                                                 *)
(***************************************************************************)
EXTENDS Outbox, FiniteSetTheorems, TLAPS

\* Who is about to write down a failure of a row.
Pending(r) == {w \in Loops : AtHand(w, r) /\ told[w] = "failed"}

\* Only what was written is claimed, and who is at nothing was told nothing.
Held ==
    /\ \A w \in Loops, r \in Rows : r \in hand[w] => row[r].there
    /\ \A w \in Loops : hand[w] = {} => told[w] = "nothing"

\* What is counted of a row, or was read of it, and what is about to be counted
\* were tries that failed.
Tried(r, n) == n + Cardinality(Pending(r)) <= tries[r] \/ tries[r] = MaxAttempts
Tallied ==
    \A r \in Rows :
        /\ Tried(r, row[r].attempts)
        /\ \A w \in Loops : r \in hand[w] => Tried(r, read[w][r])
        /\ row[r].dead => tries[r] = MaxAttempts

\* How far two loops can meet on one event: one claim may have lapsed, and it was
\* the first.
Met(r) ==
    /\ \A w \in Loops : <<w, r>> \in late => r \in hand[w] /\ read[w][r] = 0
    /\ \A v, w \in Holders(r) :
         v # w => \/ <<v, r>> \in late /\ <<w, r>> \notin late /\ read[w][r] <= 1
                  \/ <<w, r>> \in late /\ <<v, r>> \notin late /\ read[v][r] <= 1
    /\ \A v, w \in Holders(r) :
         r \in due => v = w /\ <<w, r>> \in late /\ row[r].attempts <= 1

\* An event whose first claim runs has hardly been tried.
Young(r) ==
    \A w \in Holders(r) :
        <<w, r>> \notin late /\ read[w][r] = 0 =>
            /\ row[r].attempts <= 1
            /\ \A v \in Holders(r) : v # w => row[r].attempts = 0

\* One that was given up is in nobody's hand; one that was delivered is in no
\* hand that could give it up.
Over(r) ==
    /\ row[r].dead => Holders(r) = {} /\ ~row[r].done
    /\ row[r].done => \A w \in Holders(r) : read[w][r] <= 1

\* A job in nobody's hand was tried no oftener than it may be.
Limited ==
    \A r \in Rows :
        /\ ~row[r].dead => row[r].attempts < MaxAttempts
        /\ \A w \in Loops : read[w][r] < MaxAttempts

Shared == table = "event" => \A r \in Rows : Met(r) /\ Young(r) /\ Over(r)

Single == table = "job" => Limited

IndInv == TypeOK /\ Held /\ Tallied /\ Shared /\ Single

RowType == [there : BOOLEAN, attempts : Nat, done : BOOLEAN, dead : BOOLEAN]

LEMMA TypeParts ==
    ASSUME TypeOK
    PROVE  /\ row \in [Rows -> RowType] /\ due \subseteq Rows
           /\ hand \in [Loops -> SUBSET Rows] /\ read \in [Loops -> [Rows -> Nat]]
           /\ told \in [Loops -> {"nothing", "ok", "failed"}] /\ late \subseteq Loops \X Rows
           /\ tries \in [Rows -> 0 .. MaxAttempts] /\ deaths \in Nat
           /\ MaxAttempts \in Nat /\ MaxAttempts >= 3 /\ Rows \subseteq Nat
           /\ table \in {"event", "job"}
BY OutboxAssumption DEF TypeOK, RowType

Refused(r, n, d) == [row[r] EXCEPT !.attempts = n, !.dead = d]

LEMMA RefusedType ==
    ASSUME TypeOK, NEW r \in Rows, NEW n \in Nat, NEW d \in BOOLEAN
    PROVE  /\ Refused(r, n, d) \in RowType
           /\ Refused(r, n, d).attempts = n /\ Refused(r, n, d).dead = d
           /\ Refused(r, n, d).done = row[r].done /\ Refused(r, n, d).there = row[r].there
<1>1. row[r] \in RowType BY TypeParts
<1> QED BY <1>1 DEF RowType, Refused

\* A row's outcome is of the type of a row.
LEMMA FailedType ==
    ASSUME TypeOK, NEW w \in Loops, NEW r \in Rows
    PROVE  /\ Failed(w, r) \in RowType /\ [row[r] EXCEPT !.done = TRUE] \in RowType
           /\ Failed(w, r).there = row[r].there /\ Failed(w, r).done = row[r].done
           /\ table = "event" => /\ Failed(w, r).attempts = row[r].attempts + 1
                                 /\ Failed(w, r).dead <=> row[r].dead \/ Spent(w, r)
           /\ table = "job" => /\ Failed(w, r).attempts = read[w][r] + 1
                               /\ Failed(w, r).dead <=> Spent(w, r)
<1>1. row[r] \in RowType /\ read[w][r] \in Nat /\ Spent(w, r) \in BOOLEAN
  BY TypeParts DEF Spent
<1>2. row[r].attempts + 1 \in Nat /\ read[w][r] + 1 \in Nat
      /\ (row[r].dead \/ Spent(w, r)) \in BOOLEAN
  BY <1>1 DEF RowType
<1>3. /\ table = "event" =>
           Failed(w, r) = Refused(r, row[r].attempts + 1, row[r].dead \/ Spent(w, r))
      /\ table = "job" => Failed(w, r) = Refused(r, read[w][r] + 1, Spent(w, r))
  BY DEF Failed, Refused
<1>5. [row[r] EXCEPT !.done = TRUE] \in RowType BY <1>1 DEF RowType
<1>6. CASE table = "event"
  <2>1. PICK d \in BOOLEAN : d = (row[r].dead \/ Spent(w, r)) BY <1>2
  <2>2. PICK n \in Nat : n = row[r].attempts + 1 BY <1>2
  <2>3. Failed(w, r) = Refused(r, n, d) BY <1>3, <1>6, <2>1, <2>2
  <2>4. /\ Failed(w, r) \in RowType /\ Failed(w, r).attempts = n /\ Failed(w, r).dead = d
        /\ Failed(w, r).there = row[r].there /\ Failed(w, r).done = row[r].done
    BY <2>3, RefusedType
  <2> QED BY <1>5, <1>6, <2>1, <2>2, <2>4
<1>7. CASE table = "job"
  <2>1. PICK d \in BOOLEAN : d = Spent(w, r) BY <1>1
  <2>2. PICK n \in Nat : n = read[w][r] + 1 BY <1>2
  <2>3. Failed(w, r) = Refused(r, n, d) BY <1>3, <1>7, <2>1, <2>2
  <2>4. /\ Failed(w, r) \in RowType /\ Failed(w, r).attempts = n /\ Failed(w, r).dead = d
        /\ Failed(w, r).there = row[r].there /\ Failed(w, r).done = row[r].done
    BY <2>3, RefusedType
  <2> QED BY <1>5, <1>7, <2>1, <2>2, <2>4
<1> QED BY <1>6, <1>7, TypeParts

-----------------------------------------------------------------------------
(* Types. *)

LEMMA TypesKept ==
    ASSUME TypeOK, Single, [Next]_vars
    PROVE  TypeOK' /\ Single'
<1>1. /\ row \in [Rows -> RowType] /\ due \subseteq Rows
      /\ hand \in [Loops -> SUBSET Rows] /\ read \in [Loops -> [Rows -> Nat]]
      /\ told \in [Loops -> {"nothing", "ok", "failed"}] /\ late \subseteq Loops \X Rows
      /\ tries \in [Rows -> 0 .. MaxAttempts] /\ deaths \in Nat
      /\ MaxAttempts \in Nat /\ MaxAttempts >= 3
  BY TypeParts
<1>2. CASE UNCHANGED vars BY <1>2 DEF vars, TypeOK, Single, Limited
<1>3. ASSUME NEW r \in Rows, Emit(r) PROVE TypeOK' /\ Single'
  <2>1. /\ [row[r] EXCEPT !.there = TRUE] \in RowType
        /\ [row[r] EXCEPT !.there = TRUE].attempts = row[r].attempts
        /\ [row[r] EXCEPT !.there = TRUE].dead = row[r].dead
    BY <1>1 DEF RowType
  <2>2. row' = [row EXCEPT ![r] = [row[r] EXCEPT !.there = TRUE]] BY <1>3 DEF Emit
  <2>3. row' \in [Rows -> RowType] BY <1>1, <2>1, <2>2
  <2>4. \A q \in Rows : row'[q].attempts = row[q].attempts /\ row'[q].dead = row[q].dead
    BY <1>1, <2>1, <2>2
  <2>5. due' \subseteq Rows BY <1>1, <1>3 DEF Emit
  <2> QED BY <1>3, <2>3, <2>4, <2>5 DEF Emit, TypeOK, RowType, Single, Limited
<1>4. ASSUME NEW r \in Rows, Lapse(r) PROVE TypeOK' /\ Single'
  <2>1. due' \subseteq Rows /\ late' \subseteq Loops \X Rows
    BY <1>1, <1>4 DEF Lapse, Holders
  <2> QED BY <1>4, <2>1 DEF Lapse, TypeOK, Single, Limited
<1>5. ASSUME NEW w \in Loops, Claim(w) PROVE TypeOK' /\ Single'
  <2>1. Taken \subseteq Due /\ Due \subseteq Rows BY DEF Taken, Due
  <2>2. \A r \in Rows : row[r].attempts \in Nat BY <1>1 DEF RowType
  <2>3. read' = [read EXCEPT ![w] =
                   [r \in Rows |-> IF r \in Taken THEN row[r].attempts ELSE 0]]
    BY <1>5 DEF Claim
  <2>4. read' \in [Loops -> [Rows -> Nat]]
    <3>1. [r \in Rows |-> IF r \in Taken THEN row[r].attempts ELSE 0] \in [Rows -> Nat]
      BY <2>2
    <3> QED BY <1>1, <2>3, <3>1
  <2>5. hand' \in [Loops -> SUBSET Rows] /\ due' \subseteq Rows
    BY <1>1, <1>5, <2>1 DEF Claim
  <2>6. Single'
    <3> SUFFICES ASSUME table = "job", NEW r \in Rows, NEW v \in Loops
                 PROVE  read'[v][r] < MaxAttempts
      BY <1>5 DEF Claim, Single, Limited
    <3>1. read[v][r] < MaxAttempts BY DEF Single, Limited
    <3>2. r \in Taken => row[r].attempts < MaxAttempts
      BY <2>1 DEF Due, Open, Ended, Single, Limited
    <3>3. 0 < MaxAttempts BY <1>1
    <3> QED BY <1>1, <2>3, <3>1, <3>2, <3>3
  <2> QED BY <1>5, <2>4, <2>5, <2>6 DEF Claim, TypeOK
<1>6. ASSUME NEW w \in Loops, NEW r \in Rows, Try(w, r) PROVE TypeOK' /\ Single'
  <2>1. (IF tries[r] < MaxAttempts THEN tries[r] + 1 ELSE tries[r]) \in 0 .. MaxAttempts
    BY <1>1
  <2>2. tries' \in [Rows -> 0 .. MaxAttempts] BY <1>1, <1>6, <2>1 DEF Try
  <2>3. told' \in [Loops -> {"nothing", "ok", "failed"}] BY <1>1, <1>6 DEF Try
  <2> QED BY <1>6, <2>2, <2>3 DEF Try, TypeOK, Single, Limited
<1>7. ASSUME NEW w \in Loops, NEW r \in Rows, Record(w, r) PROVE TypeOK' /\ Single'
  <2> DEFINE out == IF told[w] = "ok" THEN [row[r] EXCEPT !.done = TRUE] ELSE Failed(w, r)
  <2>1. out \in RowType BY FailedType
  <2>2. row' = [row EXCEPT ![r] = out] BY <1>7 DEF Record
  <2>3. row' \in [Rows -> RowType] BY <1>1, <2>1, <2>2
  <2>4. /\ hand' \in [Loops -> SUBSET Rows] /\ late' \subseteq Loops \X Rows
        /\ told' \in [Loops -> {"nothing", "ok", "failed"}]
    BY <1>1, <1>7 DEF Record
  <2>5. read' \in [Loops -> [Rows -> Nat]] BY <1>1, <1>7 DEF Record
  <2>6. Single' /\ (table = "job" => \A q \in Rows : row'[q].attempts <= MaxAttempts)
    <3> SUFFICES ASSUME table = "job"
                 PROVE  Limited' /\ \A q \in Rows : row'[q].attempts <= MaxAttempts
      BY <1>7 DEF Record, Single
    <3>1. read[w][r] \in Nat /\ read[w][r] < MaxAttempts BY <1>1 DEF Single, Limited
    <3>2. /\ out.attempts <= MaxAttempts
          /\ ~out.dead => out.attempts < MaxAttempts
      <4>1. CASE told[w] = "ok"
        <5>1. out.attempts = row[r].attempts /\ out.dead = row[r].dead
          BY <1>1, <4>1 DEF RowType
        <5> QED BY <5>1 DEF Single, Limited, TypeOK
      <4>2. CASE told[w] # "ok"
        <5>1. out.attempts = read[w][r] + 1 /\ (out.dead <=> Spent(w, r))
          BY <4>2, FailedType
        <5> HIDE DEF out
        <5> QED BY <1>1, <3>1, <5>1 DEF Spent
      <4> QED BY <4>1, <4>2
    <3>3. \A q \in Rows : /\ row'[q].attempts <= MaxAttempts
                          /\ ~row'[q].dead => row'[q].attempts < MaxAttempts
      <4>1. \A q \in Rows \ {r} : row'[q] = row[q] BY <1>1, <2>2
      <4>2. row'[r] = out BY <1>1, <2>2
      <4> HIDE DEF out
      <4> QED BY <3>2, <4>1, <4>2 DEF Single, Limited, TypeOK
    <3>4. \A v \in Loops, q \in Rows : read'[v][q] < MaxAttempts
      BY <1>1, <1>7 DEF Record, Single, Limited
    <3> QED BY <3>3, <3>4 DEF Limited
  <2> QED BY <1>7, <2>3, <2>4, <2>5, <2>6 DEF Record, TypeOK, RowType
<1>8. ASSUME NEW w \in Loops, Die(w) PROVE TypeOK' /\ Single'
  <2>1. /\ hand' \in [Loops -> SUBSET Rows] /\ late' \subseteq Loops \X Rows
        /\ told' \in [Loops -> {"nothing", "ok", "failed"}]
        /\ read' \in [Loops -> [Rows -> Nat]] /\ deaths' \in Nat
    BY <1>1, <1>8 DEF Die
  <2>2. Single' BY <1>1, <1>8 DEF Die, Single, Limited
  <2> QED BY <1>8, <2>1, <2>2 DEF Die, TypeOK
<1> QED BY <1>2, <1>3, <1>4, <1>5, <1>6, <1>7, <1>8 DEF Next, Drain

-----------------------------------------------------------------------------
(* Who holds what. *)

LEMMA HeldKept ==
    ASSUME TypeOK, Held, [Next]_vars
    PROVE  Held'
<1>1. /\ row \in [Rows -> RowType] /\ hand \in [Loops -> SUBSET Rows]
      /\ told \in [Loops -> {"nothing", "ok", "failed"}]
  BY TypeParts
<1>2. CASE UNCHANGED vars BY <1>2 DEF vars, Held
<1>3. ASSUME NEW r \in Rows, Emit(r) PROVE Held'
  <2>1. \A q \in Rows : row[q].there => row'[q].there BY <1>1, <1>3 DEF Emit, RowType
  <2> QED BY <1>3, <2>1 DEF Emit, Held
<1>4. ASSUME NEW r \in Rows, Lapse(r) PROVE Held' BY <1>4 DEF Lapse, Held
<1>5. ASSUME NEW w \in Loops, Claim(w) PROVE Held'
  <2>1. \A q \in Taken : row[q].there BY DEF Taken, Due, Open
  <2> QED BY <1>1, <1>5, <2>1 DEF Claim, Held
<1>6. ASSUME NEW w \in Loops, NEW r \in Rows, Try(w, r) PROVE Held'
  BY <1>1, <1>6 DEF Try, AtHand, Held
<1>7. ASSUME NEW w \in Loops, NEW r \in Rows, Record(w, r) PROVE Held'
  <2>1. row'[r].there = row[r].there
    <3>1. CASE told[w] = "ok" BY <1>1, <1>7, <3>1 DEF Record, RowType
    <3>2. CASE told[w] # "ok" BY <1>1, <1>7, <3>2, FailedType DEF Record
    <3> QED BY <3>1, <3>2
  <2>2. \A q \in Rows : row'[q].there = row[q].there BY <1>1, <1>7, <2>1 DEF Record
  <2> QED BY <1>1, <1>7, <2>2 DEF Record, Held
<1>8. ASSUME NEW w \in Loops, Die(w) PROVE Held' BY <1>1, <1>8 DEF Die, Held
<1> QED BY <1>2, <1>3, <1>4, <1>5, <1>6, <1>7, <1>8 DEF Next, Drain

-----------------------------------------------------------------------------
(* What is counted. *)

\* The pending failures are finitely many; one is added by a try that fails, and
\* taken away when it is recorded or forgotten.
LEMMA PendingCounts ==
    ASSUME TypeOK, NEW r \in Rows
    PROVE  /\ Cardinality(Pending(r)) \in Nat
           /\ \A w \in Loops :
                /\ w \notin Pending(r) =>
                     Cardinality(Pending(r) \cup {w}) = Cardinality(Pending(r)) + 1
                /\ w \in Pending(r) =>
                     Cardinality(Pending(r) \ {w}) = Cardinality(Pending(r)) - 1
                /\ w \notin Pending(r) => Pending(r) \ {w} = Pending(r)
<1>1. IsFiniteSet(Pending(r))
  BY OutboxAssumption, FS_Subset DEF Pending
<1> QED BY <1>1, FS_CardinalityType, FS_AddElement, FS_RemoveElement

LEMMA PendingNat ==
    ASSUME NEW r \in Rows, NEW w
    PROVE  Cardinality(Pending(r) \ {w}) \in Nat
<1>1. IsFiniteSet(Pending(r) \ {w}) BY OutboxAssumption, FS_Subset DEF Pending
<1> QED BY <1>1, FS_CardinalityType

\* A loop is at one row at a time.
LEMMA OneAtHand ==
    ASSUME TypeOK, NEW w \in Loops, NEW q \in Rows, NEW r \in Rows, AtHand(w, q), AtHand(w, r)
    PROVE  q = r
<1>1. q \in Nat /\ r \in Nat BY OutboxAssumption
<1>2. q <= r /\ r <= q BY DEF AtHand
<1> QED BY <1>1, <1>2

LEMMA TalliedKept ==
    ASSUME TypeOK, Held, Tallied, [Next]_vars
    PROVE  Tallied'
<1>1. /\ row \in [Rows -> RowType] /\ hand \in [Loops -> SUBSET Rows]
      /\ read \in [Loops -> [Rows -> Nat]]
      /\ told \in [Loops -> {"nothing", "ok", "failed"}]
      /\ tries \in [Rows -> 0 .. MaxAttempts] /\ MaxAttempts \in Nat
  BY TypeParts
<1> SUFFICES ASSUME NEW r \in Rows
             PROVE  /\ Tried(r, row[r].attempts)'
                    /\ \A v \in Loops : r \in hand'[v] => Tried(r, read[v][r])'
                    /\ row'[r].dead => tries'[r] = MaxAttempts
  BY DEF Tallied
<1>2. /\ Cardinality(Pending(r)) \in Nat /\ row[r].attempts \in Nat /\ tries[r] \in Nat
      /\ \A v \in Loops : read[v][r] \in Nat
      /\ tries[r] <= MaxAttempts /\ MaxAttempts \in Nat
  BY <1>1, PendingCounts DEF RowType
<1>3. CASE UNCHANGED <<row, hand, read, told, tries>>
  BY <1>3 DEF Tallied, Tried, Pending, AtHand
<1>4. ASSUME NEW e \in Rows, Emit(e)
      PROVE  /\ Tried(r, row[r].attempts)'
             /\ \A v \in Loops : r \in hand'[v] => Tried(r, read[v][r])'
             /\ row'[r].dead => tries'[r] = MaxAttempts
  <2>1. row'[r].attempts = row[r].attempts /\ row'[r].dead = row[r].dead
    BY <1>1, <1>4 DEF Emit, RowType
  <2>2. UNCHANGED <<hand, read, told, tries>> BY <1>4 DEF Emit
  <2> QED BY <2>1, <2>2 DEF Tallied, Tried, Pending, AtHand
<1>5. ASSUME NEW w \in Loops, Claim(w)
      PROVE  /\ Tried(r, row[r].attempts)'
             /\ \A v \in Loops : r \in hand'[v] => Tried(r, read[v][r])'
             /\ row'[r].dead => tries'[r] = MaxAttempts
  <2>1. Pending(r)' = Pending(r)
    BY <1>1, <1>5 DEF Claim, Pending, AtHand, Held
  <2>2. UNCHANGED <<row, tries>> BY <1>5 DEF Claim
  <2>3. \A v \in Loops : r \in hand'[v] =>
          read'[v][r] = row[r].attempts \/ (v # w /\ r \in hand[v] /\ read'[v][r] = read[v][r])
    <3>1. \A v \in Loops \ {w} : hand'[v] = hand[v] /\ read'[v] = read[v]
      BY <1>1, <1>5 DEF Claim
    <3>2. r \in hand'[w] => r \in Taken BY <1>1, <1>5 DEF Claim
    <3>3. r \in Taken => read'[w][r] = row[r].attempts BY <1>1, <1>5 DEF Claim
    <3> SUFFICES ASSUME NEW v \in Loops, r \in hand'[v]
                 PROVE  \/ read'[v][r] = row[r].attempts
                        \/ v # w /\ r \in hand[v] /\ read'[v][r] = read[v][r]
      OBVIOUS
    <3>4. CASE v = w BY <3>2, <3>3, <3>4
    <3>5. CASE v # w BY <3>1, <3>5
    <3> QED BY <3>4, <3>5
  <2>4. \A n : Tried(r, n) => n + Cardinality(Pending(r)') <= tries'[r] \/ tries'[r] = MaxAttempts
    BY <2>1, <2>2 DEF Tried
  <2>5. \A v \in Loops : r \in hand'[v] => Tried(r, read'[v][r])
    BY <2>3 DEF Tallied
  <2> QED BY <2>2, <2>4, <2>5 DEF Tallied, Tried
<1>6. ASSUME NEW w \in Loops, NEW e \in Rows, Try(w, e)
      PROVE  /\ Tried(r, row[r].attempts)'
             /\ \A v \in Loops : r \in hand'[v] => Tried(r, read[v][r])'
             /\ row'[r].dead => tries'[r] = MaxAttempts
  <2>1. UNCHANGED <<row, hand, read>> /\ AtHand(w, e) /\ told[w] = "nothing"
    BY <1>6 DEF Try
  <2>2. CASE told' = [told EXCEPT ![w] = "failed"] /\ r = e
    <3>1. tries' = [tries EXCEPT ![r] = IF @ < MaxAttempts THEN @ + 1 ELSE @]
      BY <1>1, <1>6, <2>2 DEF Try
    <3>2. tries'[r] = IF tries[r] < MaxAttempts THEN tries[r] + 1 ELSE tries[r]
      BY <1>1, <3>1
    <3>3. Pending(r)' = Pending(r) \cup {w} /\ w \notin Pending(r)
      BY <1>1, <2>1, <2>2 DEF Pending, AtHand
    <3>4. Cardinality(Pending(r)') = Cardinality(Pending(r)) + 1 BY <3>3, PendingCounts
    <3>5. ASSUME NEW n \in Nat, Tried(r, n)
          PROVE  n + Cardinality(Pending(r)') <= tries'[r] \/ tries'[r] = MaxAttempts
      <4>1. CASE tries[r] < MaxAttempts BY <1>2, <3>2, <3>4, <3>5, <4>1 DEF Tried
      <4>2. CASE tries[r] = MaxAttempts BY <1>2, <3>2, <4>2
      <4> QED BY <1>2, <4>1, <4>2
    <3>6. tries[r] = MaxAttempts => tries'[r] = MaxAttempts BY <1>1, <3>2
    <3> QED BY <1>2, <2>1, <3>5, <3>6 DEF Tallied, Tried
  <2>3. CASE ~(told' = [told EXCEPT ![w] = "failed"] /\ r = e)
    <3>1. Pending(r)' = Pending(r)
      BY <1>1, <1>6, <2>1, <2>3, OneAtHand DEF Try, Pending, AtHand
    <3>2. tries'[r] = tries[r] BY <1>1, <1>6, <2>3 DEF Try
    <3> QED BY <2>1, <3>1, <3>2 DEF Tallied, Tried
  <2> QED BY <2>2, <2>3
<1>7. ASSUME NEW w \in Loops, NEW e \in Rows, Record(w, e)
      PROVE  /\ Tried(r, row[r].attempts)'
             /\ \A v \in Loops : r \in hand'[v] => Tried(r, read[v][r])'
             /\ row'[r].dead => tries'[r] = MaxAttempts
  <2>1. UNCHANGED tries /\ AtHand(w, e) /\ told[w] # "nothing" BY <1>7 DEF Record
  <2>2. Pending(r)' = Pending(r) \ {w}
    <3>1. \A v \in Loops \ {w} : hand'[v] = hand[v] /\ told'[v] = told[v]
      BY <1>1, <1>7 DEF Record
    <3>2. told'[w] = "nothing" BY <1>1, <1>7 DEF Record
    <3> QED BY <3>1, <3>2 DEF Pending, AtHand
  <2>3. \A v \in Loops : r \in hand'[v] => r \in hand[v] /\ read'[v][r] = read[v][r]
    BY <1>1, <1>7 DEF Record
  <2>4. CASE r = e /\ told[w] = "failed"
    <3>1. w \in Pending(r) BY <2>1, <2>4 DEF Pending
    <3>2. Cardinality(Pending(r)') = Cardinality(Pending(r)) - 1
      BY <2>2, <3>1, PendingCounts
    <3>3. r \in hand[w] BY <2>1, <2>4 DEF AtHand
    <3>4. row'[r] = Failed(w, r) BY <1>1, <1>7, <2>4 DEF Record
    <3>5. \/ row'[r].attempts = row[r].attempts + 1
          \/ row'[r].attempts = read[w][r] + 1
      BY <3>4, FailedType, TypeParts
    <3>6. row'[r].dead => row[r].dead \/ Spent(w, r) BY <3>4, FailedType, TypeParts
    <3>7. \A n \in Nat : Tried(r, n) => /\ n + 1 + Cardinality(Pending(r)') <= tries[r]
                                           \/ tries[r] = MaxAttempts
                                        /\ n + Cardinality(Pending(r)') <= tries[r]
                                           \/ tries[r] = MaxAttempts
      BY <1>2, <3>2 DEF Tried
    <3>8. Tried(r, row[r].attempts) /\ Tried(r, read[w][r]) BY <3>3 DEF Tallied
    <3>9. Tried(r, row[r].attempts)' BY <1>2, <2>1, <3>5, <3>7, <3>8 DEF Tried
    <3>10. Spent(w, r) => tries[r] = MaxAttempts
      <4>1. Cardinality(Pending(r)') \in Nat BY <1>2, <3>1, <3>2, <2>2, PendingNat
      <4>2. read[w][r] + 1 + Cardinality(Pending(r)') <= tries[r] \/ tries[r] = MaxAttempts
        BY <1>2, <3>7, <3>8
      <4>3. read[w][r] \in Nat BY <1>2
      <4> QED BY <1>2, <4>1, <4>2, <4>3 DEF Spent
    <3> QED BY <1>2, <2>1, <2>3, <3>6, <3>7, <3>9, <3>10 DEF Tallied, Tried
  <2>5. CASE ~(r = e /\ told[w] = "failed")
    <3>1. w \notin Pending(r) BY <2>1, <2>5, OneAtHand DEF Pending
    <3>2. Pending(r)' = Pending(r) BY <2>2, <3>1
    <3>3. row'[r].attempts = row[r].attempts /\ row'[r].dead = row[r].dead
      <4>1. CASE r # e BY <1>1, <1>7, <4>1 DEF Record
      <4>2. CASE r = e
        <5>1. told[w] = "ok" BY <1>1, <2>1, <2>5, <4>2
        <5>2. row'[r] = [row[r] EXCEPT !.done = TRUE] BY <1>1, <1>7, <4>2, <5>1 DEF Record
        <5> QED BY <1>1, <5>2 DEF RowType
      <4> QED BY <4>1, <4>2
    <3> QED BY <2>1, <2>3, <3>2, <3>3 DEF Tallied, Tried
  <2> QED BY <2>4, <2>5
<1>8. ASSUME NEW w \in Loops, Die(w)
      PROVE  /\ Tried(r, row[r].attempts)'
             /\ \A v \in Loops : r \in hand'[v] => Tried(r, read[v][r])'
             /\ row'[r].dead => tries'[r] = MaxAttempts
  <2>1. UNCHANGED <<row, tries>> BY <1>8 DEF Die
  <2>2. Pending(r)' = Pending(r) \ {w}
    <3>1. \A v \in Loops \ {w} : hand'[v] = hand[v] /\ told'[v] = told[v]
      BY <1>1, <1>8 DEF Die
    <3>2. told'[w] = "nothing" BY <1>1, <1>8 DEF Die
    <3> QED BY <3>1, <3>2 DEF Pending, AtHand
  <2>3. \A v \in Loops : r \in hand'[v] => r \in hand[v] /\ read'[v][r] = read[v][r]
    BY <1>1, <1>8 DEF Die
  <2>4. Cardinality(Pending(r)') <= Cardinality(Pending(r))
    <3>1. CASE w \in Pending(r) BY <1>2, <2>2, <3>1, PendingCounts
    <3>2. CASE w \notin Pending(r)
      <4>1. Pending(r)' = Pending(r) BY <2>2, <3>2
      <4> QED BY <1>2, <4>1
    <3> QED BY <3>1, <3>2
  <2>5. Cardinality(Pending(r)') \in Nat BY <2>2, PendingNat
  <2> QED BY <1>2, <2>1, <2>3, <2>4, <2>5 DEF Tallied, Tried
<1> QED BY <1>3, <1>4, <1>5, <1>6, <1>7, <1>8 DEF Next, Drain, Lapse, vars

-----------------------------------------------------------------------------
(* Two loops that hold one event. *)

\* A row that is the same for whoever still holds it, though fewer may.
LEMMA FewerHold ==
    ASSUME NEW r \in Rows, Met(r), Young(r), Over(r),
           row'[r].attempts = row[r].attempts, row'[r].done = row[r].done,
           row'[r].dead = row[r].dead, r \in due' => r \in due,
           \A w \in Loops : r \in hand'[w] =>
               /\ r \in hand[w] /\ read'[w][r] = read[w][r]
               /\ <<w, r>> \in late' <=> <<w, r>> \in late,
           \A w \in Loops : <<w, r>> \in late' => r \in hand'[w]
    PROVE  Met(r)' /\ Young(r)' /\ Over(r)'
<1>1. Holders(r)' \subseteq Holders(r) BY DEF Holders
<1>2. \A w \in Holders(r)' : /\ w \in Loops /\ read'[w][r] = read[w][r]
                             /\ <<w, r>> \in late' <=> <<w, r>> \in late
  BY DEF Holders
<1>3. Met(r)'
  <2>1. \A w \in Loops : <<w, r>> \in late' => r \in hand'[w] /\ read'[w][r] = 0
    BY DEF Met
  <2>2. \A v, w \in Holders(r)' :
          v # w => \/ <<v, r>> \in late' /\ <<w, r>> \notin late' /\ read'[w][r] <= 1
                   \/ <<w, r>> \in late' /\ <<v, r>> \notin late' /\ read'[v][r] <= 1
    BY <1>1, <1>2 DEF Met
  <2>3. \A v, w \in Holders(r)' :
          r \in due' => v = w /\ <<w, r>> \in late' /\ row'[r].attempts <= 1
    BY <1>1, <1>2 DEF Met
  <2> QED BY <2>1, <2>2, <2>3 DEF Met
<1>4. Young(r)' BY <1>1, <1>2 DEF Young
<1>5. Over(r)' BY <1>1, <1>2 DEF Over
<1> QED BY <1>3, <1>4, <1>5

\* A claim lapses under one loop at most, that tries the event for the first time.
LEMMA LapseMeets ==
    ASSUME TypeOK, NEW r \in Rows, Met(r), Young(r), Over(r), table = "event", Lapse(r)
    PROVE  Met(r)' /\ Young(r)' /\ Over(r)'
<1>1. UNCHANGED <<row, hand, read>> /\ late' = late \cup (Holders(r) \X {r})
  BY DEF Lapse
<1>2. \A w \in Holders(r) : w \in Loops /\ <<w, r>> \notin late /\ read[w][r] = 0
  BY DEF Lapse, MayLapse, Holders
<1>3. \A v, w \in Holders(r) : v = w BY <1>2 DEF Met
<1>4. \A w \in Holders(r) : row[r].attempts <= 1 BY <1>2 DEF Young
<1>5. Holders(r)' = Holders(r) BY <1>1 DEF Holders
<1>6. \A w \in Holders(r) : <<w, r>> \in late' BY <1>1
<1>7. \A w \in Loops : <<w, r>> \in late' => r \in hand'[w] /\ read'[w][r] = 0
  <2> SUFFICES ASSUME NEW w \in Loops, <<w, r>> \in late'
               PROVE  r \in hand[w] /\ read[w][r] = 0
    BY <1>1
  <2>1. CASE <<w, r>> \in late BY <2>1 DEF Met
  <2>2. CASE w \in Holders(r) BY <1>2, <2>2 DEF Holders
  <2> QED BY <1>1, <2>1, <2>2
<1>8. Met(r)' BY <1>1, <1>3, <1>4, <1>5, <1>6, <1>7 DEF Met
<1>9. Young(r)' BY <1>5, <1>6 DEF Young
<1>10. Over(r)' BY <1>1, <1>5 DEF Over
<1> QED BY <1>8, <1>9, <1>10

\* A loop takes an event that nobody holds, or one loop whose claim lapsed.
LEMMA ClaimMeets ==
    ASSUME TypeOK, NEW r \in Rows, NEW w \in Loops, Met(r), Young(r), Over(r),
           Claim(w), r \in Taken
    PROVE  Met(r)' /\ Young(r)' /\ Over(r)'
<1>1. /\ hand \in [Loops -> SUBSET Rows] /\ read \in [Loops -> [Rows -> Nat]]
      /\ row[r] \in RowType
  BY TypeParts
<1>2. row[r].attempts \in Nat BY <1>1 DEF RowType
<1>3. r \in due /\ ~row[r].dead /\ ~row[r].done BY DEF Taken, Due, Open, Ended
<1>4. UNCHANGED <<row, late>> /\ hand[w] = {} /\ r \notin due' BY DEF Claim
<1>5. w \notin Holders(r) /\ <<w, r>> \notin late BY <1>4 DEF Holders, Met
<1>6. hand'[w] = Taken /\ read'[w][r] = row[r].attempts BY <1>1 DEF Claim
<1>7. \A v \in Loops \ {w} : hand'[v] = hand[v] /\ read'[v] = read[v]
  BY <1>1 DEF Claim
<1>8. Holders(r)' = Holders(r) \cup {w} BY <1>6, <1>7 DEF Holders
<1>9. \A v \in Holders(r) : /\ v \in Loops /\ v # w /\ read'[v][r] = read[v][r]
                            /\ <<v, r>> \in late /\ row[r].attempts <= 1
  BY <1>3, <1>5, <1>7 DEF Met, Holders
<1>10. \A u, v \in Holders(r) : u = v BY <1>3 DEF Met
<1>11. Met(r)'
  <2>1. \A v \in Loops : <<v, r>> \in late' => r \in hand'[v] /\ read'[v][r] = 0
    BY <1>4, <1>5, <1>7 DEF Met
  <2>2. \A u, v \in Holders(r)' :
          u # v => \/ <<u, r>> \in late' /\ <<v, r>> \notin late' /\ read'[v][r] <= 1
                   \/ <<v, r>> \in late' /\ <<u, r>> \notin late' /\ read'[u][r] <= 1
    <3> SUFFICES ASSUME NEW u \in Holders(r)', NEW v \in Holders(r)', u # v
                 PROVE  \/ <<u, r>> \in late /\ <<v, r>> \notin late /\ read'[v][r] <= 1
                        \/ <<v, r>> \in late /\ <<u, r>> \notin late /\ read'[u][r] <= 1
      BY <1>4
    <3>1. CASE u = w BY <1>5, <1>6, <1>8, <1>9, <3>1
    <3>2. CASE v = w BY <1>5, <1>6, <1>8, <1>9, <3>2
    <3>3. CASE u # w /\ v # w BY <1>8, <1>10, <3>3
    <3> QED BY <3>1, <3>2, <3>3
  <2> QED BY <1>4, <2>1, <2>2 DEF Met
<1>12. Young(r)'
  <2> SUFFICES ASSUME NEW v \in Holders(r)', <<v, r>> \notin late, read'[v][r] = 0
               PROVE  row[r].attempts = 0
    BY <1>2, <1>4 DEF Young
  <2>1. v = w BY <1>8, <1>9
  <2> QED BY <1>6, <2>1
<1>13. Over(r)' BY <1>3, <1>4 DEF Over
<1> QED BY <1>11, <1>12, <1>13

\* The outcome of an event: who gives it up held it alone, and it was not delivered.
LEMMA RecordMeets ==
    ASSUME TypeOK, NEW r \in Rows, NEW w \in Loops, Met(r), Young(r), Over(r),
           table = "event", Record(w, r)
    PROVE  Met(r)' /\ Young(r)' /\ Over(r)'
<1>1. /\ hand \in [Loops -> SUBSET Rows] /\ read \in [Loops -> [Rows -> Nat]]
      /\ row \in [Rows -> RowType] /\ row[r] \in RowType
      /\ MaxAttempts \in Nat /\ MaxAttempts >= 3
  BY TypeParts
<1>2. row[r].attempts \in Nat /\ read[w][r] \in Nat BY <1>1 DEF RowType
<1>3. w \in Holders(r) BY DEF Record, AtHand, Holders
<1>4. ~row[r].dead BY <1>3 DEF Over
<1>5. UNCHANGED due /\ late' = late \ {<<w, r>>} /\ r \notin hand'[w]
  BY <1>1 DEF Record
<1>6. \A v \in Loops \ {w} : hand'[v] = hand[v] /\ read'[v][r] = read[v][r]
  BY <1>1 DEF Record
<1>7. Holders(r)' = Holders(r) \ {w} BY <1>5, <1>6 DEF Holders
<1>8. \A v \in Holders(r)' : /\ v \in Loops /\ v # w /\ v \in Holders(r)
                             /\ read'[v][r] = read[v][r] /\ read[v][r] \in Nat
                             /\ <<v, r>> \in late' <=> <<v, r>> \in late
  BY <1>1, <1>5, <1>6, <1>7 DEF Holders
<1>9. r \in due => Holders(r)' = {} BY <1>3, <1>7 DEF Met
<1>10. \A v \in Holders(r)' : \/ <<v, r>> \in late /\ <<w, r>> \notin late /\ read[w][r] <= 1
                              \/ <<w, r>> \in late /\ <<v, r>> \notin late /\ read[v][r] <= 1
  BY <1>3, <1>8 DEF Met
<1>11. Met(r)'
  <2>1. \A v \in Loops : <<v, r>> \in late' => r \in hand'[v] /\ read'[v][r] = 0
    BY <1>5, <1>6 DEF Met
  <2>2. \A u, v \in Holders(r)' :
          u # v => \/ <<u, r>> \in late' /\ <<v, r>> \notin late' /\ read'[v][r] <= 1
                   \/ <<v, r>> \in late' /\ <<u, r>> \notin late' /\ read'[u][r] <= 1
    BY <1>8 DEF Met
  <2> QED BY <1>5, <1>9, <2>1, <2>2 DEF Met
<1>12. \A v \in Holders(r)' : read[v][r] <= 1
  <2> SUFFICES ASSUME NEW v \in Holders(r)' PROVE read[v][r] <= 1 OBVIOUS
  <2>1. CASE <<v, r>> \in late
    <3>1. read[v][r] = 0 BY <1>8, <2>1 DEF Met
    <3> QED BY <3>1
  <2>2. CASE <<v, r>> \notin late BY <1>10, <2>2
  <2> QED BY <2>1, <2>2
<1>13. CASE told[w] = "ok"
  <2>1. row'[r] = [row[r] EXCEPT !.done = TRUE] BY <1>1, <1>13 DEF Record
  <2>2. row'[r].attempts = row[r].attempts /\ row'[r].dead = row[r].dead
    BY <1>1, <2>1 DEF RowType
  <2>3. Over(r)' BY <1>4, <1>8, <1>12, <2>2 DEF Over
  <2>4. Young(r)' BY <1>8, <2>2 DEF Young
  <2> QED BY <1>11, <2>3, <2>4
<1>14. CASE told[w] # "ok"
  <2>1. row'[r] = Failed(w, r) BY <1>1, <1>14 DEF Record
  <2>2. /\ row'[r].attempts = row[r].attempts + 1 /\ row'[r].done = row[r].done
        /\ row'[r].dead <=> row[r].dead \/ Spent(w, r)
    BY <2>1, FailedType
  <2>3. Over(r)'
    <3>1. row'[r].dead => read[w][r] >= 2 BY <1>1, <1>2, <1>4, <2>2 DEF Spent
    <3>2. \A v \in Holders(r)' : read[w][r] <= 1
      <4> SUFFICES ASSUME NEW v \in Holders(r)' PROVE read[w][r] <= 1 OBVIOUS
      <4>1. CASE <<w, r>> \in late
        <5>1. read[w][r] = 0 BY <4>1 DEF Met
        <5> QED BY <5>1
      <4>2. CASE <<w, r>> \notin late BY <1>10, <4>2
      <4> QED BY <4>1, <4>2
    <3>3. row[r].done => read[w][r] <= 1 BY <1>3 DEF Over
    <3>4. row'[r].dead => Holders(r)' = {} /\ ~row'[r].done
      BY <1>2, <2>2, <3>1, <3>2, <3>3
    <3>5. row'[r].done => \A v \in Holders(r)' : read'[v][r] <= 1 BY <1>8, <1>12
    <3> QED BY <3>4, <3>5 DEF Over
  <2>4. Young(r)'
    <3> SUFFICES ASSUME NEW v \in Holders(r)', <<v, r>> \notin late', read'[v][r] = 0
                 PROVE  /\ row'[r].attempts <= 1
                        /\ \A u \in Holders(r)' : u = v
      BY DEF Young
    <3>1. v \in Holders(r) /\ v # w /\ <<v, r>> \notin late /\ read[v][r] = 0 BY <1>8
    <3>2. row[r].attempts = 0 BY <1>3, <3>1 DEF Young
    <3>3. <<w, r>> \in late BY <1>10, <3>1
    <3>4. ASSUME NEW u \in Holders(r)', u # v PROVE FALSE
      <4>1. <<u, r>> \notin late BY <1>10, <3>3
      <4>2. u \in Holders(r) BY <1>8
      <4> QED BY <3>1, <3>4, <4>1, <4>2 DEF Met
    <3> QED BY <2>2, <3>2, <3>4
  <2> QED BY <1>11, <2>3, <2>4
<1> QED BY <1>13, <1>14

LEMMA SharedKept ==
    ASSUME TypeOK, Held, Shared, [Next]_vars
    PROVE  Shared'
<1> SUFFICES ASSUME table' = "event", NEW r \in Rows
             PROVE  Met(r)' /\ Young(r)' /\ Over(r)'
  BY DEF Shared
<1>1. /\ hand \in [Loops -> SUBSET Rows] /\ read \in [Loops -> [Rows -> Nat]]
      /\ row \in [Rows -> RowType] /\ row[r] \in RowType
  BY TypeParts
<1>2. table = "event"
  BY DEF Next, vars, Emit, Lapse, Drain, Claim, Try, Record, Die
<1>3. Met(r) /\ Young(r) /\ Over(r) BY <1>2 DEF Shared
<1>4. \A w \in Loops : <<w, r>> \in late => r \in hand[w] BY <1>3 DEF Met
<1>5. CASE UNCHANGED <<row, due, hand, read, late>> BY <1>3, <1>4, <1>5, FewerHold
<1>6. ASSUME NEW e \in Rows, Emit(e) PROVE Met(r)' /\ Young(r)' /\ Over(r)'
  <2>1. UNCHANGED <<hand, read, late>> BY <1>6 DEF Emit
  <2>2. CASE r = e
    <3>1. Holders(r)' = {} BY <1>6, <2>1, <2>2 DEF Emit, Held, Holders
    <3>2. \A w \in Loops : <<w, r>> \notin late' BY <1>4, <2>1, <3>1 DEF Holders
    <3>3. row'[r].done = row[r].done /\ row'[r].dead = row[r].dead
      BY <1>1, <1>6, <2>2 DEF Emit, RowType
    <3>4. Over(r)' BY <1>3, <3>1, <3>3 DEF Over
    <3>5. Met(r)' /\ Young(r)' BY <3>1, <3>2 DEF Met, Young
    <3> QED BY <3>4, <3>5
  <2>3. CASE r # e
    <3>1. row'[r] = row[r] BY <1>1, <1>6, <2>3 DEF Emit
    <3>2. r \in due' => r \in due BY <1>2, <1>6, <2>3 DEF Emit
    <3> QED BY <1>3, <1>4, <2>1, <3>1, <3>2, FewerHold
  <2> QED BY <2>2, <2>3
<1>7. ASSUME NEW e \in Rows, Lapse(e) PROVE Met(r)' /\ Young(r)' /\ Over(r)'
  <2>1. CASE r = e BY <1>2, <1>3, <1>7, <2>1, LapseMeets
  <2>2. CASE r # e
    <3>1. UNCHANGED <<row, hand, read>> /\ (r \in due' => r \in due)
      BY <1>7, <2>2 DEF Lapse
    <3>2. \A w \in Loops : <<w, r>> \in late' <=> <<w, r>> \in late
      BY <1>7, <2>2 DEF Lapse
    <3> QED BY <1>3, <1>4, <3>1, <3>2, FewerHold
  <2> QED BY <2>1, <2>2
<1>8. ASSUME NEW w \in Loops, Claim(w) PROVE Met(r)' /\ Young(r)' /\ Over(r)'
  <2>1. CASE r \in Taken BY <1>3, <1>8, <2>1, ClaimMeets
  <2>2. CASE r \notin Taken
    <3>1. UNCHANGED <<row, late>> /\ (r \in due' => r \in due) /\ hand[w] = {}
      BY <1>8 DEF Claim
    <3>2. \A v \in Loops \ {w} : hand'[v] = hand[v] /\ read'[v] = read[v]
      BY <1>1, <1>8 DEF Claim
    <3>3. r \notin hand'[w] BY <1>1, <1>8, <2>2 DEF Claim
    <3>4. \A v \in Loops : r \in hand'[v] => r \in hand[v] /\ read'[v][r] = read[v][r]
      BY <3>2, <3>3
    <3>5. \A v \in Loops : <<v, r>> \in late' => r \in hand'[v]
      BY <1>4, <3>1, <3>2
    <3> QED BY <1>3, <3>1, <3>4, <3>5, FewerHold
  <2> QED BY <2>1, <2>2
<1>9. ASSUME NEW w \in Loops, NEW e \in Rows, Record(w, e)
      PROVE  Met(r)' /\ Young(r)' /\ Over(r)'
  <2>1. CASE r = e BY <1>2, <1>3, <1>9, <2>1, RecordMeets
  <2>2. CASE r # e
    <3>1. row'[r] = row[r] /\ due' = due BY <1>1, <1>9, <2>2 DEF Record
    <3>2. \A v \in Loops : /\ r \in hand'[v] <=> r \in hand[v]
                           /\ read'[v][r] = read[v][r]
      BY <1>1, <1>9, <2>2 DEF Record
    <3>3. \A v \in Loops : <<v, r>> \in late' <=> <<v, r>> \in late
      BY <1>9, <2>2 DEF Record
    <3> QED BY <1>3, <1>4, <3>1, <3>2, <3>3, FewerHold
  <2> QED BY <2>1, <2>2
<1>10. ASSUME NEW w \in Loops, Die(w) PROVE Met(r)' /\ Young(r)' /\ Over(r)'
  <2>1. UNCHANGED <<row, due>> /\ hand'[w] = {} BY <1>1, <1>10 DEF Die
  <2>2. \A v \in Loops \ {w} : hand'[v] = hand[v] /\ read'[v] = read[v]
    BY <1>1, <1>10 DEF Die
  <2>3. \A v \in Loops : <<v, r>> \in late' <=> v # w /\ <<v, r>> \in late
    BY <1>10 DEF Die
  <2>4. \A v \in Loops : r \in hand'[v] =>
          v # w /\ r \in hand[v] /\ read'[v][r] = read[v][r]
    BY <2>1, <2>2
  <2>5. \A v \in Loops : <<v, r>> \in late' => r \in hand'[v] BY <1>4, <2>2, <2>3
  <2> QED BY <1>3, <2>1, <2>3, <2>4, <2>5, FewerHold
<1> QED BY <1>5, <1>6, <1>7, <1>8, <1>9, <1>10 DEF Next, Drain, Try, vars

-----------------------------------------------------------------------------
(* The invariant and what follows from it. *)

LEMMA InitHolds == Init => IndInv
<1> SUFFICES ASSUME Init PROVE IndInv OBVIOUS
<1>1. TypeOK BY OutboxAssumption DEF Init, TypeOK, Absent
<1>2. /\ \A r \in Rows : row[r] = Absent /\ tries[r] = 0 /\ Holders(r) = {}
      /\ \A w \in Loops : hand[w] = {} /\ told[w] = "nothing"
      /\ \A w \in Loops, r \in Rows : read[w][r] = 0
      /\ late = {} /\ due = {}
  BY DEF Init, Holders
<1>3. Held BY <1>2 DEF Held
<1>4. Tallied
  <2>1. \A r \in Rows : Pending(r) = {} BY <1>2 DEF Pending, AtHand
  <2>2. \A r \in Rows : Cardinality(Pending(r)) = 0 BY <2>1, FS_EmptySet
  <2> QED BY <1>2, <2>2 DEF Tallied, Tried, Absent
<1>5. Shared
  <2> SUFFICES ASSUME NEW r \in Rows PROVE Met(r) /\ Young(r) /\ Over(r)
    BY DEF Shared
  <2>1. Met(r) /\ Young(r) BY <1>2 DEF Met, Young
  <2>2. Over(r) BY <1>2 DEF Over, Absent
  <2> QED BY <2>1, <2>2
<1>6. Single
  <2>1. \A r \in Rows : row[r].attempts = 0 BY <1>2 DEF Absent
  <2>2. 0 < MaxAttempts BY OutboxAssumption
  <2> QED BY <1>2, <2>1, <2>2 DEF Single, Limited
<1> QED BY <1>1, <1>3, <1>4, <1>5, <1>6 DEF IndInv

LEMMA NextKeeps == IndInv /\ [Next]_vars => IndInv'
BY TypesKept, HeldKept, TalliedKept, SharedKept DEF IndInv

\* In every reachable state what was counted of a row were tries that failed, and
\* two loops hold an event only while its first claim lapses under one of them.
THEOREM OutboxInvariance == Spec => []IndInv
<1>1. Init => IndInv BY InitHolds
<1>2. IndInv /\ [Next]_vars => IndInv' BY NextKeeps
<1> QED BY <1>1, <1>2, PTL DEF Spec

\* TypeOK, and with it that a job counts no more tries than it may have
\* (drain_once of host.rs), however late a loop writes what it read.
THEOREM OutboxTypeCorrect == Spec => []TypeOK
<1>1. IndInv => TypeOK BY DEF IndInv
<1> QED BY <1>1, OutboxInvariance, PTL

\* GivenUp: what is dead was tried and refused as often as it may be, and an event
\* that its receiver took is never given up.
THEOREM GivenUpAlways == Spec => []GivenUp
<1>1. IndInv => GivenUp
  <2> SUFFICES ASSUME IndInv, NEW r \in Rows, row[r].dead
               PROVE  /\ tries[r] >= MaxAttempts
                      /\ table = "event" => ~row[r].done
    BY DEF GivenUp
  <2>1. tries[r] = MaxAttempts /\ MaxAttempts \in Nat
    BY OutboxAssumption DEF IndInv, Tallied
  <2>2. table = "event" => ~row[r].done BY DEF IndInv, Shared, Over
  <2> QED BY <2>1, <2>2
<1> QED BY <1>1, OutboxInvariance, PTL
=============================================================================

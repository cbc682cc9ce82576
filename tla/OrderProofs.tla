---------------------------- MODULE OrderProofs ----------------------------
(***************************************************************************)
(* Theorems about Order: for any number of lines, changes, transactions,   *)
(* returns, parcels and versions, parcels can be moved on, the newest      *)
(* version says what the returns say, and a change lands once.             *)
(*                                                                         *)
(* Steps are of three kinds: those that write a new version (WriteKeeps    *)
(* says what all of them have in common), those that move one parcel       *)
(* (CarriedMoves), and those that leave rows, returns and parcels alone.   *)
(***************************************************************************)
EXTENDS Order, SumsProofs

\* Whoever settles settles a change.
Known == \A s \in Staff : settling[s].op # "idle" => settling[s].change \in Changes

\* A parcel is packed from a version there is, and a later one has no rows.
Numbered ==
    /\ \A p \in Parcels : parcel[p].state # "none" => parcel[p].version <= version
    /\ \A v \in Versions, l \in Lines : v > version => item[v][l] = NoRow

\* A return takes in no more than was asked for, and breaks no more than that.
Bounded ==
    \A r \in Returns :
        /\ return[r].status = "none" => return[r].quantity = 0
        /\ return[r].received <= return[r].quantity
        /\ return[r].damaged <= return[r].received

\* What landed is marked as applied, and what is so marked was to be applied.
Marked ==
    \A c \in Changes :
        /\ landed[c] <= 1
        /\ landed[c] = 1 => change[c].applied
        /\ change[c].applied => change[c].act # NoAct

IndInv == TypeOK /\ Known /\ Numbered /\ Bounded /\ Marked /\ ParcelsMove /\ ReturnsCounted

\* The database's constraints, as TypeOK states them.
Row(row) ==
    /\ row.delivered <= row.shipped /\ row.shipped <= row.fulfilled
    /\ row.fulfilled <= row.quantity
    /\ row.dismissed <= row.received
    /\ row.requested <= row.quantity /\ row.received <= row.quantity
    /\ row.writtenOff <= row.quantity

ChangeType == [status : {"none", "requested", "confirmed", "declined"},
               act : Acts \cup {NoAct}, applied : BOOLEAN]
SettlingType == [op : {"idle", "confirm", "decline"},
                 change : Changes \cup {"none"}, from : 0 .. MaxVersion]
ReturnType == [status : {"none", "requested", "partially_received", "received"},
               line : Lines, quantity : Nat, received : Nat, damaged : Nat,
               located : BOOLEAN]
ParcelType == [state : {"none", "open", "shipped", "delivered", "canceled"},
               version : Versions, line : Lines, quantity : Nat]

\* TypeOK, part by part.
Items ==
    /\ item \in [Versions -> [Lines -> Counters]]
    /\ \A v \in Versions, l \in Lines : Row(item[v][l])
ChangesTyped == change \in [Changes -> ChangeType] /\ settling \in [Staff -> SettlingType]
         /\ landed \in [Changes -> Nat] /\ dropped \subseteq Lines

\* TypeOK is the sum of its parts.
LEMMA TypeParts ==
    TypeOK <=> /\ status \in {"open", "canceled", "archived"}
               /\ version \in Versions
               /\ Items /\ ChangesTyped
               /\ return \in [Returns -> ReturnType] /\ shelf \in [Lines -> Nat]
               /\ parcel \in [Parcels -> ParcelType]
BY DEF TypeOK, Items, ChangesTyped, Row, ChangeType, SettlingType, ReturnType, ParcelType

-----------------------------------------------------------------------------
(* Parcels and their sums. *)

\* How many parcels, returns and versions there may be.
LEMMA Bounds ==
    /\ MaxParcels \in Nat /\ Parcels = 1 .. MaxParcels
    /\ MaxReturns \in Nat /\ Returns = 1 .. MaxReturns
    /\ MaxVersion \in Nat \ {0} /\ Versions = 1 .. MaxVersion
    /\ Quantities \subseteq Nat \ {0} /\ Packs \subseteq Nat \ {0}
BY OrderAssumption DEF Parcels, Returns, Versions

\* What happens to one parcel, or one return, happens to the sum (SumMoves).
LEMMA ParcelsSum ==
    ASSUME NEW f \in [Parcels -> Int], NEW g \in [Parcels -> Int], NEW p \in Parcels,
           \A k \in Parcels \ {p} : g[k] = f[k]
    PROVE  Sum(g, MaxParcels) = Sum(f, MaxParcels) + g[p] - f[p]
<1>1. MaxParcels \in Nat /\ Parcels = 1 .. MaxParcels BY Bounds
<1> QED BY <1>1, SumMoves

\* See ParcelsSum.
LEMMA ReturnsSum ==
    ASSUME NEW f \in [Returns -> Int], NEW g \in [Returns -> Int], NEW r \in Returns,
           \A k \in Returns \ {r} : g[k] = f[k]
    PROVE  Sum(g, MaxReturns) = Sum(f, MaxReturns) + g[r] - f[r]
<1>1. MaxReturns \in Nat /\ Returns = 1 .. MaxReturns BY Bounds
<1> QED BY <1>1, SumMoves

\* There is a line.
LEMMA SomeLineIs == SomeLine \in Lines
BY OrderAssumption DEF SomeLine

\* What is carried is a whole number.
LEMMA CarriedType ==
    ASSUME NEW boxes \in [Parcels -> ParcelType]
    PROVE  \A state, v, l :
             Sum([p \in Parcels |-> Aboard(boxes[p], state, v, l)], MaxParcels) \in Nat
<1> TAKE state, v, l
<1> DEFINE f == [p \in Parcels |-> Aboard(boxes[p], state, v, l)]
<1>1. f \in [Parcels -> Int] /\ \A p \in Parcels : f[p] >= 0
  BY DEF Aboard, ParcelType
<1> HIDE DEF f
<1>2. Sum(f, MaxParcels) \in Int /\ Sum(f, MaxParcels) >= 0
  BY <1>1, Bounds, SumType
<1> QED BY <1>2 DEF f

\* What becomes of one parcel becomes of what is carried.
LEMMA CarriedMoves ==
    ASSUME parcel \in [Parcels -> ParcelType], NEW p \in Parcels,
           NEW box \in ParcelType, parcel' = [parcel EXCEPT ![p] = box]
    PROVE  \A state, v, l :
             Carried(state, v, l)' = Carried(state, v, l)
                + Aboard(box, state, v, l) - Aboard(parcel[p], state, v, l)
<1> TAKE state, v, l
<1> DEFINE f == [k \in Parcels |-> Aboard(parcel[k], state, v, l)]
           g == [k \in Parcels |-> Aboard(parcel'[k], state, v, l)]
<1>1. parcel' \in [Parcels -> ParcelType] OBVIOUS
<1>2. f \in [Parcels -> Int] /\ g \in [Parcels -> Int]
  BY <1>1 DEF Aboard, ParcelType
<1>3. \A k \in Parcels \ {p} : g[k] = f[k] OBVIOUS
<1>4. f[p] = Aboard(parcel[p], state, v, l) /\ g[p] = Aboard(box, state, v, l)
  OBVIOUS
<1>5. Carried(state, v, l) = Sum(f, MaxParcels)
      /\ Carried(state, v, l)' = Sum(g, MaxParcels)
  BY DEF Carried
<1> HIDE DEF f, g
<1>6. Sum(g, MaxParcels) = Sum(f, MaxParcels) + g[p] - f[p]
  BY <1>2, <1>3, ParcelsSum
<1> QED BY <1>4, <1>5, <1>6

\* Nothing is carried of a version no parcel was packed from.
LEMMA NothingCarried ==
    ASSUME NEW boxes \in [Parcels -> ParcelType], NEW v, NEW state,
           \A p \in Parcels : boxes[p].state = state => boxes[p].version # v
    PROVE  \A l : Sum([p \in Parcels |-> Aboard(boxes[p], state, v, l)], MaxParcels) = 0
<1> TAKE l
<1> DEFINE f == [p \in Parcels |-> Aboard(boxes[p], state, v, l)]
<1>1. f \in [Parcels -> Int] /\ \A p \in Parcels : f[p] = 0 BY DEF Aboard
<1> HIDE DEF f
<1>2. Sum(f, MaxParcels) = 0 BY <1>1, Bounds, SumZero
<1> QED BY <1>2 DEF f

\* Whoever leaves parcels alone leaves what is carried alone.
LEMMA CarriedStays ==
    ASSUME UNCHANGED parcel
    PROVE  \A state, v, l : Carried(state, v, l)' = Carried(state, v, l)
BY DEF Carried

-----------------------------------------------------------------------------
(* Returns and their sums. *)

\* What becomes of one return becomes of what all returns say.
LEMMA ReturnsMove ==
    ASSUME return \in [Returns -> ReturnType], NEW r \in Returns,
           NEW row \in ReturnType, return' = [return EXCEPT ![r] = row]
    PROVE  \A l :
             /\ Asked(l)' = Asked(l) + AskedIn(r, l)' - AskedIn(r, l)
             /\ CameBack(l)' = CameBack(l) + CameIn(r, l)' - CameIn(r, l)
             /\ Sellable(l)' = Sellable(l) + SoundIn(r, l)' - SoundIn(r, l)
<1> TAKE l
<1>1. return' \in [Returns -> ReturnType] OBVIOUS
<1>2. \A k \in Returns \ {r} : return'[k] = return[k] OBVIOUS
<1>3. Asked(l)' = Asked(l) + AskedIn(r, l)' - AskedIn(r, l)
  <2> DEFINE f == [k \in Returns |-> AskedIn(k, l)]
             g == [k \in Returns |-> AskedIn(k, l)']
  <2>1. f \in [Returns -> Int] /\ g \in [Returns -> Int]
    BY <1>1 DEF AskedIn, ReturnType
  <2>2. \A k \in Returns \ {r} : g[k] = f[k] BY <1>2 DEF AskedIn
  <2>3. f[r] = AskedIn(r, l) /\ g[r] = AskedIn(r, l)' OBVIOUS
  <2>4. Asked(l) = Sum(f, MaxReturns) /\ Asked(l)' = Sum(g, MaxReturns) BY DEF Asked
  <2> HIDE DEF f, g
  <2>5. Sum(g, MaxReturns) = Sum(f, MaxReturns) + g[r] - f[r]
    BY <2>1, <2>2, ReturnsSum
  <2> QED BY <2>3, <2>4, <2>5
<1>4. CameBack(l)' = CameBack(l) + CameIn(r, l)' - CameIn(r, l)
  <2> DEFINE f == [k \in Returns |-> CameIn(k, l)]
             g == [k \in Returns |-> CameIn(k, l)']
  <2>1. f \in [Returns -> Int] /\ g \in [Returns -> Int]
    BY <1>1 DEF CameIn, ReturnType
  <2>2. \A k \in Returns \ {r} : g[k] = f[k] BY <1>2 DEF CameIn
  <2>3. f[r] = CameIn(r, l) /\ g[r] = CameIn(r, l)' OBVIOUS
  <2>4. CameBack(l) = Sum(f, MaxReturns) /\ CameBack(l)' = Sum(g, MaxReturns)
    BY DEF CameBack
  <2> HIDE DEF f, g
  <2>5. Sum(g, MaxReturns) = Sum(f, MaxReturns) + g[r] - f[r]
    BY <2>1, <2>2, ReturnsSum
  <2> QED BY <2>3, <2>4, <2>5
<1>5. Sellable(l)' = Sellable(l) + SoundIn(r, l)' - SoundIn(r, l)
  <2> DEFINE f == [k \in Returns |-> SoundIn(k, l)]
             g == [k \in Returns |-> SoundIn(k, l)']
  <2>1. f \in [Returns -> Int] /\ g \in [Returns -> Int]
    BY <1>1 DEF SoundIn, ReturnType
  <2>2. \A k \in Returns \ {r} : g[k] = f[k] BY <1>2 DEF SoundIn
  <2>3. f[r] = SoundIn(r, l) /\ g[r] = SoundIn(r, l)' OBVIOUS
  <2>4. Sellable(l) = Sum(f, MaxReturns) /\ Sellable(l)' = Sum(g, MaxReturns)
    BY DEF Sellable
  <2> HIDE DEF f, g
  <2>5. Sum(g, MaxReturns) = Sum(f, MaxReturns) + g[r] - f[r]
    BY <2>1, <2>2, ReturnsSum
  <2> QED BY <2>3, <2>4, <2>5
<1> QED BY <1>3, <1>4, <1>5

\* Sums of returns are whole numbers; what came back was asked for, and what of
\* one return is still to come is part of what all have to come.
LEMMA ReturnsAddUp ==
    ASSUME return \in [Returns -> ReturnType], Bounded
    PROVE  \A l :
             /\ Asked(l) \in Int /\ CameBack(l) \in Int /\ Sellable(l) \in Int
             /\ 0 <= CameBack(l) /\ CameBack(l) <= Asked(l)
             /\ \A r \in Returns :
                  CameBack(l) + AskedIn(r, l) - CameIn(r, l) <= Asked(l)
<1> TAKE l
<1> DEFINE f == [r \in Returns |-> CameIn(r, l)]
           g == [r \in Returns |-> AskedIn(r, l)]
           h == [r \in Returns |-> SoundIn(r, l)]
<1>1. /\ f \in [Returns -> Int] /\ g \in [Returns -> Int] /\ h \in [Returns -> Int]
      /\ \A r \in Returns : f[r] >= 0 /\ f[r] <= g[r]
  BY DEF CameIn, AskedIn, SoundIn, ReturnType, Bounded
<1>2. /\ CameBack(l) = Sum(f, MaxReturns) /\ Asked(l) = Sum(g, MaxReturns)
      /\ Sellable(l) = Sum(h, MaxReturns)
  BY DEF CameBack, Asked, Sellable
<1>3. \A r \in Returns : f[r] = CameIn(r, l) /\ g[r] = AskedIn(r, l) OBVIOUS
<1> HIDE DEF f, g, h
<1>4. Sum(f, MaxReturns) >= 0 /\ Sum(f, MaxReturns) <= Sum(g, MaxReturns)
  BY <1>1, Bounds, SumType, SumLeq
<1>5. \A r \in Returns : Sum(f, MaxReturns) + g[r] - f[r] <= Sum(g, MaxReturns)
  BY <1>1, Bounds, SumGap
<1>6. Sum(f, MaxReturns) \in Int /\ Sum(g, MaxReturns) \in Int /\ Sum(h, MaxReturns) \in Int
  BY <1>1, Bounds, SumType
<1> QED BY <1>2, <1>3, <1>4, <1>5, <1>6

\* Whoever leaves returns alone leaves what they say alone.
LEMMA ReturnsStay ==
    ASSUME UNCHANGED return
    PROVE  \A l : Asked(l)' = Asked(l) /\ CameBack(l)' = CameBack(l)
                  /\ Sellable(l)' = Sellable(l)
BY DEF Asked, CameBack, Sellable, AskedIn, CameIn, SoundIn

-----------------------------------------------------------------------------
(* A new version. *)

\* A step that writes a version leaves those before as they were, lets every
\* parcel move on, and makes the rows it writes the newest.
LEMMA WriteKeeps ==
    ASSUME IndInv, NEW rows \in [Lines -> Counters], Write(rows), UNCHANGED parcel
    PROVE  /\ version' \in Versions /\ item'[version'] = rows
           /\ Items' /\ Numbered' /\ ParcelsMove'
<1>1. /\ version \in Versions /\ Items /\ parcel \in [Parcels -> ParcelType]
      /\ Numbered /\ ParcelsMove
  BY TypeParts DEF IndInv
<1>2. /\ version' = version + 1 /\ version' \in Versions
      /\ item' = [item EXCEPT ![version'] = rows]
      /\ \A l \in Lines : Legal(rows[l])
  BY <1>1, Bounds DEF Write
<1>3. item'[version'] = rows /\ \A v \in Versions \ {version'} : item'[v] = item[v]
  BY <1>1, <1>2 DEF Items
<1>4. Items'
  <2>1. item' \in [Versions -> [Lines -> Counters]] BY <1>1, <1>2 DEF Items
  <2>2. \A v \in Versions, l \in Lines : Row(item'[v][l])
    BY <1>1, <1>2, <1>3 DEF Items, Row, Legal
  <2> QED BY <2>1, <2>2 DEF Items, Row
<1>5. Numbered'
  <2>1. \A p \in Parcels : parcel'[p].state # "none" => parcel'[p].version <= version'
    BY <1>1, <1>2, Bounds DEF Numbered, ParcelType
  <2>2. \A v \in Versions, l \in Lines : v > version' => item'[v][l] = NoRow
    BY <1>1, <1>2, <1>3, Bounds DEF Numbered
  <2> QED BY <2>1, <2>2 DEF Numbered
<1>6. ParcelsMove'
  <2> SUFFICES ASSUME NEW v \in Versions, NEW l \in Lines
               PROVE  /\ item'[v][l].shipped + Carried("open", v, l)'
                            <= item'[v][l].fulfilled
                      /\ item'[v][l].delivered + Carried("shipped", v, l)'
                            <= item'[v][l].shipped
    BY DEF ParcelsMove
  <2>1. /\ Carried("open", v, l)' = Carried("open", v, l)
        /\ Carried("shipped", v, l)' = Carried("shipped", v, l)
    BY CarriedStays
  <2>2. CASE v # version' BY <1>1, <1>3, <2>1, <2>2 DEF ParcelsMove
  <2>3. CASE v = version'
    <3>1. \A p \in Parcels : /\ parcel[p].state = "open" => parcel[p].version # v
                             /\ parcel[p].state = "shipped" => parcel[p].version # v
      BY <1>1, <1>2, <2>3, Bounds DEF Numbered
    <3>2. Carried("open", v, l) = 0 /\ Carried("shipped", v, l) = 0
      BY <1>1, <3>1, NothingCarried DEF Carried
    <3>3. Row(item'[v][l]) /\ item'[v][l] \in Counters
      BY <1>2, <1>3, <2>3 DEF Row, Legal
    <3> QED BY <2>1, <3>2, <3>3 DEF Row, Counters
  <2> QED BY <2>2, <2>3
<1> QED BY <1>2, <1>3, <1>4, <1>5, <1>6

\* What an action writes are rows, and but for the line it removes they say of
\* returns what they said.
LEMMA AppliedRows ==
    ASSUME NEW rows \in [Lines -> Counters], NEW act \in Acts \cup {NoAct}
    PROVE  /\ Applied(rows, act) \in [Lines -> Counters]
           /\ \A l \in Lines :
                \/ /\ act.kind = "remove" /\ l = act.line
                   /\ Applied(rows, act)[l] = NoRow
                \/ /\ Applied(rows, act)[l].requested = rows[l].requested
                   /\ Applied(rows, act)[l].received = rows[l].received
<1>0. NoRow \in Counters BY DEF NoRow, Counters
<1>1. CASE act.kind = "add"
  <2>1. act.line \in Lines /\ act.quantity \in Nat
    <3>1. act \in [kind : {"add", "update"}, line : Lines, quantity : Quantities]
      BY <1>1 DEF Acts, NoAct
    <3>2. Quantities \subseteq Nat BY Bounds
    <3> QED BY <3>1, <3>2
  <2>2. Applied(rows, act) = ItemAdd(rows, act.line, act.quantity)
    BY <1>1 DEF Applied
  <2> QED BY <1>1, <2>1, <2>2 DEF ItemAdd, Counters
<1>2. CASE act.kind = "update"
  <2>1. act.line \in Lines /\ act.quantity \in Nat
    <3>1. act \in [kind : {"add", "update"}, line : Lines, quantity : Quantities]
      BY <1>2 DEF Acts, NoAct
    <3>2. Quantities \subseteq Nat BY Bounds
    <3> QED BY <3>1, <3>2
  <2>2. Applied(rows, act) = ItemUpdate(rows, act.line, act.quantity)
    BY <1>2 DEF Applied
  <2> QED BY <1>2, <2>1, <2>2 DEF ItemUpdate, Counters
<1>3. CASE act.kind = "remove"
  <2>1. act.line \in Lines BY <1>3 DEF Acts, NoAct
  <2>2. Applied(rows, act) = ItemRemove(rows, act.line) BY <1>3 DEF Applied
  <2> QED BY <1>0, <1>3, <2>1, <2>2 DEF ItemRemove
<1>4. CASE act.kind \notin {"add", "update", "remove"}
  BY <1>4 DEF Applied
<1> QED BY <1>1, <1>2, <1>3, <1>4

\* What one more asked for, taken in or sent back makes of the rows.
LEMMA RowKinds ==
    ASSUME NEW rows \in [Lines -> Counters], NEW l \in Lines, NEW q \in Nat
    PROVE  /\ ItemAdd(rows, l, q) \in [Lines -> Counters]
           /\ ReturnItem(rows, l, q) \in [Lines -> Counters]
           /\ ReceiveItem(rows, l, q) \in [Lines -> Counters]
           /\ DismissItem(rows, l, q) \in [Lines -> Counters]
           /\ WriteOff(rows, l, q) \in [Lines -> Counters]
           /\ \A k \in Lines :
                /\ ItemAdd(rows, l, q)[k].requested = rows[k].requested
                /\ ItemAdd(rows, l, q)[k].received = rows[k].received
                /\ ReturnItem(rows, l, q)[k].requested
                     = rows[k].requested + (IF k = l THEN q ELSE 0)
                /\ ReturnItem(rows, l, q)[k].received = rows[k].received
                /\ ReceiveItem(rows, l, q)[k].requested = rows[k].requested
                /\ ReceiveItem(rows, l, q)[k].received
                     = rows[k].received + (IF k = l THEN q ELSE 0)
                /\ DismissItem(rows, l, q)[k].requested = rows[k].requested
                /\ DismissItem(rows, l, q)[k].received = rows[k].received
                /\ WriteOff(rows, l, q)[k].requested = rows[k].requested
                /\ WriteOff(rows, l, q)[k].received = rows[k].received
<1>1. ItemAdd(rows, l, q) \in [Lines -> Counters] BY DEF ItemAdd, Counters
<1>2. ReturnItem(rows, l, q) \in [Lines -> Counters] BY DEF ReturnItem, Counters
<1>3. ReceiveItem(rows, l, q) \in [Lines -> Counters] BY DEF ReceiveItem, Counters
<1>4. DismissItem(rows, l, q) \in [Lines -> Counters] BY DEF DismissItem, Counters
<1>5. WriteOff(rows, l, q) \in [Lines -> Counters] BY DEF WriteOff, Counters
<1>6. ASSUME NEW k \in Lines
      PROVE  /\ ItemAdd(rows, l, q)[k].requested = rows[k].requested
             /\ ItemAdd(rows, l, q)[k].received = rows[k].received
             /\ DismissItem(rows, l, q)[k].requested = rows[k].requested
             /\ DismissItem(rows, l, q)[k].received = rows[k].received
             /\ WriteOff(rows, l, q)[k].requested = rows[k].requested
             /\ WriteOff(rows, l, q)[k].received = rows[k].received
  BY DEF ItemAdd, DismissItem, WriteOff, Counters
<1>7. ASSUME NEW k \in Lines
      PROVE  /\ ReturnItem(rows, l, q)[k].requested
                  = rows[k].requested + (IF k = l THEN q ELSE 0)
             /\ ReturnItem(rows, l, q)[k].received = rows[k].received
             /\ ReceiveItem(rows, l, q)[k].requested = rows[k].requested
             /\ ReceiveItem(rows, l, q)[k].received
                  = rows[k].received + (IF k = l THEN q ELSE 0)
  BY DEF ReturnItem, ReceiveItem, Counters
<1> QED BY <1>1, <1>2, <1>3, <1>4, <1>5, <1>6, <1>7

-----------------------------------------------------------------------------
(* Steps that leave rows, returns and parcels alone. *)

Still == UNCHANGED <<version, item, returns, parcel, dropped>>

\* Such a step keeps all that is said of them.
LEMMA StillKeeps ==
    ASSUME IndInv, Still
    PROVE  /\ version' \in Versions /\ Items' /\ return' \in [Returns -> ReturnType]
           /\ shelf' \in [Lines -> Nat] /\ parcel' \in [Parcels -> ParcelType]
           /\ Numbered' /\ Bounded' /\ ParcelsMove' /\ ReturnsCounted'
<1>1. /\ version \in Versions /\ Items /\ return \in [Returns -> ReturnType]
      /\ shelf \in [Lines -> Nat] /\ parcel \in [Parcels -> ParcelType]
      /\ Numbered /\ Bounded /\ ParcelsMove /\ ReturnsCounted
  BY TypeParts DEF IndInv
<1>2. UNCHANGED <<version, item, return, shelf, parcel, dropped>> BY DEF Still, returns
<1>3. Items' /\ Numbered' /\ Bounded' BY <1>1, <1>2 DEF Items, Row, Numbered, Bounded
<1>4. ParcelsMove' BY <1>1, <1>2, CarriedStays DEF ParcelsMove
<1>5. ReturnsCounted' BY <1>1, <1>2, ReturnsStay DEF ReturnsCounted
<1> QED BY <1>1, <1>2, <1>3, <1>4, <1>5

\* Opening a change, putting an action on it, reading, declining, giving up and
\* closing the order are such steps.
LEMMA StillSteps ==
    ASSUME IndInv, NEW s, NEW c,
           \/ RequestChange(c) \/ AddAction(c) \/ Archive
           \/ s \in Staff /\ c \in Changes /\ ReadChange(s, c)
           \/ s \in Staff /\ (DeclineChange(s) \/ ReadOrder(s) \/ SettleRefused(s))
    PROVE  IndInv'
<1>1. Still
  BY DEF Still, returns, RequestChange, AddAction, ReadChange, DeclineChange, ReadOrder,
         SettleRefused, Archive
<1>2. /\ status \in {"open", "canceled", "archived"} /\ version \in Versions
      /\ ChangesTyped /\ Known /\ Marked
  BY TypeParts DEF IndInv
<1>3. status' \in {"open", "canceled", "archived"}
  BY <1>2 DEF RequestChange, AddAction, ReadChange, DeclineChange, ReadOrder,
              SettleRefused, Archive
<1>4. landed' = landed /\ dropped' = dropped
  BY DEF RequestChange, AddAction, ReadChange, DeclineChange, ReadOrder,
         SettleRefused, Archive
<1>5. /\ change' \in [Changes -> ChangeType]
      /\ \A k \in Changes : /\ change'[k].applied = change[k].applied
                            /\ change[k].act # NoAct => change'[k].act # NoAct
  <2>0. change \in [Changes -> ChangeType] BY <1>2 DEF ChangesTyped
  <2>1. CASE RequestChange(c) BY <2>0, <2>1 DEF RequestChange, ChangeType
  <2>2. CASE AddAction(c)
    <3>1. PICK act \in Acts : change' = [change EXCEPT ![c].act = act]
      BY <2>2 DEF AddAction
    <3>2. change[c].act = NoAct BY <2>2 DEF AddAction
    <3>3. change' \in [Changes -> ChangeType] BY <2>0, <3>1 DEF ChangeType
    <3>4. \A k \in Changes : change'[k].applied = change[k].applied
      BY <2>0, <3>1 DEF ChangeType
    <3>5. \A k \in Changes : k # c => change'[k] = change[k] BY <2>0, <3>1
    <3> QED BY <3>2, <3>3, <3>4, <3>5
  <2>3. CASE DeclineChange(s)
    <3>1. change' = [change EXCEPT ![settling[s].change].status = "declined"]
      BY <2>3 DEF DeclineChange
    <3> QED BY <2>0, <3>1 DEF ChangeType
  <2>4. CASE ReadChange(s, c) \/ ReadOrder(s) \/ SettleRefused(s) \/ Archive
    BY <1>2, <2>4 DEF ReadChange, ReadOrder, SettleRefused, Archive, ChangesTyped
  <2> QED BY <2>1, <2>2, <2>3, <2>4
<1>6. settling' \in [Staff -> SettlingType] /\ Known'
  <2>1. settling \in [Staff -> SettlingType] BY <1>2 DEF ChangesTyped
  <2>2. CASE s \in Staff /\ c \in Changes /\ ReadChange(s, c)
    <3>1. PICK op \in {"confirm", "decline"} :
            settling' = [settling EXCEPT ![s] = [op |-> op, change |-> c, from |-> 0]]
      BY <2>2 DEF ReadChange
    <3>2. 0 \in 0 .. MaxVersion BY Bounds
    <3> QED BY <1>2, <2>1, <2>2, <3>1, <3>2 DEF SettlingType, Known
  <2>3. CASE DeclineChange(s) \/ SettleRefused(s)
    <3>1. settling' = [settling EXCEPT ![s] = Idle]
      BY <2>3 DEF DeclineChange, SettleRefused, Rest
    <3>2. 0 \in 0 .. MaxVersion BY Bounds
    <3>3. Idle \in SettlingType /\ Idle.op = "idle" BY <3>2 DEF Idle, SettlingType
    <3> QED BY <1>2, <2>1, <3>1, <3>3 DEF Known
  <2>4. CASE s \in Staff /\ ReadOrder(s)
    <3>1. settling' = [settling EXCEPT ![s].from = version] /\ version \in 0 .. MaxVersion
      BY <1>2, <2>4, Bounds DEF ReadOrder
    <3> QED BY <1>2, <2>1, <3>1 DEF SettlingType, Known
  <2>5. CASE RequestChange(c) \/ AddAction(c) \/ Archive
    BY <1>2, <2>1, <2>5 DEF RequestChange, AddAction, Archive, Known
  <2> QED BY <2>2, <2>3, <2>4, <2>5
<1>7. ChangesTyped' /\ Marked' BY <1>2, <1>4, <1>5, <1>6 DEF ChangesTyped, Marked
<1>8. TypeOK' 
  BY <1>1, <1>3, <1>7, StillKeeps DEF TypeOK, Items, ChangesTyped, Row, ChangeType,
     SettlingType, ReturnType, ParcelType
<1> QED BY <1>1, <1>6, <1>7, <1>8, StillKeeps DEF IndInv

-----------------------------------------------------------------------------
(* Steps that write a version. *)

\* An action of a change keeps the invariant: it lands once, and the line it
\* removes is the only one whose rows and returns may differ.
LEMMA ConfirmKeeps ==
    ASSUME IndInv, NEW s \in Staff, ConfirmChange(s)
    PROVE  IndInv'
<1> DEFINE c   == settling[s].change
           act == IF ToApply(c) THEN change[c].act ELSE NoAct
           rows == Applied(item[version], act)
<1>1. /\ status \in {"open", "canceled", "archived"} /\ version \in Versions
      /\ Items /\ ChangesTyped /\ Known /\ Bounded /\ Marked /\ ReturnsCounted
      /\ return \in [Returns -> ReturnType] /\ shelf \in [Lines -> Nat]
      /\ parcel \in [Parcels -> ParcelType]
  BY TypeParts DEF IndInv
<1>2. c \in Changes BY <1>1 DEF Known, ConfirmChange, Settles
<1>3. act \in Acts \cup {NoAct} BY <1>1, <1>2 DEF ChangesTyped, ChangeType
<1>4. /\ Write(rows)
      /\ change' = [change EXCEPT ![c].status = "confirmed",
                                  ![c].applied = change[c].act # NoAct]
      /\ landed' = [landed EXCEPT ![c] = IF act = NoAct THEN @ ELSE @ + 1]
      /\ dropped' = IF act.kind = "remove" /\ item[version][act.line].requested > 0
                    THEN dropped \cup {act.line} ELSE dropped
      /\ settling' = [settling EXCEPT ![s] = Idle]
      /\ UNCHANGED <<status, return, shelf, parcel>>
  BY DEF ConfirmChange, Rest, returns
<1>5. item[version] \in [Lines -> Counters] BY <1>1 DEF Items
<1>6. /\ rows \in [Lines -> Counters]
      /\ \A l \in Lines :
           \/ act.kind = "remove" /\ l = act.line /\ rows[l] = NoRow
           \/ /\ rows[l].requested = item[version][l].requested
              /\ rows[l].received = item[version][l].received
  BY <1>3, <1>5, AppliedRows
<1>7. act.kind = "remove" => act.line \in Lines BY <1>3 DEF Acts, NoAct
<1>8. act # NoAct => act = change[c].act /\ ~change[c].applied
  BY DEF ToApply
<1>9. ChangesTyped' /\ Known' /\ Marked'
  <2>1. 0 \in 0 .. MaxVersion BY Bounds
  <2>2. Idle \in SettlingType /\ Idle.op = "idle" BY <2>1 DEF Idle, SettlingType
  <2>3. settling' \in [Staff -> SettlingType] /\ Known'
    BY <1>1, <1>4, <2>2 DEF ChangesTyped, Known
  <2>4. /\ change' \in [Changes -> ChangeType]
        /\ change'[c].applied <=> change[c].act # NoAct
        /\ change'[c].act = change[c].act
        /\ \A k \in Changes \ {c} : change'[k] = change[k]
    <3>1. change \in [Changes -> ChangeType] BY <1>1 DEF ChangesTyped
    <3> DEFINE done == [change[c] EXCEPT !.status = "confirmed",
                                         !.applied = change[c].act # NoAct]
    <3>2. change' = [change EXCEPT ![c] = done] BY <1>2, <1>4, <3>1
    <3>3. /\ done \in ChangeType /\ done.act = change[c].act
          /\ done.applied <=> change[c].act # NoAct
      <4>1. ASSUME NEW old \in ChangeType, NEW b \in BOOLEAN
            PROVE  LET new == [old EXCEPT !.status = "confirmed", !.applied = b]
                   IN  new \in ChangeType /\ new.act = old.act /\ new.applied = b
        BY DEF ChangeType
      <4>2. change[c] \in ChangeType BY <1>2, <3>1
      <4>3. CASE change[c].act = NoAct
        <5>1. done = [change[c] EXCEPT !.status = "confirmed", !.applied = FALSE]
          BY <4>3
        <5> HIDE DEF done
        <5> QED BY <4>1, <4>2, <4>3, <5>1
      <4>4. CASE change[c].act # NoAct
        <5>1. done = [change[c] EXCEPT !.status = "confirmed", !.applied = TRUE]
          BY <4>4
        <5> HIDE DEF done
        <5> QED BY <4>1, <4>2, <4>4, <5>1
      <4> QED BY <4>3, <4>4
    <3> HIDE DEF done, c
    <3> QED BY <1>2, <3>1, <3>2, <3>3
  <2>5. /\ landed' \in [Changes -> Nat] /\ \A k \in Changes \ {c} : landed'[k] = landed[k]
        /\ landed'[c] = IF act = NoAct THEN landed[c] ELSE landed[c] + 1
    <3>1. landed \in [Changes -> Nat] BY <1>1 DEF ChangesTyped
    <3> HIDE DEF c, act
    <3> QED BY <1>2, <1>4, <3>1
  <2>6. landed'[c] <= 1 /\ (landed'[c] = 1 => change'[c].applied)
        /\ (change'[c].applied => change'[c].act # NoAct)
    <3>1. CASE act = NoAct
      <4>1. landed'[c] = landed[c] BY <2>5, <3>1
      <4> QED BY <1>1, <1>2, <2>4, <4>1 DEF Marked
    <3>2. CASE act # NoAct
      <4>1. landed[c] = 0
        <5>1. ~change[c].applied BY <1>8, <3>2
        <5>2. landed[c] \in Nat /\ landed[c] <= 1 /\ landed[c] # 1
          BY <1>1, <1>2, <5>1 DEF Marked, ChangesTyped
        <5> QED BY <5>2
      <4>2. landed'[c] = 1 BY <2>5, <3>2, <4>1
      <4>3. change[c].act # NoAct BY <1>8, <3>2
      <4> QED BY <2>4, <4>2, <4>3
    <3> QED BY <3>1, <3>2
  <2>7. Marked' BY <1>1, <2>4, <2>5, <2>6 DEF Marked
  <2>8. dropped' \subseteq Lines BY <1>1, <1>4, <1>7 DEF ChangesTyped
  <2> HIDE DEF c, act
  <2> QED BY <2>3, <2>4, <2>5, <2>7, <2>8 DEF ChangesTyped
<1> HIDE DEF rows, act, c
<1>10. /\ version' \in Versions /\ item'[version'] = rows
       /\ Items' /\ Numbered' /\ ParcelsMove'
  BY <1>4, <1>6, WriteKeeps
<1>11. ReturnsCounted'
  <2> SUFFICES ASSUME NEW l \in Lines
               PROVE  /\ shelf'[l] = Sellable(l)'
                      /\ l \notin dropped' =>
                           /\ item'[version'][l].requested = Asked(l)'
                           /\ item'[version'][l].received = CameBack(l)'
    BY DEF ReturnsCounted
  <2>1. Asked(l)' = Asked(l) /\ CameBack(l)' = CameBack(l) /\ Sellable(l)' = Sellable(l)
    BY <1>4, ReturnsStay
  <2>2. ASSUME l \notin dropped'
        PROVE  rows[l].requested = Asked(l) /\ rows[l].received = CameBack(l)
    <3>1. l \notin dropped BY <1>4, <2>2
    <3>2. item[version][l].requested = Asked(l) /\ item[version][l].received = CameBack(l)
      BY <1>1, <3>1 DEF ReturnsCounted
    <3>3. CASE act.kind = "remove" /\ l = act.line /\ rows[l] = NoRow
      <4>1. ~(item[version][l].requested > 0) /\ item[version][l].requested \in Nat
        BY <1>4, <1>5, <2>2, <3>3 DEF Counters
      <4>2. item[version][l].requested = 0 BY <4>1
      <4>3. CameBack(l) \in Int /\ 0 <= CameBack(l) /\ CameBack(l) <= Asked(l)
        BY <1>1, ReturnsAddUp
      <4>4. Asked(l) = 0 /\ CameBack(l) = 0 BY <3>2, <4>2, <4>3
      <4> QED BY <3>3, <4>4 DEF NoRow
    <3> QED BY <1>6, <3>2, <3>3
  <2> QED BY <1>1, <1>4, <1>10, <2>1, <2>2 DEF ReturnsCounted
<1>12. Bounded' BY <1>1, <1>4 DEF Bounded
<1>13. TypeOK'
  BY <1>1, <1>4, <1>9, <1>10 DEF TypeOK, Items, ChangesTyped, Row, ChangeType,
     SettlingType, ReturnType, ParcelType
<1> QED BY <1>9, <1>10, <1>11, <1>12, <1>13 DEF IndInv

\* Whoever writes rows that say what the returns will say keeps the invariant.
LEMMA WriteSays ==
    ASSUME IndInv, NEW rows \in [Lines -> Counters], Write(rows),
           UNCHANGED <<status, change, settling, parcel, landed, dropped>>,
           return' \in [Returns -> ReturnType], shelf' \in [Lines -> Nat], Bounded',
           \A l \in Lines :
              /\ shelf'[l] = Sellable(l)'
              /\ l \notin dropped => /\ rows[l].requested = Asked(l)'
                                     /\ rows[l].received = CameBack(l)'
    PROVE  IndInv'
<1>1. /\ version' \in Versions /\ item'[version'] = rows
      /\ Items' /\ Numbered' /\ ParcelsMove'
  BY WriteKeeps
<1>2. /\ status \in {"open", "canceled", "archived"} /\ ChangesTyped /\ Known /\ Marked
      /\ parcel \in [Parcels -> ParcelType]
  BY TypeParts DEF IndInv
<1>3. ReturnsCounted' BY <1>1 DEF ReturnsCounted
<1>4. ChangesTyped' /\ Known' /\ Marked' BY <1>2 DEF ChangesTyped, Known, Marked
<1>5. TypeOK'
  BY <1>1, <1>2, <1>4 DEF TypeOK, Items, ChangesTyped, Row, ChangeType,
     SettlingType, ReturnType, ParcelType
<1> QED BY <1>1, <1>3, <1>4, <1>5 DEF IndInv

\* So does one that leaves returns alone and says of them what was said.
LEMMA WriteRepeats ==
    ASSUME IndInv, NEW rows \in [Lines -> Counters], Write(rows),
           UNCHANGED <<status, change, settling, returns, parcel, landed, dropped>>,
           \A l \in Lines : /\ rows[l].requested = item[version][l].requested
                            /\ rows[l].received = item[version][l].received
    PROVE  IndInv'
<1>1. /\ return \in [Returns -> ReturnType] /\ shelf \in [Lines -> Nat]
      /\ Bounded /\ ReturnsCounted
  BY TypeParts DEF IndInv
<1>2. UNCHANGED <<return, shelf>> BY DEF returns
<1>3. Bounded' BY <1>1, <1>2 DEF Bounded
<1>4. \A l \in Lines :
         /\ shelf'[l] = Sellable(l)'
         /\ l \notin dropped => /\ rows[l].requested = Asked(l)'
                                /\ rows[l].received = CameBack(l)'
  BY <1>1, <1>2, ReturnsStay DEF ReturnsCounted
<1> QED BY <1>1, <1>2, <1>3, <1>4, WriteSays

\* And one whose rows move as the one return does it writes.
LEMMA WriteMoves ==
    ASSUME IndInv, NEW rows \in [Lines -> Counters], Write(rows),
           UNCHANGED <<status, change, settling, parcel, landed, dropped>>,
           NEW r \in Returns, NEW row \in ReturnType,
           return' = [return EXCEPT ![r] = row],
           row.status # "none", row.received <= row.quantity, row.damaged <= row.received,
           shelf' \in [Lines -> Nat],
           \A l \in Lines :
              /\ shelf'[l] = shelf[l] + SoundIn(r, l)' - SoundIn(r, l)
              /\ rows[l].requested
                   = item[version][l].requested + AskedIn(r, l)' - AskedIn(r, l)
              /\ rows[l].received
                   = item[version][l].received + CameIn(r, l)' - CameIn(r, l)
    PROVE  IndInv'
<1>1. return \in [Returns -> ReturnType] /\ Bounded /\ ReturnsCounted
  BY TypeParts DEF IndInv
<1>2. return' \in [Returns -> ReturnType] BY <1>1
<1>3. return'[r] = row /\ \A k \in Returns \ {r} : return'[k] = return[k] BY <1>1
<1>4. Bounded' BY <1>1, <1>3 DEF Bounded
<1>5. ASSUME NEW l \in Lines
      PROVE  /\ Asked(l)' = Asked(l) + AskedIn(r, l)' - AskedIn(r, l)
             /\ CameBack(l)' = CameBack(l) + CameIn(r, l)' - CameIn(r, l)
             /\ Sellable(l)' = Sellable(l) + SoundIn(r, l)' - SoundIn(r, l)
  BY <1>1, ReturnsMove
<1>6. ASSUME NEW l \in Lines
      PROVE  /\ shelf'[l] = Sellable(l)'
             /\ l \notin dropped => /\ rows[l].requested = Asked(l)'
                                    /\ rows[l].received = CameBack(l)'
  BY <1>1, <1>5 DEF ReturnsCounted
<1> QED BY <1>2, <1>4, <1>6, WriteSays

\* A return that is opened adds what it asks for.
LEMMA OpenMoves ==
    ASSUME IndInv, NEW rows \in [Lines -> Counters], Write(rows),
           UNCHANGED <<status, change, settling, shelf, parcel, landed, dropped>>,
           NEW r \in Returns, NEW l \in Lines, NEW q \in Nat, OpenReturn(r, l, q),
           \A k \in Lines :
              /\ rows[k].requested
                   = item[version][k].requested + (IF k = l THEN q ELSE 0)
              /\ rows[k].received = item[version][k].received
    PROVE  IndInv'
<1>1. /\ return \in [Returns -> ReturnType] /\ shelf \in [Lines -> Nat] /\ Bounded
      /\ item[version] \in [Lines -> Counters]
  BY TypeParts DEF IndInv, Items
<1>2. PICK located \in BOOLEAN :
        return' = [return EXCEPT ![r] =
          [status |-> "requested", line |-> l, quantity |-> q,
           received |-> 0, damaged |-> 0, located |-> located]]
  BY DEF OpenReturn
<1> DEFINE row == [status |-> "requested", line |-> l, quantity |-> q,
                   received |-> 0, damaged |-> 0, located |-> located]
<1>3. /\ row \in ReturnType /\ row.line = l /\ row.quantity = q /\ row.received = 0
      /\ row.damaged = 0 /\ row.status # "none"
  BY DEF ReturnType
<1>4. return[r].quantity = 0 /\ return[r].received = 0 /\ return[r].damaged = 0
  BY <1>1 DEF OpenReturn, Bounded, ReturnType
<1>5. return' = [return EXCEPT ![r] = row] /\ return'[r] = row BY <1>1, <1>2
<1> HIDE DEF row
<1>6. \A k \in Lines :
        /\ AskedIn(r, k) = 0 /\ CameIn(r, k) = 0 /\ SoundIn(r, k) = 0
        /\ AskedIn(r, k)' = (IF k = l THEN q ELSE 0)
        /\ CameIn(r, k)' = 0 /\ SoundIn(r, k)' = 0
  BY <1>3, <1>4, <1>5 DEF AskedIn, CameIn, SoundIn
<1>7. \A k \in Lines :
        /\ shelf'[k] = shelf[k] + SoundIn(r, k)' - SoundIn(r, k)
        /\ rows[k].requested
             = item[version][k].requested + AskedIn(r, k)' - AskedIn(r, k)
        /\ rows[k].received = item[version][k].received + CameIn(r, k)' - CameIn(r, k)
  BY <1>1, <1>6 DEF Counters
<1>8. /\ row.received <= row.quantity /\ row.damaged <= row.received
      /\ shelf' \in [Lines -> Nat]
      /\ UNCHANGED <<status, change, settling, parcel, landed, dropped>>
  BY <1>1, <1>3
<1> QED BY <1>3, <1>5, <1>7, <1>8, WriteMoves

\* What is requested, exchanged, claimed, received and dismissed keeps the
\* invariant.
LEMMA RequestReturnKeeps ==
    ASSUME IndInv, NEW r \in Returns, NEW l \in Lines, NEW q \in Nat,
           RequestReturn(r, l, q)
    PROVE  IndInv'
<1> DEFINE rows == ReturnItem(item[version], l, q)
<1>1. item[version] \in [Lines -> Counters] BY TypeParts DEF IndInv, Items
<1>2. /\ rows \in [Lines -> Counters]
      /\ \A k \in Lines :
           /\ rows[k].requested = item[version][k].requested + (IF k = l THEN q ELSE 0)
           /\ rows[k].received = item[version][k].received
  BY <1>1, RowKinds
<1>3. /\ Write(rows) /\ OpenReturn(r, l, q)
      /\ UNCHANGED <<status, change, settling, shelf, parcel, landed, dropped>>
  BY DEF RequestReturn
<1> HIDE DEF rows
<1> QED BY <1>2, <1>3, OpenMoves

\* See RequestReturnKeeps.
LEMMA RequestExchangeKeeps ==
    ASSUME IndInv, NEW r \in Returns, NEW l \in Lines, NEW q \in Nat,
           NEW out \in Lines, NEW n \in Nat, RequestExchange(r, l, q, out, n)
    PROVE  IndInv'
<1> DEFINE asked == ReturnItem(item[version], l, q)
           rows  == ItemAdd(asked, out, n)
<1>1. item[version] \in [Lines -> Counters] BY TypeParts DEF IndInv, Items
<1>2. /\ asked \in [Lines -> Counters]
      /\ \A k \in Lines :
           /\ asked[k].requested = item[version][k].requested + (IF k = l THEN q ELSE 0)
           /\ asked[k].received = item[version][k].received
  BY <1>1, RowKinds
<1>3. /\ Write(rows) /\ OpenReturn(r, l, q)
      /\ UNCHANGED <<status, change, settling, shelf, parcel, landed, dropped>>
  BY DEF RequestExchange
<1> HIDE DEF asked
<1>4. /\ rows \in [Lines -> Counters]
      /\ \A k \in Lines : /\ rows[k].requested = asked[k].requested
                          /\ rows[k].received = asked[k].received
  BY <1>2, RowKinds
<1> HIDE DEF rows
<1>5. \A k \in Lines :
        /\ rows[k].requested = item[version][k].requested + (IF k = l THEN q ELSE 0)
        /\ rows[k].received = item[version][k].received
  BY <1>2, <1>4
<1> QED BY <1>3, <1>4, <1>5, OpenMoves

\* See RequestReturnKeeps.
LEMMA RequestClaimKeeps ==
    ASSUME IndInv, NEW l \in Lines, NEW q \in Nat, RequestClaim(l, q)
    PROVE  IndInv'
<1> DEFINE off == WriteOff(item[version], l, q)
<1>1. item[version] \in [Lines -> Counters] BY TypeParts DEF IndInv, Items
<1>2. /\ off \in [Lines -> Counters]
      /\ \A k \in Lines : /\ off[k].requested = item[version][k].requested
                          /\ off[k].received = item[version][k].received
  BY <1>1, RowKinds
<1>3. /\ Write(off) \/ \E out \in Lines, n \in Quantities : Write(ItemAdd(off, out, n))
      /\ UNCHANGED <<status, change, settling, returns, parcel, landed, dropped>>
  BY DEF RequestClaim
<1> HIDE DEF off
<1>4. CASE Write(off) BY <1>2, <1>3, <1>4, WriteRepeats
<1>5. CASE \E out \in Lines, n \in Quantities : Write(ItemAdd(off, out, n))
  <2>1. PICK out \in Lines, n \in Quantities : Write(ItemAdd(off, out, n)) BY <1>5
  <2>2. n \in Nat BY Bounds
  <2> DEFINE rows == ItemAdd(off, out, n)
  <2>3. /\ rows \in [Lines -> Counters]
        /\ \A k \in Lines : /\ rows[k].requested = off[k].requested
                            /\ rows[k].received = off[k].received
    BY <1>2, <2>2, RowKinds
  <2>4. Write(rows) BY <2>1
  <2> HIDE DEF rows
  <2> QED BY <1>2, <1>3, <2>3, <2>4, WriteRepeats
<1> QED BY <1>3, <1>4, <1>5

\* See RequestReturnKeeps.
LEMMA DismissReturnKeeps ==
    ASSUME IndInv, NEW r \in Returns, NEW q \in Nat, DismissReturn(r, q)
    PROVE  IndInv'
<1> DEFINE rows == DismissItem(item[version], return[r].line, q)
<1>1. item[version] \in [Lines -> Counters] /\ return[r].line \in Lines
  BY TypeParts DEF IndInv, Items, ReturnType
<1>2. /\ rows \in [Lines -> Counters]
      /\ \A k \in Lines : /\ rows[k].requested = item[version][k].requested
                          /\ rows[k].received = item[version][k].received
  BY <1>1, RowKinds
<1>3. /\ Write(rows)
      /\ UNCHANGED <<status, change, settling, returns, parcel, landed, dropped>>
  BY DEF DismissReturn
<1> HIDE DEF rows
<1> QED BY <1>2, <1>3, WriteRepeats

\* See RequestReturnKeeps.
LEMMA ReceiveReturnKeeps ==
    ASSUME IndInv, NEW r \in Returns, NEW q \in Nat, NEW broken \in 0 .. q,
           ReceiveReturn(r, q, broken)
    PROVE  IndInv'
<1> DEFINE l    == return[r].line
           old  == return[r]
           here == old.received + q
           row  == [old EXCEPT !.received = here, !.damaged = @ + broken,
                      !.status = IF here = old.quantity THEN "received"
                                 ELSE "partially_received"]
           rows == ReceiveItem(item[version], l, q)
<1>1. /\ return \in [Returns -> ReturnType] /\ shelf \in [Lines -> Nat] /\ Bounded
      /\ item[version] \in [Lines -> Counters]
  BY TypeParts DEF IndInv, Items
<1>2. old \in ReturnType /\ l \in Lines /\ old.received \in Nat /\ old.damaged \in Nat
      /\ old.quantity \in Nat /\ old.damaged <= old.received
  BY <1>1 DEF ReturnType, Bounded
<1>3. /\ Write(rows) /\ here <= old.quantity
      /\ return' = [return EXCEPT ![r] = row]
      /\ shelf' = IF old.located THEN [shelf EXCEPT ![l] = @ + (q - broken)] ELSE shelf
      /\ UNCHANGED <<status, change, settling, parcel, landed, dropped>>
  BY <1>1, <1>2 DEF ReceiveReturn, ReturnType
<1>0. l = return[r].line /\ old = return[r] /\ l = old.line OBVIOUS
<1> HIDE DEF l, old
<1>4. /\ row \in ReturnType /\ row.status # "none" /\ row.received = old.received + q
      /\ row.damaged = old.damaged + broken /\ row.line = l
      /\ row.quantity = old.quantity /\ row.located = old.located
  <2>1. broken \in Nat /\ q \in Nat OBVIOUS
  <2>2. here \in Nat /\ old.damaged + broken \in Nat BY <1>2, <2>1
  <2> QED BY <1>0, <1>2, <2>2 DEF ReturnType
<1>5. row.received <= row.quantity /\ row.damaged <= row.received
  BY <1>2, <1>3, <1>4
<1>6. q - broken \in Nat OBVIOUS
<1>7. /\ rows \in [Lines -> Counters]
      /\ \A k \in Lines :
           /\ rows[k].requested = item[version][k].requested
           /\ rows[k].received = item[version][k].received + (IF k = l THEN q ELSE 0)
  <2>1. item[version] \in [Lines -> Counters] /\ l \in Lines /\ q \in Nat BY <1>1, <1>2
  <2> QED BY <2>1, RowKinds
<1>8. return'[r] = row BY <1>1, <1>3
<1> HIDE DEF row, rows
<1>9. \A k \in Lines :
        /\ AskedIn(r, k)' = AskedIn(r, k) /\ AskedIn(r, k) \in Int
        /\ CameIn(r, k)' = CameIn(r, k) + (IF k = l THEN q ELSE 0) /\ CameIn(r, k) \in Int
        /\ SoundIn(r, k)' = SoundIn(r, k)
              + (IF k = l /\ old.located THEN q - broken ELSE 0)
        /\ SoundIn(r, k) \in Int
  BY <1>0, <1>2, <1>4, <1>8 DEF AskedIn, CameIn, SoundIn
<1>10. shelf' \in [Lines -> Nat]
       /\ \A k \in Lines :
            shelf'[k] = shelf[k] + (IF k = l /\ old.located THEN q - broken ELSE 0)
  <2>1. CASE old.located BY <1>1, <1>2, <1>3, <1>6, <2>1
  <2>2. CASE ~old.located BY <1>1, <1>3, <2>2
  <2> QED BY <2>1, <2>2
<1>11. \A k \in Lines :
        /\ shelf'[k] = shelf[k] + SoundIn(r, k)' - SoundIn(r, k)
        /\ rows[k].requested
             = item[version][k].requested + AskedIn(r, k)' - AskedIn(r, k)
        /\ rows[k].received = item[version][k].received + CameIn(r, k)' - CameIn(r, k)
  BY <1>1, <1>7, <1>9, <1>10 DEF Counters
<1> QED BY <1>3, <1>4, <1>5, <1>7, <1>10, <1>11, WriteMoves

-----------------------------------------------------------------------------
(* Steps that move parcels. *)

\* Whoever moves parcels within their rows keeps the invariant.
LEMMA ParcelKeeps ==
    ASSUME IndInv,
           UNCHANGED <<version, change, settling, returns, landed, dropped>>,
           status' \in {"open", "canceled", "archived"},
           parcel' \in [Parcels -> ParcelType],
           Items', Numbered', ParcelsMove',
           \A l \in Lines : /\ item'[version][l].requested = item[version][l].requested
                            /\ item'[version][l].received = item[version][l].received
    PROVE  IndInv'
<1>1. /\ version \in Versions /\ ChangesTyped /\ Known /\ Marked
      /\ Bounded /\ ReturnsCounted
      /\ return \in [Returns -> ReturnType] /\ shelf \in [Lines -> Nat]
  BY TypeParts DEF IndInv
<1>2. UNCHANGED <<return, shelf>> BY DEF returns
<1>3. ReturnsCounted' BY <1>1, <1>2, ReturnsStay DEF ReturnsCounted
<1>4. ChangesTyped' /\ Known' /\ Marked' /\ Bounded'
  BY <1>1, <1>2 DEF ChangesTyped, Known, Marked, Bounded
<1>5. TypeOK'
  BY <1>1, <1>2, <1>4 DEF TypeOK, Items, ChangesTyped, Row, ChangeType,
     SettlingType, ReturnType, ParcelType
<1> QED BY <1>3, <1>4, <1>5 DEF IndInv

\* One parcel p that is or becomes of version v and line l, and the row it is
\* packed from.
LEMMA BoxKeeps ==
    ASSUME IndInv, NEW p \in Parcels, NEW v \in Versions, NEW l \in Lines,
           NEW box \in ParcelType, NEW row \in Counters,
           UNCHANGED <<status, version, change, settling, returns, landed, dropped>>,
           parcel' = [parcel EXCEPT ![p] = box], box.version = v, box.line = l,
           box.state # "none", v <= version,
           parcel[p].state \in {"open", "shipped"}
             => parcel[p].version = v /\ parcel[p].line = l,
           item' = [item EXCEPT ![v][l] = row], Row(row),
           row.requested = item[v][l].requested, row.received = item[v][l].received,
           LET open == Carried("open", v, l) + Aboard(box, "open", v, l)
                         - Aboard(parcel[p], "open", v, l)
               gone == Carried("shipped", v, l) + Aboard(box, "shipped", v, l)
                         - Aboard(parcel[p], "shipped", v, l)
           IN  row.shipped + open <= row.fulfilled /\ row.delivered + gone <= row.shipped
    PROVE  IndInv'
<1>1. /\ status \in {"open", "canceled", "archived"} /\ version \in Versions /\ Items
      /\ parcel \in [Parcels -> ParcelType] /\ Numbered /\ ParcelsMove
  BY TypeParts DEF IndInv
<1>2. parcel' \in [Parcels -> ParcelType] BY <1>1
<1>3. /\ item' \in [Versions -> [Lines -> Counters]]
      /\ item'[v][l] = row
      /\ \A w \in Versions, k \in Lines : w # v \/ k # l => item'[w][k] = item[w][k]
  BY <1>1 DEF Items
<1>4. Items' BY <1>1, <1>3 DEF Items, Row
<1>5. Numbered'
  <2>1. parcel'[p] = box /\ \A k \in Parcels \ {p} : parcel'[k] = parcel[k] BY <1>1
  <2>2. \A k \in Parcels : parcel'[k].state # "none" => parcel'[k].version <= version'
    BY <1>1, <2>1 DEF Numbered
  <2>3. \A w \in Versions, k \in Lines : w > version' => item'[w][k] = NoRow
    BY <1>1, <1>3, Bounds DEF Numbered
  <2> QED BY <2>2, <2>3 DEF Numbered
<1>6. \A state, w, k :
        Carried(state, w, k)' = Carried(state, w, k)
           + Aboard(box, state, w, k) - Aboard(parcel[p], state, w, k)
  BY <1>1, CarriedMoves
<1>7. ParcelsMove'
  <2> SUFFICES ASSUME NEW w \in Versions, NEW k \in Lines
               PROVE  /\ item'[w][k].shipped + Carried("open", w, k)'
                            <= item'[w][k].fulfilled
                      /\ item'[w][k].delivered + Carried("shipped", w, k)'
                            <= item'[w][k].shipped
    BY DEF ParcelsMove
  <2>1. /\ Carried("open", w, k)' = Carried("open", w, k)
              + Aboard(box, "open", w, k) - Aboard(parcel[p], "open", w, k)
        /\ Carried("shipped", w, k)' = Carried("shipped", w, k)
              + Aboard(box, "shipped", w, k) - Aboard(parcel[p], "shipped", w, k)
    BY <1>6
  <2>2. CASE w = v /\ k = l BY <1>3, <2>1, <2>2
  <2>3. CASE w # v \/ k # l
    <3>1. /\ Aboard(box, "open", w, k) = 0 /\ Aboard(box, "shipped", w, k) = 0
          /\ Aboard(parcel[p], "open", w, k) = 0
          /\ Aboard(parcel[p], "shipped", w, k) = 0
      BY <2>3 DEF Aboard
    <3>2. Carried("open", w, k) \in Nat /\ Carried("shipped", w, k) \in Nat
      BY <1>1, CarriedType DEF Carried
    <3>3. /\ Carried("open", w, k)' = Carried("open", w, k)
          /\ Carried("shipped", w, k)' = Carried("shipped", w, k)
      BY <2>1, <3>1, <3>2
    <3> QED BY <1>1, <1>3, <2>3, <3>3 DEF ParcelsMove
  <2> QED BY <2>2, <2>3
<1>8. \A k \in Lines : /\ item'[version][k].requested = item[version][k].requested
                       /\ item'[version][k].received = item[version][k].received
  BY <1>1, <1>3
<1> QED BY <1>1, <1>2, <1>4, <1>5, <1>7, <1>8, ParcelKeeps

\* What a parcel is, and the row it was packed from.
LEMMA ParcelFacts ==
    ASSUME IndInv
    PROVE  /\ version \in Versions /\ parcel \in [Parcels -> ParcelType]
           /\ \A p \in Parcels :
                /\ parcel[p].version \in Versions /\ parcel[p].line \in Lines
                /\ parcel[p].quantity \in Nat
                /\ parcel[p].state # "none" => parcel[p].version <= version
           /\ \A v \in Versions, l \in Lines :
                /\ item[v][l] \in Counters /\ Row(item[v][l])
                /\ Carried("open", v, l) \in Nat /\ Carried("shipped", v, l) \in Nat
                /\ item[v][l].shipped + Carried("open", v, l) <= item[v][l].fulfilled
                /\ item[v][l].delivered + Carried("shipped", v, l) <= item[v][l].shipped
<1>1. /\ version \in Versions /\ Items /\ parcel \in [Parcels -> ParcelType]
      /\ Numbered /\ ParcelsMove
  BY TypeParts DEF IndInv
<1>2. \A p \in Parcels :
         /\ parcel[p].version \in Versions /\ parcel[p].line \in Lines
         /\ parcel[p].quantity \in Nat
         /\ parcel[p].state # "none" => parcel[p].version <= version
  BY <1>1 DEF ParcelType, Numbered
<1>3. \A v \in Versions, l \in Lines : item[v][l] \in Counters /\ Row(item[v][l])
  BY <1>1 DEF Items
<1>4. \A v \in Versions, l \in Lines :
         Carried("open", v, l) \in Nat /\ Carried("shipped", v, l) \in Nat
  BY <1>1, CarriedType DEF Carried
<1> QED BY <1>1, <1>2, <1>3, <1>4 DEF ParcelsMove

\* Packing, shipping, delivering and cancelling a parcel keep the invariant.
LEMMA CreateFulfillmentKeeps ==
    ASSUME IndInv, NEW p \in Parcels, NEW v \in Versions, NEW l \in Lines,
           NEW q \in Nat, CreateFulfillment(p, v, l, q)
    PROVE  IndInv'
<1> DEFINE box == [state |-> "open", version |-> v, line |-> l, quantity |-> q]
           row == [item[v][l] EXCEPT !.fulfilled = @ + q]
<1>1. box \in ParcelType /\ box.version = v /\ box.line = l /\ box.state = "open"
      /\ box.quantity = q
  BY DEF ParcelType
<1>2. item[v][l] \in Counters /\ Row(item[v][l]) BY ParcelFacts
<1>3. /\ row \in Counters /\ row.fulfilled = item[v][l].fulfilled + q
      /\ row.shipped = item[v][l].shipped /\ row.delivered = item[v][l].delivered
      /\ row.requested = item[v][l].requested /\ row.received = item[v][l].received
      /\ row.quantity = item[v][l].quantity /\ row.dismissed = item[v][l].dismissed
      /\ row.writtenOff = item[v][l].writtenOff
  BY <1>2 DEF Counters
<1>4. /\ parcel' = [parcel EXCEPT ![p] = box] /\ v <= version
      /\ parcel[p].state = "none"
      /\ item[v][l].fulfilled + q <= item[v][l].quantity
      /\ item' = [item EXCEPT ![v][l] = row]
      /\ UNCHANGED <<status, version, change, settling, returns, landed, dropped>>
  BY DEF CreateFulfillment
<1> HIDE DEF box, row
<1>5. Row(row) BY <1>2, <1>3, <1>4 DEF Row, Counters
<1>6. /\ Aboard(box, "open", v, l) = q /\ Aboard(box, "shipped", v, l) = 0
      /\ Aboard(parcel[p], "open", v, l) = 0 /\ Aboard(parcel[p], "shipped", v, l) = 0
  BY <1>1, <1>4 DEF Aboard
<1>7. /\ row.shipped + (Carried("open", v, l) + q - 0) <= row.fulfilled
      /\ row.delivered + (Carried("shipped", v, l) + 0 - 0) <= row.shipped
  BY <1>2, <1>3, ParcelFacts DEF Counters
<1> QED BY <1>1, <1>3, <1>4, <1>5, <1>6, <1>7, BoxKeeps

\* See CreateFulfillmentKeeps.
LEMMA MarkShippedKeeps ==
    ASSUME IndInv, NEW p \in Parcels, MarkShipped(p)
    PROVE  IndInv'
<1> DEFINE v == parcel[p].version
           l == parcel[p].line
           q == parcel[p].quantity
           box == [parcel[p] EXCEPT !.state = "shipped"]
           row == [item[v][l] EXCEPT !.shipped = @ + q]
<1>1. /\ v \in Versions /\ l \in Lines /\ q \in Nat
      /\ parcel \in [Parcels -> ParcelType] /\ v <= version
  BY ParcelFacts DEF MarkShipped
<1>2. item[v][l] \in Counters /\ Row(item[v][l]) BY <1>1, ParcelFacts
<1>3. /\ row \in Counters /\ row.shipped = item[v][l].shipped + q
      /\ row.fulfilled = item[v][l].fulfilled /\ row.delivered = item[v][l].delivered
      /\ row.requested = item[v][l].requested /\ row.received = item[v][l].received
      /\ row.quantity = item[v][l].quantity /\ row.dismissed = item[v][l].dismissed
      /\ row.writtenOff = item[v][l].writtenOff
  <2>1. item[v][l].shipped + q \in Nat /\ item[v][l].delivered + q \in Nat
    BY <1>1, <1>2 DEF Counters
  <2> HIDE DEF v, l, q
  <2> QED BY <1>2, <2>1 DEF Counters
<1>4. /\ parcel' = [parcel EXCEPT ![p] = box] /\ parcel[p].state = "open"
      /\ item[v][l].shipped + q <= item[v][l].fulfilled
      /\ item' = [item EXCEPT ![v][l] = row]
      /\ UNCHANGED <<status, version, change, settling, returns, landed, dropped>>
  BY <1>1 DEF MarkShipped
<1>5. /\ box \in ParcelType /\ box.version = v /\ box.line = l /\ box.state = "shipped"
      /\ box.quantity = q /\ parcel[p].version = v /\ parcel[p].line = l
  BY <1>1 DEF ParcelType
<1>6. /\ Aboard(box, "open", v, l) = 0 /\ Aboard(box, "shipped", v, l) = q
      /\ Aboard(parcel[p], "open", v, l) = q /\ Aboard(parcel[p], "shipped", v, l) = 0
  BY <1>4, <1>5 DEF Aboard
<1> HIDE DEF box, row, v, l, q
<1>7. Row(row) BY <1>1, <1>2, <1>3, <1>4 DEF Row, Counters
<1>8. /\ row.shipped + (Carried("open", v, l) + 0 - q) <= row.fulfilled
      /\ row.delivered + (Carried("shipped", v, l) + q - 0) <= row.shipped
  BY <1>1, <1>2, <1>3, ParcelFacts DEF Counters
<1> QED BY <1>1, <1>3, <1>4, <1>5, <1>6, <1>7, <1>8, BoxKeeps

\* See CreateFulfillmentKeeps.
LEMMA MarkDeliveredKeeps ==
    ASSUME IndInv, NEW p \in Parcels, MarkDelivered(p)
    PROVE  IndInv'
<1> DEFINE v == parcel[p].version
           l == parcel[p].line
           q == parcel[p].quantity
           box == [parcel[p] EXCEPT !.state = "delivered"]
           row == [item[v][l] EXCEPT !.delivered = @ + q]
<1>1. /\ v \in Versions /\ l \in Lines /\ q \in Nat
      /\ parcel \in [Parcels -> ParcelType] /\ v <= version
  BY ParcelFacts DEF MarkDelivered
<1>2. item[v][l] \in Counters /\ Row(item[v][l]) BY <1>1, ParcelFacts
<1>3. /\ row \in Counters /\ row.delivered = item[v][l].delivered + q
      /\ row.fulfilled = item[v][l].fulfilled /\ row.shipped = item[v][l].shipped
      /\ row.requested = item[v][l].requested /\ row.received = item[v][l].received
      /\ row.quantity = item[v][l].quantity /\ row.dismissed = item[v][l].dismissed
      /\ row.writtenOff = item[v][l].writtenOff
  <2>1. item[v][l].shipped + q \in Nat /\ item[v][l].delivered + q \in Nat
    BY <1>1, <1>2 DEF Counters
  <2> HIDE DEF v, l, q
  <2> QED BY <1>2, <2>1 DEF Counters
<1>4. /\ parcel' = [parcel EXCEPT ![p] = box] /\ parcel[p].state = "shipped"
      /\ item[v][l].delivered + q <= item[v][l].shipped
      /\ item' = [item EXCEPT ![v][l] = row]
      /\ UNCHANGED <<status, version, change, settling, returns, landed, dropped>>
  BY <1>1 DEF MarkDelivered
<1>5. /\ box \in ParcelType /\ box.version = v /\ box.line = l /\ box.state = "delivered"
      /\ box.quantity = q /\ parcel[p].version = v /\ parcel[p].line = l
  BY <1>1 DEF ParcelType
<1>6. /\ Aboard(box, "open", v, l) = 0 /\ Aboard(box, "shipped", v, l) = 0
      /\ Aboard(parcel[p], "open", v, l) = 0 /\ Aboard(parcel[p], "shipped", v, l) = q
  BY <1>4, <1>5 DEF Aboard
<1> HIDE DEF box, row, v, l, q
<1>7. Row(row) BY <1>1, <1>2, <1>3, <1>4 DEF Row, Counters
<1>8. /\ row.shipped + (Carried("open", v, l) + 0 - 0) <= row.fulfilled
      /\ row.delivered + (Carried("shipped", v, l) + 0 - q) <= row.shipped
  BY <1>1, <1>2, <1>3, ParcelFacts DEF Counters
<1> QED BY <1>1, <1>3, <1>4, <1>5, <1>6, <1>7, <1>8, BoxKeeps

\* See CreateFulfillmentKeeps.  That the row counts what the parcel carries is
\* what lets the code skip a row that does not (q <= fulfilled).
LEMMA CancelFulfillmentKeeps ==
    ASSUME IndInv, NEW p \in Parcels, CancelFulfillment(p)
    PROVE  IndInv'
<1> DEFINE v == parcel[p].version
           l == parcel[p].line
           q == parcel[p].quantity
           box == [parcel[p] EXCEPT !.state = "canceled"]
           row == IF item[v][l].fulfilled >= q
                  THEN [item[v][l] EXCEPT !.fulfilled = @ - q] ELSE item[v][l]
<1>1. /\ v \in Versions /\ l \in Lines /\ q \in Nat /\ version \in Versions
      /\ parcel \in [Parcels -> ParcelType] /\ v <= version
  BY ParcelFacts DEF CancelFulfillment, Cancellable
<1>2. item[v][l] \in Counters /\ Row(item[v][l]) BY <1>1, ParcelFacts
<1>3. /\ parcel' = [parcel EXCEPT ![p] = box] /\ parcel[p].state = "open"
      /\ item' = IF item[v][l].fulfilled >= q
                 THEN [item EXCEPT ![v][l].fulfilled = @ - q] ELSE item
      /\ UNCHANGED <<status, version, change, settling, returns, landed, dropped>>
  BY <1>1 DEF CancelFulfillment, Cancellable
<1>4. item \in [Versions -> [Lines -> Counters]]
  BY TypeParts DEF IndInv, Items
<1>5. item' = [item EXCEPT ![v][l] = row] BY <1>1, <1>3, <1>4
<1>6. /\ box \in ParcelType /\ box.version = v /\ box.line = l /\ box.state = "canceled"
      /\ parcel[p].version = v /\ parcel[p].line = l /\ parcel[p].quantity = q
  BY <1>1 DEF ParcelType
<1>7. /\ Aboard(box, "open", v, l) = 0 /\ Aboard(box, "shipped", v, l) = 0
      /\ Aboard(parcel[p], "open", v, l) = q /\ Aboard(parcel[p], "shipped", v, l) = 0
  BY <1>3, <1>6 DEF Aboard
<1> HIDE DEF box, v, l, q
<1>8. Carried("open", v, l) - q \in Nat
  <2>1. PICK b \in ParcelType : b = box /\ parcel' = [parcel EXCEPT ![p] = b]
    BY <1>3, <1>6
  <2>2. ASSUME NEW w, NEW k
        PROVE  Carried("open", w, k) + Aboard(box, "open", w, k)
                 - Aboard(parcel[p], "open", w, k) \in Nat
    <3>1. \A state, n, m : Carried(state, n, m)' = Carried(state, n, m)
             + Aboard(b, state, n, m) - Aboard(parcel[p], state, n, m)
      BY <1>1, <2>1, CarriedMoves
    <3>2. parcel' \in [Parcels -> ParcelType] BY <1>1, <2>1
    <3>3. Carried("open", w, k)' \in Nat BY <3>2, CarriedType DEF Carried
    <3> QED BY <2>1, <3>1, <3>3
  <2>3. Carried("open", v, l) + 0 - q \in Nat BY <1>7, <2>2
  <2> QED BY <2>3, <1>1, ParcelFacts
<1>9. item[v][l].shipped + Carried("open", v, l) <= item[v][l].fulfilled
      /\ item[v][l].delivered + Carried("shipped", v, l) <= item[v][l].shipped
      /\ Carried("shipped", v, l) \in Nat /\ Carried("open", v, l) \in Nat
  BY <1>1, ParcelFacts
<1>10. item[v][l].fulfilled >= q BY <1>1, <1>2, <1>8, <1>9 DEF Counters
<1>11. row = [item[v][l] EXCEPT !.fulfilled = @ - q] BY <1>10
<1> HIDE DEF row
<1>12. /\ row \in Counters /\ row.fulfilled = item[v][l].fulfilled - q
       /\ row.shipped = item[v][l].shipped /\ row.delivered = item[v][l].delivered
       /\ row.requested = item[v][l].requested /\ row.received = item[v][l].received
       /\ row.quantity = item[v][l].quantity /\ row.dismissed = item[v][l].dismissed
       /\ row.writtenOff = item[v][l].writtenOff
  BY <1>1, <1>2, <1>10, <1>11 DEF Counters
<1>13. Row(row) BY <1>1, <1>2, <1>8, <1>9, <1>12 DEF Row, Counters
<1>14. /\ row.shipped + (Carried("open", v, l) + 0 - q) <= row.fulfilled
       /\ row.delivered + (Carried("shipped", v, l) + 0 - 0) <= row.shipped
  BY <1>1, <1>2, <1>9, <1>12 DEF Counters
<1> QED BY <1>1, <1>3, <1>5, <1>6, <1>7, <1>12, <1>13, <1>14, BoxKeeps

\* Cancelling the order takes every open parcel off its row at once.
LEMMA CancelKeeps ==
    ASSUME IndInv, Cancel
    PROVE  IndInv'
<1>1. /\ version \in Versions /\ Items /\ parcel \in [Parcels -> ParcelType] /\ Numbered
  BY TypeParts DEF IndInv
<1>2. /\ \A p \in Parcels : parcel[p].state \notin {"shipped", "delivered"}
      /\ status' = "canceled"
      /\ parcel' = [p \in Parcels |-> IF parcel[p].state = "open"
                      THEN [parcel[p] EXCEPT !.state = "canceled"] ELSE parcel[p]]
      /\ item' = [v \in Versions |-> [l \in Lines |->
                      [item[v][l] EXCEPT !.fulfilled = @ - Carried("open", v, l)]]]
      /\ UNCHANGED <<version, change, settling, returns, landed, dropped>>
  BY DEF Cancel
<1>3. parcel' \in [Parcels -> ParcelType]
  <2>1. ASSUME NEW p \in Parcels PROVE parcel'[p] \in ParcelType
    BY <1>1, <1>2 DEF ParcelType
  <2> QED BY <1>2, <2>1
<1>4. \A p \in Parcels : /\ parcel'[p].state \notin {"open", "shipped"}
                         /\ parcel'[p].version = parcel[p].version
                         /\ parcel'[p].state # "none" => parcel[p].state # "none"
  BY <1>1, <1>2 DEF ParcelType
<1>5. \A v \in Versions, l \in Lines :
         Carried("open", v, l)' = 0 /\ Carried("shipped", v, l)' = 0
  <2> TAKE v \in Versions, l \in Lines
  <2>1. \A p \in Parcels :
          /\ parcel'[p].state = "open" => parcel'[p].version # v
          /\ parcel'[p].state = "shipped" => parcel'[p].version # v
    BY <1>4
  <2> QED BY <1>3, <2>1, NothingCarried DEF Carried
<1>6. ASSUME NEW v \in Versions, NEW l \in Lines
      PROVE  /\ item'[v][l] \in Counters
             /\ item'[v][l].fulfilled = item[v][l].fulfilled - Carried("open", v, l)
             /\ item[v][l].shipped <= item'[v][l].fulfilled
             /\ item'[v][l].fulfilled <= item[v][l].fulfilled
             /\ item'[v][l].quantity = item[v][l].quantity
             /\ item'[v][l].shipped = item[v][l].shipped
             /\ item'[v][l].delivered = item[v][l].delivered
             /\ item'[v][l].requested = item[v][l].requested
             /\ item'[v][l].received = item[v][l].received
             /\ item'[v][l].dismissed = item[v][l].dismissed
             /\ item'[v][l].writtenOff = item[v][l].writtenOff
  <2> DEFINE n == Carried("open", v, l)
             f == item[v][l].fulfilled
  <2>1. item[v][l] \in Counters /\ n \in Nat /\ item[v][l].shipped + n <= f
    BY ParcelFacts
  <2> HIDE DEF n
  <2>2. f - n \in Nat /\ item[v][l].shipped <= f - n /\ f - n <= f
    BY <2>1 DEF Counters
  <2>3. item'[v][l] = [item[v][l] EXCEPT !.fulfilled = f - n] BY <1>2, <2>1 DEF n
  <2> QED BY <2>1, <2>2, <2>3 DEF Counters, n
<1>7. Items'
  <2>1. item' \in [Versions -> [Lines -> Counters]] BY <1>2, <1>6
  <2>2. ASSUME NEW v \in Versions, NEW l \in Lines PROVE Row(item'[v][l])
    <3>1. Row(item[v][l]) /\ item[v][l] \in Counters BY <1>1 DEF Items
    <3>2. item'[v][l] \in Counters BY <1>6
    <3> QED BY <1>6, <3>1, <3>2 DEF Row, Counters
  <2> QED BY <2>1, <2>2 DEF Items, Row
<1>8. Numbered'
  <2>1. \A p \in Parcels : parcel'[p].state # "none" => parcel'[p].version <= version'
    BY <1>1, <1>2, <1>4 DEF Numbered
  <2>2. ASSUME NEW v \in Versions, NEW l \in Lines, v > version'
        PROVE  item'[v][l] = NoRow
    <3>1. item[v][l] = NoRow BY <1>1, <1>2, <2>2 DEF Numbered
    <3>2. item'[v][l] = [NoRow EXCEPT !.fulfilled = @ - Carried("open", v, l)]
      BY <1>2, <3>1
    <3>3. 0 + Carried("open", v, l) <= 0 /\ Carried("open", v, l) \in Nat
      BY <3>1, ParcelFacts DEF NoRow
    <3>4. Carried("open", v, l) = 0 BY <3>3
    <3> QED BY <3>2, <3>4 DEF NoRow
  <2> QED BY <2>1, <2>2 DEF Numbered
<1>9. ParcelsMove'
  <2>1. ASSUME NEW v \in Versions, NEW l \in Lines
        PROVE  /\ item'[v][l].shipped + 0 <= item'[v][l].fulfilled
               /\ item'[v][l].delivered + 0 <= item'[v][l].shipped
    <3>1. Row(item[v][l]) /\ item[v][l] \in Counters BY <1>1 DEF Items
    <3> QED BY <1>6, <3>1 DEF Row, Counters
  <2> QED BY <1>5, <2>1 DEF ParcelsMove
<1>10. \A l \in Lines : /\ item'[version][l].requested = item[version][l].requested
                        /\ item'[version][l].received = item[version][l].received
  BY <1>1, <1>6
<1> QED BY <1>2, <1>3, <1>7, <1>8, <1>9, <1>10, ParcelKeeps

-----------------------------------------------------------------------------
(* The invariant. *)

\* An order is placed in its first version, with nothing packed or sent back.
LEMMA InitHolds == Init => IndInv
<1> SUFFICES ASSUME Init PROVE IndInv OBVIOUS
<1>1. SomeLine \in Lines BY SomeLineIs
<1>2. NoRow \in Counters /\ Row(NoRow) BY DEF NoRow, Counters, Row
<1>3. 1 \in Versions /\ version = 1 /\ 0 \in 0 .. MaxVersion BY Bounds DEF Init
<1>4. ASSUME NEW v \in Versions, NEW l \in Lines
      PROVE  /\ item[v][l] \in Counters /\ Row(item[v][l])
             /\ item[v][l].fulfilled = 0 /\ item[v][l].shipped = 0
             /\ item[v][l].delivered = 0
             /\ item[v][l].requested = 0 /\ item[v][l].received = 0
             /\ v # 1 => item[v][l] = NoRow
  <2>1. item[v][l] = IF v = 1 THEN [NoRow EXCEPT !.quantity = Ordered[l]] ELSE NoRow
    BY DEF Init
  <2>2. Ordered[l] \in Nat BY OrderAssumption
  <2>3. CASE v = 1 BY <2>1, <2>2, <2>3 DEF NoRow, Counters, Row
  <2>4. CASE v # 1 BY <1>2, <2>1, <2>4 DEF NoRow
  <2> QED BY <2>3, <2>4
<1>5. Items
  <2>1. item \in [Versions -> [Lines -> Counters]]
    <3>1. item = [v \in Versions |-> [l \in Lines |-> item[v][l]]] BY DEF Init
    <3> QED BY <1>4, <3>1
  <2> QED BY <1>4, <2>1 DEF Items
<1>6. ChangesTyped /\ Known /\ Marked
  <2>1. NoChange \in ChangeType /\ NoChange.applied = FALSE
    BY DEF NoChange, ChangeType
  <2>2. Idle \in SettlingType /\ Idle.op = "idle" BY <1>3 DEF Idle, SettlingType
  <2> QED BY <2>1, <2>2 DEF Init, ChangesTyped, Known, Marked
<1>7. return \in [Returns -> ReturnType] /\ shelf \in [Lines -> Nat] /\ Bounded
  BY <1>1 DEF Init, NoReturn, ReturnType, Bounded
<1>8. parcel \in [Parcels -> ParcelType] /\ \A p \in Parcels : parcel[p].state = "none"
  <2>1. NoParcel \in ParcelType /\ NoParcel.state = "none"
    BY <1>1, <1>3 DEF NoParcel, ParcelType
  <2> QED BY <2>1 DEF Init
<1>9. Numbered BY <1>3, <1>4, <1>8, Bounds DEF Numbered
<1>10. ParcelsMove
  <2>1. ASSUME NEW v \in Versions, NEW l \in Lines
        PROVE  /\ Carried("open", v, l) = 0 /\ Carried("shipped", v, l) = 0
               /\ item[v][l].shipped = 0 /\ item[v][l].fulfilled = 0
               /\ item[v][l].delivered = 0
    <3>1. \A p \in Parcels : /\ parcel[p].state = "open" => parcel[p].version # v
                             /\ parcel[p].state = "shipped" => parcel[p].version # v
      BY <1>8
    <3>2. Carried("open", v, l) = 0 /\ Carried("shipped", v, l) = 0
      BY <1>8, <3>1, NothingCarried DEF Carried
    <3> QED BY <1>4, <3>2
  <2> QED BY <2>1 DEF ParcelsMove
<1>11. ReturnsCounted
  <2> SUFFICES ASSUME NEW l \in Lines
               PROVE  /\ shelf[l] = Sellable(l)
                      /\ item[version][l].requested = Asked(l)
                      /\ item[version][l].received = CameBack(l)
    BY DEF ReturnsCounted
  <2>1. \A r \in Returns : /\ AskedIn(r, l) = 0 /\ CameIn(r, l) = 0
                           /\ SoundIn(r, l) = 0
    BY DEF Init, NoReturn, AskedIn, CameIn, SoundIn
  <2> DEFINE f == [r \in Returns |-> AskedIn(r, l)]
             g == [r \in Returns |-> CameIn(r, l)]
             h == [r \in Returns |-> SoundIn(r, l)]
  <2>2. /\ f \in [Returns -> Int] /\ g \in [Returns -> Int] /\ h \in [Returns -> Int]
        /\ \A r \in Returns : f[r] = 0 /\ g[r] = 0 /\ h[r] = 0
    BY <2>1
  <2>3. /\ Asked(l) = Sum(f, MaxReturns) /\ CameBack(l) = Sum(g, MaxReturns)
        /\ Sellable(l) = Sum(h, MaxReturns)
    BY DEF Asked, CameBack, Sellable
  <2> HIDE DEF f, g, h
  <2>4. Asked(l) = 0 /\ CameBack(l) = 0 /\ Sellable(l) = 0
    BY <2>2, <2>3, Bounds, SumZero
  <2> QED BY <1>3, <1>4, <2>4 DEF Init, NoRow
<1>12. TypeOK BY <1>3, <1>5, <1>6, <1>7, <1>8, TypeParts DEF Init
<1> QED BY <1>6, <1>7, <1>9, <1>10, <1>11, <1>12 DEF IndInv

\* Every step keeps the invariant.
LEMMA NextKeeps == IndInv /\ [Next]_vars => IndInv'
<1> SUFFICES ASSUME IndInv, [Next]_vars PROVE IndInv' OBVIOUS
<1> USE Bounds
<1>1. CASE \E c \in Changes : RequestChange(c) \/ AddAction(c) BY <1>1, StillSteps
<1>2. CASE \E s \in Staff, c \in Changes : ReadChange(s, c) BY <1>2, StillSteps
<1>3. CASE \E s \in Staff : DeclineChange(s) \/ ReadOrder(s) \/ SettleRefused(s)
  BY <1>3, StillSteps
<1>4. CASE \E s \in Staff : ConfirmChange(s) BY <1>4, ConfirmKeeps
<1>5. CASE \E r \in Returns, l \in Lines, q \in Quantities : RequestReturn(r, l, q)
  BY <1>5, RequestReturnKeeps
<1>6. CASE \E r \in Returns, l, out \in Lines, q, n \in Quantities :
             RequestExchange(r, l, q, out, n)
  BY <1>6, RequestExchangeKeeps
<1>7. CASE \E l \in Lines, q \in Quantities : RequestClaim(l, q)
  BY <1>7, RequestClaimKeeps
<1>8. CASE \E r \in Returns, q \in Quantities : \E broken \in 0 .. q :
             ReceiveReturn(r, q, broken)
  BY <1>8, ReceiveReturnKeeps
<1>9. CASE \E r \in Returns, q \in Quantities : DismissReturn(r, q)
  BY <1>9, DismissReturnKeeps
<1>10. CASE \E p \in Parcels, v \in Versions, l \in Lines, q \in Packs :
              CreateFulfillment(p, v, l, q)
  BY <1>10, CreateFulfillmentKeeps
<1>11. CASE \E p \in Parcels : MarkShipped(p) BY <1>11, MarkShippedKeeps
<1>12. CASE \E p \in Parcels : MarkDelivered(p) BY <1>12, MarkDeliveredKeeps
<1>13. CASE \E p \in Parcels : CancelFulfillment(p) BY <1>13, CancelFulfillmentKeeps
<1>14. CASE Cancel BY <1>14, CancelKeeps
<1>15. CASE Archive BY <1>15, StillSteps
<1>16. CASE UNCHANGED vars
  <2>1. Still /\ UNCHANGED <<status, change, settling, landed, dropped>>
    BY <1>16 DEF vars, Still, returns
  <2>2. status \in {"open", "canceled", "archived"} /\ ChangesTyped /\ Known /\ Marked
    BY TypeParts DEF IndInv
  <2>3. ChangesTyped' /\ Known' /\ Marked' BY <2>1, <2>2 DEF ChangesTyped, Known, Marked
  <2>4. TypeOK'
    BY <2>1, <2>2, <2>3, StillKeeps DEF TypeOK, Items, ChangesTyped, Row, ChangeType,
       SettlingType, ReturnType, ParcelType
  <2> QED BY <2>1, <2>3, <2>4, StillKeeps DEF IndInv
<1> QED BY <1>1, <1>2, <1>3, <1>4, <1>5, <1>6, <1>7, <1>8, <1>9, <1>10, <1>11,
           <1>12, <1>13, <1>14, <1>15, <1>16 DEF Next

\* The invariant holds of every order, whatever its staff and its buyer do.
THEOREM OrderInvariance == Spec => []IndInv
<1> QED BY InitHolds, NextKeeps, PTL DEF Spec

\* In every version the database's constraints hold.
THEOREM OrderTypeCorrect == Spec => []TypeOK
<1>1. IndInv => TypeOK BY DEF IndInv
<1> QED BY <1>1, OrderInvariance, PTL

\* Parcels never get stuck (ParcelsMove), for any number of versions and parcels.
THEOREM ParcelsAlwaysMove == Spec => []ParcelsMove
<1>1. IndInv => ParcelsMove BY DEF IndInv
<1> QED BY <1>1, OrderInvariance, PTL

\* The newest version and the returns agree, and so does the stock.
THEOREM ReturnsAlwaysCounted == Spec => []ReturnsCounted
<1>1. IndInv => ReturnsCounted BY DEF IndInv
<1> QED BY <1>1, OrderInvariance, PTL

\* A return that was asked for can be taken in.  Its line has received what came
\* back and was asked for what was asked; what this return still has to come is
\* part of the difference (SumGap).
THEOREM AlwaysReceivable == Spec => []Receivable
<1>1. IndInv => Receivable
  <2> SUFFICES ASSUME IndInv, NEW r \in Returns, return[r].line \notin dropped
               PROVE  item[version][return[r].line].received
                        + return[r].quantity - return[r].received
                        <= item[version][return[r].line].quantity
    BY DEF Receivable
  <2> DEFINE l == return[r].line
  <2>1. /\ version \in Versions /\ Items /\ return \in [Returns -> ReturnType]
        /\ Bounded /\ ReturnsCounted
    BY TypeParts DEF IndInv
  <2>2. l \in Lines /\ return[r].quantity \in Nat /\ return[r].received \in Nat
    BY <2>1 DEF ReturnType
  <2>3. AskedIn(r, l) = return[r].quantity /\ CameIn(r, l) = return[r].received
    BY DEF AskedIn, CameIn
  <2>4. Row(item[version][l]) /\ item[version][l] \in Counters BY <2>1, <2>2 DEF Items
  <2>5. item[version][l].requested = Asked(l) /\ item[version][l].received = CameBack(l)
    BY <2>1, <2>2 DEF ReturnsCounted
  <2>6. CameBack(l) + AskedIn(r, l) - CameIn(r, l) <= Asked(l)
        /\ Asked(l) \in Int /\ CameBack(l) \in Int
    BY <2>1, ReturnsAddUp
  <2> HIDE DEF l
  <2>7. item[version][l].received + return[r].quantity - return[r].received
          <= item[version][l].quantity
    BY <2>2, <2>3, <2>4, <2>5, <2>6 DEF Row, Counters
  <2> QED BY <2>7 DEF l
<1> QED BY <1>1, OrderInvariance, PTL

\* A change's action lands once, whoever settles it at the same time.
THEOREM AppliedAtMostOnce == Spec => []AppliedOnce
<1>1. IndInv => AppliedOnce BY DEF IndInv, Marked, AppliedOnce
<1> QED BY <1>1, OrderInvariance, PTL
=============================================================================
